SPECIFICATION Spec
CONSTANTS
  x = x
  Data <- TwoBytes
  NL = NL
  CR = CR
  BOM = BOM
  Lead = Lead
  Trail = Trail
  Bad = Bad
  Cap = 4
  Budget = 2
  MaxLen = 5
  MaxSwaps = 1
  MaxLapses = 1
INVARIANTS EmittedExactly ReassembledExactly
PROPERTY OnePassSuffices
CHECK_DEADLOCK FALSE
