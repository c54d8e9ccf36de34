SPECIFICATION Spec
CONSTANTS
  x = x
  Data <- OneLetter
  NL = NL
  CR = CR
  BOM = BOM
  Lead = Lead
  Trail = Trail
  Bad = Bad
  Cap = 9
  Budget = 2
  MaxLen = 5
  MaxSwaps = 0
  MaxLapses = 1
INVARIANT OnlyRecords
CHECK_DEADLOCK FALSE
