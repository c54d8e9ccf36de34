SPECIFICATION Spec
CONSTANTS
  x = x
  Data <- TwoBytes
  NL = NL
  CR = CR
  BOM = BOM
  Lead = Lead
  Trail = Trail
  Bad = Bad
  Cap = 9
  Budget = 1
  MaxLen = 4
  MaxSwaps = 0
  MaxLapses = 0
INVARIANT TextSurvives
CHECK_DEADLOCK FALSE
