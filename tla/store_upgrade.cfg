SPECIFICATION Spec
CONSTANTS
  a = a
  b = b
  p1 = p1
  p2 = p2
  Surfaces = {a, b}
  None = None
  Procs = {p1, p2}
  Old = {p1}
  OldSchema = 1
  OldRow <- TwoRows
  MaxId = 3
  MaxCount = 4
  MaxBatch = 2
  MaxOpens = 3
  MaxFaults = 1
INVARIANTS SearchInSync CountsInSync
CHECK_DEADLOCK FALSE
