SPECIFICATION Spec
CONSTANTS
  a = a
  b = b
  p1 = p1
  p2 = p2
  Surfaces = {a, b}
  None = None
  Procs = {p1, p2}
  Old = {p1}
  OldSchema = 4
  OldRow <- TwoRows
  MaxId = 3
  MaxCount = 4
  MaxBatch = 1
  MaxOpens = 1
  MaxFaults = 0
INVARIANT RestartHeals
CHECK_DEADLOCK FALSE
