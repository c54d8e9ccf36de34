SPECIFICATION Spec
CONSTANTS
  p1 = p1
  p2 = p2
  Paths = {p1}
  Roots <- OneRoot
  LateDirs = {}
  Slots = {s1, s2, s3}
  None = None
  Scanner = Scanner
  Oversized = {}
  Rejected = {}
  MaxRecords = 3
  MaxBoots = 1
  MaxFaults = 0
SYMMETRY SlotSymmetry
INVARIANT OneTimerPerPath
CHECK_DEADLOCK FALSE
