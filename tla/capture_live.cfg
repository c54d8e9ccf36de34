SPECIFICATION FairSpec
CONSTANTS
  p1 = p1
  p2 = p2
  Paths = {p1, p2}
  Roots <- TwoRoots
  LateDirs = {}
  Slots = {s1, s2}
  None = None
  Scanner = Scanner
  Oversized = {2}
  Rejected = {}
  MaxRecords = 2
  MaxBoots = 1
  MaxFaults = 0
PROPERTIES EventuallyCaptured ShutdownCompletes
CHECK_DEADLOCK FALSE
