SPECIFICATION FairSpec
CONSTANTS
  p1 = p1
  p2 = p2
  Paths = {p1}
  Roots <- OneRoot
  LateDirs = {}
  Slots = {s1}
  None = None
  Scanner = Scanner
  Oversized = {}
  Rejected = {1}
  MaxRecords = 2
  MaxBoots = 1
  MaxFaults = 0
PROPERTY EventuallyCaptured
CHECK_DEADLOCK FALSE
