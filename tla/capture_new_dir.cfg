SPECIFICATION FairSpec
CONSTANTS
  p1 = p1
  p2 = p2
  Paths = {p1, p2}
  Roots <- SameRoot
  LateDirs = {p2}
  Slots = {s1}
  None = None
  Scanner = Scanner
  Oversized = {}
  Rejected = {}
  MaxRecords = 1
  MaxBoots = 1
  MaxFaults = 0
PROPERTY EventuallyCaptured
CHECK_DEADLOCK FALSE
