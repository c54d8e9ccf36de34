SPECIFICATION Spec
CONSTANTS
  p1 = p1
  p2 = p2
  Paths = {p1, p2}
  Roots <- SameRoot
  LateDirs = {p2}
  Slots = {s1, s2}
  None = None
  Scanner = Scanner
  Oversized = {2}
  Rejected = {}
  MaxRecords = 2
  MaxBoots = 2
  MaxFaults = 1
SYMMETRY SlotSymmetry
INVARIANTS StoreOutlivesParses OffsetsCovered DuplicatesNeedLapse CleanStopIsDurable
PROPERTIES OffsetsNeverRegress TailSpec
CHECK_DEADLOCK FALSE
