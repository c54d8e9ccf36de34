SPECIFICATION Spec
CONSTANTS
  r1 = r1
  r2 = r2
  r3 = r3
  Rows <- ThreeRows
  None = None
  Mixed = Mixed
  MaxRestores = 2
  MaxKills = 1
  MaxAborts = 1
  MaxFaults = 1
INVARIANT NothingLost
PROPERTY RestoredIsBackup
CHECK_DEADLOCK FALSE
