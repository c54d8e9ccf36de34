SPECIFICATION Spec
CONSTANTS
  s1 = s1
  s2 = s2
  Cli = Cli
  None = None
  Nobody = Nobody
  Torn = Torn
  Absent = Absent
  Uploaders <- One
  Keep = 2
  TeamCap = 1
  Team = TRUE
  Interval = 1
  MaxHistory = 2
  SizeLimit = 1
  MaxRows = 2
  MaxWrites = 2
  Busy = FALSE
  MaxFaults = 1
  MaxReloads = 0
  MaxRuns = 0
  MaxEvents = 1
  MaxCrashes = 1
INVARIANTS RestoreIsCurrent TeamIsCurrent
CHECK_DEADLOCK FALSE
