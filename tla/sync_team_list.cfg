SPECIFICATION Spec
CONSTANTS
  s1 = s1
  s2 = s2
  Cli = Cli
  None = None
  Nobody = Nobody
  Torn = Torn
  Absent = Absent
  Uploaders <- One
  Keep = 2
  TeamCap = 2
  Team = TRUE
  Interval = 2
  MaxHistory = 2
  SizeLimit = 2
  MaxRows = 2
  MaxWrites = 3
  Busy = FALSE
  MaxFaults = 0
  MaxReloads = 0
  MaxRuns = 0
  MaxEvents = 0
  MaxCrashes = 0
INVARIANT TeamListsLatest
