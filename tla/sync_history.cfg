SPECIFICATION Spec
CONSTANTS
  s1 = s1
  s2 = s2
  Cli = Cli
  None = None
  Nobody = Nobody
  Torn = Torn
  Absent = Absent
  Uploaders <- Two
  Keep = 2
  TeamCap = 2
  Team = FALSE
  Interval = 2
  MaxHistory = 2
  SizeLimit = 2
  MaxRows = 2
  MaxWrites = 1
  Busy = FALSE
  MaxFaults = 0
  MaxReloads = 1
  MaxRuns = 0
  MaxEvents = 1
  MaxCrashes = 0
PROPERTY HistoryKept
