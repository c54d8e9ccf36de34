SPECIFICATION FairSpec
CONSTANTS
  s1 = s1
  s2 = s2
  Cli = Cli
  None = None
  Nobody = Nobody
  Torn = Torn
  Absent = Absent
  Uploaders <- One
  Keep = 1
  TeamCap = 2
  Team = FALSE
  Interval = 1
  MaxHistory = 1
  SizeLimit = 1
  MaxRows = 1
  MaxWrites = 1
  Busy = FALSE
  MaxFaults = 1
  MaxReloads = 1
  MaxRuns = 1
  MaxEvents = 2
  MaxCrashes = 0
PROPERTY BackedUp
