SPECIFICATION Spec
CONSTANTS
  s1 = s1
  s2 = s2
  s3 = s3
  main = main
  hold = hold
  prefixed = prefixed
  w1 = w1
  w2 = w2
  SubIds = {s1}
  Roles = {main}
  Dirs = {main}
  LateDirs = {}
  Stripped <- StrippedNames
  Watcher = Watcher
  Callers = {}
  None = None
  Capacity = 2
  StaleAfter = 1
  Timeouts = {3}
  MaxArrivals = 0
  MaxCalls = 0
  MaxBeats = 0
  MaxActs = 1
INVARIANT ReturnsOnWakeOrTimeout
CHECK_DEADLOCK FALSE
