SPECIFICATION FairSpec
CONSTANTS
  s1 = s1  s2 = s2  s3 = s3
  main = main  hold = hold  prefixed = prefixed
  w1 = w1  w2 = w2
  SubIds = {s1, s2}
  Roles = {hold, prefixed, main}
  Dirs = {main, prefixed}
  LateDirs = {main}
  Stripped <- StrippedNames
  Watcher = Watcher
  Callers = {w1}
  None = None
  Capacity = 1
  StaleAfter = 0
  Timeouts = {1}
  MaxArrivals = 1
  MaxCalls = 1
  MaxBeats = 1
  MaxActs = 4
INVARIANTS SendsAreOpen WakeIsKept RelayWakes
PROPERTIES EveryCallAnswered Reclaimed
CHECK_DEADLOCK FALSE
