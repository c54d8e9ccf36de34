SPECIFICATION ClientsSpec
CONSTANTS
  a = a
  b = b
  x = x
  y = y
  z = z
  q1 = q1
  q2 = q2
  Every = Every
  Surfaces = {a, b}
  Times <- TwoTimes
  Sinces = {0, 1}
  Befores = {0, 1}
  MaxNamed = 2
  PageSize = 2
  RetrieveMax = 2
  TimelineMax = 3
  DigestMax = 3
  MaxId = 3
  MaxBatch = 2
  Policies <- ShortPolicies
  NoName = NoName
  Now = 3
  HalfWord = 4
  MaxFails = 1
  Keys = {x, y, z}
  NoKey = NoKey
  Asks = {q1, q2}
  Max = 2
  TTL = 1
  Lag = 1
  MaxWrites = 1
  MaxTime = 4
  SurfaceCount = 2
  Texts = {Blank, x, y}
  Blank = Blank
  Limit = 2
  MaxScroll = 1
  MaxQueries = 2
  MaxTyped = 2
INVARIANTS ExportComplete ExportOrdered TimelineHasNoHole CacheBounded AnswersRecent OnlyExpiredGo ExpiredAllGo SearchSettles
SYMMETRY Symmetric
CHECK_DEADLOCK FALSE
