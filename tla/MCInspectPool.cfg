SPECIFICATION FairSpec
CONSTANTS
  w1 = w1
  w2 = w2
  a = a
  b = b
  Workers <- PoolWorkers
  Modules <- PoolModules
  Indexed = "v1"
  Newer = "v2"
  HTTPAttempts = 2
  MaxRuns = 2
CHECK_DEADLOCK FALSE
INVARIANTS
  PoolTypeOK
  ScannedWereInspected
  MatchesAreLatest
  NothingLost
  MatchesComplete
PROPERTIES
  RunsEnd
