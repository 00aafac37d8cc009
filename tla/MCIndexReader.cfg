SPECIFICATION FairSpec
CONSTANTS
  MaxTime = 3
  MaxFeed = 6
  MaxShared = 3
  MaxFaults = 3
  PageLimit = 3
  Limits = {0, 4, 5}
  HTTPAttempts = 2
INVARIANTS
  BatchContiguous
  NothingSkipped
PROPERTIES
  CatchesUp
