SPECIFICATION LSpec
CONSTANTS
  MaxBits = 8
  MemSize = 16
  LinearFunctions <- AllLinear
CHECK_DEADLOCK FALSE
INVARIANTS
  LTypeOK
  ResultsAgree
  PathsAgree
  RejectsOnlyUntranslatable
