SPECIFICATION LockFairSpec
CONSTANTS
  Threads = {t1, t2}
  MemSize = 4
  Base = 2
  S8 = 1
  S32 = 2
  S64 = 4
  LoadExOps = {}
  StoreExOps = {}
  LoadOps = {}
  StoreOps = {}
  RMWOps = {}
  CASOps = {}
  CmpxchgOps = {}
  Operands = {}
  Jobs <- LockJobs
  NoJob = NoJob
  MaxCalls = 2
CHECK_DEADLOCK FALSE
PROPERTIES
  CallsAreAtomic
