SPECIFICATION Spec
CONSTANTS
  Threads = {t1, t2}
  MemSize = 2
  Base = 2
  S8 = 1
  S32 = 2
  S64 = 2
  LoadExOps = {"LDREXB", "LDAXRW"}
  StoreExOps = {"STREXB", "STLXRW"}
  LoadOps = {"LDARW"}
  StoreOps = {"STLRB"}
  RMWOps = {"LDADDALW"}
  CASOps = {"CASALW"}
  CmpxchgOps = {"CMPXCHGL"}
  Operands <- TwoOperands
SYMMETRY ThreadSymmetry
INVARIANTS
  SlotsMatchReservation
PROPERTIES
  NoUpdateLost
