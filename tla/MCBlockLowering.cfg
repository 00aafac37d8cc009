SPECIFICATION Spec
CONSTANTS
  Labels = {L1, L2}
  L1 = L1
  L2 = L2
  Programs <- AllPrograms
CHECK_DEADLOCK FALSE
INVARIANTS
  Lockstep
  BranchesResolve
  RejectsOnlyUntranslatable
  StoredResultReturned
