SPECIFICATION Spec
CONSTANTS
  MaxBits = 8
  MemSize = 10
  MaxSteps = 14
  Functions <- AllFunctions
CHECK_DEADLOCK FALSE
INVARIANTS
  WasmTypeOK
  StackAgrees
  EndsAgree
  RejectsOnlyUntranslatable
  SignatureSound
