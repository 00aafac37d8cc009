SPECIFICATION ASpec
CONSTANTS
  CellBase = 4
  MaxGlobalSize = 16
  SymbolicSize = 5
  AssemblyFiles <- AllFiles
CHECK_DEADLOCK FALSE
INVARIANTS
  DataExact
  ReferencesBind
  RejectsOnlyUnresolvable
