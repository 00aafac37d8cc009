SPECIFICATION Spec
CONSTANTS
  MaxDepth = 16
  MaxLines = 6
  Rare <- MCRare
  SourceLines <- MCLines
INVARIANTS
  SelectionAgrees
  ExpansionAgrees
CHECK_DEADLOCK FALSE
