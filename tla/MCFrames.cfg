SPECIFICATION FSpec
CONSTANTS
  Types <- MCTypes
  Shape <- MCShape
  Size <- MCSize
  Align <- MCAlign
  ValueSize <- MCSize
  FrameWord = 4
  ValueWord = 4
  ParamLists <- Lists
  ResultLists <- Lists
  Targets = {"arm", "386"}
  MaxVariables = 2
  MaxInstrs = 3
  Store64Params = FALSE
INVARIANTS
  SlotsApart
  ValuesCovered
  FrameMatchesABI0
  FrameAgrees
CHECK_DEADLOCK FALSE
