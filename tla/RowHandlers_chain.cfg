CONSTANTS
  MaxCols = 2
  Options <- AllOptions
  MayCut = TRUE
  CallerAborts = TRUE
  MaxPieces = 4
  Shapes <- RowShapes
SPECIFICATION Spec
INVARIANTS
  RowsAsPromised
  HeaderThenData
  OverwritesInUse
  NoTailInRows
CHECK_DEADLOCK FALSE
