CONSTANTS
  Grids <- MCGrids
  Rows <- MCRows
  Workers = {w1, w2}
  Actions = {"sum", "average"}
  max_R = 2
  SmallMax = 3
  Values = {1, 4}
  MaxRows = 2
  Faults = TRUE
SPECIFICATION Spec
INVARIANTS
  TypeOK
  RingsAreDistances
  GridsAccounted
  SumsFit
PROPERTIES
  RowsStay
  CalculationEnds
  PromiseIsKept
CHECK_DEADLOCK FALSE
