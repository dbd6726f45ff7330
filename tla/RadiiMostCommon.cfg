CONSTANTS
  Grids <- MCGrids
  Rows <- MCRows
  Workers = {w1, w2}
  Actions = {"sum"}
  max_R = 2
  SmallMax = 3
  Values = {1}
  MaxRows = 3
  Faults = FALSE
SPECIFICATION Spec
INVARIANT
  MostCommonExcluded
CHECK_DEADLOCK FALSE
