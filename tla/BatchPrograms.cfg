CONSTANTS
  Sides = {1, 2, 3, 4, 5, 6, 7}
  view_radius = 100
  N = 15
  max_dist = 2
  Scenes <- MCScenes
  HexInputs <- MCHexInputs
SPECIFICATION BatchSpec
INVARIANTS
  TypeOK
  WalkMatchesFormula
  AllMet
  PointsAreFound
  BinaryLayout
  TrafficIsBands
  SquareTableFits
  InRadius
PROPERTIES
  ProgramsEnd
CHECK_DEADLOCK FALSE
