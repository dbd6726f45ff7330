CONSTANTS
  h1 = h1
  h2 = h2
  rA = rA
  rB = rB
  rC = rC
  rD = rD
  x = x
  y = y
  Handlers = {h1, h2}
  Requests = {rA, rB}
  Addresses = {x, y}
  Tags = {1, 2, 3}
  Uniques <- MCUniques
  GroupTag <- MCDistinctTags
  ClientTag <- MCClientTag
  Unparsable = {}
  WithTable = {rA}
  BulkInsertLimit = 1
  PullMayDelete = FALSE
  MaxSubmits = 2
  MaxCrashes = 0
  MaxShutdowns = 1
  MaxFaults = 0
  MaxJoins = 2
SPECIFICATION Spec
SYMMETRY MCSymmetry
CHECK_DEADLOCK FALSE
INVARIANTS
  CanRestart
