CONSTANTS
  h1 = h1
  h2 = h2
  rA = rA
  rB = rB
  rC = rC
  rD = rD
  x = x
  y = y
  Handlers = {h1, h2}
  Requests = {rA, rB, rC}
  Addresses = {x, y}
  Tags = {1, 2, 3}
  Uniques <- MCUniques
  GroupTag <- MCCollidingTags
  ClientTag <- MCClientTag
  Unparsable = {}
  WithTable = {rA}
  BulkInsertLimit = 1
  PullMayDelete = FALSE
  MaxSubmits = 3
  MaxCrashes = 0
  MaxShutdowns = 0
  MaxFaults = 0
  MaxJoins = 2
SPECIFICATION Spec
SYMMETRY MCSymmetry
CHECK_DEADLOCK FALSE
INVARIANTS
  ResultCoversAddresses
