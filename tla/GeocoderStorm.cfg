CONSTANTS
  h1 = h1
  h2 = h2
  rA = rA
  rB = rB
  rC = rC
  rD = rD
  x = x
  y = y
  Handlers = {h1, h2}
  Requests = {rA, rB, rC, rD}
  Addresses = {x, y}
  Tags = {1, 2, 3}
  Uniques <- MCUniques
  GroupTag <- MCCollidingTags
  ClientTag <- MCClientTag
  Unparsable = {rD}
  WithTable = {}
  BulkInsertLimit = 1
  PullMayDelete = TRUE
  MaxSubmits = 3
  MaxCrashes = 1
  MaxShutdowns = 0
  MaxFaults = 1
  MaxJoins = 2
SPECIFICATION Spec
SYMMETRY MCSymmetry
CHECK_DEADLOCK FALSE
INVARIANTS
  LockDiscipline
  DumpedIsTracked
  ActiveRegistered
  PromiseKept
PROPERTIES
  ResultsAreStable
