CONSTANTS
  h1 = h1
  h2 = h2
  rA = rA
  rB = rB
  x = x
  y = y
  Handlers = {h1, h2}
  Requests = {rA, rB}
  Addresses = {x, y}
  Tags = {1, 2}
  Uniques <- MCUniques
  GroupTag <- MCGroupTag
  ClientTag <- MCClientTag
  Unparsable = {}
  WithTable = {rA}
  BulkInsertLimit = 1
  PullMayDelete = FALSE
  MaxSubmits = 3
  MaxCrashes = 0
  MaxShutdowns = 0
  MaxFaults = 0
  MaxJoins = 2
SPECIFICATION ClientSpec
CHECK_DEADLOCK FALSE
INVARIANTS
  NeverTwoResults
