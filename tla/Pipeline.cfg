CONSTANTS
  Grids = {7, 9}
  Tables = {"kiosk", "cafe", "kiosk_top0"}
  OldTables = {"kiosk"}
  MaxDate = 2
  MaxFaults = 1
  Programs = {"check1", "check2", "one", "rejected", "objects", "cafes", "brands", "both", "unknown"}
  Operators = {"one", "rejected", "objects", "cafes", "brands", "both", "unknown"}
  Category = "kiosk"
  ByHand = FALSE
  Recalc = {"check1"}
  Requests = {"some", "two", "other", "empty", "far", "mixed"}
  Threads = 2
  MaxStarts = 2
  Checks <- MCChecks
  Content <- MCContent
  Command <- MCCommand
  Rubrics <- MCRubrics
  Eng <- MCEng
  TopTables <- MCTopTables
  Widening <- MCWidening
  Request <- MCRequest
  Place <- MCPlace
  Together <- MCTogether
SPECIFICATION Spec
INVARIANTS
  PipelineTypeOK
  NothingSilentlyLost
  DoneIsDone
  ColumnsAreOneTable
  UndisturbedIsRight
  OutputStays
PROPERTIES
  Progress
  AllEnd
CHECK_DEADLOCK FALSE
