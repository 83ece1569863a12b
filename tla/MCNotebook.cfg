CONSTANTS
  Document = {"n1", "n2"}
  First = "n1"
  Stroke = {a, b}
  Remains <- Pieces
  RelayPage <- OneStroke
  MaxPages = 3
  MaxActions = 2
  MaxHistories = 2
  MaxHandlers = 6
  MaxFaults = 2
  MaxSteps = 7
  MaxStrokes = 3
SPECIFICATION MCSpec
SYMMETRY Strokes
INVARIANTS NotebookTypeOK HistoriesFitTheirPages HistoriesArePages NothingIsUnsaved
PROPERTIES EditsCanBeTakenBack PagesChangeOneAtATime
CHECK_DEADLOCK FALSE
