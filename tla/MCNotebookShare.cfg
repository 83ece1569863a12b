CONSTANTS
  Document = {"n1"}
  First = "n1"
  Stroke = {a, b}
  Remains <- Pieces
  RelayPage <- OneStroke
  MaxPages = 3
  MaxActions = 2
  MaxHistories = 2
  MaxHandlers = 6
  MaxFaults = 0
  MaxSteps = 6
  MaxStrokes = 3
SPECIFICATION MCSpec
SYMMETRY Strokes
PROPERTY SharedPageStaysShared
CHECK_DEADLOCK FALSE
