CONSTANTS
  Page = {"p1", "p2"}
  Socket = {"s1", "s2"}
  Tile = {1, 2}
  Screen <- MCScreen
  Blank <- MCBlank
  Buffer = 1
  MaxChanges = 2
  MaxFaults = 1
SPECIFICATION Spec
INVARIANTS ViewersShowWholeScreens SilentStreamIsCurrent NewestViewerHoldsTheStream
PROPERTIES ViewersSettle
CHECK_DEADLOCK FALSE
