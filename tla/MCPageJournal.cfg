CONSTANTS
  Participant = {"owner", "guest"}
  Owner = "owner"
  b = b
  r1 = r1
  r2 = r2
  RootId <- MCRootId
  CommandId = {1, 2, 3, 4, 5, 6, 7}
  Cell = {1, 2}
  Batch <- SplitBatch
  Region <- SplitRegion
  Baseline <- SplitBaseline
  MaxStrokePoints = 3
  MaxPagePoints = 8
  MaxStrokes = 4
  MaxActions = 3
  MaxRecordedPoints = 8
  MaxRecordedRubs = 2
  MaxRecordedTargets = 2
  MaxCommands = 7
SPECIFICATION MCSpec
SYMMETRY NewStrokes
INVARIANTS TypeOK IdsAreFresh HistoryIsValid PageIsReloadable CountsMatchPage EveryRevisionIsOneCommand OfferedHistoryIsAccepted
PROPERTY GuestsLeaveOthersAlone
CHECK_DEADLOCK FALSE
