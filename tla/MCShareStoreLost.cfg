CONSTANTS
  Participant = {"owner", "guest"}
  Owner = "owner"
  b = b
  r1 = r1
  k1 = k1
  k2 = k2
  Connection = {k1, k2}
  RootId <- MCRootId
  CommandId = {1, 2, 3, 4, 5, 6, 7, 8}
  Cell = {1}
  Batch <- MCBatch
  Region <- MCRegion
  Baseline <- MCBaseline
  MaxStrokePoints = 1
  MaxPagePoints = 20
  MaxStrokes = 20
  MaxActions = 1
  MaxRecordedPoints = 20
  MaxRecordedRubs = 20
  MaxRecordedTargets = 20
  MaxParticipants = 2
  MaxCommands = 3
SPECIFICATION MCSpec
SYMMETRY Symmetric
INVARIANT ShareIsNeverLost

