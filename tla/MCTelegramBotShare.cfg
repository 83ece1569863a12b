CONSTANTS
  MaxUpdates = 1
  MaxShares = 2
  Kinds = {"share"}
  MaxFaults = 1
SPECIFICATION MCSpec
INVARIANTS AnnouncedSharesAreJoined
CHECK_DEADLOCK FALSE
