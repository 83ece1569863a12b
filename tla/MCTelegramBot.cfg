CONSTANTS
  MaxUpdates = 2
  MaxShares = 4
  Kinds = {"list", "open", "export", "import", "share", "revoke"}
  MaxFaults = 2
SPECIFICATION MCFairSpec
INVARIANTS MailboxTypeOK NoOperationIsLost RevocationsAreReal
PROPERTIES UpdatesAreServed
CHECK_DEADLOCK FALSE
