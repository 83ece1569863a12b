CONSTANTS
  Client = {"ann", "bob"}
  Tablet = {"ann"}
  s1 = s1
  s2 = s2
  s3 = s3
  Socket = {s1, s2}
  Capacity = 2
  MaxMinted = 2
  MaxTotal = 2
  Artists = {"ann", "bob"}
  Unsteady = {}
  RelayFails = TRUE
  MaxFaults = 1
SPECIFICATION MCSpec
SYMMETRY Symmetric
INVARIANTS NoDurableCommandIsForgotten
PROPERTIES ImplementsOrderedLog
CHECK_DEADLOCK FALSE
