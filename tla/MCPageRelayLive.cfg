CONSTANTS
  Client = {"ann"}
  Tablet = {}
  s1 = s1
  s2 = s2
  s3 = s3
  Socket = {s1, s2}
  Capacity = 2
  MaxMinted = 2
  MaxTotal = 2
  Artists = {"ann"}
  Unsteady = {"ann"}
  RelayFails = TRUE
  MaxFaults = 1
SPECIFICATION MCFairSpec
PROPERTIES Converges CommandsAreAnswered
CHECK_DEADLOCK FALSE
