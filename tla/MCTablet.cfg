CONSTANTS
  Slot = {1, 2}
  MaxPages = 2
  MaxSuspendAttempts = 2
  MaxFailures = 2
SPECIFICATION Spec
INVARIANTS TabletTypeOK StrokesStayOnTheirPage QuietPanelIsInColour AwakeHoldsTheWakeLock
PROPERTIES SleepEnds
CHECK_DEADLOCK FALSE
