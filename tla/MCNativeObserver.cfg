CONSTANTS
  Thread <- MCThread
  Breakpoint <- MCBreakpoint
  Requested = 2
  MaxFailures = 1
  MaxSignals = 2

SPECIFICATION Spec

INVARIANT CompleteCaptureRestoresXochitl
PROPERTY OnlySteppingHidesHits

\* The probe ends, and may wait for a stopped thread for ever.
CHECK_DEADLOCK FALSE
