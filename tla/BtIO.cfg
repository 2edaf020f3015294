SPECIFICATION Spec
CONSTANTS
  Fd = {3, 4, 5}
  MaxChans = 3
INVARIANTS FdsAccounted AbortedNotCalled EndsOnce
PROPERTY AbortReleases
CHECK_DEADLOCK FALSE
