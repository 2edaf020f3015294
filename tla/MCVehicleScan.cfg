SPECIFICATION Spec
CONSTANTS
  v1 = v1
  v2 = v2
  tag = tag
  Addr <- MCAddr
  Broadcasts <- MCBroadcasts
  FilterTypes = {"none", "g", "l"}
  Heap = {FALSE}
  MaxReports = 5
CHECK_DEADLOCK FALSE
INVARIANTS AccumulatedIsLatest OnlyVehicles CompleteIsShown CleanExit
