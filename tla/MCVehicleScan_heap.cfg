SPECIFICATION Spec
CONSTANTS
  v1 = v1
  v2 = v2
  tag = tag
  Addr <- MCAddr
  Broadcasts <- MCBroadcasts
  FilterTypes = {"none"}
  Heap = {FALSE, TRUE}
  MaxReports = 2
CHECK_DEADLOCK FALSE
INVARIANT CompleteIsShown
