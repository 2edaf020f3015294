SPECIFICATION Spec
CONSTANTS
  AppOps = {"READ_REQ", "READ_BY_TYPE_REQ", "WRITE_CMD"}
  Events <- OneEvent
  Pushes <- NoPushes
  StrayOps = {"READ_RESP"}
  IOErrors = TRUE
  MaxCmds = 3
  MaxParts = 1
  MaxRx = 2
INVARIANTS TypeOK OnlyHeadSent TimerFollowsRequest NoLostWakeup StaleDrained LongReadFirst DistinctIds RefsAccounted CancelledNotCalled
CHECK_DEADLOCK FALSE
