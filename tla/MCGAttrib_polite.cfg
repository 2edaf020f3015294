SPECIFICATION LiveSpec
CONSTANTS
  AppOps = {"READ_REQ", "READ_BY_TYPE_REQ", "WRITE_CMD"}
  Events <- OneEvent
  Pushes <- MCPushes
  StrayOps = {}
  IOErrors = TRUE
  MaxCmds = 3
  MaxParts = 1
  MaxRx = 1
INVARIANTS OneOutstanding RightResponse NeverDeaf
PROPERTIES ImplementsBearer SentRequestEnds QueuedRequestEnds
CHECK_DEADLOCK FALSE
