SPECIFICATION Spec
CONSTANTS
  Mtu = 23
  Handles = {0, 14, 256, 65535}
  Uuids <- MCUuids
  Values <- MCValues
  Lists <- MCLists
  WriteHandle = 14
  ReadHandle = 256
  Commands <- MCCommands
  Stack <- MCStack
  MaxSends = 2
INVARIANTS PdusFit PdusArrive MessagesArrive OnlyItsOpcode
CHECK_DEADLOCK FALSE
