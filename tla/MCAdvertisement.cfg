SPECIFICATION Packets
CONSTANTS
  Records <- MCRecords
  MaxRecords = 4
INVARIANTS ParsesAsReference TrailingIgnored
CHECK_DEADLOCK FALSE
