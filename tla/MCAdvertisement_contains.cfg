SPECIFICATION Packets
CONSTANTS
  Records <- MCRecords
  MaxRecords = 2
INVARIANT ContainsAnkiUuid
CHECK_DEADLOCK FALSE
