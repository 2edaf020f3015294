SPECIFICATION LiveSpec
CONSTANTS
  Primaries <- MCPrimaries
  Includes <- MCIncludes
  Chars <- MCChars
  Values <- MCValues
  Calls <- MCCalls
  ServerMtus = {23, 30, 100}
  Faults = TRUE
  MaxCalls = 2
INVARIANTS ReportsOnce DiscoveryExact ReadWhole WriteStored WriteAtomic
PROPERTY CallEnds
CHECK_DEADLOCK FALSE
