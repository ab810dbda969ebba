SPECIFICATION FairSpec
CONSTANTS
  Requests <- AllRequests
  MaxTimeout = 2
  Ms = 2
  Configured = 5
  Offset <- Ahead
  Latest = 2
  None = None
INVARIANTS
  ParserMatchesManager
  ContainmentLast
PROPERTIES
  DrainsInTime
  MutatesInTime
  BoundedEnds
CHECK_DEADLOCK FALSE
