SPECIFICATION FairSpec
CONSTANTS
  m = m
  o = o
  r1 = r1
  r2 = r2
  h1 = h1
  a1 = a1
  None = None
  Unread = Unread
  Models <- TwoModels
  Required <- OnlyM
  Probes <- OneProbe
  First = m
  Requests <- TwoRequests
  Actions <- OneAction
  Contents <- Doubtful
  LatchFaults = TRUE
INVARIANTS
  FencedZeroWins
PROPERTIES
  ZeroIsFinal
  
  FenceDrains
