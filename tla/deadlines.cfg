SPECIFICATION Spec
CONSTANTS
  a = a
  b = b
  r1 = r1
  r2 = r2
  r3 = r3
  s1 = s1
  s2 = s2
  c1 = c1
  c2 = c2
  None = None
  System = System
  Models <- MCModels
  Requests <- Requests2
  Sleepers <- TwoSleepers
  Controllers <- MainThread
  Bounded <- OneSleeper
  Faults = TRUE
  AsyncSleep = FALSE
  LateWake = TRUE
  Bootstrap = FALSE
  Level2 = TRUE
  Timeouts = TRUE
  Denials = TRUE
  DiskFaults = TRUE
  Repeat = TRUE
  MaxCrashes = 0
INVARIANTS
  TypeOK
  ReadyIsAwake
  LifecycleExplicit
  InflightCounts
  NoResidue
  NeverEvicted
PROPERTIES
  QuiesceHolds
  PendingBlocksOthers
SYMMETRY Symmetry2
