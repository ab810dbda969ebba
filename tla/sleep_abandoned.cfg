SPECIFICATION Spec
CONSTANTS
  a = a
  b = b
  r1 = r1
  r2 = r2
  r3 = r3
  s1 = s1
  s2 = s2
  c1 = c1
  c2 = c2
  None = None
  System = System
  Models <- MCModels
  Requests <- Requests2
  Sleepers <- OneSleeper
  Controllers <- MainThread
  Bounded <- OneSleeper
  Faults = FALSE
  AsyncSleep = TRUE
  LateWake = FALSE
  Bootstrap = FALSE
  Level2 = FALSE
  Timeouts = TRUE
  Denials = FALSE
  DiskFaults = FALSE
  Repeat = TRUE
  MaxCrashes = 0
INVARIANTS
  NeverEvicted
SYMMETRY Symmetry2
