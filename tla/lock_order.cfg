SPECIFICATION Spec
CONSTANTS
  a = a
  b = b
  r1 = r1
  r2 = r2
  r3 = r3
  s1 = s1
  s2 = s2
  c1 = c1
  c2 = c2
  None = None
  System = System
  Models <- MCModels
  Requests <- OneRequest
  Sleepers <- NoThreads
  Controllers <- MainThread
  Bounded <- NoThreads
  Faults = FALSE
  AsyncSleep = FALSE
  LateWake = FALSE
  Bootstrap = TRUE
  Level2 = FALSE
  Timeouts = FALSE
  Denials = FALSE
  DiskFaults = FALSE
  Repeat = TRUE
  MaxCrashes = 0
INVARIANTS
  NoLockCycle
CHECK_DEADLOCK FALSE
