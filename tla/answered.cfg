SPECIFICATION FairSpec
CONSTANTS
  a = a
  b = b
  r1 = r1
  r2 = r2
  r3 = r3
  s1 = s1
  s2 = s2
  c1 = c1
  c2 = c2
  None = None
  System = System
  Models <- MCModels
  Requests <- Requests3
  Sleepers <- TwoSleepers
  Controllers <- MainThread
  Bounded <- NoThreads
  Faults = FALSE
  AsyncSleep = TRUE
  LateWake = FALSE
  Bootstrap = FALSE
  Level2 = FALSE
  Timeouts = TRUE
  Denials = FALSE
  DiskFaults = FALSE
  Repeat = FALSE
  MaxCrashes = 0
PROPERTIES
  CallsAnswered
  NoWakeUpLost
  KeepsPromise
CONSTRAINT Assigned
CHECK_DEADLOCK FALSE
