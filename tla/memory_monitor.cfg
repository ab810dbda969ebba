SPECIFICATION FairSpec
CONSTANTS
  Total = 20
  Critical = 95
  Faults = TRUE
  MaxCalls = 2
PROPERTIES
  OneBackoffPerCrossing
  PersistentPressureIsReported
