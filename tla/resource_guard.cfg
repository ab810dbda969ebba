SPECIFICATION FairSpec
CONSTANT Refreshes = 2
INVARIANTS
  RequiredSuffersPressureOnly
PROPERTIES
  OptionalFailsClosed
  GuardEnds
