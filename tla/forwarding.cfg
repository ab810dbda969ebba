SPECIFICATION FairSpec
CONSTANTS
  Handlers = {h1, h2}
  Requests <- AllKinds
  Losses = {"reset", "timeout", "garbled"}
INVARIANTS
  TypeOK
  DrainedMeansClosed
  OneAnswer
PROPERTIES
  HangUpKeepsReady
  LeavingFrees
