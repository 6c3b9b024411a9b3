CONSTANTS
  HeaderSize = 2
  CrcSize = 1
  ImuLength = 1
  MaxLength = 4
  Kinds <- MCKinds
  NoHeader = NoHeader
  MaxFrame = 3
  MaxBacklog = 0
  MaxFlaws = 1
  MaxFails = 1
SPECIFICATION Spec
INVARIANTS PublishedAsSent WholeFramesHeard
CHECK_DEADLOCK FALSE
