CONSTANTS
  HeaderSize = 2
  CrcSize = 1
  ImuLength = 1
  MaxLength = 2
  Kinds <- MCKinds
  NoHeader = NoHeader
  MaxFrame = 3
  MaxBacklog = 4
  MaxFlaws = 0
  MaxFails = 1
SPECIFICATION FairSpec
PROPERTIES BytesRead Reopened StopReturns
CHECK_DEADLOCK FALSE
