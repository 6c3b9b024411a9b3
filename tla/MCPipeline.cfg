SPECIFICATION FairProcess
CONSTANTS
  DumpChoices <- AnyDump
  PnpChoices <- PnpOn
  SerialChoices <- SerialOnAndOff
  ThreadRequests <- ThreadsAsked
  MaxThreadSize = 8
INVARIANTS
  NodesRunInitialised
  ReturnsOnlyWhenAllFailed
  ImagesFromStream
  CameraReleased
PROPERTIES
  EveryNodeRuns
\* main() may abort, exit, or wait for good in destroy().
CHECK_DEADLOCK FALSE
