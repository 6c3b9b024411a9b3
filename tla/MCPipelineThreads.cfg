SPECIFICATION FairProcess
CONSTANTS
  DumpChoices <- NoDump
  PnpChoices <- PnpOff
  SerialChoices <- SerialOnAndOff
  ThreadRequests <- FewThreadsAsked
  MaxThreadSize = 8
PROPERTIES
  EveryNodeRuns
CHECK_DEADLOCK FALSE
