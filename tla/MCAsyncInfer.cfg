CONSTANTS
  Workers = 2
  MaxFrames = 3
  EmaEnable = TRUE
  ResetGap = 1
SPECIFICATION FairSpec
INVARIANTS FreeSlotsRest BlendsForward
PROPERTIES ImplementsService EverySubmitAnswered StopEnds ErrorsSurface
CHECK_DEADLOCK FALSE
