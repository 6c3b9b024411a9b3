SPECIFICATION FairPoolSpec
CONSTANTS
  Setups <- SetupsTried
  MaxThreads = 3
  StealRange = 1
INVARIANTS
  SleepersGetWord
  EngineGetsWord
  QueuesOutliveThieves
PROPERTIES
  ImplementsTaskPool
  EveryTaskStarts
  PoolEnds
\* destroy() may wait for good, and ends.
CHECK_DEADLOCK FALSE
