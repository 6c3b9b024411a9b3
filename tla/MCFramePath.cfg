CONSTANTS
  Capacity = 2
  Null = Null
  Workers = 2
  PoolConfigs <- MCPoolConfigs
  MaxFrames = 7
SPECIFICATION Spec
INVARIANTS FramesIntact PoolBounded
CHECK_DEADLOCK FALSE
