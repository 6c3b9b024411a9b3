CONSTANTS
  Depth = 1
  Workers = 2
  None = None
  Sights <- MCSights
  MaxFrame = 4
SPECIFICATION Spec
INVARIANTS PosesInOrder LastResultNotLost
PROPERTIES DrawnPosesAdvance
CHECK_DEADLOCK FALSE
