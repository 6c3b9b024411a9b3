CONSTANTS
  Depth = 1
  Workers = 2
  None = None
  Sights <- MCSights
  MaxFrame = 2
SPECIFICATION Spec
INVARIANTS PosesRigid
CHECK_DEADLOCK FALSE
