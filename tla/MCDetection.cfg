CONSTANTS
  Unit = 20
  NoNumber = NoNumber
  None = None
  InputW = 32
  InputH = 32
  Watched <- WatchedPixels
  Points = 21
  Classes = 2
  Confidence = 4
  Overlap <- OverlapThreshold
  TopK = 3
  MaxCandidates = 2
  Slots = {1, 2}
  Frames <- FramesTried
  Settings <- SettingsTried
SPECIFICATION Spec
INVARIANTS StripsGrey OneArmor ColourKept CornersOrdered BestPublished
