SPECIFICATION Spec
CONSTANTS
  MinFramePeriod = 2
  MaxFramePeriod = 6
  TicksPerSecond = 2
  MinSpeed = 2
  MaxSpeed = 2
  Width = 20
  MaxFrameCount = 10
  LowPassNum = 99
  LowPassDen = 100
  Scale = 100
  FitMethod = "ransac"
  MinFitFrames = 9
  MinModelPoints = 3
  Periods <- MCOnePeriod
  Offsets <- MCRansacOffsets
  MaxFrames = 12
INVARIANTS
  RansacAssertion
CHECK_DEADLOCK FALSE
