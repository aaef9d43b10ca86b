SPECIFICATION FairSpec
CONSTANTS
  Sources = {"cam", "http", "picam3", "file"}
  CamCap = 2
  BufCap = 2
  SkipInitial = 1
  MaxFailed = 2
  MaxShots = 12
INVARIANTS
  StampsCountDrops
PROPERTIES
  LossyStreamInOrder
  CameraLossEndsDetection
  FailureEndsDetection
  ErrorIsLast
CHECK_DEADLOCK FALSE
