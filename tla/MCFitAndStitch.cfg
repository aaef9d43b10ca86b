SPECIFICATION Spec
CONSTANTS
  Threshold = 2
  MaxRounds = 3
  MaxIter = 2
  ModelPoints = 2
  FrameWidth = 6
  MaxWidth = 17
  PipeCapacity = 2
  Jobs <- MCJobs
  MinFitFrames = 4
  VelocityScale = 2
  MinLength = 3
  MinSpeed = 1
INVARIANTS
  FramesPlaced
  RecordMatchesImage
  FitSupported
  OutliersIgnored
  ClipWhole
PROPERTIES
  Returns
CHECK_DEADLOCK FALSE
