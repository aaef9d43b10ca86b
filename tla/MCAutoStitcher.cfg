SPECIFICATION Spec
CONSTANTS
  MinFramePeriod = 2
  MaxFramePeriod = 6
  TicksPerSecond = 2
  MinSpeed = 2
  MaxSpeed = 2
  Width = 20
  MaxFrameCount = 4
  LowPassNum = 3
  LowPassDen = 4
  Scale = 4
  FitMethod = "ols"
  MinFitFrames = 4
  MinModelPoints = 1
  Periods <- MCPeriods
  Offsets <- MCOffsets
  MaxFrames = 8
INVARIANTS
  TypeOK
  SequenceWellFormed
  JumpsOnlyUnseen
  SpeedNotOverestimated
  SequencesDisjoint
  LowPassWithinOffsets
  StandstillBounded
CHECK_DEADLOCK FALSE
