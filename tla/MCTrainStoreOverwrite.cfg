SPECIFICATION Spec
CONSTANTS
  TicksPerMs = 2
  Starts <- MCFileStarts
  LiveClock = FALSE
  LegacyStarts <- MCNone
  MaxSaves = 3
PROPERTIES
  OneTrainPerFile
CHECK_DEADLOCK FALSE
