SPECIFICATION SearchSpec
CONSTANTS
  MaxDx = 1
  FrameWidth = 4
  Height = 3
  Scores <- MCScores
INVARIANTS
  SameAsSerialScan
  OffsetInRange
CHECK_DEADLOCK FALSE
