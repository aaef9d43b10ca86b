SPECIFICATION Spec
CONSTANTS
  Streams <- AllStreams
  Responses <- MCResponses
  LengthOf <- MCLengthOf
  FrameBytes = 3
  Recordings <- MCRecordings
  Inputs <- MCInputs
INVARIANTS
  BytesAccounted
  ImagesExact
  PartsExact
  FramesAligned
  EndIsComplete
CHECK_DEADLOCK FALSE
