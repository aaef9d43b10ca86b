SPECIFICATION LiveSpec
CONSTANTS
  Clients = {c1, c2}
  Readers = {c1}
  EveryNth = 2
  MaxFrames = 5
INVARIANTS
  NoLostWakeUp
  StreamMovesOn
PROPERTIES
  ReadersAreServed
CHECK_DEADLOCK FALSE
