SPECIFICATION Spec
CONSTANTS
  p1 = p1
  p2 = p2
  Nobody = Nobody
  Proc = {p1, p2}
  OldIds <- MCOldIds
  MaxNew = 1
  MaxCrashes = 2
INVARIANTS
  OldTrainsKept
  OpenSeesAllTrains
PROPERTIES
  EventuallyOpen
CHECK_DEADLOCK FALSE
