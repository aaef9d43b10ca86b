SPECIFICATION FairSpec
CONSTANTS
  t1 = t1
  t2 = t2
  Trains = {t1, t2}
  MaxFailures = 2
INVARIANTS
PROPERTIES
  EventuallyOnServer
  DbLast
