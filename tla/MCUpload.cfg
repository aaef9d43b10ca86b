SPECIFICATION FairSpec
CONSTANTS
  MaxTrains = 2
  Kinds <- MCKinds
  KeepLastN = 2
  MaxFailures = 1
  UserDeletes = TRUE
INVARIANTS
  NothingLost
  ShownIsThere
  RecentKept
PROPERTIES
  EventuallyUploaded
  OrphansRemoved
