SPECIFICATION Spec
CONSTANTS
  TicksPerMs = 2
  Starts <- MCStarts
  LiveClock = TRUE
  LegacyStarts <- MCLegacy
  MaxSaves = 3
INVARIANTS
  RowsHaveBlobs
PROPERTIES
  OrphansListed
CHECK_DEADLOCK FALSE
