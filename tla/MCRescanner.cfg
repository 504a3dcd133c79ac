SPECIFICATION LiveSpec
CONSTANTS
  Paths = {a, b}
  NoPath = none
  Requests = {r1, r2, r3}
  MaxGeneration = 3
INVARIANT OneClaim
INVARIANT GenerationNamesPaths
INVARIANT SnapshotHeld
PROPERTY ImplementsSnapshots
PROPERTY NoneAdmittedAfterSignal
PROPERTY ScanEnds
PROPERTY StopEnds
CHECK_DEADLOCK FALSE
