SPECIFICATION Spec
CONSTANTS
  Paths = {a, b}
  NoPath = none
  Requests = {r1, r2}
  Tokens = {q1, q2, q3}
  NoToken = noqueue
  MaxQueues = 2
  MaxBytes = 8
  BuildSlots = 1
  BuildQueue = 1
  QueueBytes = 1
  PositionBytes = 1
  EntryBytes = 2
  MaxGeneration = 2
SYMMETRY Symmetry
INVARIANT StoreAccounted
INVARIANT QueuesValid
INVARIANT GateExact
PROPERTY ImplementsPlaylists
CHECK_DEADLOCK FALSE
