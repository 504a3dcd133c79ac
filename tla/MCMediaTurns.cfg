SPECIFICATION TurnsSpec
CONSTANTS
  Callers = {c1, c2, c3, c4}
  MaxSessions = 2
  AuxReserved = 1
  TranscodeWaiters = 2
  AuxWaiters = 3
  HighBurst = 1
SYMMETRY CallerSymmetry
INVARIANT LanesExact
INVARIANT NoOrphanTask
INVARIANT AnsweredOnce
INVARIANT WorkConserving
INVARIANT DrainedIsFinal
INVARIANT RendersGetTheirTurn
PROPERTY NoOvertaking
PROPERTY ImplementsLanes
CHECK_DEADLOCK FALSE
