SPECIFICATION TimedSpec
CONSTANTS
  Callers = {c1, c2}
  MaxSessions = 1
  AuxReserved = 0
  TranscodeWaiters = 1
  AuxWaiters = 1
  HighBurst = 1
PROPERTY EveryStartReturns
PROPERTY ShutdownEndsTasks
CHECK_DEADLOCK FALSE
