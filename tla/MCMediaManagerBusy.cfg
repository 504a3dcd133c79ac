SPECIFICATION BusySpec
CONSTANTS
  Callers = {c1, c2, c3}
  MaxSessions = 1
  AuxReserved = 0
  TranscodeWaiters = 2
  AuxWaiters = 2
  HighBurst = 4
PROPERTY NoStarvation
PROPERTY ListenersKeepTheirPlace
CHECK_DEADLOCK FALSE
