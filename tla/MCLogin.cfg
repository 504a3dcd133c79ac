SPECIFICATION Spec
CONSTANTS
  Clients = {c1, c2, c3}
  NoClient = none
  Attempts = {a1, a2}
  Tokens = {t1, t2, t3}
  MaxFailures = 2
  BanDuration = 1
  MaxEntries = 2
  MaxSessions = 2
  Ages = {1, 2}
  MaxTime = 3
SYMMETRY Symmetry
INVARIANT GuardExact
PROPERTY BansHold
PROPERTY SessionsKept
CHECK_DEADLOCK FALSE
