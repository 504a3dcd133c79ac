SPECIFICATION Spec
CONSTANTS
  Calls = {c1, c2}
  NoCall = nocall
  Tracks = {t1, t2}
  NoTrack = notrack
SYMMETRY Symmetry
INVARIANT LateStartIsStopped
