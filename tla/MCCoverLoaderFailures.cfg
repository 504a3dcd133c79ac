SPECIFICATION Spec
CONSTANTS
  Requests = {r1, r2}
  Callers = {r1, r2, 1, 2, 3}
  Track = a
  Paths = {a}
  MaxProbes = 3
  MaxDescribes = 3
  MaxRenders = 2
  MaxVersion = 2
  MaxCover = 3
  MaxInputs = 4
  Broken = {2}
  Unusable = {3}
  Heavy = {}
  Wide = {2}
  Jpegs = {2}
  Pictures = {1}
  Capacity = 1
  MaxEntries = 2
  MaxBytes = 3
SYMMETRY RequestSymmetry
INVARIANT FailuresAreOfTheFile
CHECK_DEADLOCK FALSE
