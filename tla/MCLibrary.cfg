SPECIFICATION LibrarySpec
CONSTANTS
  a = a
  b = b
  Paths = {a, b}
  Legacy = {olda, oldera}
  Relative <- RelativeToA
  Tags = {t, u}
  NoPath = none
  Requests = {r1, r2}
  MaxGeneration = 2
SYMMETRY Symmetry
INVARIANT BucketsAgree
PROPERTY ImplementsTaggedFiles
CHECK_DEADLOCK FALSE
