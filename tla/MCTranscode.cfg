SPECIFICATION FairSpec
CONSTANTS
  Requests = {r1, r2}
  Places = 1
  MaxOutput = 2
INVARIANT ProcessesWithinLane
INVARIANT AnswerFits
PROPERTY LaneComesBack
CHECK_DEADLOCK FALSE
