\* What the batch result reports against what was posted.
SPECIFICATION Spec
CONSTANTS
  Depth = 4
  RecvDepth = 1
  Interval = 2
  PollBatch = 2
  MaxPosts = 6
  MaxRecvs = 0
  MaxBatch = 4
INVARIANTS PrefixReported
CHECK_DEADLOCK FALSE
