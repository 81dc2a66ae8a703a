\* A ring deeper than two signal intervals: batches may carry two signals, any request
\* may fail.
SPECIFICATION FairSpec
CONSTANTS
  Depth = 6
  RecvDepth = 2
  Interval = 2
  PollBatch = 2
  MaxPosts = 10
  MaxRecvs = 3
  MaxBatch = 6
INVARIANTS TypeOK RingSafe CqNeverOverflows CreditsExact CreditsNeverLost WaitedSuccessIsExecuted NoSpuriousQueueFull RecvCreditsExact
PROPERTIES WaitEnds
CHECK_DEADLOCK FALSE
