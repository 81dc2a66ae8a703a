\* RA sends and receives with refused posts, failed doorbells and late completions.
SPECIFICATION Spec
CONSTANTS
  Depth = 4
  RecvDepth = 2
  Interval = 2
  PollBatch = 2
  MaxPosts = 7
  MaxRecvs = 3
INVARIANTS TypeOK CreditsSurviveTimeouts WaitedSuccessIsExecuted NoStrandedCredit
CHECK_DEADLOCK FALSE
