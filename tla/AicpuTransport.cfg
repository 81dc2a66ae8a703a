\* AICPU sends and receives with refused posts and failed requests; the request
\* index wraps twice and the counter words once within MaxPosts.
SPECIFICATION Spec
CONSTANTS
  Depth = 4
  RecvDepth = 2
  Interval = 2
  PollBatch = 2
  MaxPosts = 10
  MaxRecvs = 3
  WordMod = 8
  IndexMod = 4
INVARIANTS TypeOK WrIdsIntact DecodedIsOwn WaitedIsExecuted RingExact
CHECK_DEADLOCK FALSE
