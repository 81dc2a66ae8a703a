\* A shallow queue pair with receives and sends that share ids.
SPECIFICATION Spec
CONSTANTS
  QpDepth = 2
  FirstSend = 2
  MaxReceives = 3
  MaxSends = 3
  MaxBatch = 2
INVARIANTS TypeOK CompletionNeverLost QueuesBounded
PROPERTIES WaitTakesOwn
CHECK_DEADLOCK FALSE
