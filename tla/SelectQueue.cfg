\* The example loop, selecting the queue of every slot.
SPECIFICATION AppSpec
CONSTANTS
  Qps = 2
  SlotsPerQp = 2
  CommandCount = 4
  Operations = {"Read"}
  Offsets = {1}
  Capacity = 2
  WordMax = 3
  Backends = {"AIV"}
  Faults = FALSE
  SubmissionWindow = 4
  SelectQueue = TRUE
INVARIANTS NoProtocolError
CHECK_DEADLOCK FALSE
