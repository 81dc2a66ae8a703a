\* The example client: a window of all slots, two queue pairs.
SPECIFICATION AppSpec
CONSTANTS
  Qps = 2
  SlotsPerQp = 2
  CommandCount = 5
  Operations = {"Read", "BatchWrite"}
  Offsets = {1}
  Capacity = 2
  WordMax = 3
  Backends = {"AICPU"}
  Faults = FALSE
  SubmissionWindow = 4
  SelectQueue = FALSE
INVARIANTS NoProtocolError
PROPERTIES SessionCompletes
CHECK_DEADLOCK FALSE
