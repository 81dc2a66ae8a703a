\* Any application and any fault on one queue pair with windows of two commands.
SPECIFICATION Spec
CONSTANTS
  Qps = 1
  SlotsPerQp = 2
  CommandCount = 4
  Operations = {"Read", "BatchWrite"}
  Offsets = {1, 3}
  Capacity = 2
  WordMax = 3
  Backends = {"AIV", "RA"}
  Faults = TRUE
INVARIANTS TypeOK SendsIntact NoAccessAfterAnswer
PROPERTIES ImplementsService
CHECK_DEADLOCK FALSE
