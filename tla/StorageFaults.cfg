\* Application loop and two workers with faults, the application selecting queues.
SPECIFICATION AppSpec
CONSTANTS
  Qps = 2
  SlotsPerQp = 1
  CommandCount = 3
  Operations = {"Write", "BatchRead", "BatchWrite"}
  Offsets = {1, 3}
  Capacity = 2
  WordMax = 3
  Backends = {"AIV", "RA"}
  Faults = TRUE
  SubmissionWindow = 2
  SelectQueue = TRUE
INVARIANTS CleanExitServedAll
PROPERTIES ImplementsService EverybodyStops
CHECK_DEADLOCK FALSE
