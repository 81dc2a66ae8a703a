\* The torch session against a server started for two commands.
SPECIFICATION AppSpec
CONSTANTS
  Qps = 1
  SlotsPerQp = 2
  CommandCount = 2
  Operations = {"Read", "Write"}
  Offsets = {1}
  Capacity = 2
  WordMax = 3
  Backends = {"AIV"}
  Faults = FALSE
  SubmissionWindow = 1
  SelectQueue = FALSE
PROPERTIES SessionCompletes
CHECK_DEADLOCK FALSE
