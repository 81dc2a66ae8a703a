CONSTANTS
  QpCount = 2
  CommandCount = 2
  MaxProbes = 2
SPECIFICATION Spec
CHECK_DEADLOCK FALSE
INVARIANT TypeOK
INVARIANT Supported
INVARIANT NothingLeft
INVARIANT KernelsSafe
PROPERTY ProgramEnds
