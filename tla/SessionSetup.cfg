\* Two clients, one after the other, that may fail at any step, as may the server.
SPECIFICATION FairSpec
CONSTANTS
  Clients = {c1, c2}
  MaxQps = 2
  Failures = TRUE
INVARIANTS TypeOK OpenMeansConnected
PROPERTIES ClientOpenEnds SessionEnds
CHECK_DEADLOCK FALSE
