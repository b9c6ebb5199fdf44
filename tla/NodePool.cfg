SPECIFICATION FairSpec
CONSTANTS
  n1 = n1
  Nodes = {n1}
  MaxHeight = 3
  MaxConcurrent = 2
  MaxDelay = 1
  Askers = 1
  MaxFaults = 3
INVARIANTS
  UnavailableIsLookedAt
  ConcurrencyIsLimited
PROPERTIES
  NodesRecover
CHECK_DEADLOCK FALSE
