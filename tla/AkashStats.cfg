SPECIFICATION Spec
CONSTANTS
  l1 = l1
  l2 = l2
  Leases = {l1, l2}
  p1 = p1
  Providers = {p1}
  Chains <- MCChains
  MaxHeight = 5
  GroupSize = 2
  MaxFaults = 2
INVARIANTS
  CountsFollowTables
  SpentAccumulates
PROPERTIES
  ProcessedOnce
CHECK_DEADLOCK FALSE
