SPECIFICATION UsdFairSpec
CONSTANTS
  MaxBlocks = 3
  DayOf <- MCDayOf
  Prices = {1, 2}
  MaxSyncs = 2
  MaxCuts = 1
INVARIANTS
  UsdTypeOK
  TotalsFollowPrices
PROPERTIES
  UsdSettles
CHECK_DEADLOCK FALSE
