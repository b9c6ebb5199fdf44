SPECIFICATION Spec
CONSTANTS
  DayLength = 4
  UptimeCheckInterval = 2
  Backoff <- MCBackoff
  LongestWait = 3
  MaxTime = 8
  MaxFaults = 2
INVARIANTS
  DayMarksFollowSnapshots
  RowFollowsSnapshots
CHECK_DEADLOCK FALSE
