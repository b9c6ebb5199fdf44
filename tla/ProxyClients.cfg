SPECIFICATION ClientsSpec
CONSTANTS
  Leases = {l1, l2}
  Services = {s1, s2}
  FirstLease = l1
  FirstService = s1
  None = None
  Urls <- MCUrls
  MaxConns = 2
  MaxSockets = 3
  MaxOutput = 2
  MaxShown = 1
  MaxSelections = 2
  MaxSent = 1
INVARIANTS
  NoOrphanSockets
  KeysReachTheirShell
  LossIsShown
  SavedFileIsWhole
CHECK_DEADLOCK FALSE
