SPECIFICATION FairSpec
CONSTANTS
  StartHeight = 0
  MaxHead = 5
  DownloadGroup = 3
  Concurrency = 2
  InsertBatch = 2
  ProcessGroup = 1
  MaxFaults = 2
  TxHeights <- MCTxHeights
  DayOf <- MCDayOf
INVARIANTS
  GapsAreLostBatches
  ProcessedIsPrefix
  CachedBlocksHaveResults
  DayRowsMatchBlocks
PROPERTIES
  CatchesUp
  ImplementsLog
CHECK_DEADLOCK FALSE
