------------------------------ MODULE ChainSync ------------------------------
(***************************************************************************)
(* The indexer's "Sync Blocks" task (indexer/src/chain/chainSync.ts) with  *)
(* the parts of statsProcessor.ts and dataStore.ts it drives: every run    *)
(* downloads blocks from RPC nodes into a LevelDB cache on disk, inserts   *)
(* cached blocks into the block table, processes the inserted blocks in    *)
(* groups and, unless KeepCache is set, deletes the cache.                 *)
(*                                                                         *)
(* The scheduler never starts a run while another one is pending, so a run *)
(* is one control state `pc`.  What does run beside it are the downloads   *)
(* of an earlier run that failed: eachLimit rejects at the first error and *)
(* leaves the other requests in flight, and each of them still writes its  *)
(* block to the cache when its answer comes.                               *)
(***************************************************************************)
EXTENDS Integers, FiniteSets, FiniteSetsExt

CONSTANTS
  StartHeight,    \* activeChain.startHeight, 0 when the chain has none
  MaxHead,        \* bound: the height at which the modelled chain stops growing
  DownloadGroup,  \* maxDownloadGroupSize (1000)
  Concurrency,    \* parallel downloads (100)
  InsertBatch,    \* blocks per insert transaction (500)
  ProcessGroup,   \* groupSize of processMessages (100)
  TxHeights,      \* heights whose block holds transactions
  DayOf,          \* the UTC day of each height's block
  MaxFaults       \* bound: failures (network, database, crash) in a behaviour

Heights == 1..MaxHead
NoHeight == 0
Days == {DayOf[h] : h \in Heights}

ASSUME ConstantsAssumption ==
  /\ StartHeight \in Nat /\ MaxHead \in Nat /\ StartHeight < MaxHead
  /\ DownloadGroup \in Nat \ {0} /\ Concurrency \in Nat \ {0}
  /\ InsertBatch \in Nat \ {0} /\ ProcessGroup \in Nat \ {0}
  /\ TxHeights \subseteq Heights
  /\ DayOf \in [Heights -> Nat]
  /\ \A g, h \in Heights : g <= h => DayOf[g] <= DayOf[h]
  /\ MaxFaults \in Nat

VARIABLES
  head,       \* height of the chain
  keepCache,  \* env.KeepCache, fixed for a deployment
  blocks,     \* heights in the block table
  processed,  \* heights whose row has isProcessed = true
  days,       \* day rows: firstBlockHeight, lastBlockHeight, lastBlockHeightYet
  cache,      \* heights in blocks.db
  results,    \* heights in blockResults.db
  missing,    \* missingBlock, NoHeight when unset
  fetches,    \* running downloadBlock calls
  pc,         \* where the run of syncBlocks is
  cursor,     \* the height the current phase has reached
  end,        \* latestBlockToDownload
  from,       \* first height of blocksToAdd, which is from..cursor-1
  last,       \* height of lastInsertedBlock, NoHeight when there is none
  savedYet,   \* the lastBlockHeightYet its Day object takes to be saved, NoHeight if none
  faults,     \* failures left
  lost        \* history: heights of dropped batches, until a later run inserts them

db == <<blocks, processed, days>>
disk == <<cache, results>>
run == <<pc, cursor, end, from, last, savedYet>>
world == <<head, keepCache>>
vars == <<world, db, disk, missing, fetches, run, faults, lost>>

MaxOr(S, default) == IF S = {} THEN default ELSE Max(S)

\* activeChain.startHeight || 1
FirstHeight == IF StartHeight = 0 THEN 1 ELSE StartHeight

DayRow == [first : Heights \cup {NoHeight},
           last : Heights \cup {NoHeight},
           yet : Heights \cup {NoHeight}]
NoRow == [first |-> NoHeight, last |-> NoHeight, yet |-> NoHeight]

Fetch == [height : Heights, known : BOOLEAN, stage : {"fetch", "put"}, orphan : BOOLEAN]

Phases == {"idle", "download", "insert", "openDay", "closeDay", "push",
           "process", "clearBlocks", "clearResults"}

TypeOK ==
  /\ head \in Heights /\ keepCache \in BOOLEAN
  /\ blocks \subseteq Heights /\ processed \subseteq blocks
  /\ days \in [Days -> DayRow]
  /\ cache \subseteq Heights /\ results \subseteq TxHeights
  /\ missing \in Heights \cup {NoHeight}
  /\ fetches \subseteq Fetch
  /\ pc \in Phases
  /\ cursor \in Nat /\ end \in 0..MaxHead /\ from \in 0..(MaxHead + 1)
  /\ last \in 0..MaxHead /\ savedYet \in 0..MaxHead
  /\ faults \in 0..MaxFaults
  /\ lost \subseteq Heights

Init ==
  /\ head = FirstHeight /\ keepCache \in BOOLEAN
  /\ blocks = {} /\ processed = {} /\ days = [d \in Days |-> NoRow]
  /\ cache = {} /\ results = {}
  /\ missing = NoHeight /\ fetches = {}
  /\ pc = "idle" /\ cursor = 0 /\ end = 0 /\ from = 0 /\ last = NoHeight
  /\ savedYet = NoHeight
  /\ faults = MaxFaults /\ lost = {}

------------------------------------------------------------------------------
\* The end of a run, successful or not: its local variables are gone.
EndRun ==
  /\ pc' = "idle" /\ cursor' = 0 /\ end' = 0 /\ from' = 0 /\ last' = NoHeight
  /\ savedYet' = NoHeight

\* The failure of an awaited call, drawn from the budget.
Fault == faults > 0 /\ faults' = faults - 1

\* Mutant of EnterInsert: continuing after the last processed row.
EnterInsertAfterProcessed(to) ==
  /\ pc' = "insert" /\ end' = to
  /\ cursor' = MaxOr(processed, StartHeight) + 1
  /\ from' = cursor'
  /\ last' = MaxOr(blocks, NoHeight)
  /\ savedYet' = IF blocks = {} THEN NoHeight ELSE days[DayOf[Max(blocks)]].yet

\* insertBlocks(latestHeightInDb + 1, to): lastInsertedBlock is the highest row, read with
\* its day.
EnterInsert(to) ==
  /\ pc' = "insert" /\ end' = to
  /\ cursor' = MaxOr(blocks, StartHeight) + 1
  /\ from' = cursor'
  /\ last' = MaxOr(blocks, NoHeight)
  /\ savedYet' = IF blocks = {} THEN NoHeight ELSE days[DayOf[Max(blocks)]].yet

\* A run that finds the cache as high as the chain downloads nothing.  `avail`
\* is the highest height the reachable nodes report: they may all lag.
SkipDownload(avail) ==
  /\ pc = "idle"
  /\ MaxOr(cache, 0) >= avail
  /\ EnterInsert(avail)
  /\ UNCHANGED <<world, db, disk, missing, fetches, faults, lost>>

\* Where a run's downloads begin: at the block found missing by an earlier run,
\* else after what the table holds (or, with KeepCache, at the cache's top).
DownloadFrom(avail) ==
  IF missing # NoHeight THEN IF missing < avail THEN missing ELSE avail
  ELSE IF blocks = {} THEN FirstHeight
  ELSE IF keepCache THEN MaxOr(cache, 1)
  ELSE Max(blocks) + 1

\* A run downloads a bounded number of blocks.
DownloadTo(start, avail) ==
  IF avail - start > DownloadGroup THEN start + DownloadGroup ELSE avail

\* The other runs download DownloadFrom(avail)..avail, up to that number.  When
\* avail is more than one below the start (lagging nodes), the negative array
\* length throws and the run ends having changed nothing.
StartDownload(avail) ==
  LET start == DownloadFrom(avail) IN
  /\ pc = "idle"
  /\ MaxOr(cache, 0) < avail
  /\ start <= avail + 1
  /\ pc' = "download" /\ cursor' = start
  /\ end' = DownloadTo(start, avail)
  /\ missing' = NoHeight
  /\ UNCHANGED <<world, db, disk, fetches, from, last, savedYet, faults, lost>>

StartSync(avail) == SkipDownload(avail) \/ StartDownload(avail)

Running == {w \in fetches : ~w.orphan}

\* eachLimit starts downloadBlock for the next height; the call first looks
\* whether the block is cached.
Dispatch ==
  /\ pc = "download" /\ cursor <= end
  /\ Cardinality(Running) < Concurrency
  /\ fetches' = fetches \cup
       {[height |-> cursor, known |-> cursor \in cache, stage |-> "fetch", orphan |-> FALSE]}
  /\ cursor' = cursor + 1
  /\ UNCHANGED <<world, db, disk, missing, pc, end, from, last, savedYet, faults, lost>>

\* The block is there; its results are fetched unless cached, and stored first.
PutResults(w) ==
  /\ w.stage = "fetch" /\ w.height \in TxHeights
  /\ results' = results \cup {w.height}
  /\ fetches' = (fetches \ {w}) \cup {[w EXCEPT !.stage = "put"]}
  /\ UNCHANGED <<world, db, cache, missing, run, faults, lost>>

\* Mutant of PutBlock: the block stored without awaiting its results.
PutBlockBeforeResults(w) ==
  /\ cache' = IF w.known THEN cache ELSE cache \cup {w.height}
  /\ fetches' = fetches \ {w}
  /\ UNCHANGED <<world, db, results, missing, run, faults, lost>>

\* The call ends, storing the block if the cache did not hold it at its start.
PutBlock(w) ==
  /\ w.height \in TxHeights => w.stage = "put"
  /\ cache' = IF w.known THEN cache ELSE cache \cup {w.height}
  /\ fetches' = fetches \ {w}
  /\ UNCHANGED <<world, db, results, missing, run, faults, lost>>

\* A request or a write fails.  The run it belongs to ends at once and its other requests
\* go on as orphans; the failure of an orphan goes unnoticed.
FetchFails(w) ==
  /\ Fault
  /\ ~w.known \/ (w.stage = "fetch" /\ w.height \in TxHeights \ results)
  /\ IF w.orphan
     THEN fetches' = fetches \ {w} /\ UNCHANGED run
     ELSE fetches' = {[v EXCEPT !.orphan = TRUE] : v \in fetches \ {w}} /\ EndRun
  /\ UNCHANGED <<world, db, disk, missing, lost>>

DownloadDone ==
  /\ pc = "download" /\ cursor > end /\ Running = {}
  /\ EnterInsert(end)
  /\ UNCHANGED <<world, db, disk, missing, fetches, faults, lost>>

------------------------------------------------------------------------------
\* One turn of insertBlocks' loop begins by reading the block from the cache.
BlockNotCached ==
  /\ pc = "insert" /\ cursor <= end /\ cursor \notin cache
  /\ missing' = cursor
  /\ EndRun
  /\ UNCHANGED <<world, db, disk, fetches, faults, lost>>

ResultsNotCached ==
  /\ pc = "insert" /\ cursor <= end /\ cursor \in cache
  /\ cursor \in TxHeights \ results
  /\ EndRun
  /\ UNCHANGED <<world, db, disk, missing, fetches, faults, lost>>

ReadBlock ==
  /\ pc = "insert" /\ cursor <= end /\ cursor \in cache
  /\ cursor \in TxHeights => cursor \in results
  /\ pc' = IF last # NoHeight /\ DayOf[last] = DayOf[cursor] THEN "push" ELSE "openDay"
  /\ UNCHANGED <<world, db, disk, missing, fetches, cursor, end, from, last, savedYet, faults, lost>>

\* Day.findOrCreate, outside any transaction.
OpenDay ==
  /\ pc = "openDay"
  /\ days' = IF days[DayOf[cursor]].first # NoHeight THEN days
             ELSE [days EXCEPT ![DayOf[cursor]] =
                     [first |-> cursor, last |-> NoHeight, yet |-> cursor]]
  /\ pc' = IF last = NoHeight THEN "push" ELSE "closeDay"
  /\ UNCHANGED <<world, blocks, processed, disk, missing, fetches>>
  /\ UNCHANGED <<cursor, end, from, last, savedYet, faults, lost>>

\* Mutant of CloseDay: the day closed at the block that opens the next one.
CloseDayAtNextBlock ==
  /\ pc = "closeDay"
  /\ days' = [days EXCEPT ![DayOf[last]].last = cursor, ![DayOf[last]].yet = cursor]
  /\ pc' = "push"
  /\ UNCHANGED <<world, blocks, processed, disk, missing, fetches>>
  /\ UNCHANGED <<cursor, end, from, last, savedYet, faults, lost>>

\* save() writes the columns that differ from what the object takes to be saved.
SaveYet(yet, known, height) == IF known = height THEN yet ELSE height

\* The previous day gets its lastBlockHeight, also outside any transaction.
CloseDay ==
  /\ pc = "closeDay"
  /\ days' = [days EXCEPT ![DayOf[last]].last = last,
                          ![DayOf[last]].yet = SaveYet(@, savedYet, last)]
  /\ pc' = "push" /\ savedYet' = last
  /\ UNCHANGED <<world, blocks, processed, disk, missing, fetches>>
  /\ UNCHANGED <<cursor, end, from, last, faults, lost>>

\* The block joins blocksToAdd, and the loop goes on to the next height.
Push ==
  /\ pc = "push"
  /\ pc' = "insert" /\ cursor' = cursor + 1 /\ last' = cursor
  /\ UNCHANGED <<world, processed, disk, missing, fetches, end>>

BatchFull == cursor - from + 1 >= InsertBatch \/ cursor = end

\* The lastBlockHeightYet the Day object of the pushed block takes to be saved: that
\* of the block before, or of the row found or created just now.
HeldYet ==
  IF last # NoHeight /\ DayOf[last] = DayOf[cursor] THEN savedYet
  ELSE days[DayOf[cursor]].yet

CollectBlock ==
  /\ Push /\ ~BatchFull
  /\ savedYet' = HeldYet
  /\ UNCHANGED <<blocks, days, from, faults, lost>>

\* The batch's transaction commits: its rows and the day's lastBlockHeightYet.
CommitBatch ==
  /\ Push /\ BatchFull
  /\ blocks' = blocks \cup (from..cursor)
  /\ days' = [days EXCEPT ![DayOf[cursor]].yet = SaveYet(@, HeldYet, cursor)]
  /\ from' = cursor + 1 /\ savedYet' = cursor
  /\ lost' = lost \ (from..cursor)
  /\ UNCHANGED faults

\* Mutant of BatchCreateFails: blocksToAdd reset before the rows are created.
BatchCreateFailsAfterReset ==
  /\ Push /\ BatchFull /\ Fault
  /\ from' = cursor + 1 /\ savedYet' = HeldYet
  /\ UNCHANGED <<blocks, days, lost>>

\* bulkCreate fails: the error is logged, and blocksToAdd keeps its blocks for
\* the transaction of the next turn.
BatchCreateFails ==
  /\ Push /\ BatchFull /\ Fault
  /\ savedYet' = HeldYet
  /\ UNCHANGED <<blocks, days, from, lost>>

\* After blocksToAdd was reset, an error rolls the rows back and is logged, and the
\* loop goes on without the batch.
BatchRolledBack ==
  /\ Push /\ BatchFull /\ Fault
  /\ lost' = lost \cup (from..cursor)
  /\ from' = cursor + 1
  /\ UNCHANGED <<blocks, days>>

\* The day's save fails: its lastBlockHeightYet stays marked as changed.
BatchSaveFails ==
  /\ BatchRolledBack
  /\ HeldYet # cursor
  /\ savedYet' = NoHeight

\* The save succeeded and the COMMIT fails: the Day object goes on taking the rolled
\* back lastBlockHeightYet for saved.
BatchCommitFails ==
  /\ BatchRolledBack
  /\ savedYet' = cursor

InsertDone ==
  /\ pc = "insert" /\ cursor > end
  /\ pc' = "process"
  /\ cursor' = IF processed = {} THEN FirstHeight ELSE Max(processed) + 1
  /\ from' = 0 /\ last' = NoHeight /\ savedYet' = NoHeight /\ end' = 0
  /\ UNCHANGED <<world, db, disk, missing, fetches, faults, lost>>

------------------------------------------------------------------------------
\* The unprocessed rows of a group: both ends are included, so two consecutive
\* groups share a height.
Group == {h \in blocks \ processed : cursor <= h /\ h <= cursor + ProcessGroup}

\* Mutant of ProcessBlocks: blocks that are not cached are skipped.
ProcessCachedBlocks ==
  /\ pc = "process" /\ cursor <= MaxOr(blocks, 0)
  /\ processed' = processed \cup (Group \cap cache)
  /\ cursor' = cursor + ProcessGroup
  /\ UNCHANGED <<world, blocks, days, disk, missing, fetches, pc, end, from, last, savedYet, faults, lost>>

\* A group is processed in one database transaction.
ProcessBlocks ==
  /\ pc = "process" /\ cursor <= MaxOr(blocks, 0)
  /\ Group \subseteq cache
  /\ processed' = processed \cup Group
  /\ cursor' = cursor + ProcessGroup
  /\ UNCHANGED <<world, blocks, days, disk, missing, fetches, pc, end, from, last, savedYet, faults, lost>>

\* Mutant of ProcessMissesBlock: the missing block is not remembered.
ProcessForgetsMissingBlock ==
  /\ pc = "process" /\ cursor <= MaxOr(blocks, 0)
  /\ ~(Group \subseteq cache)
  /\ EndRun
  /\ UNCHANGED <<world, db, disk, missing, fetches, faults, lost>>

\* A block of the group is no longer cached: the transaction is rolled back,
\* and the run ends after asking for the block to be downloaded again.
ProcessMissesBlock ==
  /\ pc = "process" /\ cursor <= MaxOr(blocks, 0)
  /\ ~(Group \subseteq cache)
  /\ missing' = Min(Group \ cache)
  /\ EndRun
  /\ UNCHANGED <<world, db, disk, fetches, faults, lost>>

\* Everything is processed: the run ends, deleting the cache unless it is kept.
ProcessDone ==
  /\ pc = "process" /\ cursor > MaxOr(blocks, 0)
  /\ IF keepCache
     THEN EndRun
     ELSE pc' = "clearBlocks" /\ cursor' = 0 /\ UNCHANGED <<end, from, last, savedYet>>
  /\ UNCHANGED <<world, db, disk, missing, fetches, faults, lost>>

ClearBlocks ==
  /\ pc = "clearBlocks"
  /\ cache' = {} /\ pc' = "clearResults"
  /\ UNCHANGED <<world, db, results, missing, fetches, cursor, end, from, last, savedYet, faults, lost>>

ClearResults ==
  /\ pc = "clearResults"
  /\ results' = {} /\ EndRun
  /\ UNCHANGED <<world, db, cache, missing, fetches, faults, lost>>

------------------------------------------------------------------------------
\* A database or cache error in a step that does not swallow it ends the run.
RunFails ==
  /\ Fault
  /\ pc \in Phases \ {"idle", "download", "push"}
  /\ EndRun
  /\ UNCHANGED <<world, db, disk, missing, fetches, lost>>

\* The process dies and is started again.  Memory is gone; the data folder may
\* be gone too, when it is not on persistent storage.
Crash ==
  /\ Fault
  /\ missing' = NoHeight /\ fetches' = {} /\ EndRun
  /\ \/ UNCHANGED disk
     \/ cache' = {} /\ results' = {}
  /\ UNCHANGED <<world, db, lost>>

ChainGrows ==
  /\ head < MaxHead /\ head' = head + 1
  /\ UNCHANGED <<keepCache, db, disk, missing, fetches, run, faults, lost>>

Insert ==
  \/ BlockNotCached \/ ResultsNotCached \/ ReadBlock \/ OpenDay \/ CloseDay
  \/ CollectBlock \/ CommitBatch \/ InsertDone

Process ==
  \/ ProcessBlocks \/ ProcessMissesBlock \/ ProcessDone \/ ClearBlocks \/ ClearResults

Failures ==
  \/ \E w \in fetches : FetchFails(w)
  \/ BatchCreateFails \/ BatchSaveFails \/ BatchCommitFails \/ RunFails \/ Crash

Next ==
  \/ ChainGrows
  \/ \E avail \in 1..head : StartSync(avail)
  \/ Dispatch \/ DownloadDone
  \/ \E w \in fetches : PutResults(w) \/ PutBlock(w)
  \/ Insert \/ Process \/ Failures

Spec == Init /\ [][Next]_vars

\* The scheduler starts a run every 7 seconds, every await settles (requests
\* time out), and again and again the nodes report the chain's true height.
Fairness ==
  /\ WF_vars(ChainGrows)
  /\ SF_vars(StartSync(head))
  /\ WF_vars(Dispatch) /\ WF_vars(DownloadDone)
  /\ WF_vars(\E w \in fetches : PutResults(w) \/ PutBlock(w))
  /\ WF_vars(Insert) /\ WF_vars(Process)

FairSpec == Spec /\ Fairness
------------------------------------------------------------------------------
\* The first height insertBlocks inserts: one above startHeight, although the
\* downloads and the processing begin at startHeight itself.
FirstInserted == StartHeight + 1

\* Heights below the highest row that have no row.
Gaps == (FirstInserted..MaxOr(blocks, StartHeight)) \ blocks

\* Once a block is in the table every lower one is ("missing blocks are
\* downloaded from RPC nodes", README, Step #1), but for batches dropped by a
\* failed save: no order of downloads, orphans, retries and crashes skips a
\* height otherwise.
GapsAreLostBatches == Gaps \subseteq lost

\* No row is left unprocessed below a processed one, whatever group boundaries,
\* rollbacks and restarts came between: processing resumes above the highest
\* processed row and would never come back to it.
ProcessedIsPrefix ==
  \A h \in processed, g \in blocks : g < h => g \in processed

\* The cache is deleted only when no row still needs it for processing.
CacheDeletedWhenDone == pc \in {"clearBlocks", "clearResults"} => processed = blocks

\* A cached block with transactions has its results cached too, as insertBlocks
\* requires, as long as nothing deletes the cache under a late download.
CachedBlocksHaveResults == keepCache => cache \cap TxHeights \subseteq results

\* The day rows agree with the block table although they are written outside
\* the batch's transaction and survive its rollback: a day of the table has its
\* row, with the day's first height; once closed, with its last; and a day is
\* closed before the table holds a block of a later one.  Its lastBlockHeightYet is
\* then the same height, unless that block was dropped with its batch: when the
\* batch's COMMIT fails, closing the day writes lastBlockHeight only.
DayRowsMatchBlocks ==
  \A d \in Days :
    LET heights == {h \in FirstInserted..MaxHead : DayOf[h] = d}
        present == heights \cap blocks
        row == days[d]
    IN /\ present # {} => row.first # NoHeight /\ row.yet >= Max(present)
       /\ row.first # NoHeight => row.first = Min(heights)
       /\ row.last # NoHeight => row.last = Max(heights)
       /\ present # {} /\ (\E h \in blocks : DayOf[h] > d) =>
            row.last # NoHeight /\ (row.yet = row.last \/ row.last \in lost)

\* Every step appends to the table or processes it in order, or leaves it.
Log == INSTANCE IndexLog WITH MaxHeight <- MaxHead, rows <- blocks, done <- processed
ImplementsLog == Log!Spec

\* Everything the chain holds was processed, or dropped with its batch.
CaughtUp == FirstInserted..head \subseteq processed \cup Gaps

\* The cache holds the chain's highest block but not one that is still to be
\* processed: a run then downloads nothing, until the chain grows.
HoleUnderHead ==
  /\ MaxOr(cache, 0) >= head
  /\ \E h \in (FirstInserted..head) \ (processed \cup Gaps) :
       h \notin cache \/ h \in TxHeights \ results

\* Whatever failed on the way, the index ends up with everything the chain
\* holds, except where a hole waits under the chain's highest block.
CatchesUp == <>[](CaughtUp \/ HoleUnderHead)
==============================================================================
