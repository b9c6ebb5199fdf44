------------------------------ MODULE AkashStats ------------------------------
(***************************************************************************)
(* The statistics the Akash stats indexer writes on every block while the  *)
(* stats processor walks over the unprocessed blocks: the numbers of       *)
(* active leases, of all leases and of providers, and what was spent so far *)
(* (indexer/src/chain/statsProcessor.ts, indexers/akashStatsIndexer.ts).   *)
(*                                                                         *)
(* The rows are written in one database transaction per group of blocks,   *)
(* but they are computed from counters and sets that the indexer keeps in  *)
(* memory for speed, that no rollback touches, and that are read from the  *)
(* database once per process.  The chain is fixed: a block retried after a *)
(* rollback has the messages it had before.                                *)
(***************************************************************************)
EXTENDS Integers, FiniteSets

CONSTANTS
  Leases, Providers,
  Chains,     \* the chains considered: what their messages do, and when
  MaxHeight,  \* bound: the last block
  GroupSize,  \* groupSize of processMessages (100)
  MaxFaults   \* bound: failed groups and restarts in a behaviour

Heights == 1..MaxHeight
NoHeight == 0
MaybeHeight == Heights \cup {NoHeight}

\* A lease is created with a predicted close height, may have that prediction
\* changed once by a later message (a deposit, say), and may be closed.
LeaseScript == [created : MaybeHeight, predicted : Nat, changed : MaybeHeight,
                repredicted : Nat, closed : MaybeHeight]
\* A provider is registered, and its row kept when it is deleted.
ProviderScript ==
  {script \in [created : MaybeHeight, deleted : MaybeHeight] :
     script.deleted # NoHeight => script.created \in 1..script.deleted}
Chain == [lease : [Leases -> LeaseScript], provider : [Providers -> ProviderScript]]

ASSUME ConstantsAssumption ==
  /\ IsFiniteSet(Leases) /\ IsFiniteSet(Providers)
  /\ MaxHeight \in Nat \ {0} /\ GroupSize \in Nat \ {0} /\ MaxFaults \in Nat
  /\ Chains \subseteq Chain

VARIABLES
  chain,        \* the chain indexed
  top,          \* highest row of the block table
  rows,         \* statistics of the blocks, in the open transaction too
  committed,    \* highest row with isProcessed = true outside the transaction
  pc,           \* where the run of processMessages is
  at,           \* the block it has reached
  first,        \* firstBlockToProcess of the group
  maxDbHeight,  \* top of the table when the run began
  ready,        \* cacheInitialized
  leaseCount,   \* totalLeaseCount
  providerCount, \* activeProviderCount
  counted,      \* the leases behind totalResources
  predictions,  \* predictedClosedHeights
  suspect,      \* history: a group failed since the process started
  since,        \* history: committed when the caches were read
  faults        \* failures left

cache == <<ready, leaseCount, providerCount, counted, predictions, since>>
run == <<pc, at, first, maxDbHeight>>
vars == <<chain, top, rows, committed, run, cache, suspect, faults>>

Row == [active : Nat, total : Nat, providers : Int, spent : Nat,
        suspect : BOOLEAN, since : 0..MaxHeight]

TypeOK ==
  /\ chain \in Chain /\ top \in Heights
  /\ committed \in 0..top
  /\ \E n \in committed..top : rows \in [1..n -> Row]
  /\ pc \in {"idle", "messages", "after"}
  /\ at \in 0..MaxHeight /\ first \in Nat /\ maxDbHeight \in 0..MaxHeight
  /\ ready \in BOOLEAN /\ leaseCount \in Nat /\ providerCount \in Int /\ since \in 0..committed
  /\ counted \subseteq Leases /\ predictions \subseteq Nat
  /\ suspect \in BOOLEAN /\ faults \in 0..MaxFaults

Init ==
  /\ chain \in Chains /\ top = 1
  /\ rows = <<>> /\ committed = 0
  /\ pc = "idle" /\ at = 0 /\ first = 0 /\ maxDbHeight = 0
  /\ ready = FALSE /\ leaseCount = 0 /\ providerCount = 0 /\ since = 0
  /\ counted = {} /\ predictions = {}
  /\ suspect = FALSE /\ faults = MaxFaults

------------------------------------------------------------------------------
\* The lease table after the messages of the blocks up to h.
CreatedBy(h) == {l \in Leases : chain.lease[l].created \in 1..h}
ClosedBy(h) == {l \in Leases : chain.lease[l].closed \in 1..h}
\* The provider table.
RegisteredBy(h) == {p \in Providers : chain.provider[p].created \in 1..h}
DeletedBy(h) == {p \in Providers : chain.provider[p].deleted \in 1..h}
Predicted(l, h) ==
  LET script == chain.lease[l]
  IN IF script.changed \in 1..h THEN script.repredicted ELSE script.predicted

\* getTotalResources and getFuturePredictedCloseHeights, on the table after
\* block h, for block `from`.
TotalResources(h, from) == {l \in CreatedBy(h) \ ClosedBy(h) : Predicted(l, h) > from}
FuturePredictions(h, from) == {Predicted(l, h) : l \in CreatedBy(h)} \ (0..(from - 1))

\* Mutant of RefreshesAt: the messages that only change a prediction left out.
RefreshesWhenLeasesChange(h) == \E l \in Leases : h \in {chain.lease[l].created, chain.lease[l].closed}

\* Some message of block h can change a prediction.
RefreshesAt(h) ==
  \E l \in Leases : h \in {chain.lease[l].created, chain.lease[l].changed, chain.lease[l].closed}

Lower(a, b) == IF a < b THEN a ELSE b
LastOfGroup == Lower(maxDbHeight, first + GroupSize)

Fault == faults > 0 /\ faults' = faults - 1

\* Lease.count() on the table after block h.
LeaseCount(h) == Cardinality(CreatedBy(h))

\* Provider.count(): the rows of deleted providers are counted too.
ProviderCount(h) == Cardinality(RegisteredBy(h))

\* Mutant of FirstUnprocessed: the last processed block is taken again.
FirstUnprocessedAgain == IF committed = 0 THEN 1 ELSE committed

FirstUnprocessed == committed + 1

\* A run with unprocessed blocks.  The first of the process reads the caches
\* from the database.
StartRun ==
  /\ pc = "idle" /\ top > committed
  /\ pc' = "messages" /\ at' = FirstUnprocessed - 1 /\ first' = FirstUnprocessed /\ maxDbHeight' = top
  /\ ready' = TRUE
  /\ IF ready THEN UNCHANGED <<leaseCount, providerCount, counted, predictions, since>>
     ELSE /\ counted' = TotalResources(committed, FirstUnprocessed)
          /\ predictions' = FuturePredictions(committed, FirstUnprocessed)
          /\ leaseCount' = LeaseCount(committed)
          /\ providerCount' = ProviderCount(committed)
          /\ since' = committed
  /\ UNCHANGED <<chain, top, rows, committed, suspect, faults>>

\* The messages of the next block: the handlers that create a lease, create a
\* provider or delete one count in memory.
Messages ==
  LET h == at + 1 IN
  /\ pc = "messages" /\ at < LastOfGroup
  /\ at' = h /\ pc' = "after"
  /\ leaseCount' = leaseCount + Cardinality(CreatedBy(h) \ CreatedBy(at))
  /\ providerCount' = providerCount + Cardinality(RegisteredBy(h) \ RegisteredBy(at))
                                   - Cardinality(DeletedBy(h) \ DeletedBy(at))
  /\ UNCHANGED <<chain, top, rows, committed, first, maxDbHeight, ready, counted, predictions>>
  /\ UNCHANGED <<suspect, since, faults>>

\* Mutant of SpentBefore: previousBlock stays the last one of the group before.
SpentBeforeGroup == IF committed = 0 THEN 0 ELSE rows[committed].spent

\* previousBlock?.totalUAktSpent || 0
SpentBefore == IF at = 1 THEN 0 ELSE rows[at - 1].spent

\* afterEveryBlock: the sets are recomputed when a message may have changed
\* them or a lease runs out at this block, else taken as they are.
AfterEveryBlock ==
  LET refreshed == RefreshesAt(at)
      active == Cardinality(counted')
  IN
  /\ pc = "after"
  /\ predictions' = IF refreshed THEN FuturePredictions(at, at) ELSE predictions
  /\ counted' = IF refreshed \/ at \in predictions' THEN TotalResources(at, at) ELSE counted
  /\ rows' = [h \in 1..at |->
       IF h < at THEN rows[h]
       ELSE [active |-> active, total |-> leaseCount, providers |-> providerCount,
             spent |-> SpentBefore + active, suspect |-> suspect, since |-> since]]
  /\ pc' = "messages"
  /\ UNCHANGED <<chain, top, committed, at, first, maxDbHeight>>
  /\ UNCHANGED <<ready, leaseCount, providerCount, suspect, since, faults>>

\* The group's transaction commits.  The next group begins GroupSize higher,
\* at the last block of this one.
CommitGroup ==
  /\ pc = "messages" /\ at >= LastOfGroup
  /\ committed' = at
  /\ IF first + GroupSize <= maxDbHeight
     THEN first' = first + GroupSize /\ UNCHANGED <<pc, at, maxDbHeight>>
     ELSE pc' = "idle" /\ at' = 0 /\ first' = 0 /\ maxDbHeight' = 0
  /\ UNCHANGED <<chain, top, rows, cache, suspect, faults>>

\* The group's transaction is rolled back: its rows are gone, the run ends.
RollBack ==
  /\ rows' = [h \in 1..committed |-> rows[h]]
  /\ pc' = "idle" /\ at' = 0 /\ first' = 0 /\ maxDbHeight' = 0

\* Something throws on the way.  The caches stay as the group has left them.
GroupFails ==
  /\ pc # "idle" /\ Fault
  /\ RollBack
  /\ suspect' = TRUE
  /\ UNCHANGED <<chain, top, committed, cache>>

\* The process is restarted: the next run reads the caches again.
Restart ==
  /\ Fault
  /\ RollBack
  /\ ready' = FALSE /\ suspect' = FALSE
  /\ leaseCount' = 0 /\ providerCount' = 0 /\ since' = 0
  /\ counted' = {} /\ predictions' = {}
  /\ UNCHANGED <<chain, top, committed>>

\* Between two runs, more blocks are inserted.
InsertBlock ==
  /\ pc = "idle" /\ top < MaxHeight /\ top' = top + 1
  /\ UNCHANGED <<chain, rows, committed, run, cache, suspect, faults>>

Next ==
  \/ StartRun \/ Messages \/ AfterEveryBlock \/ CommitGroup
  \/ GroupFails \/ Restart \/ InsertBlock

Spec == Init /\ [][Next]_vars
------------------------------------------------------------------------------
\* The cached set of active leases, refreshed only now and then, is on every
\* block the set a query would give, unless a rollback left it ahead; the count
\* of all leases kept in memory never falls below the table's; and the count of
\* providers is theirs, but for those that had been deleted when the process
\* read it and are counted as long as it runs.
CountsFollowTables ==
  \A h \in 1..committed :
    /\ rows[h].total >= Cardinality(CreatedBy(h))
    /\ ~rows[h].suspect =>
         /\ rows[h].active = Cardinality(TotalResources(h, h))
         /\ rows[h].providers = Cardinality(RegisteredBy(h) \ DeletedBy(h))
                                 + Cardinality(DeletedBy(rows[h].since))

\* What was spent grows from block to block by the block's active leases,
\* across groups, retries and restarts: no block is added twice or left out.
\* (Every lease costs one token per block here.)
SpentAccumulates ==
  \A h \in 1..committed :
    rows[h].spent = rows[h].active + (IF h = 1 THEN 0 ELSE rows[h - 1].spent)

\* A committed block is never processed again: its row does not change.
ProcessedOnce == [][\A h \in 1..committed : rows'[h] = rows[h]]_vars
==============================================================================
