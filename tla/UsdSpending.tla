------------------------------ MODULE UsdSpending ------------------------------
(***************************************************************************)
(* The spending in USD of each block, and two tasks over the same day rows *)
(* (tasks/usdSpendingTracker.ts, db/priceHistoryProvider.ts).              *)
(*                                                                         *)
(* "Sync Price History" writes prices and flags the days whose price has   *)
(* changed.  "USD Spending Tracker" recomputes all days from the first     *)
(* flagged one, or from the first block without a value, and clears the    *)
(* flags.  Each reads all day rows at the start and saves them one by one; *)
(* saving writes only the columns changed in memory.                       *)
(*                                                                         *)
(* Every block spends one token, so that totalUAktSpent is its height.     *)
(* What is spent in USDC is added at a price of one and left out.          *)
(***************************************************************************)
EXTENDS Integers, FiniteSets, FiniteSetsExt, Functions

CONSTANTS
  MaxBlocks,  \* bound: blocks of the chain
  DayOf,      \* the day of each block
  Prices,     \* prices of the token; 0 is none
  MaxSyncs,   \* bound: runs of syncPriceHistory
  MaxCuts     \* bound: runs of the tracker cut short

Blocks == 1..MaxBlocks
Days == {DayOf[h] : h \in Blocks}
BlocksOf(d) == {h \in Blocks : DayOf[h] = d}
FirstBlock(d) == Min(BlocksOf(d))

ASSUME ChainAssumption ==
  /\ MaxBlocks \in Nat \ {0} /\ DayOf \in [Blocks -> Nat]
  /\ \A g, h \in Blocks : g <= h => DayOf[g] <= DayOf[h]
  /\ IsFiniteSet(Prices) /\ Prices \subseteq Nat \ {0} /\ MaxSyncs \in Nat /\ MaxCuts \in Nat

VARIABLES
  inserted,   \* height of the last block in the table
  processed,  \* height of the last processed one: those above have no totals yet
  spent,      \* totalUUsdSpent of the blocks
  price,      \* aktPrice of the days
  flagged,    \* days with aktPriceChanged
  tracker,    \* the run of updateUsdSpending
  sync,       \* the run of syncPriceHistory
  lost,       \* history: days whose change of price no run will see any more
  syncs,      \* runs of syncPriceHistory left
  cuts        \* runs of the tracker that may still be cut short

chain == <<inserted, processed>>
usdVars == <<chain, spent, price, flagged, tracker, sync, lost, syncs, cuts>>

Null == -1
NoPrice == 0
NoDay == -1
Row == [price : Prices \cup {NoPrice}, flag : BOOLEAN]
IdleTracker == [pc |-> "idle", day |-> NoDay, rows |-> <<>>, akt |-> 0, usd |-> 0]
IdleSync == [rows |-> <<>>, api |-> <<>>]
Existing == {d \in Days : FirstBlock(d) <= inserted}

UsdTypeOK ==
  /\ inserted \in 0..MaxBlocks /\ processed \in 0..inserted
  /\ spent \in [Blocks -> {Null} \cup 0..(MaxBlocks * Max(Prices \cup {0}))]
  /\ \A h \in Blocks : h > processed => spent[h] = Null
  /\ price \in [Days -> Prices \cup {NoPrice}]
  /\ flagged \subseteq Existing
  /\ tracker.pc \in {"idle", "block", "find", "read", "update", "save"}
  /\ tracker.day \in Days \cup {NoDay}
  /\ tracker.pc \in {"read", "update", "save"} =>
       tracker.day \in DOMAIN tracker.rows /\ DOMAIN tracker.rows \subseteq Existing
  /\ DOMAIN sync.rows \subseteq DOMAIN sync.api /\ DOMAIN sync.api \subseteq Existing
  /\ lost \subseteq Days /\ syncs \in 0..MaxSyncs /\ cuts \in 0..MaxCuts

UsdInit ==
  /\ inserted = 0 /\ processed = 0 /\ spent = [h \in Blocks |-> Null]
  /\ price = [d \in Days |-> NoPrice] /\ flagged = {}
  /\ tracker = IdleTracker /\ sync = IdleSync
  /\ lost = {} /\ syncs = MaxSyncs /\ cuts = MaxCuts

\* Day.findAll: the rows as they are now, kept in memory.
Rows(days) == [d \in days |-> [price |-> price[d], flag |-> d \in flagged]]

------------------------------------------------------------------------------
\* A block is inserted, with its day; its totals are null.
InsertBlock ==
  /\ inserted < MaxBlocks /\ inserted' = inserted + 1
  /\ UNCHANGED <<processed, spent, price, flagged, tracker, sync, lost, syncs, cuts>>

\* The stats processor computes the totals of a block, but for that in USD.
ProcessBlock ==
  /\ processed < inserted /\ processed' = processed + 1
  /\ UNCHANGED <<inserted, spent, price, flagged, tracker, sync, lost, syncs, cuts>>

\* The first day whose price has changed, if any.
StartTracker ==
  /\ tracker.pc = "idle"
  /\ tracker' = [tracker EXCEPT !.pc = "block",
                                !.day = IF flagged = {} THEN NoDay ELSE Min(flagged)]
  /\ UNCHANGED <<chain, spent, price, flagged, sync, lost, syncs, cuts>>

\* Mutant of ToRefresh: blocks without a value are not looked for.
ToRefreshFlagged == {tracker.day} \ {NoDay}

\* That day, and the days of the blocks without a value.
ToRefresh == {DayOf[h] : h \in {i \in 1..inserted : spent[i] = Null}} \cup ({tracker.day} \ {NoDay})

FindBlock ==
  /\ tracker.pc = "block"
  /\ tracker' = IF ToRefresh = {} THEN IdleTracker
                ELSE [tracker EXCEPT !.pc = "find", !.day = Min(ToRefresh)]
  /\ UNCHANGED <<chain, spent, price, flagged, sync, lost, syncs, cuts>>

\* Mutant of FindDays: only the first day is computed again.
FindDay ==
  /\ tracker.pc = "find"
  /\ tracker' = [tracker EXCEPT !.pc = "read", !.rows = Rows({tracker.day})]
  /\ UNCHANGED <<chain, spent, price, flagged, sync, lost, syncs, cuts>>

FindDays ==
  /\ tracker.pc = "find"
  /\ tracker' = [tracker EXCEPT !.pc = "read",
                                !.rows = Rows({d \in Existing : d >= tracker.day})]
  /\ UNCHANGED <<chain, spent, price, flagged, sync, lost, syncs, cuts>>

\* The totals at the end of the previous day; null counts as zero.
ReadPreviousDay ==
  LET previous == FirstBlock(tracker.day) - 1 IN
  /\ tracker.pc = "read"
  /\ tracker' = [tracker EXCEPT !.pc = "update",
                   !.akt = IF previous > processed THEN 0 ELSE previous,
                   !.usd = IF previous = 0 \/ spent[previous] = Null THEN 0 ELSE spent[previous]]
  /\ UNCHANGED <<chain, spent, price, flagged, sync, lost, syncs, cuts>>

\* On to the next day, or the run is over.
NextDay ==
  LET rest == {d \in DOMAIN tracker.rows : d > tracker.day}
  IN  tracker' = IF rest = {} THEN IdleTracker
                 ELSE [tracker EXCEPT !.pc = "read", !.day = Min(rest)]

\* Mutant of Spent: the tokens of the previous days are not taken off.
SpentFromStart(h) == tracker.usd + h * tracker.rows[tracker.day].price

Spent(h) == tracker.usd + (h - tracker.akt) * tracker.rows[tracker.day].price

UpdateBlocks ==
  /\ tracker.pc = "update"
  /\ spent' = [h \in Blocks |->
       IF h <= processed /\ DayOf[h] = tracker.day THEN Spent(h) ELSE spent[h]]
  /\ IF tracker.rows[tracker.day].flag THEN tracker' = [tracker EXCEPT !.pc = "save"]
     ELSE NextDay
  /\ UNCHANGED <<chain, price, flagged, sync, lost, syncs, cuts>>

\* The flag is cleared, although the price may have changed since the row was read.
SaveDay ==
  /\ tracker.pc = "save"
  /\ flagged' = flagged \ {tracker.day}
  /\ lost' = IF price[tracker.day] = tracker.rows[tracker.day].price THEN lost
             ELSE lost \cup {tracker.day}
  /\ NextDay
  /\ UNCHANGED <<chain, spent, price, sync, syncs, cuts>>

\* A query of the tracker fails, or the process is restarted.  The days that were not reached
\* may not be computed again, for what made them due is no longer to be seen.
TrackerFails ==
  /\ cuts > 0 /\ cuts' = cuts - 1
  /\ tracker.pc # "idle" /\ tracker' = IdleTracker
  /\ lost' = lost \cup 
       {d \in DOMAIN tracker.rows : d > tracker.day \/ (d = tracker.day /\ tracker.pc # "save")}
  /\ UNCHANGED <<chain, spent, price, flagged, sync, syncs>>

------------------------------------------------------------------------------
\* The prices arrive; then the rows are read.
StartSync ==
  /\ DOMAIN sync.rows = {} /\ Existing # {}
  /\ syncs > 0 /\ syncs' = syncs - 1
  /\ \E api \in [Existing -> Prices \cup {NoPrice}] :
       sync' = [rows |-> Rows(Existing), api |-> api]
  /\ UNCHANGED <<chain, spent, price, flagged, tracker, lost, cuts>>

\* A row that had the flag when it was read keeps what the table has: the column counts as
\* unchanged.
Flags(d) == IF sync.rows[d].flag THEN {} ELSE {d}

Changes(d) == sync.api[d] \notin {NoPrice, sync.rows[d].price}

\* The rows come in no particular order.
SavePrice ==
  \E d \in DOMAIN sync.rows :
    LET rest == DOMAIN sync.rows \ {d} IN
    /\ price' = [price EXCEPT ![d] = IF Changes(d) THEN sync.api[d] ELSE @]
    /\ flagged' = IF Changes(d) THEN flagged \cup Flags(d) ELSE flagged
    /\ lost' = IF Changes(d) /\ d \notin flagged' THEN lost \cup {d} ELSE lost
    /\ sync' = IF rest = {} THEN IdleSync ELSE [sync EXCEPT !.rows = Restrict(@, rest)]
    /\ UNCHANGED <<chain, spent, tracker, syncs, cuts>>

UsdNext ==
  \/ InsertBlock \/ ProcessBlock
  \/ StartTracker \/ FindBlock \/ FindDays \/ ReadPreviousDay \/ UpdateBlocks \/ SaveDay
  \/ TrackerFails
  \/ StartSync \/ SavePrice

UsdSpec == UsdInit /\ [][UsdNext]_usdVars

\* The scheduler starts the tracker every minute, and its queries end.
UsdFairness ==
  /\ WF_usdVars(StartTracker \/ FindBlock \/ FindDays \/ ReadPreviousDay \/ UpdateBlocks \/ SaveDay)
  /\ WF_usdVars(SavePrice)

UsdFairSpec == UsdSpec /\ UsdFairness
------------------------------------------------------------------------------
\* What a block should have: every block up to it at its day's price.
Expected(h) == SumFunction([i \in 1..h |-> price[DayOf[i]]])

Settled ==
  /\ flagged = {} /\ \A h \in 1..processed : spent[h] # Null
  /\ tracker.pc = "idle" /\ DOMAIN sync.rows = {}

\* When no task has anything left to do, every block's total follows from the prices, except
\* after a day whose change was lost between the two tasks or by a run cut short.
TotalsFollowPrices ==
  Settled =>
    \A h \in 1..processed :
      spent[h] = Expected(h) \/ \E d \in lost : d <= DayOf[h]

\* In the end no day is flagged and no processed block is without a value.
UsdSettles == <>[](flagged = {} /\ \A h \in 1..processed : spent[h] # Null)
================================================================================
