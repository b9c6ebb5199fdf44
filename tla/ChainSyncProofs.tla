--------------------------- MODULE ChainSyncProofs ---------------------------
(***************************************************************************)
(* Proofs about ChainSync, for every chain, batch size, group size and     *)
(* fault budget: its type invariant, that processing never leaves a row    *)
(* behind, that gaps come from dropped batches only, that the cache is     *)
(* deleted only when nothing needs it, that it implements IndexLog, that a *)
(* kept cache is complete and that the day rows match the table.           *)
(***************************************************************************)
EXTENDS ChainSync, FiniteSetTheorems, WellFoundedInduction, TLAPS

Inserting == {"openDay", "closeDay", "push"}

\* What the control state says of the local variables of a run.
ControlInv ==
  /\ pc = "download" => cursor >= 1
  /\ pc \in Inserting \cup {"insert"} => from \in FirstInserted..cursor
  /\ pc \in Inserting => cursor <= end
  /\ pc = "closeDay" => last # NoHeight
  /\ pc = "process" => cursor >= 1

\* The next batch goes above every row, and no row is below the first height.
TableInv ==
  /\ blocks \subseteq FirstInserted..MaxHead
  /\ pc \in Inserting \cup {"insert"} => \A h \in blocks : h < from

\* Below the height a run processes next, everything is processed.
ProcessInv ==
  /\ ProcessedIsPrefix
  /\ pc = "process" => \A h \in blocks : h < cursor => h \in processed
  /\ CacheDeletedWhenDone

\* A height without a row is dropped if a row, or the next batch, is above it.
GapInv ==
  \A h \in FirstInserted..MaxHead :
    /\ h \notin blocks
    /\ \/ \E g \in blocks : h < g
       \/ pc \in Inserting \cup {"insert"} /\ h < from
    => h \in lost

IInv == TypeOK /\ ControlInv /\ TableInv /\ ProcessInv /\ GapInv

------------------------------------------------------------------------------
\* A nonempty set of heights has a highest element, and Max denotes it.
LEMMA MaxIsHighest ==
  ASSUME NEW S \in SUBSET Heights, S # {}
  PROVE  Max(S) \in S /\ \A x \in S : x <= Max(S)
<1> DEFINE Above(x) == {y \in S : y > x}
           Uppers == {Above(x) : x \in S}
<1>1. IsFiniteSet(S)
  <2>1. IsFiniteSet(Heights)
    BY ConstantsAssumption, FS_Interval DEF Heights
  <2> QED
    BY <2>1, FS_Subset
<1>2. IsWellFoundedOn(StrictSubsetOrdering(S), SUBSET S)
  BY <1>1, FS_StrictSubsetOrderingWellFounded, FS_FiniteSubsetsOfFinite
<1>3. Uppers # {} /\ Uppers \subseteq SUBSET S
  OBVIOUS
<1>4. \E U \in Uppers : \A V \in Uppers : <<V, U>> \notin StrictSubsetOrdering(S)
  <2> HIDE DEF Uppers
  <2> QED
    BY <1>2, <1>3, WFMin
<1>5. PICK m \in S : \A x \in S : <<Above(x), Above(m)>> \notin StrictSubsetOrdering(S)
  BY <1>4
<1>6. ASSUME NEW x \in S, ~(x <= m)
      PROVE  FALSE
  <2>1. x \in Int /\ m \in Int /\ x > m
    BY <1>6 DEF Heights
  <2>2. Above(x) \subseteq Above(m)
    <3>1. \A y \in S : y > x => y > m
      BY <2>1 DEF Heights
    <3> QED
      BY <3>1
  <2>3. x \in Above(m) /\ x \notin Above(x)
    BY <2>1
  <2>4. Above(x) \in SUBSET S /\ Above(m) \in SUBSET S /\ Above(x) # Above(m)
    BY <2>3
  <2> HIDE DEF Above
  <2> QED
    BY <2>2, <2>4, <1>5 DEF StrictSubsetOrdering
<1> QED
  BY <1>6 DEF Max

\* Dually, Min denotes its lowest element.
LEMMA MinIsLowest ==
  ASSUME NEW S \in SUBSET Heights, S # {}
  PROVE  Min(S) \in S /\ \A x \in S : Min(S) <= x
<1> DEFINE Mirror == {MaxHead + 1 - x : x \in S}
<1>1. Mirror \in SUBSET Heights /\ Mirror # {}
  <2>1. ASSUME NEW x \in S
        PROVE  MaxHead + 1 - x \in Heights
    BY ConstantsAssumption DEF Heights
  <2> QED
    BY <2>1
<1>2. PICK m \in Mirror : \A x \in Mirror : x <= m
  BY <1>1, MaxIsHighest
<1>3. PICK s \in S : m = MaxHead + 1 - s
  BY <1>2
<1>4. ASSUME NEW x \in S
      PROVE  s <= x
  <2>1. MaxHead + 1 - x <= m
    BY <1>2
  <2> QED
    BY <2>1, <1>3, ConstantsAssumption DEF Heights
<1> QED
  BY <1>4 DEF Min

\* MaxOr is the highest element, or the default for the empty set.
LEMMA MaxOrIsHighest ==
  ASSUME NEW S \in SUBSET Heights, NEW default \in Nat
  PROVE  /\ S = {} => MaxOr(S, default) = default
         /\ S # {} => MaxOr(S, default) \in S /\ \A x \in S : x <= MaxOr(S, default)
BY MaxIsHighest DEF MaxOr

\* Where insertBlocks begins: right above the highest row, or at the first
\* height when the table is empty.
LEMMA InsertStartsAboveTable ==
  ASSUME TypeOK, TableInv, NEW to \in 0..MaxHead, EnterInsert(to)
  PROVE  /\ pc' = "insert" /\ end' = to /\ from' = cursor'
         /\ from' \in FirstInserted..MaxHead + 1 /\ last' \in 0..MaxHead
         /\ savedYet' \in 0..MaxHead
         /\ \A h \in blocks : h < from'
         /\ \A h \in FirstInserted..MaxHead :
              h < from' /\ h \notin blocks => \E g \in blocks : h < g
<1> DEFINE top == MaxOr(blocks, StartHeight)
<1>1. blocks \in SUBSET Heights
  BY DEF TypeOK
<1>2. pc' = "insert" /\ end' = to /\ from' = top + 1 /\ cursor' = top + 1
      /\ last' = MaxOr(blocks, NoHeight)
  BY DEF EnterInsert
<1>5. savedYet' \in 0..MaxHead
  <2>1. blocks # {} => Max(blocks) \in Heights
    BY <1>1, MaxIsHighest
  <2>2. blocks # {} => days[DayOf[Max(blocks)]] \in DayRow
    BY <2>1 DEF TypeOK, Days
  <2>3. blocks # {} => days[DayOf[Max(blocks)]].yet \in Heights \cup {NoHeight}
    BY <2>2 DEF DayRow
  <2> QED
    BY <2>3, ConstantsAssumption DEF EnterInsert, Heights, NoHeight
<1>3. CASE blocks = {}
  <2>1. top = StartHeight /\ last' = 0
    BY <1>1, <1>2, <1>3, MaxOrIsHighest, ConstantsAssumption DEF NoHeight
  <2> QED
    BY <1>2, <1>3, <1>5, <2>1, ConstantsAssumption DEF FirstInserted
<1>4. CASE blocks # {}
  <2>1. top \in blocks /\ (\A x \in blocks : x <= top) /\ last' \in blocks
    BY <1>1, <1>2, <1>4, MaxOrIsHighest, ConstantsAssumption DEF NoHeight
  <2> HIDE DEF top
  <2>a. blocks \subseteq FirstInserted..MaxHead
    BY DEF TableInv
  <2>2. top \in FirstInserted..MaxHead /\ last' \in 0..MaxHead
    BY <2>1, <2>a, ConstantsAssumption DEF FirstInserted
  <2>3. \A h \in blocks : h < top + 1
    BY <2>a, <2>1, <2>2, ConstantsAssumption DEF FirstInserted
  <2>4. \A h \in FirstInserted..MaxHead : h < top + 1 /\ h \notin blocks => h < top
    BY <2>1, <2>2, ConstantsAssumption DEF FirstInserted
  <2> QED
    BY <1>2, <1>5, <2>1, <2>2, <2>3, <2>4, ConstantsAssumption DEF FirstInserted
<1> QED
  BY <1>3, <1>4
------------------------------------------------------------------------------
\* Ending a run respects the types of the local variables it clears.
LEMMA EndRunType ==
  ASSUME EndRun
  PROVE  pc' \in Phases /\ cursor' \in Nat /\ end' \in 0..MaxHead
         /\ from' \in 0..(MaxHead + 1) /\ last' \in 0..MaxHead
         /\ savedYet' \in 0..MaxHead
BY ConstantsAssumption DEF EndRun, Phases, NoHeight

\* The day of a height is one of the days with a row.
LEMMA DayOfHeight == \A h \in Heights : DayOf[h] \in Days
BY DEF Days

\* While a block is being inserted, the cursor is a height of the chain.
LEMMA InsertingHeight ==
  ASSUME TypeOK, ControlInv, pc \in Inserting
  PROVE  cursor \in Heights
BY ConstantsAssumption DEF TypeOK, ControlInv, FirstInserted, Heights

\* A download starts at a positive height.
LEMMA DownloadStart ==
  ASSUME TypeOK, NEW avail \in 1..MaxHead
  PROVE  DownloadFrom(avail) \in Nat \ {0}
<1>1. blocks \in SUBSET Heights /\ cache \in SUBSET Heights
  BY DEF TypeOK
<1>2. blocks # {} => Max(blocks) \in Heights
  BY <1>1, MaxIsHighest
<1>3. MaxOr(cache, 1) \in Nat \ {0}
  <2>1. MaxOr(cache, 1) = 1 \/ MaxOr(cache, 1) \in cache
    BY <1>1, MaxOrIsHighest, 1 \in Nat
  <2>2. cache \subseteq Nat \ {0} /\ 1 \in Nat \ {0}
    BY <1>1, ConstantsAssumption DEF Heights
  <2> QED
    BY <2>1, <2>2, Zenon
<1>4. FirstHeight \in Nat \ {0}
  BY ConstantsAssumption DEF FirstHeight
<1>5. missing # NoHeight => missing \in Nat \ {0}
  BY ConstantsAssumption DEF TypeOK, Heights, NoHeight
<1> QED
  BY <1>2, <1>3, <1>4, <1>5, ConstantsAssumption DEF DownloadFrom, Heights

\* Initially every variable has its type and nothing is in the table.
LEMMA InitInv == Init => IInv
<1> SUFFICES ASSUME Init PROVE IInv
  OBVIOUS
<1>1. TypeOK
  <2>1. FirstHeight \in Heights
    BY ConstantsAssumption DEF FirstHeight, Heights
  <2>2. days \in [Days -> DayRow]
    BY DEF Init, DayRow, NoRow
  <2> QED
    BY <2>1, <2>2, ConstantsAssumption DEF Init, TypeOK, Phases, NoHeight
<1>2. ControlInv /\ TableInv /\ ProcessInv /\ GapInv
  BY DEF Init, ControlInv, TableInv, ProcessInv, GapInv, ProcessedIsPrefix,
         CacheDeletedWhenDone, Inserting
<1> QED
  BY <1>1, <1>2 DEF IInv

\* Every action respects the type invariant, given where the run is.
LEMMA TypeStep == TypeOK /\ ControlInv /\ TableInv /\ [Next]_vars => TypeOK'
<1> SUFFICES ASSUME TypeOK, ControlInv, TableInv, [Next]_vars
             PROVE  TypeOK'
  OBVIOUS
<1> USE DEF vars, world, db, disk, run
<1>1. CASE UNCHANGED vars
  BY <1>1 DEF TypeOK
<1>2. CASE ChainGrows
  BY <1>2, ConstantsAssumption DEF ChainGrows, TypeOK, Heights
<1>3. ASSUME NEW avail \in 1..head, SkipDownload(avail)
      PROVE  TypeOK'
  <2>1. avail \in 0..MaxHead
    BY <1>3, ConstantsAssumption DEF TypeOK, Heights
  <2>2. EnterInsert(avail)
    BY <1>3 DEF SkipDownload
  <2>3. from' \in 0..MaxHead + 1 /\ cursor' \in Nat /\ pc' \in Phases
        /\ end' \in 0..MaxHead /\ last' \in 0..MaxHead /\ savedYet' \in 0..MaxHead
    BY <2>1, <2>2, InsertStartsAboveTable, ConstantsAssumption DEF FirstInserted, Phases
  <2> QED
    BY <1>3, <2>3 DEF SkipDownload, TypeOK
<1>4. ASSUME NEW avail \in 1..head, StartDownload(avail)
      PROVE  TypeOK'
  <2>1. avail \in 1..MaxHead
    BY <1>4, ConstantsAssumption DEF TypeOK, Heights
  <2>2. DownloadFrom(avail) \in Nat \ {0}
    BY <2>1, DownloadStart DEF TypeOK
  <2>3. end' \in 0..MaxHead
    BY <1>4, <2>1, <2>2, ConstantsAssumption DEF StartDownload, DownloadTo
  <2>4. cursor' \in Nat /\ pc' \in Phases /\ missing' \in Heights \cup {NoHeight}
    BY <1>4, <2>2 DEF StartDownload, Phases
  <2> QED
    BY <1>4, <2>3, <2>4 DEF StartDownload, TypeOK
<1>5. CASE Dispatch
  <2>1. cursor \in Heights
    BY <1>5, ConstantsAssumption DEF Dispatch, TypeOK, ControlInv, Heights
  <2>2. fetches' \subseteq Fetch
    <3> DEFINE cached == cursor \in cache
    <3>1. cached \in BOOLEAN
      OBVIOUS
    <3>2. fetches' = fetches \cup
            {[height |-> cursor, known |-> cached, stage |-> "fetch", orphan |-> FALSE]}
      BY <1>5 DEF Dispatch
    <3> HIDE DEF cached
    <3>3. [height |-> cursor, known |-> cached, stage |-> "fetch", orphan |-> FALSE] \in Fetch
      BY <2>1, <3>1, Zenon DEF Fetch
    <3> QED
      BY <3>2, <3>3 DEF TypeOK
  <2> QED
    BY <1>5, <2>2 DEF Dispatch, TypeOK
<1>6. CASE DownloadDone
  <2>1. EnterInsert(end) /\ end \in 0..MaxHead
    BY <1>6 DEF DownloadDone, TypeOK
  <2>2. from' \in 0..MaxHead + 1 /\ cursor' \in Nat /\ pc' \in Phases
        /\ end' \in 0..MaxHead /\ last' \in 0..MaxHead /\ savedYet' \in 0..MaxHead
    BY <2>1, InsertStartsAboveTable, ConstantsAssumption DEF FirstInserted, Phases
  <2> QED
    BY <1>6, <2>2 DEF DownloadDone, TypeOK
<1>7. ASSUME NEW w \in fetches, PutResults(w)
      PROVE  TypeOK'
  <2>1. [w EXCEPT !.stage = "put"] \in Fetch /\ w.height \in TxHeights
    BY <1>7 DEF TypeOK, PutResults, Fetch
  <2> QED
    BY <1>7, <2>1 DEF PutResults, TypeOK
<1>8. ASSUME NEW w \in fetches, PutBlock(w)
      PROVE  TypeOK'
  <2>1. w.height \in Heights
    BY <1>8 DEF TypeOK, Fetch
  <2> QED
    BY <1>8, <2>1 DEF PutBlock, TypeOK
<1>9. ASSUME NEW w \in fetches, FetchFails(w)
      PROVE  TypeOK'
  <2>1. faults' \in 0..MaxFaults
    BY <1>9, ConstantsAssumption DEF FetchFails, Fault, TypeOK
  <2>2. CASE w.orphan
    BY <1>9, <2>1, <2>2 DEF FetchFails, TypeOK
  <2>3. CASE ~w.orphan
    <3>1. \A v \in fetches : [v EXCEPT !.orphan = TRUE] \in Fetch
      BY DEF TypeOK, Fetch
    <3>2. fetches' \subseteq Fetch /\ EndRun
      BY <1>9, <2>3, <3>1 DEF FetchFails
    <3> QED
      BY <1>9, <2>1, <3>2, EndRunType DEF FetchFails, TypeOK
  <2> QED
    BY <2>2, <2>3
<1>10. CASE BlockNotCached
  <2>1. cursor \in Heights
    BY <1>10, ConstantsAssumption
       DEF BlockNotCached, TypeOK, ControlInv, Heights, FirstInserted
  <2> QED
    BY <1>10, <2>1, EndRunType DEF BlockNotCached, TypeOK
<1>11. CASE ResultsNotCached
  BY <1>11, EndRunType DEF ResultsNotCached, TypeOK
<1>12. CASE ReadBlock
  BY <1>12 DEF ReadBlock, TypeOK, Phases
<1>13. CASE OpenDay
  <2>1. cursor \in Heights
    BY <1>13, InsertingHeight DEF OpenDay, Inserting
  <2>2. [first |-> cursor, last |-> NoHeight, yet |-> cursor] \in DayRow
    BY <2>1 DEF DayRow
  <2>3. days' \in [Days -> DayRow]
    BY <1>13, <2>2 DEF OpenDay, TypeOK
  <2> QED
    BY <1>13, <2>3 DEF OpenDay, TypeOK, Phases
<1>14. CASE CloseDay
  <2>1. last \in Heights
    BY <1>14, ConstantsAssumption DEF CloseDay, TypeOK, ControlInv, Heights, NoHeight
  <2> DEFINE yet(d) == SaveYet(days[d].yet, savedYet, last)
  <2>2. \A d \in Days : [days[d] EXCEPT !.last = last, !.yet = yet(d)] \in DayRow
    BY <2>1 DEF TypeOK, DayRow, SaveYet
  <2>3. days' \in [Days -> DayRow]
    BY <1>14, <2>1, <2>2, DayOfHeight DEF CloseDay, TypeOK
  <2> QED
    BY <1>14, <2>3 DEF CloseDay, TypeOK, Phases
<1>15. ASSUME Push
       PROVE  /\ cursor \in Heights /\ pc' \in Phases /\ cursor' \in Nat
              /\ last' \in 0..MaxHead /\ cursor + 1 \in 0..(MaxHead + 1)
              /\ cursor \in 0..MaxHead /\ NoHeight \in 0..MaxHead
              /\ HeldYet \in 0..MaxHead
  <2>1. cursor \in Heights
    BY <1>15, InsertingHeight DEF Push, Inserting
  <2>2. HeldYet \in 0..MaxHead
    <3>1. days[DayOf[cursor]] \in DayRow
      BY <2>1, DayOfHeight DEF TypeOK
    <3>2. days[DayOf[cursor]].yet \in Heights \cup {NoHeight}
      BY <3>1 DEF DayRow
    <3> QED
      BY <3>2, ConstantsAssumption DEF HeldYet, TypeOK, Heights, NoHeight
  <2> QED
    BY <1>15, <2>1, <2>2, ConstantsAssumption DEF Push, Heights, Phases, NoHeight
<1>16. CASE CollectBlock
  BY <1>16, <1>15 DEF CollectBlock, Push, TypeOK
<1>17. CASE CommitBatch
  <2>1. Push /\ cursor \in Heights
    BY <1>17, <1>15 DEF CommitBatch
  <2>2. from..cursor \subseteq Heights
    BY <2>1, ConstantsAssumption DEF Push, ControlInv, Inserting, FirstInserted, Heights
  <2> DEFINE yet(d) == SaveYet(days[d].yet, HeldYet, cursor)
  <2>3. \A d \in Days : [days[d] EXCEPT !.yet = yet(d)] \in DayRow
    BY <2>1 DEF TypeOK, DayRow, SaveYet
  <2>4. days' \in [Days -> DayRow]
    BY <1>17, <2>1, <2>3, DayOfHeight DEF CommitBatch, TypeOK
  <2> QED
    BY <1>17, <1>15, <2>2, <2>4 DEF CommitBatch, Push, TypeOK
<1>18. CASE BatchCreateFails
  BY <1>18, <1>15, ConstantsAssumption DEF BatchCreateFails, Push, Fault, TypeOK
<1>19. CASE BatchSaveFails \/ BatchCommitFails
  <2>1. BatchRolledBack /\ Push /\ cursor \in Heights /\ savedYet' \in 0..MaxHead
    BY <1>19, <1>15 DEF BatchSaveFails, BatchCommitFails, BatchRolledBack
  <2>2. from..cursor \subseteq Heights
    BY <2>1, ConstantsAssumption DEF Push, ControlInv, Inserting, FirstInserted, Heights
  <2> QED
    BY <1>15, <2>1, <2>2, ConstantsAssumption DEF BatchRolledBack, Push, Fault, TypeOK
<1>20. CASE InsertDone
  <2>1. cursor' \in Nat
    <3>1. processed \in SUBSET Heights
      BY DEF TypeOK
    <3>2. processed # {} => Max(processed) \in Heights
      BY <3>1, MaxIsHighest
    <3>3. Heights \subseteq Nat
      BY ConstantsAssumption DEF Heights
    <3>4. FirstHeight \in Nat
      BY ConstantsAssumption DEF FirstHeight
    <3>5. CASE processed = {}
      BY <1>20, <3>4, <3>5 DEF InsertDone
    <3>6. CASE processed # {}
      <4>1. cursor' = Max(processed) + 1 /\ Max(processed) \in Nat
        BY <1>20, <3>2, <3>3, <3>6 DEF InsertDone
      <4> QED
        BY <4>1
    <3> QED
      BY <3>5, <3>6
  <2> QED
    BY <1>20, <2>1, ConstantsAssumption DEF InsertDone, TypeOK, Phases, NoHeight
<1>21. CASE ProcessBlocks
  BY <1>21, ConstantsAssumption DEF ProcessBlocks, Group, TypeOK
<1>22. CASE ProcessMissesBlock
  <2>1. Group \ cache \in SUBSET Heights /\ Group \ cache # {}
    BY <1>22 DEF ProcessMissesBlock, Group, TypeOK
  <2>2. Min(Group \ cache) \in Heights
    <3> HIDE DEF Group
    <3> QED
      BY <2>1, MinIsLowest
  <2> QED
    BY <1>22, <2>2, EndRunType DEF ProcessMissesBlock, TypeOK
<1>23. CASE ProcessDone
  BY <1>23, EndRunType DEF ProcessDone, TypeOK, Phases
<1>24. CASE ClearBlocks
  BY <1>24 DEF ClearBlocks, TypeOK, Phases
<1>25. CASE ClearResults
  BY <1>25, EndRunType DEF ClearResults, TypeOK
<1>26. CASE RunFails
  BY <1>26, EndRunType, ConstantsAssumption DEF RunFails, Fault, TypeOK
<1>27. CASE Crash
  BY <1>27, EndRunType, ConstantsAssumption DEF Crash, Fault, TypeOK
<1> QED
  BY <1>1, <1>2, <1>3, <1>4, <1>5, <1>6, <1>7, <1>8, <1>9, <1>10, <1>11, <1>12, <1>13,
     <1>14, <1>16, <1>17, <1>18, <1>19, <1>20, <1>21, <1>22, <1>23, <1>24, <1>25,
     <1>26, <1>27
     DEF Next, StartSync, Insert, Process, Failures
------------------------------------------------------------------------------
\* The conjuncts of IInv besides the types.
RestInv == ControlInv /\ TableInv /\ ProcessInv /\ GapInv

\* They survive whatever neither moves the run nor touches the tables.
LEMMA QuietStep ==
  ASSUME RestInv, UNCHANGED <<run, blocks, processed, lost>>
  PROVE  RestInv'
BY DEF RestInv, ControlInv, TableInv, ProcessInv, GapInv, ProcessedIsPrefix,
       CacheDeletedWhenDone, run

\* They survive the end of a run.
LEMMA EndRunStep ==
  ASSUME RestInv, EndRun, UNCHANGED <<blocks, processed, lost>>
  PROVE  RestInv'
BY DEF RestInv, ControlInv, TableInv, ProcessInv, GapInv, ProcessedIsPrefix,
       CacheDeletedWhenDone, EndRun, Inserting

\* They survive the entry into insertBlocks.
LEMMA EnterInsertStep ==
  ASSUME TypeOK, RestInv, NEW to \in 0..MaxHead, EnterInsert(to),
         UNCHANGED <<blocks, processed, lost>>
  PROVE  RestInv'
<1>1. /\ pc' = "insert" /\ from' = cursor' /\ from' \in FirstInserted..MaxHead + 1
      /\ \A h \in blocks : h < from'
      /\ \A h \in FirstInserted..MaxHead :
           h < from' /\ h \notin blocks => \E g \in blocks : h < g
  BY InsertStartsAboveTable DEF RestInv
<1>2. ControlInv' /\ TableInv'
  BY <1>1, ConstantsAssumption DEF RestInv, ControlInv, TableInv, Inserting, FirstInserted
<1>3. ProcessInv'
  BY <1>1 DEF RestInv, ProcessInv, ProcessedIsPrefix, CacheDeletedWhenDone
<1>4. GapInv'
  <2>1. ASSUME NEW h \in FirstInserted..MaxHead, h \notin blocks,
               (\E g \in blocks : h < g) \/ h < from'
        PROVE  h \in lost
    BY <1>1, <2>1 DEF RestInv, GapInv
  <2> QED
    BY <2>1 DEF GapInv
<1> QED
  BY <1>2, <1>3, <1>4 DEF RestInv

\* Every action preserves them.
LEMMA RestStep == IInv /\ [Next]_vars => RestInv'
<1> SUFFICES ASSUME TypeOK, RestInv, [Next]_vars
             PROVE  RestInv'
  BY DEF IInv, RestInv
<1> USE DEF vars, world, db, disk, run
<1>1. blocks \subseteq Heights /\ processed \subseteq blocks /\ cursor \in Nat
      /\ from \in Nat /\ end \in 0..MaxHead
  BY ConstantsAssumption DEF TypeOK
<1>2. blocks \subseteq FirstInserted..MaxHead /\ FirstInserted \in Nat \ {0}
  BY ConstantsAssumption DEF RestInv, TableInv, FirstInserted
<1>3. CASE UNCHANGED vars
  BY <1>3, QuietStep
<1>4. CASE ChainGrows
  BY <1>4, QuietStep DEF ChainGrows
<1>5. ASSUME NEW avail \in 1..head, SkipDownload(avail)
      PROVE  RestInv'
  <2>1. avail \in 0..MaxHead
    BY <1>5, ConstantsAssumption DEF TypeOK, Heights
  <2> QED
    BY <1>5, <2>1, EnterInsertStep DEF SkipDownload
<1>6. ASSUME NEW avail \in 1..head, StartDownload(avail)
      PROVE  RestInv'
  <2>1. cursor' >= 1
    <3>1. avail \in 1..MaxHead
      BY <1>6, ConstantsAssumption DEF TypeOK, Heights
    <3> QED
      BY <1>6, <3>1, DownloadStart DEF StartDownload
  <2> QED
    BY <1>6, <2>1 DEF StartDownload, RestInv, ControlInv, TableInv, ProcessInv, GapInv,
       ProcessedIsPrefix, CacheDeletedWhenDone, Inserting
<1>7. CASE Dispatch
  BY <1>1, <1>7 DEF Dispatch, RestInv, ControlInv, TableInv, ProcessInv, GapInv,
     ProcessedIsPrefix, CacheDeletedWhenDone, Inserting
<1>8. CASE DownloadDone
  BY <1>1, <1>8, EnterInsertStep DEF DownloadDone
<1>9. ASSUME NEW w \in fetches, PutResults(w) \/ PutBlock(w)
      PROVE  RestInv'
  BY <1>9, QuietStep DEF PutResults, PutBlock
<1>10. ASSUME NEW w \in fetches, FetchFails(w)
       PROVE  RestInv'
  BY <1>10, QuietStep, EndRunStep DEF FetchFails
<1>11. CASE BlockNotCached \/ ResultsNotCached
  BY <1>11, EndRunStep DEF BlockNotCached, ResultsNotCached
<1>12. CASE ReadBlock
  BY <1>12 DEF ReadBlock, RestInv, ControlInv, TableInv, ProcessInv, GapInv,
     ProcessedIsPrefix, CacheDeletedWhenDone, Inserting
<1>13. CASE OpenDay
  BY <1>13 DEF OpenDay, RestInv, ControlInv, TableInv, ProcessInv, GapInv,
     ProcessedIsPrefix, CacheDeletedWhenDone, Inserting
<1>14. CASE CloseDay
  BY <1>14 DEF CloseDay, RestInv, ControlInv, TableInv, ProcessInv, GapInv,
     ProcessedIsPrefix, CacheDeletedWhenDone, Inserting
<1>15. ASSUME Push
       PROVE  /\ from \in FirstInserted..cursor /\ cursor \in Nat
              /\ \A h \in blocks : h < from
              /\ pc' = "insert" /\ cursor' = cursor + 1 /\ processed' = processed
              /\ \A h \in FirstInserted..MaxHead : h < from /\ h \notin blocks => h \in lost
  BY <1>1, <1>15 DEF Push, RestInv, ControlInv, TableInv, GapInv, Inserting
<1>16. CASE CollectBlock \/ BatchCreateFails
  <2>1. Push /\ UNCHANGED <<blocks, processed, from, lost>>
    BY <1>16, <1>15 DEF CollectBlock, BatchCreateFails
  <2>2. from \in FirstInserted..cursor + 1
    BY <2>1, <1>2, <1>15
  <2> QED
    BY <2>1, <2>2, <1>15 DEF RestInv, ControlInv, TableInv, ProcessInv, GapInv,
       ProcessedIsPrefix, CacheDeletedWhenDone, Inserting
<1>17. CASE CommitBatch
  <2>1. /\ Push /\ blocks' = blocks \cup (from..cursor) /\ from' = cursor + 1
        /\ lost' = lost \ (from..cursor)
    BY <1>17 DEF CommitBatch
  <2>2. cursor \in Heights
    BY <2>1, InsertingHeight DEF Push, Inserting, RestInv
  <2>3. ControlInv'
    BY <2>1, <1>2, <1>15 DEF ControlInv, Inserting
  <2>4. TableInv'
    <3>1. from..cursor \subseteq FirstInserted..MaxHead
      BY <2>1, <2>2, <1>2, <1>15, ConstantsAssumption DEF Heights
    <3>2. \A h \in blocks' : h < from'
      BY <2>1, <1>2, <1>15
    <3> QED
      BY <2>1, <3>1, <3>2, <1>2 DEF TableInv
  <2>5. ProcessInv'
    <3>1. ASSUME NEW h \in processed, NEW g \in blocks', g < h
          PROVE  g \in processed
      <4>1. h \in blocks /\ h < from /\ h \in Int
        BY <1>1, <1>2, <1>15, <2>1
      <4>2. g \in blocks
        BY <2>1, <3>1, <4>1, <1>2, <1>15
      <4> QED
        BY <3>1, <4>2 DEF RestInv, ProcessInv, ProcessedIsPrefix
    <3> QED
      BY <2>1, <3>1, <1>15 DEF ProcessInv, ProcessedIsPrefix, CacheDeletedWhenDone
  <2>6. GapInv'
    <3>1. ASSUME NEW h \in FirstInserted..MaxHead, h \notin blocks',
                 (\E g \in blocks' : h < g) \/ h < from'
          PROVE  h \in lost'
      <4>1. h \in Int /\ from \in Int /\ h \notin blocks /\ h \notin from..cursor
        BY <2>1, <3>1, <1>1, <1>2
      <4>2. h < cursor + 1
        BY <2>1, <3>1, <4>1, <1>2, <1>15
      <4>3. h < from
        BY <4>1, <4>2, <2>1, <1>15
      <4> QED
        BY <2>1, <4>1, <4>3, <1>15
    <3> QED
      BY <3>1, <2>1, <1>15 DEF GapInv, Inserting
  <2> QED
    BY <2>3, <2>4, <2>5, <2>6 DEF RestInv
<1>18. CASE BatchSaveFails \/ BatchCommitFails
  <2>1. /\ Push /\ blocks' = blocks /\ from' = cursor + 1
        /\ lost' = lost \cup (from..cursor)
    BY <1>18 DEF BatchSaveFails, BatchCommitFails, BatchRolledBack
  <2>2. ControlInv' /\ TableInv'
    BY <2>1, <1>2, <1>15 DEF ControlInv, TableInv, Inserting
  <2>3. ProcessInv'
    BY <2>1, <1>15 DEF RestInv, ProcessInv, ProcessedIsPrefix, CacheDeletedWhenDone
  <2>4. GapInv'
    <3>1. ASSUME NEW h \in FirstInserted..MaxHead, h \notin blocks,
                 (\E g \in blocks : h < g) \/ h < cursor + 1
          PROVE  h \in lost'
      <4>1. h < from \/ h \in from..cursor
        BY <2>1, <3>1, <1>1, <1>2, <1>15
      <4> QED
        BY <2>1, <3>1, <4>1, <1>15
    <3> QED
      BY <3>1, <2>1, <1>15 DEF GapInv, Inserting
  <2> QED
    BY <2>2, <2>3, <2>4 DEF RestInv
<1>19. CASE InsertDone
  <2>1. /\ pc' = "process" /\ UNCHANGED <<blocks, processed, lost>>
        /\ cursor' = IF processed = {} THEN FirstHeight ELSE Max(processed) + 1
    BY <1>19 DEF InsertDone
  <2>2. cursor' >= 1 /\ \A h \in blocks : h < cursor' => h \in processed
    <3>1. CASE processed = {}
      <4>1. FirstHeight \in Nat /\ 1 <= FirstHeight /\ FirstHeight <= FirstInserted
        BY ConstantsAssumption DEF FirstHeight, FirstInserted
      <4> QED
        BY <2>1, <3>1, <4>1, <1>2
    <3>2. CASE processed # {}
      <4> DEFINE top == Max(processed)
      <4>1. top \in processed /\ cursor' = top + 1
        BY <2>1, <3>2, <1>1, MaxIsHighest
      <4> HIDE DEF top
      <4>2. top \in Int /\ top >= 1 /\ \A h \in blocks : h < top + 1 => h < top \/ h = top
        BY <4>1, <1>1, <1>2
      <4> QED
        BY <4>1, <4>2 DEF RestInv, ProcessInv, ProcessedIsPrefix
    <3> QED
      BY <3>1, <3>2
  <2> QED
    BY <2>1, <2>2 DEF RestInv, ControlInv, TableInv, ProcessInv, GapInv,
       ProcessedIsPrefix, CacheDeletedWhenDone, Inserting
<1>20. CASE ProcessBlocks
  <2>1. /\ pc = "process" /\ pc' = pc /\ UNCHANGED <<blocks, from, last, end, lost>>
        /\ processed' = processed \cup Group /\ cursor' = cursor + ProcessGroup
    BY <1>20 DEF ProcessBlocks
  <2>2. \A h \in blocks : h < cursor => h \in processed
    BY <2>1 DEF RestInv, ProcessInv
  <2>3. ASSUME NEW h \in blocks, h <= cursor + ProcessGroup
        PROVE  h \in processed'
    <3>1. h \in Int /\ cursor \in Int
      BY <1>1, <1>2
    <3>2. CASE h < cursor
      BY <2>1, <2>2, <3>2
    <3>3. CASE cursor <= h
      BY <2>1, <2>3, <3>3 DEF Group
    <3> QED
      BY <3>1, <3>2, <3>3
  <2>4. ASSUME NEW h \in processed', NEW g \in blocks, g < h
        PROVE  g \in processed'
    <3>1. CASE h \in processed
      BY <2>1, <2>4, <3>1 DEF RestInv, ProcessInv, ProcessedIsPrefix
    <3>2. CASE h \in Group
      <4>1. h \in Int /\ g \in Int /\ h <= cursor + ProcessGroup
        BY <3>2, <1>2 DEF Group
      <4> QED
        BY <2>3, <2>4, <4>1, <1>1, ConstantsAssumption
    <3> QED
      BY <2>1, <3>1, <3>2
  <2>5. ProcessInv'
    <3>1. \A h \in blocks : h < cursor' => h <= cursor + ProcessGroup
      BY <2>1, <1>1, <1>2, ConstantsAssumption
    <3> QED
      BY <2>1, <2>3, <2>4, <3>1 DEF ProcessInv, ProcessedIsPrefix, CacheDeletedWhenDone
  <2>6. ControlInv' /\ TableInv' /\ GapInv'
    BY <2>1, <1>1, ConstantsAssumption
       DEF RestInv, ControlInv, TableInv, GapInv, Inserting
  <2> QED
    BY <2>5, <2>6 DEF RestInv
<1>21. CASE ProcessMissesBlock
  BY <1>21, EndRunStep DEF ProcessMissesBlock
<1>22. CASE ProcessDone
  <2>1. CASE keepCache
    BY <1>22, <2>1, EndRunStep DEF ProcessDone
  <2>2. CASE ~keepCache
    <3>1. \A h \in blocks : h < cursor
      <4> DEFINE top == MaxOr(blocks, 0)
      <4>1. cursor > top
        BY <1>22 DEF ProcessDone
      <4>2. blocks # {} => top \in blocks /\ \A h \in blocks : h <= top
        BY <1>1, MaxOrIsHighest, 0 \in Nat
      <4> HIDE DEF top
      <4>3. ASSUME NEW h \in blocks PROVE h < cursor
        <5>1. top \in blocks /\ h <= top
          BY <4>2
        <5>2. h \in Int /\ top \in Int
          BY <5>1, <1>2, ConstantsAssumption
        <5> QED
          BY <5>1, <5>2, <4>1, <1>1
      <4> QED
        BY <4>3
    <3>2. processed = blocks
      BY <1>22, <3>1, <1>1 DEF ProcessDone, RestInv, ProcessInv
    <3> QED
      BY <1>22, <2>2, <3>2 DEF ProcessDone, RestInv, ControlInv, TableInv, ProcessInv,
         GapInv, ProcessedIsPrefix, CacheDeletedWhenDone, Inserting
  <2> QED
    BY <2>1, <2>2
<1>23. CASE ClearBlocks
  BY <1>23 DEF ClearBlocks, RestInv, ControlInv, TableInv, ProcessInv, GapInv,
     ProcessedIsPrefix, CacheDeletedWhenDone, Inserting
<1>24. CASE ClearResults \/ RunFails \/ Crash
  BY <1>24, EndRunStep DEF ClearResults, RunFails, Crash
<1> QED
  BY <1>3, <1>4, <1>5, <1>6, <1>7, <1>8, <1>9, <1>10, <1>11, <1>12, <1>13, <1>14,
     <1>16, <1>17, <1>18, <1>19, <1>20, <1>21, <1>22, <1>23, <1>24
     DEF Next, StartSync, Insert, Process, Failures
------------------------------------------------------------------------------
\* IInv is an invariant: the four parts that are not types hold together only,
\* each is needed for the others' steps.
THEOREM Invariance == Spec => []IInv
<1>1. Init => IInv
  BY InitInv
<1>2. IInv /\ [Next]_vars => IInv'
  <2>1. IInv /\ [Next]_vars => TypeOK'
    BY TypeStep DEF IInv
  <2> QED
    BY <2>1, RestStep DEF IInv, RestInv
<1> QED
  BY <1>1, <1>2, PTL DEF Spec

\* Every variable of the indexer keeps its type, whatever fails: in particular
\* no height outside the chain enters a table, the cache or missingBlock.
THEOREM TypeCorrect == Spec => []TypeOK
<1>1. IInv => TypeOK
  BY DEF IInv
<1> QED
  BY <1>1, Invariance, PTL

\* Processing never leaves a row behind below a processed one, for every group
\* size and with rollbacks and restarts anywhere.
THEOREM ProcessingIsPrefix == Spec => []ProcessedIsPrefix
<1>1. IInv => ProcessedIsPrefix
  BY DEF IInv, ProcessInv
<1> QED
  BY <1>1, Invariance, PTL

\* The cache is cleared only when every row of the table was processed.
THEOREM CacheClearedLast == Spec => []CacheDeletedWhenDone
<1>1. IInv => CacheDeletedWhenDone
  BY DEF IInv, ProcessInv
<1> QED
  BY <1>1, Invariance, PTL

\* A height below the table's top without a row was dropped with its batch: no
\* interleaving of downloads, retries and restarts skips a height otherwise.
THEOREM OnlyLostBatchesLeaveGaps == Spec => []GapsAreLostBatches
<1>1. IInv => GapsAreLostBatches
  <2> SUFFICES ASSUME IInv, NEW h \in Gaps PROVE h \in lost
    BY DEF GapsAreLostBatches
  <2> DEFINE top == MaxOr(blocks, StartHeight)
  <2>1. h \in FirstInserted..top /\ h \notin blocks
    BY DEF Gaps
  <2>2. /\ blocks = {} => top = StartHeight
        /\ blocks # {} => top \in blocks
    BY MaxOrIsHighest, ConstantsAssumption DEF IInv, TypeOK
  <2>3. blocks \subseteq FirstInserted..MaxHead
    BY DEF IInv, TableInv
  <2> HIDE DEF top
  <2>4. CASE blocks = {}
    BY <2>1, <2>2, <2>4, ConstantsAssumption DEF FirstInserted
  <2>5. CASE blocks # {}
    <3>1. top \in blocks /\ top \in FirstInserted..MaxHead
      BY <2>2, <2>3, <2>5
    <3>2. h < top /\ h \in FirstInserted..MaxHead
      BY <2>1, <3>1, ConstantsAssumption DEF FirstInserted
    <3> QED
      BY <2>1, <3>1, <3>2 DEF IInv, GapInv
  <2> QED
    BY <2>4, <2>5
<1> QED
  BY <1>1, Invariance, PTL

\* The tables implement the abstract log: a committed batch appends above every
\* row, a processed group advances in order, and nothing else changes them.
THEOREM Refinement == Spec => ImplementsLog
<1>1. Init => Log!Init
  BY DEF Init, Log!Init
<1>2. IInv /\ [Next]_vars => [Log!Next]_(Log!logVars)
  <2> SUFFICES ASSUME IInv, [Next]_vars PROVE [Log!Next]_(Log!logVars)
    OBVIOUS
  <2> USE DEF vars, world, db, disk, run
  <2>1. ASSUME UNCHANGED <<blocks, processed>>
        PROVE  [Log!Next]_(Log!logVars)
    BY <2>1 DEF Log!logVars
  <2>2. CASE CommitBatch
    <3>1. /\ Push /\ blocks' = blocks \cup (from..cursor) /\ processed' = processed
          /\ from \in FirstInserted..cursor /\ \A g \in blocks : g < from
      BY <2>2 DEF CommitBatch, Push, IInv, ControlInv, TableInv, Inserting
    <3>2. cursor \in Heights
      BY <3>1, InsertingHeight DEF Push, Inserting, IInv
    <3>3. from \in Heights /\ from <= cursor
      BY <3>1, <3>2, ConstantsAssumption DEF FirstInserted, Heights
    <3>4. Log!Append(from, cursor)
      BY <3>1, <3>3 DEF Log!Append
    <3> QED
      BY <3>2, <3>3, <3>4 DEF Log!Next, Log!Heights, Heights
  <2>3. CASE ProcessBlocks
    <3>1. /\ pc = "process" /\ processed' = processed \cup Group /\ blocks' = blocks
          /\ cursor \in Nat /\ cursor >= 1
      BY <2>3 DEF ProcessBlocks, IInv, TypeOK, ControlInv
    <3>2. CASE Group = {}
      BY <2>1, <3>1, <3>2
    <3>3. CASE Group # {}
      <4> DEFINE top == IF cursor + ProcessGroup <= MaxHead THEN cursor + ProcessGroup
                        ELSE MaxHead
      <4>1. top \in Heights
        BY <3>1, ConstantsAssumption DEF Heights
      <4>2. blocks \subseteq Heights /\ processed \subseteq blocks
            /\ ProcessedIsPrefix /\ \A h \in blocks : h < cursor => h \in processed
        BY <3>1 DEF IInv, TypeOK, ProcessInv
      <4>3. \A h \in blocks : h <= top <=> h <= cursor + ProcessGroup
        BY <3>1, <4>2, ConstantsAssumption DEF Heights
      <4>4. ASSUME NEW h \in processed PROVE h <= top
        <5>1. PICK g \in blocks \ processed : g <= cursor + ProcessGroup
          BY <3>3 DEF Group
        <5>2. h \in Int /\ g \in Int /\ ~(g < h)
          BY <4>2, <5>1, ConstantsAssumption DEF ProcessedIsPrefix, Heights
        <5> QED
          BY <5>1, <5>2, <4>2, <4>3, <3>1, ConstantsAssumption
      <4>5. ASSUME NEW h \in blocks, h <= top PROVE h \in processed \cup Group
        <5>1. h \in Int /\ h <= cursor + ProcessGroup
          BY <4>2, <4>3, <4>5, ConstantsAssumption DEF Heights
        <5> QED
          BY <5>1, <3>1, <4>2 DEF Group
      <4>6. Log!Advance(top)
        <5>1. processed' = {h \in blocks : h <= top}
          BY <3>1, <4>2, <4>3, <4>4, <4>5 DEF Group
        <5> QED
          BY <3>1, <5>1 DEF Log!Advance
      <4> HIDE DEF top
      <4> QED
        BY <4>1, <4>6 DEF Log!Next, Log!Heights, Heights
    <3> QED
      BY <3>2, <3>3
  <2>4. CASE UNCHANGED vars
    BY <2>1, <2>4
  <2>5. CASE ~CommitBatch /\ ~ProcessBlocks /\ Next
    BY <2>1, <2>5
       DEF Next, StartSync, Insert, Process, Failures, ChainGrows, SkipDownload,
           StartDownload, Dispatch, DownloadDone, PutResults, PutBlock, FetchFails,
           BlockNotCached, ResultsNotCached, ReadBlock, OpenDay, CloseDay, Push,
           CollectBlock, BatchCreateFails, BatchSaveFails, BatchCommitFails,
           BatchRolledBack, InsertDone,
           ProcessMissesBlock, ProcessDone, ClearBlocks, ClearResults, RunFails, Crash
  <2> QED
    BY <2>2, <2>3, <2>4, <2>5
<1> QED
  BY <1>1, <1>2, Invariance, PTL DEF Spec, ImplementsLog, Log!Spec
------------------------------------------------------------------------------
\* With KeepCache, results are only ever added: a call that is past its results
\* has stored them, and the phases that delete the cache are not entered.
ResultsInv == keepCache =>
  /\ cache \cap TxHeights \subseteq results
  /\ \A w \in fetches : w.stage = "put" => w.height \in results
  /\ pc \notin {"clearBlocks", "clearResults"}

\* The results of a cached block are stored before the block, by every call.
LEMMA ResultsStep == TypeOK /\ ResultsInv /\ [Next]_vars => ResultsInv'
<1> SUFFICES ASSUME TypeOK, ResultsInv, [Next]_vars, keepCache'
             PROVE  /\ cache' \cap TxHeights \subseteq results'
                    /\ \A w \in fetches' : w.stage = "put" => w.height \in results'
                    /\ pc' \notin {"clearBlocks", "clearResults"}
  BY DEF ResultsInv
<1> USE DEF vars, world, db, disk, run
<1>1. keepCache
  BY DEF Next, StartSync, Insert, Process, Failures, ChainGrows, SkipDownload,
         StartDownload, Dispatch, DownloadDone, PutResults, PutBlock, FetchFails,
         BlockNotCached, ResultsNotCached, ReadBlock, OpenDay, CloseDay, Push,
         CollectBlock, CommitBatch, BatchCreateFails, BatchSaveFails, BatchCommitFails,
         BatchRolledBack, InsertDone,
         ProcessBlocks, ProcessMissesBlock, ProcessDone, ClearBlocks, ClearResults,
         RunFails, Crash
<1>2. /\ cache \cap TxHeights \subseteq results
      /\ \A w \in fetches : w.stage = "put" => w.height \in results
      /\ pc \notin {"clearBlocks", "clearResults"}
  BY <1>1 DEF ResultsInv
<1>3. ASSUME NEW w \in fetches, PutResults(w)
      PROVE  /\ cache' \cap TxHeights \subseteq results'
             /\ \A v \in fetches' : v.stage = "put" => v.height \in results'
             /\ pc' \notin {"clearBlocks", "clearResults"}
  <2>1. [w EXCEPT !.stage = "put"].height = w.height
    BY DEF TypeOK, Fetch
  <2> QED
    BY <1>2, <1>3, <2>1 DEF PutResults
<1>4. ASSUME NEW w \in fetches, PutBlock(w)
      PROVE  /\ cache' \cap TxHeights \subseteq results'
             /\ \A v \in fetches' : v.stage = "put" => v.height \in results'
             /\ pc' \notin {"clearBlocks", "clearResults"}
  BY <1>2, <1>4 DEF PutBlock
<1>5. ASSUME NEW w \in fetches, FetchFails(w)
      PROVE  /\ cache' \cap TxHeights \subseteq results'
             /\ \A v \in fetches' : v.stage = "put" => v.height \in results'
             /\ pc' \notin {"clearBlocks", "clearResults"}
  <2>1. \A v \in fetches : [v EXCEPT !.orphan = TRUE].height = v.height
                           /\ [v EXCEPT !.orphan = TRUE].stage = v.stage
    BY DEF TypeOK, Fetch
  <2>2. CASE w.orphan
    BY <1>2, <1>5, <2>2 DEF FetchFails
  <2>3. CASE ~w.orphan
    <3>1. fetches' = {[v EXCEPT !.orphan = TRUE] : v \in fetches \ {w}}
          /\ pc' = "idle" /\ UNCHANGED <<cache, results>>
      BY <1>5, <2>3 DEF FetchFails, EndRun
    <3> QED
      BY ZenonT(60), <1>2, <2>1, <3>1
  <2> QED
    BY <2>2, <2>3
<1>6. CASE Dispatch
  BY <1>2, <1>6 DEF Dispatch
<1>7. CASE Crash
  BY <1>2, <1>7 DEF Crash, EndRun
<1>8. CASE ProcessDone
  BY <1>1, <1>2, <1>8 DEF ProcessDone, EndRun
<1>9. CASE ClearBlocks \/ ClearResults
  BY <1>2, <1>9 DEF ClearBlocks, ClearResults
<1>10. CASE UNCHANGED vars \/ ChainGrows \/ DownloadDone \/ Insert
            \/ ProcessBlocks \/ ProcessMissesBlock \/ BatchCreateFails \/ BatchSaveFails
            \/ BatchCommitFails \/ RunFails
  BY <1>2, <1>10 DEF ChainGrows, DownloadDone, EnterInsert, Insert, EndRun,
     BlockNotCached, ResultsNotCached, ReadBlock, OpenDay, CloseDay, Push, CollectBlock,
     CommitBatch, InsertDone, ProcessBlocks, ProcessMissesBlock, BatchCreateFails,
     BatchSaveFails, BatchCommitFails, BatchRolledBack, RunFails
<1>11. ASSUME NEW avail \in 1..head, StartSync(avail)
       PROVE  /\ cache' \cap TxHeights \subseteq results'
              /\ \A v \in fetches' : v.stage = "put" => v.height \in results'
              /\ pc' \notin {"clearBlocks", "clearResults"}
  BY <1>2, <1>11 DEF StartSync, SkipDownload, EnterInsert, StartDownload
<1> QED
  BY <1>3, <1>4, <1>5, <1>6, <1>7, <1>8, <1>9, <1>10, <1>11 DEF Next, Process, Failures

\* With the cache kept, a cached block with transactions never lacks its
\* results, whatever requests fail, outlive their run or end in a crash.
THEOREM CachedBlocksAreComplete == Spec => []CachedBlocksHaveResults
<1>1. Init => ResultsInv
  BY DEF Init, ResultsInv
<1>2. IInv /\ ResultsInv /\ [Next]_vars => ResultsInv'
  BY ResultsStep DEF IInv
<1>3. ResultsInv => CachedBlocksHaveResults
  BY DEF ResultsInv, CachedBlocksHaveResults
<1> QED
  BY <1>1, <1>2, <1>3, Invariance, PTL DEF Spec
------------------------------------------------------------------------------
\* The phases of insertBlocks' loop.
InLoop == pc \in Inserting \cup {"insert"}

\* The heights that are to be inserted on a day.
HeightsOf(d) == {h \in FirstInserted..MaxHead : DayOf[h] = d}

\* The heights the table or the loop has got to.
Reached == {h \in FirstInserted..MaxHead :
              (\E g \in blocks : h <= g) \/ (InLoop /\ h <= last)}

\* A closed day's lastBlockHeightYet is its last height, unless that was dropped
\* with its batch, which is then behind the loop.
Closed(d) ==
  /\ days[d].last # NoHeight
  /\ \/ days[d].yet = days[d].last
     \/ days[d].last \in lost /\ (InLoop => days[d].last < from)

\* The loop follows the last inserted block, and has opened the cursor's day
\* and closed the one before when it pushes the block.
LoopInv ==
  /\ InLoop => IF last = NoHeight THEN cursor = FirstInserted
               ELSE last = cursor - 1 /\ last >= FirstInserted
  /\ pc \in {"openDay", "closeDay"} => last = NoHeight \/ DayOf[last] # DayOf[cursor]
  /\ pc \in {"closeDay", "push"} => days[DayOf[cursor]].first # NoHeight
  /\ pc = "push" =>
       last = NoHeight \/ DayOf[last] = DayOf[cursor] \/ Closed(DayOf[last])

\* The first and last heights of the day rows are the days' own.
EndsInv ==
  \A d \in Days :
    /\ days[d].first # NoHeight =>
         days[d].first \in HeightsOf(d) /\ \A h \in HeightsOf(d) : days[d].first <= h
    /\ days[d].last # NoHeight =>
         days[d].last \in HeightsOf(d) /\ \A h \in HeightsOf(d) : h <= days[d].last

\* Every day that was reached has its row, and is closed when a later one was.
RowsInv ==
  /\ \A h \in Reached : days[DayOf[h]].first # NoHeight
  /\ \A h, g \in Reached : DayOf[h] < DayOf[g] => Closed(DayOf[h])
  /\ \A h \in blocks : h <= days[DayOf[h]].yet

\* What the loop's Day object takes to be saved is in its row, or was dropped with a
\* batch behind the loop.
SavedInv ==
  InLoop /\ last # NoHeight =>
    \/ savedYet \in {NoHeight, days[DayOf[last]].yet}
    \/ savedYet \in lost /\ savedYet < from

DayInv == LoopInv /\ EndsInv /\ RowsInv /\ SavedInv

\* What is known of the heights, the days and their order.
LEMMA HeightFacts ==
  ASSUME IInv
  PROVE  /\ FirstInserted \in Nat \ {0}
         /\ FirstInserted..MaxHead \subseteq Heights /\ Heights \subseteq Nat \ {0}
         /\ \A h \in Heights : DayOf[h] \in Nat /\ DayOf[h] \in Days
         /\ \A g, h \in Heights : g <= h => DayOf[g] <= DayOf[h]
         /\ blocks \subseteq Reached /\ Reached \subseteq FirstInserted..MaxHead
<1>1. FirstInserted \in Nat \ {0}
  BY ConstantsAssumption DEF FirstInserted
<1>2. FirstInserted..MaxHead \subseteq Heights /\ Heights \subseteq Nat \ {0}
  BY <1>1, ConstantsAssumption DEF Heights
<1>3. \A h \in Heights : DayOf[h] \in Nat /\ DayOf[h] \in Days
  BY ConstantsAssumption, DayOfHeight
<1>4. blocks \subseteq Reached
  <2>1. blocks \subseteq FirstInserted..MaxHead
    BY DEF IInv, TableInv
  <2>2. \A h \in blocks : h <= h
    BY <2>1, <1>1, ConstantsAssumption
  <2> QED
    BY <2>1, <2>2 DEF Reached
<1> QED
  BY <1>1, <1>2, <1>3, <1>4, ConstantsAssumption DEF Reached

\* A step that leaves the tables alone and gets to no new height keeps the rows.
LEMMA SameRows ==
  ASSUME EndsInv, RowsInv, UNCHANGED <<blocks, days>>, Reached' \subseteq Reached,
         \A h, g \in Reached' : DayOf[h] < DayOf[g] /\ Closed(DayOf[h]) => Closed(DayOf[h])'
  PROVE  EndsInv' /\ RowsInv'
<1>1. EndsInv'
  BY DEF EndsInv, HeightsOf
<1>2. RowsInv'
  BY DEF RowsInv
<1> QED
  BY <1>1, <1>2

\* A step out of the loop, or outside it, that leaves the tables alone.
LEMMA OutOfLoopStep ==
  ASSUME DayInv, UNCHANGED <<blocks, days, lost>>, pc' \notin Inserting \cup {"insert"}
  PROVE  DayInv'
<1>1. Reached' \subseteq Reached
  BY DEF Reached, InLoop
<1>2. LoopInv' /\ SavedInv'
  BY DEF LoopInv, SavedInv, InLoop, Inserting
<1>3. \A d : Closed(d) => Closed(d)'
  BY DEF Closed, InLoop
<1> QED
  BY <1>1, <1>2, <1>3, SameRows DEF DayInv

\* A step of something else.
LEMMA OtherStep ==
  ASSUME DayInv, UNCHANGED <<blocks, days, pc, cursor, from, last, savedYet, lost>>
  PROVE  DayInv'
<1>1. Reached' \subseteq Reached
  BY DEF Reached, InLoop
<1>2. \A d : Closed(d) => Closed(d)'
  BY DEF Closed, InLoop
<1>3. LoopInv' /\ SavedInv'
  BY <1>2 DEF DayInv, LoopInv, SavedInv, InLoop
<1> QED
  BY <1>1, <1>2, <1>3, SameRows DEF DayInv

\* The loop begins behind the table's highest block.
LEMMA EnterStep ==
  ASSUME IInv, DayInv, UNCHANGED <<blocks, days, lost>>, NEW to, EnterInsert(to)
  PROVE  DayInv'
<1>1. blocks \in SUBSET Heights /\ blocks \subseteq FirstInserted..MaxHead
  BY DEF IInv, TypeOK, TableInv
<1>2. pc' = "insert" /\ cursor' = MaxOr(blocks, StartHeight) + 1
      /\ last' = MaxOr(blocks, NoHeight) /\ from' = cursor'
  BY DEF EnterInsert
<1>3. CASE blocks = {}
  <2>1. last' = NoHeight /\ cursor' = FirstInserted
    BY <1>2, <1>3 DEF MaxOr, FirstInserted
  <2>2. Reached' = {}
    BY <2>1, <1>3, HeightFacts, ConstantsAssumption DEF Reached, NoHeight
  <2> QED
    BY <1>2, <2>1, <2>2, SameRows DEF DayInv, LoopInv, SavedInv
<1>4. CASE blocks # {}
  <2>1. last' = Max(blocks) /\ cursor' = Max(blocks) + 1
    BY <1>2, <1>4 DEF MaxOr
  <2>2. Max(blocks) \in blocks
    BY <1>1, <1>4, MaxIsHighest
  <2>3. PICK m \in blocks : last' = m /\ cursor' = m + 1
    BY <2>1, <2>2
  <2>4. last' # NoHeight /\ last' >= FirstInserted /\ last' = cursor' - 1
    <3>1. m \in Nat \ {0} /\ m >= FirstInserted
      BY <1>1, HeightFacts, ConstantsAssumption
    <3>2. m = (m + 1) - 1
      BY <3>1
    <3> QED
      BY <2>3, <3>1, <3>2 DEF NoHeight
  <2>5. Reached' \subseteq Reached
    BY <2>3 DEF Reached
  <2>6. ASSUME NEW h \in Reached', NEW g \in Reached', DayOf[h] < DayOf[g], Closed(DayOf[h])
        PROVE  Closed(DayOf[h])'
    <3> DEFINE l == days[DayOf[h]].last
    <3>1. h \in Heights /\ DayOf[h] \in Days /\ g \in Heights
      BY <2>5, HeightFacts
    <3>2. l \in HeightsOf(DayOf[h])
      BY <2>6, <3>1 DEF DayInv, EndsInv, Closed
    <3>3. l \in Heights /\ DayOf[l] = DayOf[h]
      BY <3>2, HeightFacts DEF HeightsOf
    <3>4. ~(g <= l)
      <4>1. g <= l => DayOf[g] <= DayOf[l]
        BY <3>1, <3>3, HeightFacts
      <4>2. DayOf[g] \in Nat /\ DayOf[l] \in Nat
        BY <3>1, <3>3, HeightFacts
      <4> QED
        BY <2>6, <3>3, <4>1, <4>2
    <3>5. g <= m /\ m \in Heights
      <4>1. \A x \in blocks : x <= m
        BY <1>1, <1>4, <2>1, <2>3, MaxIsHighest
      <4>2. (\E x \in blocks : g <= x) \/ g <= m
        BY <2>3 DEF Reached
      <4> QED
        BY <1>1, <3>1, <4>1, <4>2, HeightFacts
    <3>6. l < from'
      BY <1>2, <2>3, <3>1, <3>3, <3>4, <3>5, HeightFacts
    <3> QED
      BY <2>6, <3>6 DEF Closed
  <2>7. SavedInv'
    <3>1. savedYet' = days[DayOf[Max(blocks)]].yet
      BY <1>4 DEF EnterInsert
    <3> QED
      BY <2>1, <3>1 DEF SavedInv
  <2> QED
    BY <1>2, <2>4, <2>5, <2>6, <2>7, SameRows DEF DayInv, LoopInv, NoHeight
<1> QED
  BY <1>3, <1>4

\* The block's day and its predecessor's, when the loop is at a block.
LEMMA CursorFacts ==
  ASSUME IInv, LoopInv, pc \in Inserting
  PROVE  /\ cursor \in FirstInserted..MaxHead /\ cursor \in Heights /\ cursor \in Nat
         /\ DayOf[cursor] \in Days /\ DayOf[cursor] \in Nat
         /\ last = NoHeight => cursor = FirstInserted
         /\ last # NoHeight => last = cursor - 1 /\ last \in Reached
         /\ \A h \in FirstInserted..MaxHead : h < cursor => last # NoHeight /\ h <= last
         /\ \A h \in Reached : h < cursor
<1>1. cursor \in Heights /\ cursor >= FirstInserted /\ MaxHead \in Nat
  <2>1. cursor \in Heights
    BY InsertingHeight DEF IInv
  <2>2. from \in FirstInserted..cursor
    BY DEF IInv, ControlInv
  <2> QED
    BY <2>1, <2>2, HeightFacts, ConstantsAssumption
<1>2. FirstInserted \in Nat \ {0} /\ cursor \in Nat /\ cursor <= MaxHead
  BY <1>1, HeightFacts, ConstantsAssumption DEF Heights
<1>3. IF last = NoHeight THEN cursor = FirstInserted
      ELSE last = cursor - 1 /\ last >= FirstInserted
  BY DEF LoopInv, InLoop
<1>4. last # NoHeight => last \in Reached
  <2>1. last # NoHeight => last \in FirstInserted..MaxHead /\ last <= last
    BY <1>1, <1>2, <1>3
  <2> QED
    BY <2>1 DEF Reached, InLoop
<1>5. \A h \in FirstInserted..MaxHead : h < cursor => last # NoHeight /\ h <= last
  BY <1>2, <1>3
<1>6. ASSUME NEW h \in Reached PROVE h < cursor
  <2>1. h \in FirstInserted..MaxHead
    BY HeightFacts
  <2>2. CASE \E g \in blocks : h <= g
    <3>1. PICK g \in blocks : h <= g
      BY <2>2
    <3>2. g < from /\ from \in FirstInserted..cursor /\ g \in FirstInserted..MaxHead
      BY DEF IInv, TableInv, ControlInv
    <3> QED
      BY <2>1, <3>1, <3>2, <1>2
  <2>3. CASE h <= last
    BY <1>2, <1>3, <2>1, <2>3 DEF NoHeight
  <2> QED
    BY <2>2, <2>3 DEF Reached
<1> QED
  BY <1>1, <1>2, <1>3, <1>4, <1>5, <1>6, HeightFacts

\* A block of the last inserted block's day finds the day's row.
LEMMA ReadStep == IInv /\ DayInv /\ ReadBlock => DayInv'
<1> SUFFICES ASSUME IInv, DayInv, ReadBlock PROVE DayInv'
  OBVIOUS
<1>1. /\ UNCHANGED <<blocks, days, cursor, from, last, savedYet, lost>> /\ pc = "insert"
      /\ pc' = IF last # NoHeight /\ DayOf[last] = DayOf[cursor] THEN "push" ELSE "openDay"
  BY DEF ReadBlock, db
<1>2. Reached' \subseteq Reached
  BY <1>1 DEF Reached, InLoop
<1>3. pc' = "push" => days[DayOf[cursor]].first # NoHeight
  <2>1. last # NoHeight => last = cursor - 1 /\ last >= FirstInserted
    BY <1>1 DEF DayInv, LoopInv, InLoop
  <2>2. last # NoHeight => last \in Reached
    <3>1. last \in 0..MaxHead
      BY DEF IInv, TypeOK
    <3>2. last # NoHeight => last \in FirstInserted..MaxHead /\ last <= last
      BY <2>1, <3>1, HeightFacts, ConstantsAssumption
    <3> QED
      BY <1>1, <3>2 DEF Reached, InLoop
  <2> QED
    BY <1>1, <2>2 DEF DayInv, RowsInv
<1>4. LoopInv' /\ SavedInv'
  BY <1>1, <1>3 DEF DayInv, LoopInv, SavedInv, InLoop, Inserting
<1>5. \A d : Closed(d) => Closed(d)'
  BY <1>1 DEF Closed, InLoop
<1> QED
  BY <1>1, <1>2, <1>4, <1>5, SameRows DEF DayInv

\* A day is opened at its first height: no height of it was reached before.
LEMMA OpenStep == IInv /\ DayInv /\ OpenDay => DayInv'
<1> SUFFICES ASSUME IInv, DayInv, OpenDay PROVE DayInv'
  OBVIOUS
<1>1. /\ UNCHANGED <<blocks, cursor, from, last, savedYet, lost>>
      /\ pc = "openDay" /\ pc \in Inserting
      /\ pc' = IF last = NoHeight THEN "push" ELSE "closeDay"
  BY DEF OpenDay, Inserting
<1>2. Reached' \subseteq Reached
  BY <1>1 DEF Reached, InLoop, Inserting
<1>3. LoopInv
  BY DEF DayInv
<1>4. days'[DayOf[cursor]].first # NoHeight => LoopInv'
  <2>1. IF last = NoHeight THEN cursor = FirstInserted
        ELSE last = cursor - 1 /\ last >= FirstInserted
    BY <1>1 DEF DayInv, LoopInv, InLoop
  <2>2. last = NoHeight \/ DayOf[last] # DayOf[cursor]
    BY <1>1 DEF DayInv, LoopInv
  <2> QED
    BY <1>1, <2>1, <2>2 DEF LoopInv, InLoop, Inserting
<1>5. CASE days[DayOf[cursor]].first # NoHeight
  <2>1. days' = days
    BY <1>5 DEF OpenDay
  <2>2. SavedInv' /\ \A d : Closed(d) => Closed(d)'
    BY <1>1, <2>1 DEF DayInv, SavedInv, Closed, InLoop, Inserting
  <2> QED
    BY <1>1, <1>2, <1>4, <1>5, <2>1, <2>2, SameRows DEF DayInv
<1>6. CASE days[DayOf[cursor]].first = NoHeight
  <2>1. days' = [days EXCEPT ![DayOf[cursor]] =
                   [first |-> cursor, last |-> NoHeight, yet |-> cursor]]
    BY <1>6 DEF OpenDay
  <2>2. /\ cursor \in FirstInserted..MaxHead /\ cursor \in Nat /\ DayOf[cursor] \in Days
        /\ \A h \in FirstInserted..MaxHead : h < cursor => last # NoHeight /\ h <= last
        /\ cursor # NoHeight
    BY <1>1, <1>3, CursorFacts, HeightFacts DEF NoHeight
  <2>3. /\ days'[DayOf[cursor]].first = cursor /\ days'[DayOf[cursor]].last = NoHeight
        /\ \A d \in Days : d # DayOf[cursor] => days'[d] = days[d]
    BY <2>1, <2>2 DEF IInv, TypeOK
  <2>4. \A h \in Reached : DayOf[h] \in Days /\ DayOf[h] # DayOf[cursor]
    BY <1>6, HeightFacts DEF DayInv, RowsInv
  <2>5. ASSUME NEW h \in HeightsOf(DayOf[cursor]) PROVE cursor <= h
    <3>1. h \in FirstInserted..MaxHead /\ DayOf[h] = DayOf[cursor]
      BY DEF HeightsOf
    <3>2. h \notin Reached
      BY <2>4, <3>1
    <3>3. ~(h < cursor)
      BY <1>1, <2>2, <3>1, <3>2 DEF Reached, InLoop
    <3> QED
      BY <2>2, <3>1, <3>3
  <2>6. EndsInv'
    <3>1. cursor \in HeightsOf(DayOf[cursor])
      BY <2>2 DEF HeightsOf
    <3> QED
      BY <2>3, <2>5, <3>1 DEF DayInv, EndsInv, HeightsOf
  <2>7. RowsInv'
    <3>1. \A h \in Reached : days'[DayOf[h]] = days[DayOf[h]]
      BY <2>3, <2>4
    <3>2. \A h \in Reached : Closed(DayOf[h]) => Closed(DayOf[h])'
      BY <1>1, <3>1 DEF Closed, InLoop
    <3> QED
      BY <1>1, <1>2, <3>1, <3>2, HeightFacts DEF DayInv, RowsInv
  <2>8. SavedInv'
    <3>1. last # NoHeight => days'[DayOf[last]] = days[DayOf[last]]
      <4>1. last # NoHeight => last \in Reached
        BY <1>1, <1>3, CursorFacts
      <4> QED
        BY <2>3, <2>4, <4>1
    <3> QED
      BY <1>1, <3>1 DEF DayInv, SavedInv, InLoop, Inserting
  <2> QED
    BY <1>4, <2>2, <2>3, <2>6, <2>7, <2>8 DEF DayInv
<1> QED
  BY <1>5, <1>6

\* A day is closed at its last height: the cursor's is of a later day.
LEMMA CloseStep == IInv /\ DayInv /\ CloseDay => DayInv'
<1> SUFFICES ASSUME IInv, DayInv, CloseDay PROVE DayInv'
  OBVIOUS
<1> DEFINE yet == SaveYet(days[DayOf[last]].yet, savedYet, last)
<1>1. /\ UNCHANGED <<blocks, cursor, from, last, lost>>
      /\ pc = "closeDay" /\ pc \in Inserting
      /\ pc' = "push" /\ last # NoHeight /\ LoopInv /\ savedYet' = last
      /\ days' = [days EXCEPT ![DayOf[last]].last = last, ![DayOf[last]].yet = yet]
  BY DEF CloseDay, Inserting, IInv, ControlInv, DayInv
<1>2. Reached' \subseteq Reached
  BY <1>1 DEF Reached, InLoop, Inserting
<1>3. /\ last = cursor - 1 /\ last \in Reached /\ last \in FirstInserted..MaxHead
      /\ last \in Heights /\ DayOf[last] \in Days /\ DayOf[last] \in Nat
      /\ cursor \in Heights /\ cursor \in Nat /\ DayOf[cursor] \in Nat
      /\ DayOf[cursor] \in Days
  BY <1>1, CursorFacts, HeightFacts
<1>4. DayOf[last] # DayOf[cursor] /\ days[DayOf[cursor]].first # NoHeight
  BY <1>1 DEF LoopInv
<1>5. /\ days'[DayOf[last]].last = last /\ days'[DayOf[last]].yet = yet
      /\ \A d \in Days : days'[d].first = days[d].first
      /\ \A d \in Days : d # DayOf[last] => days'[d] = days[d]
  <2> HIDE DEF yet
  <2> QED
    BY <1>1, <1>3 DEF IInv, TypeOK, DayRow
<1>10. \/ yet = last
       \/ yet = days[DayOf[last]].yet /\ last \in lost /\ last < from
  <2>1. savedYet = last =>
          \/ last \in {NoHeight, days[DayOf[last]].yet}
          \/ last \in lost /\ last < from
    BY <1>1 DEF DayInv, SavedInv, InLoop
  <2> QED
    BY <1>1, <2>1 DEF SaveYet
<1> HIDE DEF yet
<1>6. ASSUME NEW h \in FirstInserted..MaxHead, DayOf[h] = DayOf[last] PROVE h <= last
  <2>1. h \in Heights /\ h \in Nat
    BY HeightFacts
  <2>2. cursor <= h => DayOf[cursor] <= DayOf[h]
    BY <1>3, <2>1, HeightFacts
  <2>3. DayOf[last] <= DayOf[cursor]
    <3>1. last <= cursor
      BY <1>3
    <3> QED
      BY <1>3, <3>1, HeightFacts
  <2>4. ~(cursor <= h)
    BY <1>3, <1>4, <1>6, <2>2, <2>3
  <2> QED
    BY <1>3, <2>1, <2>4
<1>7. EndsInv'
  <2>1. last \in HeightsOf(DayOf[last]) /\ \A h \in HeightsOf(DayOf[last]) : h <= last
    BY <1>3, <1>6 DEF HeightsOf
  <2> QED
    BY <1>5, <2>1 DEF DayInv, EndsInv, HeightsOf
<1>8. RowsInv'
  <2>1. Closed(DayOf[last])'
    BY <1>1, <1>5, <1>10 DEF Closed
  <2>2. ASSUME NEW d \in Days, Closed(d) PROVE Closed(d)'
    <3>1. InLoop
      BY <1>1 DEF InLoop
    <3>2. d # DayOf[last] => days'[d] = days[d]
      BY <1>5
    <3>3. CASE d = DayOf[last]
      BY <1>1, <2>1, <3>3
    <3>4. CASE d # DayOf[last]
      BY <1>1, <2>2, <3>1, <3>2, <3>4 DEF Closed
    <3> QED
      BY <3>3, <3>4
  <2>3. ASSUME NEW h \in blocks PROVE h <= days'[DayOf[h]].yet
    <3>1. h \in FirstInserted..MaxHead /\ DayOf[h] \in Days
      BY HeightFacts
    <3>2. h <= days[DayOf[h]].yet
      BY DEF DayInv, RowsInv
    <3> QED
      BY <1>5, <1>6, <1>10, <3>1, <3>2
  <2>4. \A h \in Reached : DayOf[h] \in Days
    BY HeightFacts
  <2>5. \A h \in Reached' : days'[DayOf[h]].first # NoHeight
    BY <1>2, <1>5, <2>4 DEF DayInv, RowsInv
  <2>6. \A h, g \in Reached' : DayOf[h] < DayOf[g] => Closed(DayOf[h])'
    BY <1>2, <2>2, <2>4 DEF DayInv, RowsInv
  <2> QED
    BY <1>1, <2>3, <2>5, <2>6 DEF RowsInv
<1>9. LoopInv'
  <2>1. Closed(DayOf[last])'
    BY <1>1, <1>5, <1>10 DEF Closed
  <2> QED
    BY <1>1, <1>3, <1>4, <1>5, <2>1 DEF LoopInv, InLoop, Inserting
<1>11. SavedInv'
  <2>1. \/ last = days'[DayOf[last]].yet
        \/ last \in lost /\ last < from
    BY <1>5, <1>10
  <2> QED
    BY <1>1, <2>1 DEF SavedInv
<1> QED
  BY <1>7, <1>8, <1>9, <1>11 DEF DayInv

\* What every outcome of a push keeps: at most the batch joins the table, and of
\* the days' rows only the last seen height of the block's day changes.
LEMMA PushStep ==
  ASSUME IInv, DayInv, Push, blocks' \subseteq blocks \cup (from..cursor),
         \A d \in Days : days'[d].first = days[d].first /\ days'[d].last = days[d].last,
         \A d \in Days : d # DayOf[cursor] => days'[d] = days[d],
         \A h \in blocks' : DayOf[h] = DayOf[cursor] => h <= days'[DayOf[h]].yet,
         lost \ (from..cursor) \subseteq lost', from' \in {from, cursor + 1}, SavedInv'
  PROVE  DayInv'
<1>1. /\ pc = "push" /\ pc \in Inserting /\ pc' = "insert" /\ cursor' = cursor + 1
      /\ last' = cursor /\ LoopInv
  BY DEF Push, Inserting, DayInv
<1>2. /\ cursor \in FirstInserted..MaxHead /\ cursor \in Heights /\ cursor \in Nat
      /\ DayOf[cursor] \in Days /\ DayOf[cursor] \in Nat
      /\ last # NoHeight => last = cursor - 1 /\ last \in Reached
      /\ \A h \in FirstInserted..MaxHead : h < cursor => last # NoHeight /\ h <= last
      /\ \A h \in Reached : h < cursor
  BY <1>1, CursorFacts
<1>3. FirstInserted \in Nat \ {0} /\ MaxHead \in Nat
  BY HeightFacts, ConstantsAssumption
<1>4. LoopInv'
  <2>1. cursor' \in Nat /\ last' = cursor' - 1 /\ last' >= FirstInserted
    BY <1>1, <1>2, <1>3
  <2>2. last' # NoHeight
    BY <1>1, <1>2, <1>3 DEF NoHeight
  <2> QED
    BY <1>1, <2>1, <2>2 DEF LoopInv
<1>5. ASSUME NEW h \in Reached'
      PROVE  h \in FirstInserted..MaxHead /\ (h = cursor \/ (h \in Reached /\ h < cursor))
  <2>1. h \in FirstInserted..MaxHead /\ h \in Int
    BY <1>3 DEF Reached
  <2>2. (\E g \in blocks : h <= g) \/ h <= cursor
    <3>1. (\E g \in blocks' : h <= g) \/ h <= cursor
      BY <1>1 DEF Reached
    <3>2. ASSUME NEW g \in from..cursor, h <= g PROVE h <= cursor
      <4>1. from \in FirstInserted..cursor
        BY <1>1 DEF IInv, ControlInv
      <4> QED
        BY <2>1, <3>2, <4>1, <1>2, <1>3
    <3> QED
      BY <3>1, <3>2
  <2>3. CASE \E g \in blocks : h <= g
    BY <1>2, <2>1, <2>3 DEF Reached
  <2>4. CASE h <= cursor /\ h # cursor
    <3>1. h <= last
      BY <1>2, <2>1, <2>4
    <3> QED
      BY <1>1, <1>2, <2>1, <2>4, <3>1 DEF Reached, InLoop
  <2> QED
    BY <2>1, <2>2, <2>3, <2>4
<1>6. \A h \in Reached' : DayOf[h] \in Days /\ DayOf[h] \in Nat /\ DayOf[h] <= DayOf[cursor]
  <2> SUFFICES ASSUME NEW h \in Reached'
               PROVE  DayOf[h] \in Days /\ DayOf[h] \in Nat /\ DayOf[h] <= DayOf[cursor]
    OBVIOUS
  <2>1. h \in Heights /\ h <= cursor
    BY <1>2, <1>3, <1>5, HeightFacts
  <2> QED
    BY <1>2, <2>1, HeightFacts
<1>7. EndsInv'
  BY DEF DayInv, EndsInv, HeightsOf
<1>8. \A h \in Reached' : days'[DayOf[h]].first # NoHeight
  <2>1. days[DayOf[cursor]].first # NoHeight
    BY <1>1 DEF LoopInv
  <2> QED
    BY <2>1, <1>5, <1>6 DEF DayInv, RowsInv
<1>11. ASSUME NEW d \in Days, d # DayOf[cursor], Closed(d)
       PROVE  Closed(d)'
  <2>1. from \in FirstInserted..cursor /\ InLoop
    BY <1>1 DEF IInv, ControlInv, InLoop
  <2>2. days[d].last \in Nat
    <3>1. days[d].last \in Heights \cup {NoHeight}
      BY DEF IInv, TypeOK, DayRow
    <3> QED
      BY <3>1, HeightFacts DEF NoHeight
  <2>3. days[d].last < from => days[d].last \notin from..cursor /\ days[d].last < from'
    BY <1>2, <1>3, <2>1, <2>2
  <2>4. days'[d] = days[d]
    BY <1>11
  <2> QED
    BY <1>11, <2>1, <2>3, <2>4 DEF Closed
<1>9. ASSUME NEW h \in Reached', NEW g \in Reached', DayOf[h] < DayOf[g]
      PROVE  Closed(DayOf[h]) /\ Closed(DayOf[h])'
  <2>1. DayOf[h] # DayOf[cursor] /\ DayOf[h] < DayOf[cursor]
    BY <1>2, <1>6, <1>9
  <2>2. h \in Reached /\ h < cursor /\ h \in FirstInserted..MaxHead
    BY <1>5, <2>1
  <2>3. /\ last # NoHeight /\ h <= last /\ last \in Reached /\ last \in Heights
        /\ h \in Heights /\ DayOf[last] \in Nat /\ DayOf[h] <= DayOf[last]
    <3>1. last # NoHeight /\ h <= last /\ last \in Reached
      BY <1>2, <2>2
    <3>2. last \in Heights /\ h \in Heights
      BY <2>2, <3>1, HeightFacts
    <3> QED
      BY <3>1, <3>2, HeightFacts
  <2>4. Closed(DayOf[h])
    <3>1. CASE DayOf[h] < DayOf[last]
      BY <2>2, <2>3, <3>1 DEF DayInv, RowsInv
    <3>2. CASE DayOf[h] = DayOf[last]
      BY <1>1, <2>1, <2>3, <3>2 DEF LoopInv
    <3> QED
      BY <1>6, <2>3, <3>1, <3>2
  <2> QED
    BY <1>6, <1>11, <2>1, <2>4
<1>10. ASSUME NEW h \in blocks', DayOf[h] # DayOf[cursor]
       PROVE  h <= days'[DayOf[h]].yet
  <2>1. CASE h \in blocks
    <3>1. DayOf[h] \in Days
      BY <2>1, HeightFacts
    <3> QED
      BY <1>10, <2>1, <3>1 DEF DayInv, RowsInv
  <2>2. CASE h \in from..cursor
    <3>1. from \in FirstInserted..cursor
      BY <1>1 DEF IInv, ControlInv
    <3>2. h \in FirstInserted..MaxHead /\ h \in Int /\ h <= cursor
      BY <1>2, <1>3, <2>2, <3>1
    <3>3. h \in Reached' /\ cursor \in Reached'
      BY <1>1, <1>2, <3>2 DEF Reached, InLoop
    <3>4. DayOf[h] < DayOf[cursor] /\ DayOf[h] \in Days
      <4>1. DayOf[h] \in Days /\ DayOf[h] \in Nat /\ DayOf[h] <= DayOf[cursor]
        BY <1>6, <3>3
      <4> QED
        BY <1>2, <1>10, <4>1
    <3>5. Closed(DayOf[h])
      BY <1>9, <3>3, <3>4
    <3>6. h \in HeightsOf(DayOf[h])
      BY <3>2 DEF HeightsOf
    <3>7. h <= days[DayOf[h]].last /\ days[DayOf[h]].last \in Nat
      <4>1. days[DayOf[h]].last \in HeightsOf(DayOf[h]) /\ h <= days[DayOf[h]].last
        BY <3>4, <3>5, <3>6 DEF DayInv, EndsInv, Closed
      <4> QED
        BY <4>1, HeightFacts DEF HeightsOf
    <3>8. ~(days[DayOf[h]].last < from)
      <4>1. from <= h /\ from \in Nat
        BY <2>2, <3>1, <1>2, <1>3
      <4> QED
        BY <3>2, <3>7, <4>1
    <3>9. days[DayOf[h]].yet = days[DayOf[h]].last
      BY <1>1, <3>5, <3>8 DEF Closed, InLoop
    <3>10. days'[DayOf[h]] = days[DayOf[h]]
      BY <1>10, <3>4
    <3> QED
      BY <3>7, <3>9, <3>10
  <2> QED
    BY <1>10, <2>1, <2>2
<1> QED
  BY <1>4, <1>7, <1>8, <1>9, <1>10 DEF DayInv, RowsInv

\* What the Day object of the pushed block takes to be saved.
LEMMA HeldFacts ==
  ASSUME IInv, DayInv, Push
  PROVE  \/ HeldYet \in {NoHeight, days[DayOf[cursor]].yet}
         \/ HeldYet \in lost /\ HeldYet < from
<1>1. InLoop
  BY DEF Push, InLoop, Inserting
<1> QED
  BY <1>1 DEF HeldYet, DayInv, SavedInv

\* The rows of the batch are inserted with the day's last seen height.
LEMMA CommitStep == IInv /\ DayInv /\ CommitBatch => DayInv'
<1> SUFFICES ASSUME IInv, DayInv, CommitBatch PROVE DayInv'
  OBVIOUS
<1>1. /\ Push /\ pc \in Inserting /\ LoopInv
      /\ blocks' = blocks \cup (from..cursor)
      /\ days' = [days EXCEPT ![DayOf[cursor]].yet =
                     SaveYet(days[DayOf[cursor]].yet, HeldYet, cursor)]
      /\ lost' = lost \ (from..cursor) /\ from' = cursor + 1 /\ savedYet' = cursor
      /\ last' = cursor
  BY DEF CommitBatch, Push, Inserting, DayInv
<1>2. /\ cursor \in FirstInserted..MaxHead /\ cursor \in Nat /\ DayOf[cursor] \in Days
      /\ from \in FirstInserted..cursor /\ FirstInserted \in Nat \ {0} /\ MaxHead \in Nat
  <2>1. from \in FirstInserted..cursor
    BY <1>1 DEF IInv, ControlInv
  <2> QED
    BY <1>1, <2>1, CursorFacts, HeightFacts, ConstantsAssumption
<1>3. /\ \A d \in Days : days'[d].first = days[d].first /\ days'[d].last = days[d].last
      /\ \A d \in Days : d # DayOf[cursor] => days'[d] = days[d]
      /\ days'[DayOf[cursor]].yet = cursor
  <2>1. SaveYet(days[DayOf[cursor]].yet, HeldYet, cursor) = cursor
    <3>1. HeldYet = cursor => HeldYet # NoHeight /\ ~(HeldYet < from)
      BY <1>2 DEF NoHeight
    <3> QED
      BY <1>1, <3>1, HeldFacts DEF SaveYet
  <2> QED
    BY <1>1, <1>2, <2>1 DEF IInv, TypeOK, DayRow
<1>4. \A h \in blocks' : h <= cursor
  <2>1. \A h \in blocks : h < from /\ h \in FirstInserted..MaxHead
    BY <1>1 DEF IInv, TableInv
  <2> QED
    BY <1>1, <1>2, <2>1
<1>5. \A h \in blocks' : DayOf[h] = DayOf[cursor] => h <= days'[DayOf[h]].yet
  BY <1>3, <1>4
<1>6. SavedInv'
  BY <1>1, <1>3 DEF SavedInv
<1> QED
  BY <1>1, <1>3, <1>5, <1>6, PushStep

\* Every step keeps the loop, the rows' ends and the rows.
LEMMA DayStep == IInv /\ DayInv /\ [Next]_vars => DayInv'
<1> SUFFICES ASSUME IInv, DayInv, [Next]_vars PROVE DayInv'
  OBVIOUS
<1> USE DEF vars, world, db, disk, run
<1>1. CASE UNCHANGED vars \/ ChainGrows
  BY <1>1, OtherStep DEF ChainGrows
<1>2. ASSUME NEW avail \in 1..head, StartSync(avail) PROVE DayInv'
  <2>1. CASE SkipDownload(avail)
    BY <2>1, EnterStep DEF SkipDownload
  <2>2. CASE StartDownload(avail)
    BY <2>2, OutOfLoopStep DEF StartDownload, Inserting
  <2> QED
    BY <1>2, <2>1, <2>2 DEF StartSync
<1>3. CASE Dispatch
  BY <1>3, OutOfLoopStep DEF Dispatch, Inserting
<1>4. CASE DownloadDone
  BY <1>4, EnterStep DEF DownloadDone
<1>5. ASSUME NEW w \in fetches, PutResults(w) \/ PutBlock(w) PROVE DayInv'
  BY <1>5, OtherStep DEF PutResults, PutBlock
<1>6. ASSUME NEW w \in fetches, FetchFails(w) PROVE DayInv'
  BY <1>6, OtherStep, OutOfLoopStep DEF FetchFails, EndRun, Inserting
<1>7. CASE BlockNotCached \/ ResultsNotCached
  BY <1>7, OutOfLoopStep DEF BlockNotCached, ResultsNotCached, EndRun, Inserting
<1>8. CASE CollectBlock \/ BatchCreateFails
  <2>1. Push /\ UNCHANGED <<blocks, days, from, lost>> /\ savedYet' = HeldYet /\ last' = cursor
    BY <1>8 DEF CollectBlock, BatchCreateFails, Push
  <2>2. \A h \in blocks' : h <= days'[DayOf[h]].yet
    BY <2>1 DEF DayInv, RowsInv
  <2>3. SavedInv'
    BY <2>1, HeldFacts DEF SavedInv
  <2> QED
    BY <2>1, <2>2, <2>3, PushStep
<1>12. CASE BatchSaveFails \/ BatchCommitFails
  <2>1. /\ Push /\ UNCHANGED <<blocks, days>> /\ last' = cursor
        /\ savedYet' \in {NoHeight, cursor}
        /\ lost' = lost \cup (from..cursor) /\ from' = cursor + 1
    BY <1>12 DEF BatchSaveFails, BatchCommitFails, BatchRolledBack, Push
  <2>2. \A h \in blocks' : h <= days'[DayOf[h]].yet
    BY <2>1 DEF DayInv, RowsInv
  <2>3. cursor \in from..cursor /\ cursor < cursor + 1
    <3>1. from \in FirstInserted..cursor /\ pc \in Inserting
      BY <2>1 DEF IInv, ControlInv, Push, Inserting
    <3> QED
      BY <3>1, InsertingHeight, HeightFacts DEF IInv
  <2>4. SavedInv'
    BY <2>1, <2>3 DEF SavedInv
  <2> QED
    BY <2>1, <2>2, <2>4, PushStep
<1>9. CASE InsertDone \/ ClearBlocks \/ ClearResults
  BY <1>9, OutOfLoopStep DEF InsertDone, ClearBlocks, ClearResults, EndRun, Inserting
<1>10. CASE ProcessBlocks \/ ProcessMissesBlock \/ ProcessDone
  BY <1>10, OutOfLoopStep
     DEF ProcessBlocks, ProcessMissesBlock, ProcessDone, EndRun, Inserting
<1>11. CASE RunFails \/ Crash
  BY <1>11, OutOfLoopStep DEF RunFails, Crash, EndRun, Inserting
<1> QED
  BY <1>1, <1>2, <1>3, <1>4, <1>5, <1>6, <1>7, <1>8, <1>9, <1>10, <1>11, <1>12,
     ReadStep, OpenStep, CloseStep, CommitStep DEF Next, Insert, Process, Failures

\* The day rows agree with the block table, for every assignment of days to
\* heights, batch size and failure between the row's save and the batch's.
THEOREM DayRowsAgree == Spec => []DayRowsMatchBlocks
<1>1. Init => DayInv
  <2> SUFFICES ASSUME Init PROVE DayInv
    OBVIOUS
  <2>1. blocks = {} /\ pc = "idle" /\ \A d \in Days : days[d] = NoRow
    BY DEF Init
  <2>2. Reached = {}
    BY <2>1 DEF Reached, InLoop, Inserting
  <2> QED
    BY <2>1, <2>2
       DEF DayInv, LoopInv, EndsInv, RowsInv, SavedInv, InLoop, Inserting, NoRow
<1>2. IInv /\ DayInv => DayRowsMatchBlocks
  <2> SUFFICES ASSUME IInv, DayInv, NEW d \in Days
               PROVE  LET heights == {h \in FirstInserted..MaxHead : DayOf[h] = d}
                          present == heights \cap blocks
                          row == days[d]
                      IN /\ present # {} => row.first # NoHeight /\ row.yet >= Max(present)
                         /\ row.first # NoHeight => row.first = Min(heights)
                         /\ row.last # NoHeight => row.last = Max(heights)
                         /\ present # {} /\ (\E h \in blocks : DayOf[h] > d) =>
                              row.last # NoHeight /\ (row.yet = row.last \/ row.last \in lost)
    BY DEF DayRowsMatchBlocks
  <2> DEFINE heights == {h \in FirstInserted..MaxHead : DayOf[h] = d}
             present == heights \cap blocks
  <2>1. /\ heights = HeightsOf(d) /\ heights \in SUBSET Heights
        /\ present \in SUBSET Heights /\ present \subseteq blocks
        /\ \A h \in present : DayOf[h] = d /\ h \in Reached
        /\ heights \subseteq Nat /\ present \subseteq Nat
    BY HeightFacts DEF HeightsOf
  <2> HIDE DEF heights, present
  <2>2. ASSUME present # {}
        PROVE  days[d].first # NoHeight /\ days[d].yet >= Max(present)
    <3>1. Max(present) \in present
      BY <2>1, <2>2, MaxIsHighest
    <3> HIDE DEF Max
    <3>2. days[d].first # NoHeight /\ Max(present) <= days[d].yet
      BY <2>1, <3>1 DEF DayInv, RowsInv
    <3> QED
      BY <3>2
  <2>3. ASSUME days[d].first # NoHeight
        PROVE  days[d].first = Min(heights)
    <3>1. days[d].first \in heights /\ \A h \in heights : days[d].first <= h
      BY <2>1, <2>3 DEF DayInv, EndsInv
    <3>2. Min(heights) \in heights /\ \A h \in heights : Min(heights) <= h
      BY <2>1, <3>1, MinIsLowest
    <3>3. days[d].first <= Min(heights) /\ Min(heights) <= days[d].first
      BY <3>1, <3>2
    <3>4. days[d].first \in Nat /\ Min(heights) \in Nat
      BY <2>1, <3>1, <3>2
    <3> QED
      BY <3>3, <3>4
  <2>4. ASSUME days[d].last # NoHeight
        PROVE  days[d].last = Max(heights)
    <3>1. days[d].last \in heights /\ \A h \in heights : h <= days[d].last
      BY <2>1, <2>4 DEF DayInv, EndsInv
    <3>2. Max(heights) \in heights /\ \A h \in heights : h <= Max(heights)
      BY <2>1, <3>1, MaxIsHighest
    <3>3. days[d].last <= Max(heights) /\ Max(heights) <= days[d].last
      BY <3>1, <3>2
    <3>4. days[d].last \in Nat /\ Max(heights) \in Nat
      BY <2>1, <3>1, <3>2
    <3> QED
      BY <3>3, <3>4
  <2>5. ASSUME present # {}, NEW h \in blocks, DayOf[h] > d
        PROVE  /\ days[d].last # NoHeight
               /\ days[d].yet = days[d].last \/ days[d].last \in lost
    <3>1. PICK g \in present : DayOf[g] = d /\ g \in Reached
      BY <2>1, <2>5
    <3>2. h \in Reached /\ DayOf[h] \in Nat /\ DayOf[g] \in Nat
      BY <2>1, <3>1, HeightFacts
    <3>3. DayOf[g] < DayOf[h]
      BY <2>5, <3>1, <3>2
    <3> QED
      BY <3>1, <3>2, <3>3 DEF DayInv, RowsInv, Closed
  <2> QED
    BY <2>2, <2>3, <2>4, <2>5, Zenon DEF heights, present
<1>3. IInv /\ DayInv /\ [Next]_vars => DayInv'
  BY DayStep
<1> QED
  BY <1>1, <1>2, <1>3, Invariance, PTL DEF Spec
==============================================================================
