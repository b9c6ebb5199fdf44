----------------------------- MODULE IndexerProofs -----------------------------
(***************************************************************************)
(* Three tables of the indexer whose rows are updated in place, with values *)
(* derived from other rows: the providers' statuses, the escrow accounts of *)
(* deployments, and the totals of blocks in USD.  The parts do not depend   *)
(* on each other.                                                           *)
(***************************************************************************)
EXTENDS ProviderStatus, AkashEscrow, UsdSpending,
        SumTheorems, FiniteSetTheorems, SequenceTheorems, WellFoundedInduction, TLAPS

(***************************************************************************)
(* ProviderStatus for days and waits of any length and any number of       *)
(* checks, failed runs and restarts: the marks of the snapshots and the    *)
(* provider's row follow the snapshots.                                    *)
(*                                                                         *)
(* The invariant adds that snapshots are in the order of their times, so   *)
(* that those of one day are together, and that each failed run has left   *)
(* one orphan at most.                                                     *)
(***************************************************************************)

\* Snapshots are created in the order of their times.
TimesGrow ==
  /\ \A i \in Ids : snapshots[i].at <= now
  /\ \A i, j \in Ids : i <= j => snapshots[i].at <= snapshots[j].at

\* Every orphan has cost a fault.
OrphansArePaid == Len(orphans) + faults <= MaxFaults

\* RowFollowsSnapshots, by the bounds that make the maximum and the minimum.
LastSuccessIs(id) ==
  /\ id \in Successes \cup {0}
  /\ \A i \in Successes : i <= id

DowntimeIs(id) ==
  IF Downtime = {} THEN id = 0 ELSE id \in Downtime /\ \A i \in Downtime : id <= i

RowInv ==
  ~stale =>
    /\ provider.lastSnapshotId = Len(snapshots)
    /\ LastSuccessIs(provider.lastSuccessfulSnapshotId)
    /\ DowntimeIs(provider.downtimeFirstSnapshotId)
    /\ provider.failedCheckCount = Cardinality(Downtime)
    /\ Downtime # {} =>
         LET checked == snapshots[Len(snapshots)].at
         IN  provider.nextCheckDate =
               checked + WaitAfter(checked - snapshots[provider.downtimeFirstSnapshotId].at)

IInv == TypeOK /\ TimesGrow /\ OrphansArePaid /\ DayMarksFollowSnapshots /\ RowInv

------------------------------------------------------------------------------
\* A time between two times of one day is of that day.
LEMMA DaysAreIntervals ==
  ASSUME NEW t \in Nat, NEW u \in Nat, NEW v \in Nat, t <= u, u <= v, IsSameDay(t, v)
  PROVE  IsSameDay(t, u) /\ IsSameDay(u, v)
<1> DEFINE q(x) == x \div DayLength
           r(x) == x % DayLength
<1>1. DayLength \in Nat /\ DayLength > 0
  BY ConstantsAssumption
<1>2. \A x \in Nat : q(x) \in Nat /\ r(x) \in 0..(DayLength - 1) /\ x = DayLength * q(x) + r(x)
  BY <1>1
<1>3. ASSUME NEW x \in Nat, NEW y \in Nat, x <= y
      PROVE  q(x) <= q(y)
  <2> SUFFICES ASSUME q(y) < q(x) PROVE FALSE
    BY <1>2
  <2>1. PICK d \in Nat : q(x) = q(y) + 1 + d
    <3>1. q(x) - q(y) - 1 \in Nat
      BY <1>2
    <3> QED BY <3>1, <1>2
  <2>2. DayLength * q(x) = DayLength * q(y) + DayLength + DayLength * d
    BY <2>1, <1>1, <1>2
  <2> DEFINE p(z) == DayLength * q(z)
             e == DayLength * d
  <2>3. p(x) = p(y) + DayLength + e /\ p(y) \in Int /\ e \in Nat
    BY <2>2, <1>1, <1>2
  <2>4. /\ x = p(x) + r(x) /\ r(x) \in 0..(DayLength - 1)
        /\ y = p(y) + r(y) /\ r(y) \in 0..(DayLength - 1)
    BY <1>2
  <2> HIDE DEF p, e, q, r
  <2> QED BY <2>3, <2>4, <1>1, <1>3
<1>4. q(t) <= q(u) /\ q(u) <= q(v) /\ q(t) = q(v)
  BY <1>3 DEF IsSameDay
<1> QED BY <1>2, <1>4 DEF IsSameDay

\* A wait is at least one unit and at most the longest.
LEMMA WaitIsBounded ==
  ASSUME NEW downtime \in Int
  PROVE  WaitAfter(downtime) \in 1..LongestWait
<1> DEFINE steps == {i \in DOMAIN Backoff : downtime < Backoff[i].below}
<1>1. /\ Len(Backoff) \in Nat /\ DOMAIN Backoff = 1..Len(Backoff)
      /\ \A i \in DOMAIN Backoff : Backoff[i].wait \in 1..LongestWait
  <2> DEFINE Step == [below : Nat \ {0}, wait : 1..LongestWait]
  <2>1. Backoff \in Seq(Step)
    BY ConstantsAssumption
  <2> HIDE DEF Step
  <2>2. Len(Backoff) \in Nat /\ Backoff \in [1..Len(Backoff) -> Step]
    BY <2>1, LenProperties
  <2> QED BY <2>2 DEF Step
<1>2. CASE steps = {}
  BY <1>2, ConstantsAssumption DEF WaitAfter
<1>3. CASE steps # {}
  <2>1. steps \subseteq Nat
    BY <1>1
  <2> DEFINE Below == OpToRel(<, Nat)
  <2> HIDE DEF steps
  <2>2. PICK i \in steps : \A j \in steps : <<j, i>> \notin Below
    BY <1>3, <2>1, NatLessThanWellFounded, WFMin, Zenon
  <2>3. Below = {ss \in Nat \X Nat : ss[1] < ss[2]}
    BY Zenon DEF OpToRel
  <2> HIDE DEF Below
  <2>4. ASSUME NEW j \in steps PROVE i <= j
    <3>1. j \in Nat /\ i \in Nat /\ <<j, i>> \notin {ss \in Nat \X Nat : ss[1] < ss[2]}
      BY <2>1, <2>2, <2>3
    <3> QED BY <3>1
  <2>5. Min(steps) \in steps
    BY <2>4 DEF Min
  <2>6. WaitAfter(downtime) = Backoff[Min(steps)].wait
    BY <1>3 DEF WaitAfter, steps
  <2> QED BY <1>1, <2>5, <2>6 DEF steps
<1> QED BY <1>2, <1>3

\* A bound that is in the set is its maximum.
LEMMA MaximumIs ==
  ASSUME NEW S, NEW m \in S, \A x \in S : x \in Nat /\ x <= m
  PROVE  Max(S) = m
<1>1. \A x \in S : (\A y \in S : x >= y) => x = m
  <2> TAKE x \in S
  <2> HAVE \A y \in S : x >= y
  <2>1. x >= m /\ x <= m /\ x \in Nat /\ m \in Nat
    OBVIOUS
  <2> QED BY <2>1
<1>2. \A y \in S : m >= y
  <2> TAKE y \in S
  <2>1. y <= m /\ y \in Nat /\ m \in Nat
    OBVIOUS
  <2> QED BY <2>1
<1> QED BY <1>1, <1>2 DEF Max

\* A lower bound that is in the set is its minimum.
LEMMA MinimumIs ==
  ASSUME NEW S, NEW m \in S, \A x \in S : x \in Nat /\ m <= x
  PROVE  Min(S) = m
<1>1. \A x \in S : (\A y \in S : x <= y) => x = m
  <2> TAKE x \in S
  <2> HAVE \A y \in S : x <= y
  <2>1. x <= m /\ m <= x /\ x \in Nat /\ m \in Nat
    OBVIOUS
  <2> QED BY <2>1
<1> QED BY <1>1 DEF Min

\* The next check is planned ahead of now, by the longest wait at most (getNextCheckDate).
LEMMA NextCheckIsAhead ==
  ASSUME NEW successful \in BOOLEAN, NEW start \in Nat, now \in Nat
  PROVE  NextCheckDate(successful, start) \in (now + 1)..(now + LongestWait)
<1>1. WaitAfter(now - start) \in 1..LongestWait
  BY WaitIsBounded
<1> QED BY <1>1, ConstantsAssumption DEF NextCheckDate

\* A sequence stays one when its elements' set grows.
LEMMA SequencesGrow ==
  ASSUME NEW S, NEW T, NEW s \in Seq(S), S \subseteq T
  PROVE  s \in Seq(T)
<1>1. Len(s) \in Nat /\ \A i \in 1..Len(s) : s[i] \in T
  BY LenProperties
<1>2. SubSeq(s, 1, Len(s)) \in Seq(T)
  BY <1>1, SubSeqProperties
<1> QED BY <1>2, SubSeqFull

\* Without one of its elements a sequence of orphans is shorter by one.
LEMMA RemovalShortens ==
  ASSUME NEW S, NEW s \in Seq(S), NEW i \in DOMAIN s
  PROVE  RemoveAt(s, i) \in Seq(S) /\ Len(RemoveAt(s, i)) = Len(s) - 1
<1>1. Len(s) \in Nat /\ i \in 1..Len(s) /\ \A j \in 1..Len(s) : s[j] \in S
  BY LenProperties
<1> DEFINE before == SubSeq(s, 1, i - 1)
           after == SubSeq(s, i + 1, Len(s))
<1>2. before \in Seq(S) /\ Len(before) = i - 1
  BY <1>1, SubSeqProperties
<1>3. after \in Seq(S) /\ Len(after) = Len(s) - i
  <2>1. i + 1 \in Int /\ Len(s) \in Int /\ \A j \in (i + 1)..Len(s) : s[j] \in S
    BY <1>1
  <2>2. /\ after \in Seq(S)
        /\ Len(after) = IF i + 1 <= Len(s) THEN Len(s) - (i + 1) + 1 ELSE 0
    BY <2>1, SubSeqProperties
  <2> QED BY <1>1, <2>2
<1>4. RemoveAt(s, i) = before \o after
  BY DEF RemoveAt
<1> HIDE DEF before, after
<1>5. before \o after \in Seq(S) /\ Len(before \o after) = Len(before) + Len(after)
  BY <1>2, <1>3, ConcatProperties
<1>6. Len(before) + Len(after) = Len(s) - 1
  BY <1>1, <1>2, <1>3
<1> QED BY <1>4, <1>5, <1>6

------------------------------------------------------------------------------
\* The ids of the snapshots are the numbers up to their count.
LEMMA IdsAreNumbers ==
  ASSUME snapshots \in Seq(Snapshot)
  PROVE  /\ Len(snapshots) \in Nat /\ Ids = 1..Len(snapshots)
         /\ \A i \in Ids : snapshots[i] \in Snapshot
<1>1. Len(snapshots) \in Nat /\ snapshots \in [1..Len(snapshots) -> Snapshot]
  BY LenProperties
<1> QED BY <1>1 DEF Ids

\* What a saved check does to the table of snapshots.
Saved(row, successful) ==
  LET id == Len(snapshots) + 1 IN
  /\ snapshots' \in Seq(Snapshot) /\ Len(snapshots') = id
  /\ snapshots'[id] = [at |-> now, isOnline |-> successful, isLastOfDay |-> TRUE,
                       isLastSuccessOfDay |-> successful]
  /\ \A i \in Ids :
       /\ snapshots'[i].at = snapshots[i].at
       /\ snapshots'[i].isOnline = snapshots[i].isOnline
       /\ snapshots'[i].isLastOfDay <=> snapshots[i].isLastOfDay /\ i \notin Unmarked(row)
       /\ snapshots'[i].isLastSuccessOfDay <=>
            /\ snapshots[i].isLastSuccessOfDay /\ i \notin Unmarked(row)
            /\ successful => i \notin SuccessUnmarked(row)

\* A save adds a snapshot and takes marks off older ones; nothing else of them changes.
LEMMA SaveAddsSnapshot ==
  ASSUME TypeOK, NEW row, NEW successful \in BOOLEAN, SaveStatus(row, successful)
  PROVE  Saved(row, successful)
<1> DEFINE new == [at |-> now, isOnline |-> successful, isLastOfDay |-> TRUE,
                   isLastSuccessOfDay |-> successful]
           marks == Marks(row, successful)
           n == Len(snapshots)
<1>1. n \in Nat /\ Ids = 1..n /\ \A i \in Ids : snapshots[i] \in Snapshot
  BY IdsAreNumbers DEF TypeOK
<1>2. new \in Snapshot
  BY DEF TypeOK, Snapshot
<1>3. ASSUME NEW i \in Ids
      PROVE  /\ marks[i] \in Snapshot
             /\ marks[i].at = snapshots[i].at
             /\ marks[i].isOnline = snapshots[i].isOnline
             /\ marks[i].isLastOfDay <=> snapshots[i].isLastOfDay /\ i \notin Unmarked(row)
             /\ marks[i].isLastSuccessOfDay <=>
                  /\ snapshots[i].isLastSuccessOfDay /\ i \notin Unmarked(row)
                  /\ successful => i \notin SuccessUnmarked(row)
  <2> DEFINE last == snapshots[i].isLastOfDay /\ i \notin Unmarked(row)
             unmarked == Unmarked(row) \cup (IF successful THEN SuccessUnmarked(row) ELSE {})
             success == snapshots[i].isLastSuccessOfDay /\ i \notin unmarked
  <2>1. marks[i] = [snapshots[i] EXCEPT !.isLastOfDay = last, !.isLastSuccessOfDay = success]
    BY DEF Marks
  <2>2. last \in BOOLEAN /\ success \in BOOLEAN
    OBVIOUS
  <2>3. success <=> /\ snapshots[i].isLastSuccessOfDay /\ i \notin Unmarked(row)
                    /\ successful => i \notin SuccessUnmarked(row)
    OBVIOUS
  <2> HIDE DEF last, success, marks
  <2>4. snapshots[i] \in Snapshot
    BY <1>1
  <2>5. /\ marks[i] \in Snapshot
        /\ marks[i].at = snapshots[i].at /\ marks[i].isOnline = snapshots[i].isOnline
        /\ marks[i].isLastOfDay = last /\ marks[i].isLastSuccessOfDay = success
    BY <2>1, <2>2, <2>4 DEF Snapshot
  <2>6. last <=> snapshots[i].isLastOfDay /\ i \notin Unmarked(row)
    BY DEF last
  <2> QED BY <2>3, <2>5, <2>6
<1>4. marks \in Seq(Snapshot) /\ Len(marks) = n
  <2>1. marks = [i \in 1..n |-> marks[i]]
    BY <1>1 DEF Marks
  <2> HIDE DEF marks
  <2>2. \A i \in 1..n : marks[i] \in Snapshot
    BY <1>1, <1>3
  <2> QED BY <1>1, <2>1, <2>2
<1>5. snapshots' = Append(marks, new)
  BY DEF SaveStatus
<1> HIDE DEF marks, new
<1>6. /\ snapshots' \in Seq(Snapshot) /\ Len(snapshots') = n + 1 /\ snapshots'[n + 1] = new
      /\ \A i \in 1..n : snapshots'[i] = marks[i]
  BY <1>1, <1>2, <1>4, <1>5, AppendProperties
<1>7. new = [at |-> now, isOnline |-> successful, isLastOfDay |-> TRUE,
             isLastSuccessOfDay |-> successful]
  BY DEF new
<1>8. \A i \in Ids : snapshots'[i] = marks[i]
  BY <1>1, <1>6
<1> QED
  <2>1. ASSUME NEW i \in Ids
        PROVE  /\ snapshots'[i].at = snapshots[i].at
               /\ snapshots'[i].isOnline = snapshots[i].isOnline
               /\ snapshots'[i].isLastOfDay <=> snapshots[i].isLastOfDay /\ i \notin Unmarked(row)
               /\ snapshots'[i].isLastSuccessOfDay <=>
                    /\ snapshots[i].isLastSuccessOfDay /\ i \notin Unmarked(row)
                    /\ successful => i \notin SuccessUnmarked(row)
    BY <1>3, <1>8, Zenon
  <2> QED BY <1>6, <1>7, <2>1, Zenon DEF Saved

\* The old ids, and one more.
LEMMA SaveAddsId ==
  ASSUME TypeOK, NEW row, NEW successful, Saved(row, successful)
  PROVE  /\ Len(snapshots) \in Nat /\ Ids = 1..Len(snapshots)
         /\ Ids' = 1..(Len(snapshots) + 1)
         /\ Ids' = Ids \cup {Len(snapshots) + 1} /\ Len(snapshots) + 1 \notin Ids
         /\ \A i \in Ids : snapshots[i] \in Snapshot
<1>1. /\ Len(snapshots) \in Nat /\ Ids = 1..Len(snapshots)
      /\ \A i \in Ids : snapshots[i] \in Snapshot
  BY IdsAreNumbers DEF TypeOK
<1>2. Ids' = 1..(Len(snapshots) + 1)
  <2>1. snapshots' \in [1..Len(snapshots)' -> Snapshot]
    BY LenProperties DEF Saved
  <2> QED BY <2>1 DEF Saved, Ids
<1> QED BY <1>1, <1>2

\* Rows that were read stay rows.
LEMMA RowsGrow ==
  ASSUME TypeOK, now' \in Nat, now <= now',
         Ids \subseteq Ids', Len(snapshots)' \in Nat, Len(snapshots) <= Len(snapshots)'
  PROVE  ProviderRow \subseteq ProviderRow' /\ Check \subseteq Check'
<1>1. Len(snapshots) \in Nat
  BY IdsAreNumbers DEF TypeOK
<1>2. ProviderRow \subseteq ProviderRow'
  BY <1>1 DEF ProviderRow
<1> QED BY <1>2 DEF Check, TypeOK

\* The tables keep their types when a status is saved (saveProviderStatus).
LEMMA SaveKeepsTypes ==
  ASSUME TypeOK, NEW row \in ProviderRow, NEW successful \in BOOLEAN,
         SaveStatus(row, successful), now' = now
  PROVE  /\ snapshots' \in Seq(Snapshot) /\ provider' \in ProviderRow' /\ stale' \in BOOLEAN
         /\ provider'.lastSnapshotId # 0 =>
              LET checked == snapshots'[provider'.lastSnapshotId].at
              IN  provider'.nextCheckDate \in (checked + 1)..(checked + LongestWait)
         /\ ProviderRow \subseteq ProviderRow' /\ Check \subseteq Check'
<1> DEFINE id == Len(snapshots) + 1
           known == row.downtimeFirstSnapshotId # 0
           start == IF known THEN snapshots[row.downtimeFirstSnapshotId].at ELSE now
           next == NextCheckDate(successful, start)
<1>1. Saved(row, successful)
  BY SaveAddsSnapshot
<1>2. /\ Len(snapshots) \in Nat /\ Ids = 1..Len(snapshots) /\ Ids' = 1..id
      /\ \A i \in Ids : snapshots[i] \in Snapshot
  BY <1>1, SaveAddsId
<1>3. row \in [lastSnapshotId : Ids \cup {0}, lastSuccessfulSnapshotId : Ids \cup {0},
               downtimeFirstSnapshotId : Ids \cup {0}, failedCheckCount : 0..Len(snapshots),
               nextCheckDate : 0..(MaxTime + LongestWait)]
  BY DEF ProviderRow
<1>4. now \in 0..MaxTime /\ MaxTime \in Nat /\ LongestWait \in Nat
  BY ConstantsAssumption DEF TypeOK
<1>5. start \in Nat
  BY <1>2, <1>3, <1>4 DEF Snapshot
<1>6. next \in (now + 1)..(now + LongestWait)
  BY <1>4, <1>5, NextCheckIsAhead
<1>7. provider' = [lastSnapshotId |-> id,
        lastSuccessfulSnapshotId |-> IF successful THEN id ELSE row.lastSuccessfulSnapshotId,
        downtimeFirstSnapshotId |->
          IF successful THEN 0 ELSE IF known THEN row.downtimeFirstSnapshotId ELSE id,
        failedCheckCount |-> IF successful THEN 0 ELSE row.failedCheckCount + 1,
        nextCheckDate |-> next]
  BY DEF SaveStatus, UpdatedRow
<1> HIDE DEF next
<1>8. provider' \in ProviderRow'
  <2>1. Len(snapshots)' = id
    BY <1>1 DEF Saved
  <2> QED BY <1>2, <1>3, <1>4, <1>6, <1>7, <2>1 DEF ProviderRow
<1>9. snapshots' \in Seq(Snapshot) /\ Len(snapshots') = id /\ snapshots'[id].at = now
  BY <1>1 DEF Saved
<1>10. provider'.lastSnapshotId = id /\ provider'.nextCheckDate = next
  BY <1>7
<1>11. ProviderRow \subseteq ProviderRow' /\ Check \subseteq Check'
  BY <1>2, <1>4, <1>9, RowsGrow
<1> QED BY <1>4, <1>6, <1>8, <1>9, <1>10, <1>11 DEF SaveStatus

\* The new snapshot is the latest.
LEMMA SaveKeepsOrder ==
  ASSUME TypeOK, TimesGrow, NEW row, NEW successful \in BOOLEAN,
         SaveStatus(row, successful), now' = now
  PROVE  TimesGrow'
<1> DEFINE id == Len(snapshots) + 1
<1>1. Saved(row, successful)
  BY SaveAddsSnapshot
<1>2. /\ Len(snapshots) \in Nat /\ Ids = 1..Len(snapshots) /\ Ids' = Ids \cup {id}
      /\ \A i \in Ids : snapshots[i] \in Snapshot
  BY <1>1, SaveAddsId
<1>3. snapshots'[id].at = now /\ \A i \in Ids : snapshots'[i].at = snapshots[i].at
  BY <1>1 DEF Saved
<1>4. now \in Nat /\ \A i \in Ids : snapshots[i].at \in Nat
  BY <1>2 DEF TypeOK, Snapshot
<1> QED BY SMTT(30), <1>2, <1>3, <1>4 DEF TimesGrow

------------------------------------------------------------------------------
\* Two times are of one day whichever comes first.
LEMMA SameDayIsMutual == \A t, u : IsSameDay(t, u) <=> IsSameDay(u, t)
BY DEF IsSameDay

\* An older snapshot stays the last (success) of its day unless the new one is of that day.
LEMMA SavedDays ==
  ASSUME TypeOK, NEW row, NEW successful \in BOOLEAN, Saved(row, successful),
         NEW id, id = Len(snapshots) + 1
  PROVE  LET ofToday(i) == IsSameDay(now, snapshots[i].at)
         IN /\ Successes' = Successes \cup (IF successful THEN {id} ELSE {})
            /\ IsLastOfDay(id)' /\ (IsLastSuccessOfDay(id)' <=> successful)
            /\ \A i \in Ids :
                 /\ IsLastOfDay(i)' <=> IsLastOfDay(i) /\ ~ofToday(i)
                 /\ IsLastSuccessOfDay(i)' <=>
                      IsLastSuccessOfDay(i) /\ ~(successful /\ ofToday(i))
<1> DEFINE ofToday(i) == IsSameDay(now, snapshots[i].at)
<1>1. /\ Len(snapshots) \in Nat /\ Ids = 1..Len(snapshots)
      /\ Ids' = 1..id /\ Ids' = Ids \cup {id} /\ id \notin Ids
      /\ \A i \in Ids : snapshots[i] \in Snapshot
  BY SaveAddsId
<1>2. /\ snapshots'[id].at = now /\ snapshots'[id].isOnline = successful
      /\ \A i \in Ids : /\ snapshots'[i].at = snapshots[i].at
                        /\ snapshots'[i].isOnline = snapshots[i].isOnline
  BY DEF Saved
<1>3. Successes' = Successes \cup (IF successful THEN {id} ELSE {})
  BY <1>1, <1>2 DEF Successes
<1>4. \A i \in Ids : OfSameDay(i)' = OfSameDay(i) \cup (IF ofToday(i) THEN {id} ELSE {})
  BY <1>1, <1>2 DEF OfSameDay
<1>5. \A i \in Ids : i \in Nat /\ ~(id <= i) /\ \A j \in OfSameDay(i) : j \in Ids
  BY <1>1 DEF OfSameDay
<1>6. \A j \in Ids' : j <= id
  BY <1>1
<1>7. IsLastOfDay(id)' /\ (IsLastSuccessOfDay(id)' <=> successful)
  <2>1. id \in Successes' <=> successful
    BY <1>1, <1>3 DEF Successes
  <2>2. \A j \in OfSameDay(id)' : j <= id
    BY <1>6 DEF OfSameDay
  <2> QED BY <2>1, <2>2 DEF IsLastOfDay, IsLastSuccessOfDay
<1>8. ASSUME NEW i \in Ids
      PROVE  IsLastOfDay(i)' <=> IsLastOfDay(i) /\ ~ofToday(i)
  BY <1>4, <1>5 DEF IsLastOfDay
<1>9. ASSUME NEW i \in Ids
      PROVE  IsLastSuccessOfDay(i)' <=> IsLastSuccessOfDay(i) /\ ~(successful /\ ofToday(i))
  <2>1. i \in Successes' <=> i \in Successes
    BY <1>1, <1>3
  <2>2. OfSameDay(i)' \cap Successes' =
          (OfSameDay(i) \cap Successes) \cup (IF successful /\ ofToday(i) THEN {id} ELSE {})
    BY <1>1, <1>3, <1>4 DEF OfSameDay, Successes
  <2>3. (\A j \in OfSameDay(i)' \cap Successes' : j <= i) <=>
          (\A j \in OfSameDay(i) \cap Successes : j <= i) /\ ~(successful /\ ofToday(i))
    BY <1>5, <2>2
  <2> QED BY <2>1, <2>3 DEF IsLastSuccessOfDay
<1> QED BY <1>3, <1>7, <1>8, <1>9

\* When the row is current, a mark of today is on the last snapshot, or on the last success.
LEMMA SaveKeepsMarks ==
  ASSUME TypeOK, TimesGrow, DayMarksFollowSnapshots, RowInv,
         NEW row \in ProviderRow, NEW successful \in BOOLEAN, SaveStatus(row, successful)
  PROVE  DayMarksFollowSnapshots'
<1> DEFINE n == Len(snapshots)
           ofToday(i) == IsSameDay(now, snapshots[i].at)
<1> PICK id : id = n + 1
  OBVIOUS
<1>1. Saved(row, successful)
  BY SaveAddsSnapshot
<1>2. /\ n \in Nat /\ Ids = 1..n /\ Ids' = Ids \cup {id} /\ id \notin Ids
      /\ \A i \in Ids : snapshots[i] \in Snapshot
  BY <1>1, SaveAddsId
<1>3. /\ snapshots'[id].isLastOfDay /\ (snapshots'[id].isLastSuccessOfDay <=> successful)
      /\ \A i \in Ids :
           /\ snapshots'[i].isLastOfDay <=> snapshots[i].isLastOfDay /\ i \notin Unmarked(row)
           /\ snapshots'[i].isLastSuccessOfDay <=>
                /\ snapshots[i].isLastSuccessOfDay /\ i \notin Unmarked(row)
                /\ successful => i \notin SuccessUnmarked(row)
  <2>1. snapshots'[id] = [at |-> now, isOnline |-> successful, isLastOfDay |-> TRUE,
                          isLastSuccessOfDay |-> successful]
    BY <1>1 DEF Saved
  <2>2. snapshots'[id].isLastOfDay /\ (snapshots'[id].isLastSuccessOfDay <=> successful)
    BY <2>1
  <2>3. \A i \in Ids :
          /\ snapshots'[i].isLastOfDay <=> snapshots[i].isLastOfDay /\ i \notin Unmarked(row)
          /\ snapshots'[i].isLastSuccessOfDay <=>
               /\ snapshots[i].isLastSuccessOfDay /\ i \notin Unmarked(row)
               /\ successful => i \notin SuccessUnmarked(row)
    BY <1>1, Zenon DEF Saved
  <2> QED BY <2>2, <2>3
<1>4. /\ Successes' = Successes \cup (IF successful THEN {id} ELSE {})
      /\ IsLastOfDay(id)' /\ (IsLastSuccessOfDay(id)' <=> successful)
      /\ \A i \in Ids :
           /\ IsLastOfDay(i)' <=> IsLastOfDay(i) /\ ~ofToday(i)
           /\ IsLastSuccessOfDay(i)' <=> IsLastSuccessOfDay(i) /\ ~(successful /\ ofToday(i))
  BY <1>1, SavedDays
<1>5. \A i \in Unmarked(row) : i = row.lastSnapshotId /\ i \in Ids /\ ofToday(i)
  BY SameDayIsMutual DEF Unmarked
<1>6. ASSUME NEW i \in Ids', IsLastOfDay(i)'
      PROVE  snapshots'[i].isLastOfDay
  <2>1. CASE i = id
    BY <1>3, <2>1
  <2>2. CASE i \in Ids
    <3>1. IsLastOfDay(i) /\ ~ofToday(i)
      BY <1>4, <1>6, <2>2
    <3>2. snapshots[i].isLastOfDay
      BY <2>2, <3>1 DEF DayMarksFollowSnapshots
    <3> QED BY <1>3, <1>5, <2>2, <3>1, <3>2
  <2> QED BY <1>2, <2>1, <2>2
<1>7. ASSUME ~stale', NEW i \in Ids'
      PROVE  /\ snapshots'[i].isLastOfDay => IsLastOfDay(i)'
             /\ snapshots'[i].isLastSuccessOfDay => IsLastSuccessOfDay(i)'
             /\ IsLastSuccessOfDay(i)' /\ (i + 1 \in Ids' => i + 1 \in Successes') =>
                  snapshots'[i].isLastSuccessOfDay
  <2>1. ~stale /\ row = provider
    BY <1>7 DEF SaveStatus
  <2> DEFINE ls == row.lastSuccessfulSnapshotId
  <2>2. /\ row.lastSnapshotId = n
        /\ ls \in Successes \cup {0} /\ \A j \in Successes : j <= ls
    BY <2>1 DEF RowInv, LastSuccessIs
  <2>3. CASE i = id
    BY <1>3, <1>4, <2>3
  <2>4. CASE i \in Ids
    <3>1. /\ snapshots[i].isLastOfDay => IsLastOfDay(i)
          /\ snapshots[i].isLastSuccessOfDay => IsLastSuccessOfDay(i)
          /\ IsLastSuccessOfDay(i) /\ (i + 1 \in Ids => i + 1 \in Successes) =>
               snapshots[i].isLastSuccessOfDay
      <4> HIDE DEF ofToday
      <4> QED BY <2>1, <2>4, Zenon DEF DayMarksFollowSnapshots
    \* What is as old as i or newer is of today, if i is.
    <3>2. ASSUME ofToday(i), NEW j \in Ids, i <= j
          PROVE  ofToday(j) /\ j \in OfSameDay(i)
      <4>1. /\ snapshots[i].at \in Nat /\ snapshots[j].at \in Nat /\ now \in Nat
            /\ snapshots[i].at <= snapshots[j].at /\ snapshots[j].at <= now
        BY <1>2, <2>4, <3>2 DEF TimesGrow, Snapshot, TypeOK
      <4>2. IsSameDay(snapshots[i].at, now)
        BY <3>2, SameDayIsMutual
      <4>3. IsSameDay(snapshots[i].at, snapshots[j].at) /\ IsSameDay(snapshots[j].at, now)
        BY <4>1, <4>2, DaysAreIntervals
      <4> QED BY <4>3, SameDayIsMutual DEF OfSameDay
    <3>3. n \in Ids /\ i <= n
      BY <1>2, <2>4
    <3>4. ofToday(i) => Unmarked(row) = {n}
      BY <2>2, <3>2, <3>3, SameDayIsMutual DEF Unmarked
    <3>5. snapshots'[i].isLastOfDay => IsLastOfDay(i)'
      <4>1. SUFFICES ASSUME snapshots[i].isLastOfDay, i \notin Unmarked(row), ofToday(i)
                     PROVE  FALSE
        BY <1>3, <1>4, <2>4, <3>1
      <4>2. n <= i
        BY <3>1, <3>2, <3>3, <4>1 DEF IsLastOfDay
      <4> QED BY <1>2, <3>3, <3>4, <4>1, <4>2
    <3>6. snapshots'[i].isLastSuccessOfDay => IsLastSuccessOfDay(i)'
      <4>1. SUFFICES ASSUME IsLastSuccessOfDay(i), i \notin Unmarked(row),
                            successful, i \notin SuccessUnmarked(row), ofToday(i)
                     PROVE  FALSE
        BY <1>3, <1>4, <2>4, <3>1
      <4>2. i \in Successes /\ ls \in Successes /\ i <= ls
        BY <1>2, <2>2, <2>4, <4>1 DEF IsLastSuccessOfDay
      <4>3. ls \in Ids /\ ls \in OfSameDay(i)
        BY <3>2, <4>1, <4>2 DEF Successes
      <4>4. ls = i
        BY <1>2, <2>4, <4>1, <4>2, <4>3 DEF IsLastSuccessOfDay
      <4>5. ls # n /\ Unmarked(row) # {}
        BY <3>4, <4>1, <4>4
      <4> QED BY <2>2, <4>1, <4>3, <4>4, <4>5 DEF SuccessUnmarked
    <3>7. ASSUME IsLastSuccessOfDay(i)', i + 1 \in Ids' => i + 1 \in Successes'
          PROVE  snapshots'[i].isLastSuccessOfDay
      <4>1. IsLastSuccessOfDay(i) /\ ~(successful /\ ofToday(i))
        BY <1>4, <2>4, <3>7
      <4>2. i + 1 \in Ids => i + 1 \in Successes
        BY <1>2, <1>4, <3>7
      <4>3. snapshots[i].isLastSuccessOfDay
        BY <3>1, <4>1, <4>2
      <4>4. i \notin Unmarked(row)
        <5>1. SUFFICES ASSUME i \in Unmarked(row) PROVE FALSE
          OBVIOUS
        <5>2. i = n /\ ofToday(i)
          BY <1>5, <2>2, <5>1
        <5>3. id \in Successes'
          BY <1>2, <3>7, <5>2
        <5> QED BY <1>2, <1>4, <4>1, <5>2, <5>3 DEF Successes
      <4>5. ASSUME successful PROVE i \notin SuccessUnmarked(row)
        <5>1. SUFFICES ASSUME i \in SuccessUnmarked(row) PROVE FALSE
          OBVIOUS
        <5>2. i = ls /\ i # n
          BY <2>2, <5>1 DEF SuccessUnmarked
        <5>3. i + 1 \in Ids /\ i \in Nat
          BY <1>2, <2>4, <5>2
        <5> QED BY <2>2, <4>2, <5>2, <5>3
      <4> QED BY <1>3, <2>4, <4>3, <4>4, <4>5
    <3> QED BY <3>5, <3>6, <3>7
  <2> QED BY <1>2, <2>3, <2>4
<1> QED BY <1>6, <1>7 DEF DayMarksFollowSnapshots

\* With a current row, the new row counts on from what the snapshots say.
LEMMA SaveKeepsRow ==
  ASSUME TypeOK, RowInv,
         NEW row \in ProviderRow, NEW successful \in BOOLEAN, SaveStatus(row, successful)
  PROVE  RowInv'
<1> DEFINE n == Len(snapshots)
<1> PICK id : id = n + 1
  OBVIOUS
<1> SUFFICES ASSUME ~stale'
             PROVE  /\ provider'.lastSnapshotId = id
                    /\ LastSuccessIs(provider.lastSuccessfulSnapshotId)'
                    /\ DowntimeIs(provider.downtimeFirstSnapshotId)'
                    /\ provider'.failedCheckCount = Cardinality(Downtime')
                    /\ Downtime' # {} =>
                         provider'.nextCheckDate =
                           now + WaitAfter(now - snapshots'[provider'.downtimeFirstSnapshotId].at)
  <2>1. Len(snapshots') = id /\ snapshots'[id].at = now
    <3>1. Saved(row, successful)
      BY SaveAddsSnapshot
    <3> QED BY <3>1 DEF Saved
  <2> QED BY <2>1 DEF RowInv
<1>1. Saved(row, successful)
  BY SaveAddsSnapshot
<1>2. /\ n \in Nat /\ Ids = 1..n /\ Ids' = 1..id /\ Ids' = Ids \cup {id} /\ id \notin Ids
      /\ \A i \in Ids : snapshots[i] \in Snapshot
  BY <1>1, SaveAddsId
<1>3. /\ snapshots'[id].at = now /\ snapshots'[id].isOnline = successful
      /\ \A i \in Ids : /\ snapshots'[i].at = snapshots[i].at
                        /\ snapshots'[i].isOnline = snapshots[i].isOnline
  BY <1>1 DEF Saved
<1>4. ~stale /\ row = provider
  BY DEF SaveStatus
<1> DEFINE ls == row.lastSuccessfulSnapshotId
           ds == row.downtimeFirstSnapshotId
<1>5. /\ ls \in Successes \cup {0} /\ \A i \in Successes : i <= ls
      /\ IF Downtime = {} THEN ds = 0 ELSE ds \in Downtime /\ \A i \in Downtime : ds <= i
      /\ row.failedCheckCount = Cardinality(Downtime)
  BY <1>4 DEF RowInv, LastSuccessIs, DowntimeIs
<1>6. provider' = UpdatedRow(row, successful, id)
  BY DEF SaveStatus
<1>7. Successes' = Successes \cup (IF successful THEN {id} ELSE {})
  BY <1>2, <1>3 DEF Successes
<1>8. Downtime' = IF successful THEN {} ELSE Downtime \cup {id}
  <2>1. CASE successful
    <3>1. \A i \in Ids' : id >= i /\ id \in Ids'
      BY <1>2
    <3>2. Downtime' = {}
      BY <1>3, <2>1, <3>1 DEF Downtime
    <3> QED BY <2>1, <3>2
  <2>2. CASE ~successful
    <3>1. \A i \in Ids' : id >= i
      BY <1>2
    <3>2. ASSUME NEW i \in Ids PROVE i \in Downtime' <=> i \in Downtime
      BY <1>2, <1>3, <2>2, <3>1 DEF Downtime
    <3>3. id \in Downtime'
      BY <1>2, <1>3, <2>2 DEF Downtime
    <3>4. Downtime \subseteq Ids /\ Downtime' \subseteq Ids \cup {id}
      BY <1>2 DEF Downtime
    <3> QED BY <2>2, <3>2, <3>3, <3>4
  <2> QED BY <2>1, <2>2
<1>9. Downtime \subseteq Ids /\ IsFiniteSet(Downtime) /\ id \notin Downtime /\ 0 \notin Downtime
  <2>1. Downtime \subseteq 1..n
    BY <1>2 DEF Downtime
  <2>2. IsFiniteSet(1..n)
    BY <1>2, FS_Interval
  <2>3. IsFiniteSet(Downtime)
    BY <2>1, <2>2, FS_Subset
  <2> QED BY <1>2, <2>1, <2>3
<1>10. provider'.lastSnapshotId = id
  BY <1>6 DEF UpdatedRow
<1>11. LastSuccessIs(provider.lastSuccessfulSnapshotId)'
  <2>1. provider'.lastSuccessfulSnapshotId = IF successful THEN id ELSE ls
    BY <1>6 DEF UpdatedRow
  <2>2. \A i \in Successes : i \in Nat /\ i <= id
    BY <1>2 DEF Successes
  <2> QED BY <1>2, <1>5, <1>7, <2>1, <2>2 DEF LastSuccessIs
<1>12. CASE successful
  <2>1. /\ provider'.downtimeFirstSnapshotId = 0 /\ provider'.failedCheckCount = 0
        /\ Downtime' = {}
    BY <1>6, <1>8, <1>12 DEF UpdatedRow
  <2>2. Cardinality({}) = 0
    BY FS_EmptySet
  <2> QED BY <1>10, <1>11, <2>1, <2>2 DEF DowntimeIs
<1>13. CASE ~successful
  <2>1. /\ provider'.downtimeFirstSnapshotId = IF ds # 0 THEN ds ELSE id
        /\ provider'.failedCheckCount = row.failedCheckCount + 1
        /\ provider'.nextCheckDate =
             NextCheckDate(successful, IF ds # 0 THEN snapshots[ds].at ELSE now)
    BY <1>6, <1>13 DEF UpdatedRow
  <2>2. Downtime' = Downtime \cup {id}
    BY <1>8, <1>13
  <2>3. Cardinality(Downtime') = Cardinality(Downtime) + 1
    BY <1>9, <2>2, FS_AddElement
  <2>4. ds # 0 <=> Downtime # {}
    BY <1>5, <1>9
  <2>5. \A i \in Downtime : i \in Nat /\ i <= id
    BY <1>2, <1>9
  <2>6. DowntimeIs(provider.downtimeFirstSnapshotId)'
    BY <1>2, <1>5, <2>1, <2>2, <2>4, <2>5 DEF DowntimeIs
  <2>7. snapshots'[provider'.downtimeFirstSnapshotId].at =
          IF ds # 0 THEN snapshots[ds].at ELSE now
    BY <1>3, <1>5, <1>9, <2>1, <2>4
  <2>8. provider'.nextCheckDate =
          now + WaitAfter(now - snapshots'[provider'.downtimeFirstSnapshotId].at)
    BY <1>13, <2>1, <2>7 DEF NextCheckDate
  <2> QED BY <1>5, <1>10, <1>11, <2>1, <2>3, <2>6, <2>8
<1> QED BY <1>12, <1>13

------------------------------------------------------------------------------
\* A provider nobody has checked has neither snapshots nor orphans.
LEMMA InitInv == Init => IInv
<1> SUFFICES ASSUME Init PROVE IInv
  OBVIOUS
<1>1. snapshots = <<>> /\ Len(snapshots) = 0 /\ Ids = {}
  BY DEF Init, Ids
<1>2. TypeOK
  <2>1. provider \in ProviderRow
    BY <1>1, ConstantsAssumption DEF Init, ProviderRow
  <2>2. orphans \in Seq(Check) /\ Len(orphans) = 0
    BY DEF Init
  <2>3. deleted \in BOOLEAN /\ stale \in BOOLEAN /\ check \in Check \cup {NoCheck}
    BY DEF Init
  <2>4. now \in 0..MaxTime /\ faults \in 0..MaxFaults /\ 0 <= MaxFaults
    BY ConstantsAssumption DEF Init
  <2>5. snapshots \in Seq(Snapshot) /\ provider.lastSnapshotId = 0
    BY DEF Init
  <2> QED BY <2>1, <2>2, <2>3, <2>4, <2>5 DEF TypeOK
<1>3. TimesGrow /\ DayMarksFollowSnapshots
  BY <1>1 DEF TimesGrow, DayMarksFollowSnapshots
<1>4. OrphansArePaid
  BY ConstantsAssumption DEF Init, OrphansArePaid
<1>5. RowInv
  <2>1. Successes = {} /\ Downtime = {}
    BY <1>1 DEF Successes, Downtime
  <2> QED BY <1>1, <2>1, FS_EmptySet DEF Init, RowInv, LastSuccessIs, DowntimeIs
<1> QED BY <1>2, <1>3, <1>4, <1>5 DEF IInv

\* A save by the run's check or by an orphan.
LEMMA SaveKeepsInv ==
  ASSUME IInv, NEW c \in Check, NEW successful \in BOOLEAN, SaveStatus(c.row, successful),
         UNCHANGED <<now, deleted, faults>>,
         check' \in {check, NoCheck},
         orphans' \in Seq(Check), Len(orphans') <= Len(orphans), Len(orphans') \in Nat
  PROVE  IInv'
<1> USE DEF IInv
<1>1. c.row \in ProviderRow
  BY DEF Check
<1>2. /\ snapshots' \in Seq(Snapshot) /\ provider' \in ProviderRow' /\ stale' \in BOOLEAN
      /\ provider'.lastSnapshotId # 0 =>
           LET checked == snapshots'[provider'.lastSnapshotId].at
           IN  provider'.nextCheckDate \in (checked + 1)..(checked + LongestWait)
      /\ ProviderRow \subseteq ProviderRow' /\ Check \subseteq Check'
  BY <1>1, SaveKeepsTypes
<1>3. orphans' \in Seq(Check')
  BY <1>2, SequencesGrow
<1>4. Len(orphans) \in Nat
  BY LenProperties DEF TypeOK
<1>5. TypeOK'
  BY <1>2, <1>3, <1>4, ConstantsAssumption DEF TypeOK
<1>6. TimesGrow'
  BY SaveKeepsOrder
<1>7. OrphansArePaid'
  BY <1>4, ConstantsAssumption DEF OrphansArePaid, TypeOK
<1>8. DayMarksFollowSnapshots' /\ RowInv'
  BY <1>1, SaveKeepsMarks, SaveKeepsRow
<1> QED BY <1>5, <1>6, <1>7, <1>8

\* Steps that leave the tables alone.
LEMMA QuietKeepsInv ==
  ASSUME IInv, UNCHANGED <<snapshots, provider, stale>>,
         now' \in now..MaxTime, deleted' \in BOOLEAN, faults' \in 0..faults,
         check' \in Check' \cup {NoCheck},
         orphans' \in Seq(Check) /\ Len(orphans') <= Len(orphans) + faults - faults'
           /\ Len(orphans') \in Nat
  PROVE  IInv'
<1> USE DEF IInv
<1>1. Ids' = Ids /\ now' \in Nat /\ now <= now' /\ now \in Nat
  BY ConstantsAssumption DEF Ids, TypeOK
<1>2. ProviderRow' = ProviderRow
  BY <1>1 DEF ProviderRow
<1>3. Check \subseteq Check'
  BY <1>1, <1>2 DEF Check
<1>4. orphans' \in Seq(Check')
  BY <1>3, SequencesGrow
<1>5. Len(orphans) \in Nat /\ faults \in 0..MaxFaults /\ MaxFaults \in Nat
  BY LenProperties, ConstantsAssumption DEF TypeOK
<1>6. OrphansArePaid' /\ Len(orphans') <= MaxFaults /\ faults' \in 0..MaxFaults
  BY <1>5 DEF OrphansArePaid
<1>7. TypeOK'
  BY <1>1, <1>2, <1>4, <1>6 DEF TypeOK
<1>8. TimesGrow'
  <2>1. \A i \in Ids : snapshots[i].at \in Nat
    BY IdsAreNumbers DEF TypeOK, Snapshot
  <2> QED BY <1>1, <2>1 DEF TimesGrow
<1>9. DayMarksFollowSnapshots'
  <2>1. Successes' = Successes /\ \A i : OfSameDay(i)' = OfSameDay(i)
    BY <1>1 DEF Successes, OfSameDay
  <2>2. \A i : /\ IsLastOfDay(i)' <=> IsLastOfDay(i)
               /\ IsLastSuccessOfDay(i)' <=> IsLastSuccessOfDay(i)
    BY <2>1, Zenon DEF IsLastOfDay, IsLastSuccessOfDay
  <2> QED BY <1>1, <2>1, <2>2, Zenon DEF DayMarksFollowSnapshots
<1>10. RowInv'
  BY <1>1, Zenon DEF RowInv, LastSuccessIs, DowntimeIs, Successes, Downtime
<1> QED BY <1>6, <1>7, <1>8, <1>9, <1>10

\* Every step, or none, keeps the invariant.
LEMMA StepInv == IInv /\ [Next]_vars => IInv'
<1> SUFFICES ASSUME IInv, [Next]_vars PROVE IInv'
  OBVIOUS
<1>1. /\ snapshots \in Seq(Snapshot) /\ now \in 0..MaxTime /\ MaxTime \in Nat
      /\ provider \in ProviderRow /\ deleted \in BOOLEAN /\ faults \in Nat
      /\ check \in Check \cup {NoCheck} /\ orphans \in Seq(Check) /\ Len(orphans) \in Nat
  BY LenProperties, ConstantsAssumption DEF IInv, TypeOK
<1>2. CASE Tick \/ StartCheck \/ DeleteProvider \/ SaveFails \/ RunFails \/ Crash \/ UNCHANGED vars
  <2>1. UNCHANGED <<snapshots, provider, stale>>
    BY <1>2 DEF Tick, StartCheck, DeleteProvider, SaveFails, RunFails, Crash, vars
  <2>2. now' \in now..MaxTime /\ deleted' \in BOOLEAN /\ faults' \in 0..faults
    <3>1. now' \in now..MaxTime
      BY <1>1, <1>2 DEF Tick, StartCheck, DeleteProvider, SaveFails, RunFails, Crash, vars
    <3>2. deleted' = deleted \/ deleted' = TRUE
      BY <1>2 DEF Tick, StartCheck, DeleteProvider, SaveFails, RunFails, Crash, vars
    <3>3. faults' \in 0..faults
      BY <1>1, <1>2 DEF Tick, StartCheck, DeleteProvider, SaveFails, RunFails, Crash, Fault, vars
    <3> QED BY <1>1, <3>1, <3>2, <3>3
  <2>3. Ids' = Ids
    BY <2>1 DEF Ids
  <2>4. ProviderRow' = ProviderRow
    BY <2>1, <2>3 DEF ProviderRow
  <2>5. Check \subseteq Check'
    BY <1>1, <2>2, <2>4 DEF Check
  <2>6. check' \in Check' \cup {NoCheck}
    <3>1. CASE StartCheck
      <4>1. check' = [row |-> provider, at |-> now] /\ now' = now
        BY <3>1 DEF StartCheck
      <4> QED BY <1>1, <2>4, <4>1 DEF Check
    <3>2. CASE ~StartCheck
      BY <1>1, <1>2, <2>5, <3>2
         DEF Tick, DeleteProvider, SaveFails, RunFails, Crash, vars
    <3> QED BY <3>1, <3>2
  <2>7. /\ orphans' \in Seq(Check) /\ Len(orphans') \in Nat
        /\ Len(orphans') <= Len(orphans) + faults - faults'
    <3>1. CASE RunFails
      <4>1. orphans' = Append(orphans, check) /\ check \in Check /\ faults' = faults - 1
        BY <1>1, <3>1 DEF RunFails, Fault
      <4>2. orphans' \in Seq(Check) /\ Len(orphans') = Len(orphans) + 1
        BY <1>1, <4>1, AppendProperties
      <4> QED BY <1>1, <4>1, <4>2
    <3>2. CASE Crash
      BY <1>1, <3>2 DEF Crash, Fault
    <3>3. CASE ~RunFails /\ ~Crash
      BY <1>1, <1>2, <2>2, <3>3 DEF Tick, StartCheck, DeleteProvider, SaveFails, vars
    <3> QED BY <3>1, <3>2, <3>3
  <2> QED BY <2>1, <2>2, <2>6, <2>7, QuietKeepsInv
<1>3. CASE FinishCheck
  <2>1. check \in Check /\ check' = NoCheck /\ UNCHANGED <<now, deleted, orphans, faults>>
    BY <1>1, <1>3 DEF FinishCheck
  <2>2. PICK successful \in BOOLEAN : SaveStatus(check.row, successful)
    BY <1>3 DEF FinishCheck
  <2> QED BY <1>1, <2>1, <2>2, SaveKeepsInv
<1>4. CASE FinishOrphan
  <2>1. PICK i \in DOMAIN orphans :
          /\ orphans' = RemoveAt(orphans, i)
          /\ \E successful \in BOOLEAN : SaveStatus(orphans[i].row, successful)
          /\ UNCHANGED <<now, deleted, check, faults>>
    BY <1>4 DEF FinishOrphan
  <2>2. PICK successful \in BOOLEAN : SaveStatus(orphans[i].row, successful)
    BY <2>1
  <2>3. orphans[i] \in Check /\ Len(orphans) >= 1
    BY <1>1, LenProperties
  <2>4. orphans' \in Seq(Check) /\ Len(orphans') = Len(orphans) - 1
    BY <1>1, <2>1, RemovalShortens
  <2> QED BY <1>1, <2>1, <2>2, <2>3, <2>4, SaveKeepsInv
<1> QED BY <1>2, <1>3, <1>4 DEF Next

\* The invariant holds in every reachable state, for any days, waits and numbers of checks,
\* failed runs and restarts.
THEOREM Invariance == Spec => []IInv
BY InitInv, StepInv, PTL DEF Spec

\* The tables keep their types, and the next check lies ahead of the last one by one unit at
\* least and the longest wait at most, whatever the row it was planned from.
THEOREM TypeCorrect == Spec => []TypeOK
<1>1. IInv => TypeOK
  BY DEF IInv
<1> QED BY <1>1, Invariance, PTL

\* The last snapshot of each day is marked, however late orphans save; the other rules hold
\* until a check is saved that worked on an outdated row.
THEOREM MarksFollow == Spec => []DayMarksFollowSnapshots
<1>1. IInv => DayMarksFollowSnapshots
  BY DEF IInv
<1> QED BY <1>1, Invariance, PTL

\* The provider's row is what its snapshots say, until then.
THEOREM RowFollows == Spec => []RowFollowsSnapshots
<1>1. ASSUME IInv PROVE RowFollowsSnapshots
  <2> SUFFICES ASSUME ~stale PROVE RowFollowsSnapshots
    BY DEF RowFollowsSnapshots
  <2> DEFINE ls == provider.lastSuccessfulSnapshotId
             ds == provider.downtimeFirstSnapshotId
  <2>1. /\ provider.lastSnapshotId = Len(snapshots)
        /\ ls \in Successes \cup {0} /\ \A i \in Successes : i <= ls
        /\ IF Downtime = {} THEN ds = 0 ELSE ds \in Downtime /\ \A i \in Downtime : ds <= i
        /\ provider.failedCheckCount = Cardinality(Downtime)
        /\ Downtime # {} =>
             LET checked == snapshots[Len(snapshots)].at
             IN  provider.nextCheckDate = checked + WaitAfter(checked - snapshots[ds].at)
    BY <1>1 DEF IInv, RowInv, LastSuccessIs, DowntimeIs
  <2>2. /\ Successes \subseteq Nat /\ Downtime \subseteq Nat
    BY <1>1, IdsAreNumbers DEF IInv, TypeOK, Successes, Downtime
  <2>3. ls = Max(Successes \cup {0})
    <3> DEFINE S == Successes \cup {0}
    <3> HIDE DEF ls
    <3>0. ls \in Successes \cup {0}
      BY <2>1
    <3>1. ls \in Nat
      BY ONLY <3>0, <2>2
    <3>2. ls \in S /\ \A x \in S : x \in Nat /\ x <= ls
      BY <2>1, <2>2, <3>1
    <3> HIDE DEF S
    <3>3. Max(S) = ls
      BY <3>2, MaximumIs
    <3> QED BY <3>3 DEF S
  <2>4. ASSUME Downtime # {} PROVE ds = Min(Downtime)
    <3> HIDE DEF ds
    <3>1. ds \in Downtime /\ \A x \in Downtime : x \in Nat /\ ds <= x
      BY <2>1, <2>2, <2>4
    <3> QED BY <3>1, MinimumIs
  <2> QED BY <2>1, <2>3, <2>4 DEF RowFollowsSnapshots
<1> QED BY <1>1, Invariance, PTL

------------------------------------------------------------------------------
(***************************************************************************)
(* AkashEscrow for any leases, prices, deposits and heights: a lease is    *)
(* paid for exactly the blocks it lived, a deployment closes with its last *)
(* lease, and an overdraft comes when it was predicted.                    *)
(*                                                                         *)
(* The invariant adds what is due of the time since a settlement, that the *)
(* balance of an open account is whole, and that nothing is gained or lost *)
(* between deposits, balance and what was paid.                            *)
(***************************************************************************)

(* Integer arithmetic                                                         *)

\* Division with its remainder.
LEMMA DivIs ==
  ASSUME NEW a \in Int, NEW b \in Nat \ {0}
  PROVE  /\ a \div b \in Int /\ a % b \in 0..(b - 1)
         /\ a = (b * (a \div b)) + (a % b)
         /\ b * (a \div b) <= a /\ a < (b * (a \div b)) + b
OBVIOUS

\* The quotient is the only number with this property.
LEMMA DivUnique ==
  ASSUME NEW a \in Int, NEW b \in Nat \ {0}, NEW q \in Int, b * q <= a, a < (b * q) + b
  PROVE  a \div b = q
OBVIOUS

\* The quotient of natural numbers is one.
LEMMA DivNat ==
  ASSUME NEW a \in Nat, NEW b \in Nat \ {0}
  PROVE  a \div b \in Nat
OBVIOUS

\* Products of integers.
LEMMA Products ==
  /\ \A x, y \in Int : x * y \in Int /\ x * y = y * x
  /\ \A x, y \in Nat : x * y \in Nat
  /\ \A x, y \in Nat \ {0} : x * y \in Nat \ {0}
  /\ \A x, y, z \in Int : x * (y + z) = (x * y) + (x * z) /\ x * (y - z) = (x * y) - (x * z)
  /\ \A x, y, z \in Int : x * (y * z) = (x * y) * z
  /\ \A x \in Nat : \A y, z \in Int : y <= z => x * y <= x * z
  /\ \A x \in Nat \ {0} : \A y, z \in Int : x * y <= x * z => y <= z
  /\ \A x \in Nat \ {0} : \A y, z \in Int : x * y = x * z => y = z
OBVIOUS

\* The number of blocks of price d that a takes to pay, rounded up.
LEMMA CeilDivIs ==
  ASSUME NEW a \in Int, NEW d \in Nat \ {0}
  PROVE  /\ CeilDiv(a, d) \in Int /\ a <= d * CeilDiv(a, d) /\ d * CeilDiv(a, d) < a + d
         /\ a \in Nat => CeilDiv(a, d) \in Nat
<1>1. PICK x \in Int : x = a + d - 1
  OBVIOUS
<1>2. a \in Nat => x \in Nat
  BY <1>1
<1>3. PICK q \in Int : q = x \div d
  BY DivIs
<1>4. d * q <= x /\ x < (d * q) + d /\ (a \in Nat => q \in Nat) /\ d * q \in Int
  BY <1>2, <1>3, DivIs, DivNat, Products
<1>5. CeilDiv(a, d) = q
  BY <1>1, <1>3 DEF CeilDiv
<1>6. a <= d * q
  BY <1>1, <1>4
<1> QED
  BY <1>1, <1>4, <1>5, <1>6

\* One block more or less to pay.
LEMMA CeilShift ==
  ASSUME NEW a \in Int, NEW d \in Nat \ {0}, NEW n \in Int
  PROVE  CeilDiv(a - (d * n), d) = CeilDiv(a, d) - n
<1> DEFINE q == CeilDiv(a, d)
<1>1. q \in Int /\ a <= d * q /\ d * q < a + d
  BY CeilDivIs
<1> HIDE DEF q
<1>2. /\ d * (q - n) = (d * q) - (d * n) /\ d * n \in Int /\ d * q \in Int /\ q - n \in Int
  BY <1>1, Products
<1>3. PICK x \in Int : x = a - (d * n) + d - 1
  BY <1>2
<1>4. d * (q - n) <= x /\ x < (d * (q - n)) + d
  BY <1>1, <1>2, <1>3
<1>5. x \div d = q - n
  BY <1>2, <1>4, DivUnique
<1>6. CeilDiv(a - (d * n), d) = q - n
  BY <1>3, <1>5 DEF CeilDiv
<1> QED
  BY <1>6 DEF q
------------------------------------------------------------------------------
\* Rates of sets of leases.
LEMMA Rates ==
  ASSUME NEW S \in SUBSET Leases
  PROVE  /\ RateOf(S) \in Nat /\ IsFiniteSet(S)
         /\ S # {} => RateOf(S) \in Nat \ {0}
         /\ \A l \in S : RateOf(S) = Price[l] + RateOf(S \ {l})
         /\ \A l \in Leases \ S : RateOf(S \cup {l}) = RateOf(S) + Price[l]
<1>1. IsFiniteSet(S) /\ \A l \in Leases : Price[l] \in Nat \ {0}
  BY PriceAssumption, FS_Subset
<1>2. RateOf(S) \in Nat
  BY <1>1, SumTypes DEF RateOf
<1>3. \A l \in S : RateOf(S) = Price[l] + RateOf(S \ {l})
  BY <1>1, SumRemove DEF RateOf
<1>4. ASSUME NEW l \in Leases \ S PROVE RateOf(S \cup {l}) = RateOf(S) + Price[l]
  BY <1>1, SumInsert DEF RateOf
<1>5. ASSUME NEW l \in S PROVE RateOf(S) \in Nat \ {0}
  <2>1. RateOf(S \ {l}) \in Nat
    <3>1. IsFiniteSet(S \ {l})
      BY <1>1, FS_Subset
    <3> QED
      BY <1>1, <3>1, SumTypes DEF RateOf
  <2> QED
    BY <1>1, <1>3, <2>1
<1> QED
  BY <1>1, <1>2, <1>3, <1>4, <1>5

\* The last tokens, k of them, are shared completely, and no lease gets more
\* than for one block.
LEMMA Shares ==
  ASSUME NEW S \in SUBSET Leases, S # {}, NEW k \in Nat, k <= RateOf(S), NEW f,
         \A l \in S : f[l] = ((Unit * k) * Price[l]) \div RateOf(S)
  PROVE  /\ SumFunctionOnSet(f, S) = Unit * k
         /\ \A l \in S : f[l] \in Nat /\ f[l] <= Price[l] * Unit
<1> DEFINE R == RateOf(S)
           u == [l \in S |-> (Unit * Price[l]) \div R]
           h == [l \in S |-> Unit * Price[l]]
<1>1. R \in Nat \ {0} /\ IsFiniteSet(S) /\ Unit \in Nat \ {0} /\ \A l \in S : Price[l] \in Nat \ {0}
  BY Rates, UnitAssumption, PriceAssumption
<1>2. \A l \in S : (Unit * Price[l]) % R = 0
  BY UnitAssumption
<1>3. SumFunctionOnSet(Price, S) = R
  BY DEF RateOf
<1> HIDE DEF R
<1>4. ASSUME NEW l \in S PROVE u[l] \in Nat /\ R * u[l] = Unit * Price[l] /\ h[l] = Unit * Price[l]
  <2>1. Unit * Price[l] \in Nat
    BY <1>1, Products
  <2>2. PICK n \in Nat : n = Unit * Price[l]
    BY <2>1
  <2>3. n % R = 0
    BY <1>2, <2>2
  <2>4. n \div R \in Nat /\ R * (n \div R) = n
    <3>1. n \div R \in Nat
      BY <1>1, DivNat
    <3>2. n = (R * (n \div R)) + (n % R)
      BY <1>1, DivIs
    <3>3. PICK q \in Nat : q = n \div R
      BY <3>1
    <3>4. R * q \in Int
      BY <1>1, Products
    <3> QED
      BY <2>3, <3>2, <3>3, <3>4
  <2> QED
    BY <2>2, <2>4
<1> HIDE DEF u, h
<1>5. SumFunctionOnSet(h, S) = Unit * R
  <2>1. \A l \in S : Price[l] \in Int /\ h[l] = Unit * Price[l]
    BY <1>1, <1>4
  <2>2. IsFiniteSet(S) /\ Unit \in Int
    BY <1>1
  <2>3. SumFunctionOnSet(h, S) = Unit * SumFunctionOnSet(Price, S)
    BY ONLY <2>1, <2>2, SumScale
  <2> QED
    BY <1>3, <2>3
<1>6. SumFunctionOnSet(u, S) \in Nat /\ SumFunctionOnSet(h, S) = R * SumFunctionOnSet(u, S)
  <2>1. SumFunctionOnSet(u, S) \in Nat
    <3>1. \A l \in S : u[l] \in Nat
      BY <1>4
    <3>2. IsFiniteSet(S)
      BY <1>1
    <3> QED
      BY ONLY <3>1, <3>2, SumTypes, Zenon
  <2>2. \A l \in S : u[l] \in Int /\ h[l] = R * u[l]
    BY <1>4
  <2>3. R \in Int /\ IsFiniteSet(S)
    BY <1>1
  <2>4. SumFunctionOnSet(h, S) = R * SumFunctionOnSet(u, S)
    BY ONLY <2>2, <2>3, SumScale, Zenon
  <2> QED
    BY <2>1, <2>4
<1>7. SumFunctionOnSet(u, S) = Unit
  BY <1>1, <1>5, <1>6, Products
<1>8. ASSUME NEW l \in S PROVE f[l] = k * u[l]
  <2>1. PICK p \in Nat : p = Price[l]
    BY <1>1
  <2>2. PICK v \in Nat : v = u[l]
    BY <1>4
  <2>3. (Unit * k) * p = R * (k * v)
    <3>1. R * v = Unit * p
      BY <1>4, <2>1, <2>2
    <3>2. (Unit * k) * p = k * (Unit * p) /\ R * (k * v) = k * (R * v)
      BY <1>1, Products
    <3> QED
      BY <3>1, <3>2
  <2>4. k * v \in Int /\ R * (k * v) \in Int
    BY <1>1, Products
  <2>5. ((Unit * k) * p) \div R = k * v
    <3>1. PICK a \in Int : a = (Unit * k) * p
      BY <2>3, <2>4
    <3>2. PICK q \in Int : q = k * v
      BY <2>4
    <3>3. R * q <= a /\ a < (R * q) + R
      BY <1>1, <2>3, <3>1, <3>2
    <3> QED
      BY <1>1, <3>1, <3>2, <3>3, DivUnique
  <2>6. f[l] = ((Unit * k) * Price[l]) \div R
    BY DEF R
  <2> QED
    BY <2>1, <2>2, <2>5, <2>6
<1>9. SumFunctionOnSet(f, S) = k * Unit
  BY <1>1, <1>4, <1>7, <1>8, SumScale
<1>10. ASSUME NEW l \in S PROVE f[l] \in Nat /\ f[l] <= Price[l] * Unit
  <2>1. u[l] * k <= u[l] * R
    BY <1>1, <1>4, Products DEF R
  <2>2. k * u[l] \in Nat /\ k * u[l] = u[l] * k /\ u[l] * R = Price[l] * Unit
    BY <1>1, <1>4, Products
  <2> QED
    BY <1>8, <2>1, <2>2
<1> QED
  BY <1>1, <1>9, <1>10, Products
------------------------------------------------------------------------------
(* The inductive invariant                                                    *)

\* Nothing happens before the deployment's creation, or later than now.
DatesInv ==
  /\ deployment.created <= height /\ deployment.lastWithdraw <= height /\ deployment.closed <= height
  /\ ~Exists => deployment = NoDeployment /\ bids = {} /\ \A l \in Leases : ~Created(l)
  /\ \A l \in Leases : ~Created(l) => leases[l] = NoLease
  /\ \A l \in Active : leases[l].created <= deployment.lastWithdraw

\* What lease l is due from its creation to a height.
Due(l, until) == (Price[l] * Unit) * (until - leases[l].created)

\* An active lease has been paid in full at the last settlement.
PaidInv ==
  \A l \in Leases : Created(l) =>
    /\ leases[l].closed = NoHeight => leases[l].withdrawn = Due(l, deployment.lastWithdraw)
    /\ leases[l].closed # NoHeight =>
         /\ leases[l].withdrawn <= Due(l, leases[l].closed)
         /\ leases[l].withdrawn < Due(l, leases[l].closed) =>
              deployment.closed = leases[l].closed /\ deployment.balance = 0

\* Until an account is overdrawn only whole tokens have been paid.
WholeInv == Open => deployment.balance % Unit = 0

BalanceInv == EscrowTypeOK /\ DatesInv /\ PaidInv /\ WholeInv /\ Conserved /\ ClosedWithLastLease

\* Types, and the order of what has happened.
LEMMA Types ==
  ASSUME BalanceInv
  PROVE  /\ height \in Nat /\ height >= 1 /\ height \in MaybeHeight /\ MaybeHeight \subseteq Nat
         /\ deployment \in Deployment /\ deployment.balance \in Nat /\ deployment.withdrawn \in Nat
         /\ deployment.deposit \in Nat /\ deployment.lastWithdraw \in 0..height
         /\ deployment.created \in MaybeHeight /\ deployment.closed \in MaybeHeight
         /\ Unit \in Nat \ {0} /\ IsFiniteSet(Leases) /\ Active \subseteq Leases
         /\ \A l \in Leases :
              /\ Price[l] \in Nat \ {0} /\ Price[l] * Unit \in Nat \ {0} /\ leases[l] \in Lease
              /\ leases[l].created \in MaybeHeight /\ leases[l].closed \in MaybeHeight
              /\ leases[l].withdrawn \in Nat /\ leases[l].predicted \in Nat
<1>1. /\ height \in Heights /\ deployment \in Deployment /\ leases \in [Leases -> Lease]
      /\ Price \in [Leases -> Nat \ {0}] /\ Unit \in Nat \ {0} /\ IsFiniteSet(Leases)
  BY PriceAssumption, UnitAssumption DEF BalanceInv, EscrowTypeOK
<1>2. height \in Nat /\ height >= 1 /\ height \in MaybeHeight /\ MaybeHeight \subseteq Nat
  BY <1>1, BoundsAssumption DEF Heights, MaybeHeight, NoHeight
<1>3. /\ deployment.balance \in Int /\ deployment.withdrawn \in Nat /\ deployment.deposit \in Nat
      /\ deployment.created \in MaybeHeight /\ deployment.closed \in MaybeHeight
      /\ deployment.lastWithdraw \in MaybeHeight
  BY <1>1 DEF Deployment
<1>4. deployment.balance >= 0 /\ deployment.lastWithdraw <= height
  BY DEF BalanceInv, Conserved, DatesInv
<1>5. ASSUME NEW l \in Leases
      PROVE  /\ Price[l] \in Nat \ {0} /\ Price[l] * Unit \in Nat \ {0} /\ leases[l] \in Lease
             /\ leases[l].created \in MaybeHeight /\ leases[l].closed \in MaybeHeight
             /\ leases[l].withdrawn \in Nat /\ leases[l].predicted \in Nat
  BY <1>1, Products DEF Lease
<1>6. Active \subseteq Leases
  BY DEF Active
<1>7. deployment.balance \in Nat
  BY <1>3, <1>4
<1>8. deployment.lastWithdraw \in 0..height
  <2>1. PICK h \in Nat, w \in Nat : h = height /\ w = deployment.lastWithdraw
    BY <1>2, <1>3
  <2> QED
    BY <1>4, <2>1
<1> QED
  BY <1>1, <1>2, <1>3, <1>5, <1>6, <1>7, <1>8

\* The full blocks of a settlement are as many as there are, or as the balance
\* pays for.
LEMMA FullBlocks ==
  ASSUME BalanceInv, Settles
  PROVE  /\ NumFullBlocks \in Nat /\ HeightDelta \in Nat \ {0} /\ NumFullBlocks <= HeightDelta
         /\ BlockRate \in Nat \ {0} /\ BlockRate * Unit \in Nat \ {0}
         /\ (BlockRate * Unit) * NumFullBlocks <= deployment.balance
         /\ Overdrawn => deployment.balance < ((BlockRate * Unit) * NumFullBlocks) + (BlockRate * Unit)
         /\ Overdrawn <=> deployment.balance < (BlockRate * Unit) * HeightDelta
<1>1. /\ HeightDelta \in Nat \ {0} /\ deployment.balance \in Nat /\ Active \subseteq Leases /\ Active # {}
  BY Types DEF Settles, HeightDelta
<1>2. BlockRate \in Nat \ {0} /\ BlockRate * Unit \in Nat \ {0}
  BY <1>1, Rates, UnitAssumption, Products DEF BlockRate
<1>3. PICK d \in Nat \ {0} : d = BlockRate * Unit
  BY <1>2
<1>4. PICK b \in Nat : b = deployment.balance
  BY <1>1
<1>5. PICK q \in Nat : q = b \div d
  BY DivNat
<1>6. d * q <= b /\ b < (d * q) + d /\ d * q \in Int
  BY <1>5, DivIs, Products
<1>7. PICK t \in Nat \ {0} : t = HeightDelta
  BY <1>1
<1>8. NumFullBlocks = IF q < t THEN q ELSE t
  BY <1>3, <1>4, <1>5, <1>7 DEF NumFullBlocks
<1>9. CASE q < t
  <2>1. d * (q + 1) = (d * q) + d /\ d * (q + 1) <= d * t /\ d * t \in Int
    <3>1. d * (q + 1) = (d * q) + (d * 1) /\ d * 1 = d
      BY Products
    <3>2. q + 1 <= t /\ q + 1 \in Int
      BY <1>9
    <3> QED
      BY <3>1, <3>2, Products
  <2>2. Overdrawn
    BY <1>7, <1>8, <1>9 DEF Overdrawn
  <2> QED
    BY <1>1, <1>2, <1>3, <1>4, <1>6, <1>7, <1>8, <1>9, <2>1, <2>2
<1>10. CASE ~(q < t)
  <2>1. d * t <= d * q /\ d * t \in Int
    BY <1>10, Products
  <2>2. ~Overdrawn
    BY <1>7, <1>8, <1>10 DEF Overdrawn
  <2> QED
    BY <1>1, <1>2, <1>3, <1>4, <1>6, <1>7, <1>8, <1>10, <2>1, <2>2
<1> QED
  BY <1>9, <1>10

\* Paying each active lease for n blocks costs n times the account's rate.
LEMMA Paying ==
  ASSUME BalanceInv, NEW n \in Nat, NEW pay,
         \A l \in Leases : pay[l] = IF l \in Active THEN (Price[l] * Unit) * n ELSE 0
  PROVE  SumFunctionOnSet(pay, Leases) = (BlockRate * Unit) * n
<1> DEFINE h == [l \in Leases |-> (Price[l] * Unit) * n]
<1>1. /\ IsFiniteSet(Leases) /\ Unit \in Nat /\ Active \in SUBSET Leases /\ IsFiniteSet(Active)
      /\ \A l \in Leases : Price[l] \in Int
      /\ BlockRate \in Nat /\ BlockRate = SumFunctionOnSet(Price, Active)
  BY Types, Rates DEF BlockRate, RateOf
<1>2. PICK k \in Int : k = Unit * n
  BY <1>1, Products
<1>3. ASSUME NEW l \in Leases
      PROVE  h[l] = k * Price[l] /\ h[l] \in Int
  <2>1. PICK p \in Int : p = Price[l]
    BY <1>1
  <2>2. (p * Unit) * n = k * p /\ k * p \in Int
    BY <1>1, <1>2, <2>1
  <2> QED
    BY <2>1, <2>2
<1> HIDE DEF h
<1>4. \A l \in Leases : h[l] \in Int /\ pay[l] = IF l \in Active THEN h[l] ELSE 0
  <2> SUFFICES ASSUME NEW l \in Leases PROVE h[l] \in Int /\ pay[l] = IF l \in Active THEN h[l] ELSE 0
    OBVIOUS
  <2>1. h[l] = (Price[l] * Unit) * n
    BY DEF h
  <2> QED
    BY <1>3, <2>1
<1>5. SumFunctionOnSet(pay, Leases) = SumFunctionOnSet(h, Active)
  BY ONLY <1>1, <1>4, SumWithin, ZenonT(40)
<1>6. \A l \in Active : Price[l] \in Int /\ h[l] = k * Price[l]
  BY <1>1, <1>3
<1>7. SumFunctionOnSet(h, Active) = k * SumFunctionOnSet(Price, Active)
  BY ONLY <1>1, <1>2, <1>6, SumScale, Zenon
<1>8. PICK r \in Nat : r = BlockRate
  BY <1>1
<1>9. k * r = (r * Unit) * n
  BY <1>1, <1>2, <1>8
<1> QED
  BY <1>1, <1>5, <1>7, <1>8, <1>9

\* Only an open account with active leases settles.
LEMMA SettlesWhenOpen ==
  ASSUME BalanceInv, Active # {}
  PROVE  Open
<1>1. Exists
  BY DEF BalanceInv, DatesInv, Active
<1>2. deployment.closed = NoHeight
  BY DEF BalanceInv, ClosedWithLastLease
<1> QED
  BY <1>1, <1>2 DEF Open

\* What is left of an overdrawn account's balance after the full blocks is a
\* whole number of tokens, not more than one block costs.
LEMMA LastTokens ==
  ASSUME BalanceInv, Overdrawn
  PROVE  \E k \in Nat : /\ k <= RateOf(Active) /\ Remaining = Unit * k
                        /\ deployment.balance = (BlockRate * Unit) * NumFullBlocks + (Unit * k)
<1>1. /\ Settles /\ Active # {} /\ Open
      /\ deployment.balance \in Nat /\ Unit \in Nat \ {0}
  BY Types, SettlesWhenOpen DEF Overdrawn, Settles
<1>2. deployment.balance % Unit = 0
  BY <1>1 DEF BalanceInv, WholeInv
<1>3. PICK r \in Nat \ {0}, n \in Nat : r = BlockRate /\ n = NumFullBlocks
  BY <1>1, FullBlocks
<1>4. PICK B \in Nat : B = deployment.balance
  BY <1>1
<1>5. (r * Unit) * n <= B /\ B < ((r * Unit) * n) + (r * Unit)
  BY <1>1, <1>3, <1>4, FullBlocks
<1>6. PICK b \in Nat : B = Unit * b
  <2>1. PICK b \in Nat : b = B \div Unit
    BY <1>1, DivNat
  <2>2. B = (Unit * b) + (B % Unit) /\ Unit * b \in Nat
    BY <1>1, <2>1, DivIs, Products
  <2> QED
    BY <1>2, <1>4, <2>2
<1>7. PICK m \in Nat : m = r * n
  BY Products
<1>8. /\ (r * Unit) * n = Unit * m
      /\ ((r * Unit) * n) + (r * Unit) = Unit * (m + r)
  BY <1>1, <1>3, <1>7
<1>9. m <= b /\ b <= m + r
  BY <1>1, <1>5, <1>6, <1>8, Products
<1>10. b - m \in Nat /\ b - m <= r /\ Unit * (b - m) = B - ((r * Unit) * n)
  BY <1>1, <1>6, <1>8, <1>9, Products
<1>11. PICK x \in Int : x = (r * Unit) * n
  BY <1>1, Products
<1>12. Remaining = Unit * (b - m) /\ B = x + (Unit * (b - m))
  BY <1>3, <1>4, <1>10, <1>11 DEF Remaining
<1> QED
  BY <1>3, <1>4, <1>10, <1>11, <1>12 DEF BlockRate

\* What a settlement pays.
LEMMA Payments ==
  ASSUME BalanceInv
  PROVE  /\ Transferred = SumFunctionOnSet([l \in Leases |-> Payment(l)], Leases)
         /\ Transferred \in Nat /\ Transferred <= deployment.balance
         /\ \A l \in Leases : Payment(l) \in Nat /\ (l \notin Active => Payment(l) = 0)
         /\ ~Settles => Transferred = 0 /\ \A l \in Leases : Payment(l) = 0
         /\ Settles /\ ~Overdrawn =>
              /\ Transferred = (BlockRate * Unit) * HeightDelta
              /\ \A l \in Active : Payment(l) = (Price[l] * Unit) * HeightDelta
         /\ Overdrawn =>
              /\ Transferred = deployment.balance
              /\ \A l \in Active : Payment(l) <= (Price[l] * Unit) * HeightDelta
<1> DEFINE pay == [l \in Leases |-> Payment(l)]
<1>1. Transferred = SumFunctionOnSet(pay, Leases)
  BY DEF Transferred, SumFunction, SumFunctionOnSet, FoldFunction
<1>2. \A l \in Leases : l \notin Active => Payment(l) = 0
  BY DEF Payment
<1>3. CASE ~Settles
  <2>1. \A l \in Leases : Payment(l) = 0
    BY <1>3 DEF Payment
  <2>2. ~Overdrawn
    BY <1>3 DEF Overdrawn
  <2>3. \A l \in Leases : pay[l] = IF l \in Active THEN (Price[l] * Unit) * 0 ELSE 0
    BY <2>1, Types
  <2>4. SumFunctionOnSet(pay, Leases) = (BlockRate * Unit) * 0
    BY <2>3, Paying
  <2>5. BlockRate * Unit \in Nat
    BY Types, Rates, Products DEF BlockRate
  <2>6. Transferred = 0
    BY <1>1, <2>4, <2>5
  <2> QED
    BY <1>1, <1>3, <2>1, <2>2, <2>6, Types
<1>4. CASE Settles
  <2>1. PICK n \in Nat, t \in Nat \ {0}, d \in Nat \ {0} :
          n = NumFullBlocks /\ t = HeightDelta /\ d = BlockRate * Unit
    BY <1>4, FullBlocks
  <2>2. n <= t /\ d * n <= deployment.balance /\ d * n \in Nat /\ deployment.balance \in Nat
    BY <1>4, <2>1, FullBlocks, Types, Products
  <2>3. \A l \in Leases : Price[l] * Unit \in Nat /\ (Price[l] * Unit) * n \in Nat
    BY Types, Products
  <2>4. CASE ~Overdrawn
    <3>1. n = t
      BY <1>4, <2>1, <2>4 DEF Overdrawn
    <3>2. ASSUME NEW l \in Leases
          PROVE  Payment(l) = IF l \in Active THEN (Price[l] * Unit) * n ELSE 0
      BY <1>2, <1>4, <2>1, <2>4, <2>3 DEF Payment
    <3>3. \A l \in Leases : pay[l] = IF l \in Active THEN (Price[l] * Unit) * n ELSE 0
      BY <3>2
    <3>4. SumFunctionOnSet(pay, Leases) = d * n
      BY <2>1, <3>3, Paying
    <3>5. \A l \in Leases : Payment(l) \in Nat
      BY <2>3, <3>2
    <3> QED
      BY <1>1, <1>2, <1>4, <2>1, <2>2, <2>4, <3>1, <3>2, <3>4, <3>5, Types
  <2>5. CASE Overdrawn
    <3> DEFINE full == [l \in Leases |-> IF l \in Active THEN (Price[l] * Unit) * n ELSE 0]
               last == [l \in Leases |-> IF l \in Active THEN Share(l) ELSE 0]
    <3>1. PICK k \in Nat : /\ k <= RateOf(Active) /\ Remaining = Unit * k
                           /\ deployment.balance = (d * n) + (Unit * k)
      BY <2>1, <2>5, LastTokens
    <3>2. Active \in SUBSET Leases /\ Active # {} /\ IsFiniteSet(Leases)
      BY <1>4, Types DEF Settles
    <3>3. \A l \in Active : last[l] = ((Unit * k) * Price[l]) \div RateOf(Active)
      BY <3>1, <3>2 DEF Share, BlockRate
    <3>4. /\ SumFunctionOnSet(last, Active) = Unit * k
          /\ \A l \in Active : last[l] \in Nat /\ last[l] <= Price[l] * Unit
      <4> HIDE DEF last
      <4> QED
        BY <3>1, <3>2, <3>3, Shares
    <3>5. ASSUME NEW l \in Leases
          PROVE  /\ pay[l] = full[l] + last[l] /\ full[l] \in Nat /\ last[l] \in Nat
                 /\ last[l] = IF l \in Active THEN last[l] ELSE 0
      <4>1. CASE l \in Active
        <5>1. pay[l] = ((Price[l] * Unit) * n) + Share(l)
          BY <1>4, <2>1, <2>5, <4>1 DEF Payment
        <5> QED
          BY <2>3, <3>4, <4>1, <5>1
      <4>2. CASE l \notin Active
        BY <1>2, <4>2
      <4> QED
        BY <4>1, <4>2
    <3>6. SumFunctionOnSet(full, Leases) = d * n
      <4>1. \A l \in Leases : full[l] = IF l \in Active THEN (Price[l] * Unit) * n ELSE 0
        OBVIOUS
      <4> QED
        BY <2>1, <4>1, Paying
    <3>7. ASSUME NEW l \in Active PROVE Payment(l) <= (Price[l] * Unit) * t
      <4>1. PICK p \in Nat : p = Price[l] * Unit
        BY <2>3, <3>2
      <4>2. n + 1 <= t
        BY <1>4, <2>1, <2>2, <2>5 DEF Overdrawn
      <4>3. pay[l] = (p * n) + last[l] /\ last[l] <= p /\ last[l] \in Nat /\ p * n \in Nat
        BY <2>3, <3>2, <3>4, <3>5, <4>1
      <4>4. pay[l] <= p * (n + 1) /\ p * (n + 1) <= p * t
        <5>1. p * (n + 1) = (p * n) + p
          BY <4>1
        <5>2. p * (n + 1) <= p * t
          BY <4>2, Products
        <5> QED
          BY <4>3, <5>1, <5>2
      <4>5. p * (n + 1) \in Int /\ p * t \in Int /\ pay[l] \in Int
        BY <4>3, Products
      <4>6. pay[l] = Payment(l)
        BY <3>2
      <4> QED
        BY <4>1, <4>4, <4>5, <4>6
    <3>8. \A l \in Leases : Payment(l) \in Nat
      <4>1. \A l \in Leases : pay[l] = Payment(l)
        OBVIOUS
      <4>2. \A l \in Leases : pay[l] \in Nat
        BY <3>5
      <4> QED
        BY <4>1, <4>2
    <3>9. SumFunctionOnSet(pay, Leases) = (d * n) + (Unit * k)
      <4>1. SumFunctionOnSet(last, Leases) = Unit * k
        <5>1. \A l \in Leases : last[l] \in Int /\ last[l] = IF l \in Active THEN last[l] ELSE 0
          BY <3>5
        <5> HIDE DEF last
        <5>2. SumFunctionOnSet(last, Leases) = SumFunctionOnSet(last, Active)
          BY ONLY <3>2, <5>1, SumWithin, ZenonT(40)
        <5> QED
          BY <3>4, <5>2
      <4>2. \A l \in Leases : full[l] \in Int /\ last[l] \in Int /\ pay[l] = full[l] + last[l]
        BY <3>5
      <4> HIDE DEF pay, full, last
      <4>3. SumFunctionOnSet(pay, Leases) = SumFunctionOnSet(full, Leases) + SumFunctionOnSet(last, Leases)
        BY ONLY <3>2, <4>2, SumAdd, Zenon
      <4> QED
        BY <3>6, <4>1, <4>3
    <3> HIDE DEF full, last
    <3> QED
      BY <1>1, <1>2, <1>4, <2>1, <2>2, <2>5, <3>1, <3>7, <3>8, <3>9, Types
  <2> QED
    BY <2>4, <2>5
<1> QED
  BY <1>3, <1>4

\* A settlement's rows: dates.
LEMMA SettledDates ==
  ASSUME BalanceInv, Exists
  PROVE  /\ SettledDeployment.created = deployment.created
         /\ SettledDeployment.deposit = deployment.deposit
         /\ SettledDeployment.lastWithdraw = height
         /\ SettledDeployment.closed = IF Overdrawn THEN height ELSE deployment.closed
         /\ SettledDeployment.balance = deployment.balance - Transferred
         /\ SettledDeployment.withdrawn = deployment.withdrawn + Transferred
         /\ SettledDeployment \in Deployment
         /\ SettledDeployment.balance \in Nat
         /\ SettledDeployment.deposit = SettledDeployment.balance + SettledDeployment.withdrawn
<1>1. /\ SettledDeployment.created = deployment.created
      /\ SettledDeployment.deposit = deployment.deposit
      /\ SettledDeployment.lastWithdraw = height
      /\ SettledDeployment.closed = IF Overdrawn THEN height ELSE deployment.closed
      /\ SettledDeployment.balance = deployment.balance - Transferred
      /\ SettledDeployment.withdrawn = deployment.withdrawn + Transferred
  BY Types DEF SettledDeployment, Deployment
<1>2. PICK b \in Nat, w \in Nat, t \in Nat :
        b = deployment.balance /\ w = deployment.withdrawn /\ t = Transferred
  BY Types, Payments
<1>3. t <= b /\ deployment.deposit = b + w
  BY <1>2, Payments DEF BalanceInv, Conserved
<1>4. b - t \in Nat /\ w + t \in Nat /\ b + w = (b - t) + (w + t)
  BY <1>3
<1>5. SettledDeployment \in Deployment
  <2>1. SettledDeployment =
          [deployment EXCEPT !.lastWithdraw = height, !.balance = b - t, !.withdrawn = w + t,
                             !.closed = IF Overdrawn THEN height ELSE deployment.closed]
    BY <1>2 DEF SettledDeployment
  <2>2. PICK c \in MaybeHeight : c = IF Overdrawn THEN height ELSE deployment.closed
    BY Types
  <2>3. height \in MaybeHeight /\ deployment \in Deployment
    BY Types
  <2> QED
    <3>1. PICK d \in Deployment, h \in MaybeHeight, x \in Int, y \in Nat :
            d = deployment /\ h = height /\ x = b - t /\ y = w + t
      BY <1>4, <2>3
    <3>2. [d EXCEPT !.lastWithdraw = h, !.balance = x, !.withdrawn = y, !.closed = c] \in Deployment
      BY DEF Deployment
    <3> QED
      BY <2>1, <2>2, <3>1, <3>2
<1> QED
  BY <1>1, <1>2, <1>3, <1>4, <1>5

\* A settlement's rows: leases.
LEMMA SettledRows ==
  ASSUME BalanceInv, Exists
  PROVE  /\ SettledLeases \in [Leases -> Lease]
         /\ \A l \in Leases :
              /\ SettledLeases[l].created = leases[l].created
              /\ SettledLeases[l].predicted = leases[l].predicted
              /\ SettledLeases[l].closed = IF Overdrawn /\ l \in Active THEN height ELSE leases[l].closed
              /\ SettledLeases[l].withdrawn = leases[l].withdrawn + Payment(l)
              /\ l \notin Active => SettledLeases[l] = leases[l]
         /\ SettledDeployment.withdrawn = SumFunctionOnSet([l \in Leases |-> SettledLeases[l].withdrawn], Leases)
<1>1. ASSUME NEW l \in Leases
      PROVE  /\ SettledLeases[l] = [leases[l] EXCEPT
                   !.withdrawn = @ + Payment(l),
                   !.closed = IF Overdrawn /\ l \in Active THEN height ELSE @]
             /\ leases[l] \in Lease /\ Payment(l) \in Nat /\ height \in MaybeHeight
             /\ leases[l].withdrawn \in Nat /\ leases[l].closed \in MaybeHeight
  BY Types, Payments DEF SettledLeases
<1>2. ASSUME NEW l \in Leases
      PROVE  /\ SettledLeases[l].created = leases[l].created
             /\ SettledLeases[l].predicted = leases[l].predicted
             /\ SettledLeases[l].closed = IF Overdrawn /\ l \in Active THEN height ELSE leases[l].closed
             /\ SettledLeases[l].withdrawn = leases[l].withdrawn + Payment(l)
             /\ SettledLeases[l] \in Lease
             /\ l \notin Active => SettledLeases[l] = leases[l]
  <2>1. PICK w \in Nat : w = leases[l].withdrawn + Payment(l)
    <3>1. PICK a \in Nat, b \in Nat : a = leases[l].withdrawn /\ b = Payment(l)
      BY <1>1
    <3> QED
      BY <3>1
  <2>2. PICK c \in MaybeHeight : c = IF Overdrawn /\ l \in Active THEN height ELSE leases[l].closed
    BY <1>1
  <2>3. PICK x \in Lease : x = leases[l]
    BY <1>1
  <2>4. SettledLeases[l] = [x EXCEPT !.withdrawn = w, !.closed = c]
    BY <1>1, <2>1, <2>2, <2>3
  <2>5. l \notin Active => w = x.withdrawn /\ c = x.closed
    <3>1. l \notin Active => Payment(l) = 0
      BY Payments
    <3>2. l \notin Active => w = x.withdrawn
      <4>1. PICK a \in Nat : a = x.withdrawn
        BY <1>1, <2>3
      <4> QED
        BY <2>1, <2>3, <3>1, <4>1
    <3> QED
      BY <2>2, <2>3, <3>2
  <2> QED
    <3>1. PICK y : y = SettledLeases[l]
      OBVIOUS
    <3>2. y = [x EXCEPT !.withdrawn = w, !.closed = c]
      BY <2>4, <3>1
    <3>3. /\ y \in Lease /\ y.created = x.created /\ y.predicted = x.predicted
          /\ y.closed = c /\ y.withdrawn = w
          /\ w = x.withdrawn /\ c = x.closed => y = x
      BY <3>2 DEF Lease
    <3> QED
      BY <2>1, <2>2, <2>3, <2>5, <3>1, <3>3
<1>4. SettledLeases \in [Leases -> Lease]
  <2>1. SettledLeases = [l \in Leases |-> SettledLeases[l]]
    BY DEF SettledLeases
  <2> QED
    BY <1>2, <2>1
<1>5. SettledDeployment.withdrawn = SumFunctionOnSet([l \in Leases |-> SettledLeases[l].withdrawn], Leases)
  <2> DEFINE old == [l \in Leases |-> leases[l].withdrawn]
             pay == [l \in Leases |-> Payment(l)]
             new == [l \in Leases |-> SettledLeases[l].withdrawn]
  <2>1. IsFiniteSet(Leases)
    BY Types
  <2>2. \A l \in Leases : old[l] \in Int /\ pay[l] \in Int /\ new[l] = old[l] + pay[l]
    <3> SUFFICES ASSUME NEW l \in Leases
                 PROVE  old[l] \in Int /\ pay[l] \in Int /\ new[l] = old[l] + pay[l]
      OBVIOUS
    <3>1. old[l] = leases[l].withdrawn /\ pay[l] = Payment(l) /\ new[l] = SettledLeases[l].withdrawn
      OBVIOUS
    <3> HIDE DEF old, pay, new
    <3>2. /\ leases[l].withdrawn \in Nat /\ Payment(l) \in Nat
          /\ SettledLeases[l].withdrawn = leases[l].withdrawn + Payment(l)
      BY <1>1, <1>2
    <3>3. \A i \in Nat : i \in Int
      OBVIOUS
    <3> QED
      BY ONLY <3>1, <3>2, <3>3, Zenon
  <2>3. deployment.withdrawn = SumFunctionOnSet(old, Leases)
    BY DEF BalanceInv, Conserved, SumFunction, SumFunctionOnSet, FoldFunction
  <2>4. Transferred = SumFunctionOnSet(pay, Leases)
    BY Payments
  <2>5. SettledDeployment.withdrawn = deployment.withdrawn + Transferred
    BY SettledDates
  <2>6. SumFunctionOnSet(new, Leases) = SumFunctionOnSet(old, Leases) + SumFunctionOnSet(pay, Leases)
    <3> HIDE DEF old, pay, new
    <3> QED
      BY ONLY <2>1, <2>2, SumAdd, Zenon
  <2> QED
    BY <2>3, <2>4, <2>5, <2>6
<1> QED
  BY <1>2, <1>4, <1>5

\* A settlement pays the active leases all they are due, unless the account is
\* overdrawn: then it pays them all there is.
LEMMA SettledDues ==
  ASSUME BalanceInv, Exists
  PROVE  /\ Overdrawn => /\ Active # {} /\ Open /\ SettledDeployment.balance = 0
                         /\ \A l \in Active : SettledLeases[l].withdrawn <= Due(l, height)
         /\ ~Overdrawn => \A l \in Active : SettledLeases[l].withdrawn = Due(l, height)
<1>1. Overdrawn => Active # {} /\ Open
  BY SettlesWhenOpen DEF Overdrawn, Settles
<1>2. Overdrawn => SettledDeployment.balance = 0
  BY Payments, SettledDates, Types
<1>3. ASSUME NEW l \in Active
      PROVE  /\ Overdrawn => SettledLeases[l].withdrawn <= Due(l, height)
             /\ ~Overdrawn => SettledLeases[l].withdrawn = Due(l, height)
  <2>1. /\ l \in Leases /\ Created(l) /\ leases[l].closed = NoHeight
    BY DEF Active
  <2>2. /\ leases[l].withdrawn = Due(l, deployment.lastWithdraw)
        /\ SettledLeases[l].withdrawn = leases[l].withdrawn + Payment(l)
        /\ Payment(l) \in Nat
    BY <2>1, SettledRows, Payments DEF BalanceInv, PaidInv
  <2>3. PICK p \in Nat, c \in Nat, w \in Nat, h \in Nat :
          p = Price[l] * Unit /\ c = leases[l].created /\ w = deployment.lastWithdraw /\ h = height
    BY <2>1, Types
  <2>4. /\ Due(l, deployment.lastWithdraw) = p * (w - c) /\ Due(l, height) = p * (h - c)
        /\ HeightDelta = h - w
    BY <2>3 DEF Due, HeightDelta
  <2>5. p * (h - c) = (p * (w - c)) + (p * (h - w)) /\ p * (w - c) \in Int /\ p * (h - w) \in Int
    BY Products
  <2>6. CASE ~Settles
    <3>1. Payment(l) = 0 /\ ~Overdrawn
      BY <2>1, <2>6, Payments DEF Overdrawn
    <3>2. h = w
      BY <2>3, <2>6 DEF Settles
    <3> QED
      BY <2>2, <2>4, <2>5, <3>1, <3>2
  <2>7. CASE Settles /\ ~Overdrawn
    <3>1. Payment(l) = p * (h - w)
      BY <2>3, <2>4, <2>7, Payments
    <3> QED
      BY <2>2, <2>4, <2>5, <2>7, <3>1
  <2>8. CASE Overdrawn
    <3>1. Payment(l) <= p * (h - w)
      BY <2>3, <2>4, <2>8, Payments
    <3> QED
      BY <2>2, <2>4, <2>5, <2>8, <3>1
  <2> QED
    BY <2>6, <2>7, <2>8
<1> QED
  BY <1>1, <1>2, <1>3

\* A settlement that does not overdraw the account leaves whole tokens, and
\* moves the height at which they run out nowhere.
LEMMA SettledExpiry ==
  ASSUME BalanceInv, Open, ~Overdrawn
  PROVE  /\ SettledDeployment.balance % Unit = 0
         /\ Active # {} => height + CeilDiv(SettledDeployment.balance, BlockRate * Unit) = Expiry
<1>1. /\ Exists /\ SettledDeployment.balance = deployment.balance - Transferred
      /\ deployment.balance % Unit = 0
  BY SettledDates DEF Open, BalanceInv, WholeInv
<1>2. PICK b \in Nat, h \in Nat, w \in Nat, U \in Nat \ {0} :
        b = deployment.balance /\ h = height /\ w = deployment.lastWithdraw /\ U = Unit
  BY Types
<1>3. CASE ~Settles
  <2>1. SettledDeployment.balance = b
    BY <1>1, <1>2, <1>3, Payments
  <2>2. Active # {} => h = w
    BY <1>2, <1>3 DEF Settles
  <2> QED
    BY <1>1, <1>2, <2>1, <2>2 DEF Expiry
<1>4. CASE Settles
  <2>1. PICK r \in Nat \ {0}, d \in Nat \ {0} : r = BlockRate /\ d = r * U
    BY <1>2, <1>4, FullBlocks
  <2>2. HeightDelta = h - w /\ h - w \in Int
    BY <1>2 DEF HeightDelta
  <2>3. Transferred = d * (h - w)
    BY <1>2, <1>4, <2>1, <2>2, Payments
  <2>4. SettledDeployment.balance = b - (d * (h - w))
    BY <1>1, <1>2, <2>3
  <2>5. CeilDiv(b - (d * (h - w)), d) = CeilDiv(b, d) - (h - w) /\ CeilDiv(b, d) \in Int
    BY <2>2, CeilShift, CeilDivIs
  <2>6. (b - (d * (h - w))) % U = 0
    <3>1. PICK m \in Int : m = r * (h - w)
      BY <2>2, Products
    <3>2. d * (h - w) = U * m
      BY <2>1, <2>2, <3>1
    <3>3. PICK q \in Int : b = U * q
      <4>1. PICK q \in Int : q = b \div U
        BY DivIs
      <4>2. b = (U * q) + (b % U) /\ b % U = 0 /\ U * q \in Int
        <5>1. b = (U * (b \div U)) + (b % U) /\ U * q \in Int
          BY <4>1, DivIs, Products
        <5>2. b % U = 0
          BY <1>1, <1>2
        <5> QED
          BY <4>1, <5>1, <5>2
      <4> QED
        BY <4>1, <4>2
    <3>4. U * q - U * m = U * (q - m)
      BY Products
    <3>5. PICK x \in Int : x = q - m
      OBVIOUS
    <3>6. (U * x) % U = 0
      OBVIOUS
    <3> QED
      BY <3>2, <3>3, <3>4, <3>5, <3>6
  <2> QED
    BY <1>2, <2>1, <2>4, <2>5, <2>6 DEF Expiry
<1> QED
  BY <1>3, <1>4

------------------------------------------------------------------------------
(* What the steps do to the invariant                                         *)

\* The steps that settle an open account, then close leases, perhaps the
\* account with them, or start a new one.
SettledStep ==
  /\ height' = height /\ bids' \subseteq Leases /\ halted' \in BOOLEAN /\ misdated' \in BOOLEAN
  /\ deployment' \in {SettledDeployment, [SettledDeployment EXCEPT !.closed = height]}
  /\ Overdrawn => deployment'.closed = height
  /\ leases' \in [Leases -> Lease]
  /\ \A l \in Leases :
       /\ leases'[l].withdrawn = SettledLeases[l].withdrawn
       /\ \/ /\ leases'[l].created = leases[l].created
             /\ ~Created(l) => leases'[l] = NoLease
             /\ \/ leases'[l].closed = SettledLeases[l].closed
                \/ l \in Active /\ leases'[l].closed = height
          \/ ~Created(l) /\ leases'[l].created = height /\ leases'[l].closed = NoHeight
  /\ ClosedWithLastLease'

\* What such a step writes to the deployment's row.
LEMMA StepDeployment ==
  ASSUME BalanceInv, Open, SettledStep
  PROVE  /\ deployment' \in Deployment /\ deployment'.balance \in Nat
         /\ deployment'.created = deployment.created /\ deployment'.deposit = deployment.deposit
         /\ deployment'.lastWithdraw = height
         /\ deployment'.closed \in {NoHeight, height}
         /\ deployment'.balance = SettledDeployment.balance
         /\ deployment'.withdrawn = SettledDeployment.withdrawn
         /\ deployment'.deposit = deployment'.balance + deployment'.withdrawn
<1>1. PICK D \in Deployment : D = SettledDeployment
  BY SettledDates DEF Open
<1>2. /\ D.created = deployment.created /\ D.deposit = deployment.deposit /\ D.lastWithdraw = height
      /\ D.closed \in {NoHeight, height} /\ D.balance \in Nat /\ D.deposit = D.balance + D.withdrawn
      /\ height \in MaybeHeight
  BY <1>1, SettledDates, Types DEF Open
<1>3. deployment' = D \/ deployment' = [D EXCEPT !.closed = height]
  BY <1>1 DEF SettledStep
<1> QED
  BY <1>1, <1>2, <1>3 DEF Deployment

\* What it writes to a lease's row.
LEMMA StepLease ==
  ASSUME BalanceInv, Open, SettledStep, NEW l \in Leases
  PROVE  /\ leases'[l] \in Lease
         /\ l \in Active =>
              /\ leases'[l].created = leases[l].created
              /\ leases'[l].closed \in {NoHeight, height}
              /\ leases'[l].closed = NoHeight => ~Overdrawn
              /\ leases'[l].withdrawn <= Due(l, height)
              /\ ~Overdrawn => leases'[l].withdrawn = Due(l, height)
         /\ l \notin Active /\ Created(l) =>
              /\ leases'[l].created = leases[l].created
              /\ leases'[l].closed = leases[l].closed /\ leases[l].closed # NoHeight
              /\ leases'[l].withdrawn = leases[l].withdrawn
              /\ leases[l].withdrawn = Due(l, leases[l].closed)
         /\ ~Created(l) =>
              /\ leases'[l].withdrawn = 0 /\ leases'[l].closed = NoHeight
              /\ leases'[l].created = NoHeight => leases'[l] = NoLease
              /\ leases'[l].created # NoHeight => leases'[l].created = height
<1>1. Exists /\ height \in Nat /\ height # NoHeight /\ deployment.closed = NoHeight
  BY Types DEF Open, NoHeight
<1>2. leases'[l] \in Lease
  BY DEF SettledStep
<1>3. CASE l \in Active
  <2>1. Created(l) /\ leases[l].closed = NoHeight
    BY <1>3 DEF Active
  <2>2. leases'[l].withdrawn = SettledLeases[l].withdrawn /\ leases'[l].created = leases[l].created
    BY <2>1 DEF SettledStep
  <2>3. leases'[l].closed \in {SettledLeases[l].closed, height}
    BY <2>1 DEF SettledStep
  <2>4. SettledLeases[l].closed = IF Overdrawn THEN height ELSE NoHeight
    BY <1>1, <1>3, <2>1, SettledRows
  <2>5. /\ Overdrawn => SettledLeases[l].withdrawn <= Due(l, height)
        /\ ~Overdrawn => SettledLeases[l].withdrawn = Due(l, height)
    BY <1>1, <1>3, SettledDues
  <2>6. leases'[l].withdrawn \in Nat
    BY <1>2 DEF Lease
  <2> QED
    BY <1>1, <1>2, <1>3, <2>1, <2>2, <2>3, <2>4, <2>5, <2>6
<1>4. CASE l \notin Active /\ Created(l)
  <2>1. leases[l].closed # NoHeight /\ SettledLeases[l] = leases[l]
    BY <1>1, <1>4, SettledRows DEF Active
  <2>2. /\ leases'[l].withdrawn = leases[l].withdrawn /\ leases'[l].created = leases[l].created
        /\ leases'[l].closed = leases[l].closed
    BY <1>4, <2>1 DEF SettledStep
  <2>3. /\ leases[l].withdrawn <= Due(l, leases[l].closed)
        /\ ~(leases[l].withdrawn < Due(l, leases[l].closed))
    BY <1>1, <1>4, <2>1 DEF BalanceInv, PaidInv
  <2>4. leases[l].withdrawn \in Nat /\ Due(l, leases[l].closed) \in Int
    <3>1. PICK p \in Nat, c \in Nat, d \in Nat :
            p = Price[l] * Unit /\ c = leases[l].created /\ d = leases[l].closed
      BY Types
    <3>2. d - c \in Int /\ p * (d - c) \in Int
      BY Products
    <3> QED
      BY <3>1, <3>2, Types DEF Due
  <2> QED
    BY <1>2, <1>4, <2>1, <2>2, <2>3, <2>4
<1>5. CASE ~Created(l)
  <2>1. l \notin Active /\ leases[l] = NoLease
    BY <1>5 DEF Active, BalanceInv, DatesInv
  <2>2. SettledLeases[l] = NoLease
    BY <1>1, <2>1, SettledRows
  <2>3. NoLease.withdrawn = 0 /\ NoLease.closed = NoHeight /\ NoLease.created = NoHeight
    BY DEF NoLease
  <2>4. leases'[l].withdrawn = 0
    BY <2>2, <2>3 DEF SettledStep
  <2>5. leases'[l] = NoLease \/ (leases'[l].created = height /\ leases'[l].closed = NoHeight)
    BY <1>5 DEF SettledStep
  <2> QED
    BY <1>1, <1>2, <1>5, <2>1, <2>3, <2>4, <2>5
<1> QED
  BY <1>3, <1>4, <1>5

\* Such a step preserves the invariant.
LEMMA SettledStepKeeps ==
  ASSUME BalanceInv, Open, SettledStep
  PROVE  BalanceInv'
<1>1. /\ height' = height /\ height \in Nat /\ height >= 1 /\ height \in Heights
      /\ deployment.created \in Nat /\ deployment.created <= height /\ deployment.created # NoHeight
      /\ deployment.lastWithdraw \in Nat /\ deployment.lastWithdraw <= height
      /\ deployment.closed = NoHeight
  BY Types DEF SettledStep, BalanceInv, EscrowTypeOK, DatesInv, Open, Exists
<1>2. EscrowTypeOK'
  BY <1>1, StepDeployment DEF SettledStep, EscrowTypeOK, Heights
<1>3. DatesInv'
  <2>1. /\ deployment'.created <= height' /\ deployment'.lastWithdraw <= height'
        /\ deployment'.closed <= height'
    BY <1>1, StepDeployment DEF NoHeight
  <2>2. Exists'
    BY <1>1, StepDeployment DEF Exists
  <2>3. ASSUME NEW l \in Leases, ~Created(l)' PROVE leases'[l] = NoLease
    <3>1. leases'[l].created = NoHeight
      BY <2>3 DEF Created
    <3>2. ~Created(l)
      BY <3>1, StepLease DEF Created, Active
    <3> QED
      BY <3>1, <3>2, StepLease
  <2>4. ASSUME NEW l \in Active' PROVE leases'[l].created <= deployment'.lastWithdraw
    <3>1. l \in Leases /\ leases'[l].created # NoHeight /\ leases'[l].closed = NoHeight
      BY <2>4 DEF Active, Created
    <3>2. deployment'.lastWithdraw = height
      BY StepDeployment
    <3>3. CASE l \in Active
      <4>1. leases[l].created <= deployment.lastWithdraw /\ leases[l].created \in Nat
        BY <3>1, <3>3, Types DEF BalanceInv, DatesInv
      <4> QED
        BY <1>1, <3>1, <3>2, <3>3, <4>1, StepLease
    <3>4. CASE l \notin Active /\ Created(l)
      BY <3>1, <3>4, StepLease
    <3>5. CASE ~Created(l)
      BY <1>1, <3>1, <3>2, <3>5, StepLease
    <3> QED
      BY <3>3, <3>4, <3>5
  <2> QED
    BY <2>1, <2>2, <2>3, <2>4 DEF DatesInv
<1>4. PaidInv'
  <2> SUFFICES ASSUME NEW l \in Leases, Created(l)'
               PROVE  /\ leases'[l].closed = NoHeight =>
                           leases'[l].withdrawn = Due(l, deployment.lastWithdraw)'
                      /\ leases'[l].closed # NoHeight =>
                           /\ leases'[l].withdrawn <= Due(l, leases[l].closed)'
                           /\ leases'[l].withdrawn < Due(l, leases[l].closed)' =>
                                deployment'.closed = leases'[l].closed /\ deployment'.balance = 0
    BY DEF PaidInv
  <2>1. /\ Due(l, deployment.lastWithdraw)' = (Price[l] * Unit) * (height - leases'[l].created)
        /\ Due(l, leases[l].closed)' = (Price[l] * Unit) * (leases'[l].closed - leases'[l].created)
    BY StepDeployment DEF Due
  <2>2. leases'[l].created # NoHeight
    BY DEF Created
  <2>3. CASE l \in Active
    <3>1. leases'[l].created = leases[l].created
      BY <2>3, StepLease
    <3>2. CASE leases'[l].closed = NoHeight
      BY <2>1, <2>3, <3>1, <3>2, StepLease DEF Due
    <3>3. CASE leases'[l].closed # NoHeight
      <4>1. leases'[l].closed = height
        BY <2>3, <3>3, StepLease
      <4>2. Due(l, leases[l].closed)' = Due(l, height)
        BY <2>1, <3>1, <4>1 DEF Due
      <4>3. CASE Overdrawn
        <5>1. deployment'.closed = height /\ deployment'.balance = 0
          BY <4>3, SettledDues, StepDeployment DEF SettledStep, Open
        <5> QED
          BY <2>3, <3>3, <4>1, <4>2, <5>1, StepLease
      <4>4. CASE ~Overdrawn
        <5>1. leases'[l].withdrawn = Due(l, height) /\ leases'[l].withdrawn \in Nat
          BY <2>3, <4>4, StepLease DEF Lease
        <5> QED
          BY <3>3, <4>2, <5>1
      <4> QED
        BY <4>3, <4>4
    <3> QED
      BY <3>2, <3>3
  <2>4. CASE l \notin Active /\ Created(l)
    <3>1. /\ leases'[l].closed = leases[l].closed /\ leases[l].closed # NoHeight
          /\ leases'[l].created = leases[l].created /\ leases'[l].withdrawn = leases[l].withdrawn
          /\ leases[l].withdrawn = Due(l, leases[l].closed) /\ leases[l].withdrawn \in Nat
      BY <2>4, StepLease, Types
    <3>2. Due(l, leases[l].closed)' = Due(l, leases[l].closed)
      BY <2>1, <3>1 DEF Due
    <3> QED
      BY <3>1, <3>2
  <2>5. CASE ~Created(l)
    <3>1. leases'[l].withdrawn = 0 /\ leases'[l].closed = NoHeight /\ leases'[l].created = height
      BY <2>2, <2>5, StepLease
    <3>2. PICK p \in Nat, h \in Nat : p = Price[l] * Unit /\ h = height
      BY Types
    <3>3. h - h = 0 /\ p * 0 = 0
      OBVIOUS
    <3> QED
      BY <2>1, <3>1, <3>2, <3>3
  <2> QED
    BY <2>3, <2>4, <2>5
<1>5. WholeInv'
  <2>1. Open' => ~Overdrawn
    BY <1>1 DEF Open, SettledStep, NoHeight
  <2>2. Unit' = Unit
    OBVIOUS
  <2> QED
    BY <2>1, SettledExpiry, StepDeployment DEF WholeInv
<1>6. Conserved'
  <2> DEFINE old == [l \in Leases |-> SettledLeases[l].withdrawn]
             new == [l \in Leases |-> leases'[l].withdrawn]
  <2>1. IsFiniteSet(Leases) /\ \A l \in Leases : old[l] = new[l]
    BY Types DEF SettledStep
  <2>2. deployment'.withdrawn = SumFunctionOnSet(old, Leases)
    BY SettledRows, StepDeployment DEF Open
  <2>3. SumFunctionOnSet(old, Leases) = SumFunctionOnSet(new, Leases)
    <3> HIDE DEF old, new
    <3> QED
      BY ONLY <2>1, SumEqual, Zenon
  <2>4. SumFunction([l \in Leases |-> leases'[l].withdrawn]) = SumFunctionOnSet(new, Leases)
    BY DEF SumFunction, SumFunctionOnSet, FoldFunction
  <2>5. deployment'.balance >= 0
    BY StepDeployment
  <2> QED
    BY <2>2, <2>3, <2>4, <2>5, StepDeployment DEF Conserved
<1> QED
  BY <1>2, <1>3, <1>4, <1>5, <1>6 DEF BalanceInv, SettledStep

\* Predictions change nothing else.
LEMMA PredictIs ==
  ASSUME NEW rows \in [Leases -> Lease], NEW p \in Nat
  PROVE  /\ Predict(rows, p) \in [Leases -> Lease]
         /\ \A l \in Leases :
              /\ Predict(rows, p)[l].created = rows[l].created
              /\ Predict(rows, p)[l].closed = rows[l].closed
              /\ Predict(rows, p)[l].withdrawn = rows[l].withdrawn
              /\ rows[l].created = NoHeight => Predict(rows, p)[l] = rows[l]
              /\ rows[l].created # NoHeight => Predict(rows, p)[l].predicted = p
<1>1. ASSUME NEW l \in Leases
      PROVE  /\ Predict(rows, p)[l] \in Lease
             /\ Predict(rows, p)[l].created = rows[l].created
             /\ Predict(rows, p)[l].closed = rows[l].closed
             /\ Predict(rows, p)[l].withdrawn = rows[l].withdrawn
             /\ rows[l].created = NoHeight => Predict(rows, p)[l] = rows[l]
             /\ rows[l].created # NoHeight => Predict(rows, p)[l].predicted = p
  <2>1. PICK x \in Lease : x = rows[l]
    OBVIOUS
  <2>2. Predict(rows, p)[l] = IF x.created # NoHeight THEN [x EXCEPT !.predicted = p] ELSE x
    BY <2>1 DEF Predict
  <2> QED
    BY <2>1, <2>2 DEF Lease
<1>2. Predict(rows, p) = [l \in Leases |-> Predict(rows, p)[l]]
  BY DEF Predict
<1> QED
  BY <1>1, <1>2

\* Nor does a closing.
LEMMA CloseIs ==
  ASSUME NEW rows \in [Leases -> Lease], NEW L, height \in MaybeHeight
  PROVE  /\ Close(rows, L) \in [Leases -> Lease]
         /\ \A l \in Leases :
              /\ Close(rows, L)[l].created = rows[l].created
              /\ Close(rows, L)[l].closed = IF l \in L THEN height ELSE rows[l].closed
              /\ Close(rows, L)[l].withdrawn = rows[l].withdrawn
              /\ l \notin L => Close(rows, L)[l] = rows[l]
<1>1. ASSUME NEW l \in Leases
      PROVE  /\ Close(rows, L)[l] \in Lease
             /\ Close(rows, L)[l].created = rows[l].created
             /\ Close(rows, L)[l].closed = IF l \in L THEN height ELSE rows[l].closed
             /\ Close(rows, L)[l].withdrawn = rows[l].withdrawn
             /\ l \notin L => Close(rows, L)[l] = rows[l]
  <2>1. PICK x \in Lease, h \in MaybeHeight : x = rows[l] /\ h = height
    OBVIOUS
  <2>2. Close(rows, L)[l] = IF l \in L THEN [x EXCEPT !.closed = h] ELSE x
    BY <2>1 DEF Close
  <2> QED
    BY <2>1, <2>2 DEF Lease
<1>2. Close(rows, L) = [l \in Leases |-> Close(rows, L)[l]]
  BY DEF Close
<1> QED
  BY <1>1, <1>2

\* A settlement's row is not closed at a later height unless overdrawn.
LEMMA SettledIs ==
  ASSUME BalanceInv, Open
  PROVE  /\ Exists /\ SettledLeases \in [Leases -> Lease] /\ height \in MaybeHeight /\ height # NoHeight
         /\ SettledDeployment.balance \in Nat
         /\ SettledDeployment.closed = IF Overdrawn THEN height ELSE NoHeight
         /\ [SettledDeployment EXCEPT !.closed = height].closed = height
         /\ \A l \in Leases :
              /\ SettledLeases[l].created = leases[l].created
              /\ l \in Active => SettledLeases[l].closed = IF Overdrawn THEN height ELSE NoHeight
              /\ l \notin Active => SettledLeases[l] = leases[l]
              /\ ~Created(l) => SettledLeases[l] = NoLease /\ NoLease.closed = NoHeight
                                /\ NoLease.created = NoHeight /\ NoLease.withdrawn = 0
<1>1. Exists /\ deployment.closed = NoHeight /\ height # NoHeight
  BY Types DEF Open, NoHeight
<1>2. SettledDeployment \in Deployment /\ [SettledDeployment EXCEPT !.closed = height].closed = height
  <2>1. PICK D \in Deployment : D = SettledDeployment
    BY <1>1, SettledDates
  <2> QED
    BY <2>1 DEF Deployment
<1>3. ASSUME NEW l \in Leases, ~Created(l)
      PROVE  SettledLeases[l] = NoLease
  BY <1>1, <1>3, SettledRows DEF Active, BalanceInv, DatesInv
<1>4. NoLease.closed = NoHeight /\ NoLease.created = NoHeight /\ NoLease.withdrawn = 0
  BY DEF NoLease
<1> QED
  BY <1>1, <1>2, <1>3, <1>4, SettledDates, SettledRows, Types DEF Active

\* The rate of the leases that go on when one of them ends.
LEMMA RateWithout ==
  ASSUME BalanceInv, NEW l \in Active
  PROVE  /\ BlockRate - Price[l] = RateOf(Active \ {l})
         /\ Active # {l} => RateOf(Active \ {l}) * Unit \in Nat \ {0}
<1>1. /\ Active \in SUBSET Leases /\ Active \ {l} \in SUBSET Leases /\ Price[l] \in Nat
      /\ Unit \in Nat \ {0}
  BY Types
<1>2. /\ BlockRate = Price[l] + RateOf(Active \ {l}) /\ RateOf(Active \ {l}) \in Nat
      /\ Active \ {l} # {} => RateOf(Active \ {l}) \in Nat \ {0}
  BY <1>1, Rates DEF BlockRate
<1> QED
  BY <1>1, <1>2, Products

\* Which leases are active is decided by two fields of their rows.
LEMMA ActiveNow ==
  Active' = {l \in Leases : leases'[l].created # NoHeight /\ leases'[l].closed = NoHeight}
BY DEF Active, Created

\* An active lease is one that was created and not closed.
LEMMA ActiveIs == \A l \in Leases : l \in Active <=> Created(l) /\ leases[l].closed = NoHeight
BY DEF Active
------------------------------------------------------------------------------
\* handleWithdrawLease.
LEMMA WithdrawLeaseStep ==
  ASSUME BalanceInv, NEW l \in Leases, WithdrawLease(l)
  PROVE  /\ BalanceInv' /\ Open
         /\ Open' => ~Overdrawn /\ Active' = Active
<1>1. l \in Active /\ Open
  BY SettlesWhenOpen DEF WithdrawLease
<1>2. /\ height' = height /\ bids' \subseteq Leases /\ halted' \in BOOLEAN /\ misdated' \in BOOLEAN
      /\ deployment' = SettledDeployment /\ leases' = SettledLeases
  BY DEF WithdrawLease, BalanceInv, EscrowTypeOK
<1>3. Active' = IF Overdrawn THEN {} ELSE Active
  BY <1>1, <1>2, SettledIs, ActiveNow, ActiveIs, Types DEF Created
<1>4. ClosedWithLastLease'
  BY <1>1, <1>2, <1>3, SettledIs DEF ClosedWithLastLease
<1>5. SettledStep
  BY <1>1, <1>2, <1>4, SettledIs DEF SettledStep, Created
<1> QED
  BY <1>1, <1>2, <1>3, <1>5, SettledIs, SettledStepKeeps DEF Open

\* handleCreateLease.
LEMMA CreateLeaseStep ==
  ASSUME BalanceInv, NEW l \in Leases, CreateLease(l)
  PROVE  /\ BalanceInv' /\ Active' = Active \cup {l} /\ BlockRate' = BlockRate + Price[l]
         /\ \A k \in Active' :
              leases'[k].predicted = height + CeilDiv(deployment'.balance, BlockRate' * Unit)
<1> DEFINE rate == (BlockRate + Price[l]) * Unit
           p == height + CeilDiv(SettledDeployment.balance, rate)
           new == [NoLease EXCEPT !.created = height]
           rows == [SettledLeases EXCEPT ![l] = new]
<1>1. Open /\ ~Created(l) /\ ~Overdrawn /\ l \notin Active /\ Active \in SUBSET Leases
  BY Types DEF CreateLease, Active
<1>2. /\ height' = height /\ bids' \subseteq Leases /\ halted' \in BOOLEAN /\ misdated' \in BOOLEAN
      /\ deployment' = SettledDeployment /\ leases' = Predict(rows, p)
  BY DEF CreateLease, BalanceInv, EscrowTypeOK
<1>3. RateOf(Active \cup {l}) = BlockRate + Price[l] /\ rate \in Nat \ {0}
  <2>1. RateOf(Active \cup {l}) = BlockRate + Price[l] /\ BlockRate \in Nat /\ Price[l] \in Nat \ {0}
    BY <1>1, Rates, Types DEF BlockRate
  <2>2. PICK r \in Nat \ {0} : r = BlockRate + Price[l]
    BY <2>1
  <2>3. r * Unit \in Nat \ {0}
    BY Types, Products
  <2> QED
    BY <2>1, <2>2, <2>3
<1>4. p \in Nat
  <2>1. PICK c \in Nat : c = CeilDiv(SettledDeployment.balance, rate)
    BY <1>1, <1>3, SettledIs, CeilDivIs
  <2> HIDE DEF rate
  <2> QED
    BY <2>1, Types
<1>5. /\ new \in Lease /\ new.created = height /\ new.closed = NoHeight /\ new.withdrawn = 0
      /\ rows \in [Leases -> Lease] /\ rows[l] = new
      /\ \A k \in Leases \ {l} : rows[k] = SettledLeases[k]
  <2>1. new \in Lease /\ new.created = height /\ new.closed = NoHeight /\ new.withdrawn = 0
    <3>1. PICK h \in MaybeHeight : h = height
      BY Types
    <3>2. [NoLease EXCEPT !.created = h] \in Lease
      BY DEF NoLease, Lease, MaybeHeight
    <3> QED
      BY <3>1, <3>2 DEF NoLease
  <2> HIDE DEF new
  <2> QED
    BY <1>1, <2>1, SettledIs
<1> HIDE DEF rate, p, new, rows
<1>6. Active' = Active \cup {l}
  <2>1. ASSUME NEW k \in Leases PROVE k \in Active' <=> k \in Active \cup {l}
    <3>1. leases'[k].created = rows[k].created /\ leases'[k].closed = rows[k].closed
      BY <1>2, <1>4, <1>5, PredictIs
    <3>2. k \in Active' <=> rows[k].created # NoHeight /\ rows[k].closed = NoHeight
      BY <3>1, ActiveNow
    <3> QED
      BY <1>1, <1>5, <3>2, SettledIs, ActiveIs DEF Created
  <2> QED
    BY <1>1, <2>1, ActiveNow
<1>7. ClosedWithLastLease'
  BY <1>1, <1>2, <1>6, SettledIs DEF ClosedWithLastLease
<1>8. ASSUME NEW k \in Leases
      PROVE  /\ leases'[k].withdrawn = SettledLeases[k].withdrawn
             /\ \/ /\ leases'[k].created = leases[k].created
                   /\ ~Created(k) => leases'[k] = NoLease
                   /\ leases'[k].closed = SettledLeases[k].closed
                \/ ~Created(k) /\ leases'[k].created = height /\ leases'[k].closed = NoHeight
  <2>1. /\ leases'[k].created = rows[k].created /\ leases'[k].closed = rows[k].closed
        /\ leases'[k].withdrawn = rows[k].withdrawn
        /\ rows[k].created = NoHeight => leases'[k] = rows[k]
    BY <1>2, <1>4, <1>5, PredictIs
  <2>2. CASE k = l
    BY <1>1, <1>5, <2>1, <2>2, SettledIs
  <2>3. CASE k # l
    BY <1>1, <1>5, <2>1, <2>3, SettledIs DEF Created
  <2> QED
    BY <2>2, <2>3
<1>9. SettledStep
  BY <1>1, <1>2, <1>4, <1>5, <1>7, <1>8, PredictIs DEF SettledStep
<1>10. BlockRate' = BlockRate + Price[l]
  BY <1>3, <1>6 DEF BlockRate, RateOf
<1>11. ASSUME NEW k \in Active' PROVE leases'[k].predicted = p
  <2>1. k \in Leases /\ leases'[k].created # NoHeight
    BY ActiveNow
  <2> QED
    BY <1>2, <1>4, <1>5, <2>1, PredictIs
<1> QED
  BY <1>1, <1>2, <1>6, <1>9, <1>10, <1>11, SettledStepKeeps DEF p, rate

\* The closing of one lease, by handleCloseLease and handleCloseBid.
LEMMA CloseOneStep ==
  ASSUME BalanceInv, NEW l \in Active, NEW p \in Nat,
         height' = height, bids' \subseteq Leases, halted' \in BOOLEAN, misdated' \in BOOLEAN,
         deployment' = ClosedDeployment(l),
         leases' = IF OthersActive(l) THEN Predict(Close(SettledLeases, {l}), p)
                   ELSE Close(SettledLeases, {l})
  PROVE  /\ BalanceInv'
         /\ Open' => /\ OthersActive(l) /\ Active' = Active \ {l}
                     /\ deployment' = SettledDeployment
                     /\ \A k \in Active' : leases'[k].predicted = p
<1> DEFINE rows == Close(SettledLeases, {l})
<1>1. /\ Open /\ l \in Leases /\ Active \subseteq Leases
      /\ deployment' = IF OthersActive(l) THEN SettledDeployment
                       ELSE [SettledDeployment EXCEPT !.closed = height]
  BY SettlesWhenOpen, Types DEF ClosedDeployment
<1>2. /\ rows \in [Leases -> Lease]
      /\ \A k \in Leases :
           /\ rows[k].created = leases[k].created
           /\ rows[k].closed = IF k = l THEN height ELSE SettledLeases[k].closed
           /\ rows[k].withdrawn = SettledLeases[k].withdrawn
           /\ k # l => rows[k] = SettledLeases[k]
  BY <1>1, CloseIs, SettledIs
<1> HIDE DEF rows
<1>3. /\ leases' \in [Leases -> Lease]
      /\ \A k \in Leases :
           /\ leases'[k].created = leases[k].created
           /\ leases'[k].closed = IF k = l THEN height ELSE SettledLeases[k].closed
           /\ leases'[k].withdrawn = SettledLeases[k].withdrawn
           /\ ~Created(k) => leases'[k] = NoLease
           /\ OthersActive(l) /\ leases[k].created # NoHeight => leases'[k].predicted = p
  <2>1. leases' = Predict(rows, p) \/ leases' = rows
    BY DEF rows
  <2>2. OthersActive(l) => leases' = Predict(rows, p)
    BY DEF rows
  <2>3. \A k \in Leases : ~Created(k) => rows[k] = NoLease /\ rows[k].created = NoHeight
    BY <1>1, <1>2, SettledIs, ActiveIs DEF Created
  <2>4. CASE leases' = rows /\ ~OthersActive(l)
    BY <1>2, <2>3, <2>4
  <2>5. CASE leases' = Predict(rows, p)
    <3>1. /\ leases' \in [Leases -> Lease]
          /\ \A k \in Leases :
               /\ leases'[k].created = rows[k].created
               /\ leases'[k].closed = rows[k].closed
               /\ leases'[k].withdrawn = rows[k].withdrawn
               /\ rows[k].created = NoHeight => leases'[k] = rows[k]
               /\ rows[k].created # NoHeight => leases'[k].predicted = p
      <4>1. rows \in [Leases -> Lease]
        BY <1>2
      <4> QED
        BY ONLY <2>5, <4>1, p \in Nat, PredictIs, Zenon
    <3> QED
      BY ZenonT(60), <1>2, <2>3, <3>1
  <2> QED
    BY <2>1, <2>2, <2>4, <2>5
<1>4. Active' = IF Overdrawn THEN {} ELSE Active \ {l}
  <2>1. ASSUME NEW k \in Leases
        PROVE  k \in Active' <=> k \in (IF Overdrawn THEN {} ELSE Active \ {l})
    <3>1. k \in Active' <=> leases'[k].created # NoHeight /\ leases'[k].closed = NoHeight
      BY ActiveNow
    <3> QED
      BY ZenonT(60), <1>1, <1>3, <3>1, SettledIs, ActiveIs DEF Created
  <2> QED
    BY <1>1, <2>1, ActiveNow
<1>5. /\ deployment'.closed = IF OthersActive(l) THEN NoHeight ELSE height
      /\ Overdrawn => ~OthersActive(l)
      /\ OthersActive(l) => Active' # {}
      /\ ~OthersActive(l) => Active' = {}
  BY <1>1, <1>4, SettledIs DEF OthersActive
<1>6. ClosedWithLastLease' /\ (Overdrawn => deployment'.closed = height) /\ (Open' => OthersActive(l))
  BY <1>1, <1>5, SettledIs DEF ClosedWithLastLease, Open
<1>7. SettledStep
  BY <1>1, <1>3, <1>6 DEF SettledStep
<1> QED
  BY <1>1, <1>3, <1>4, <1>5, <1>6, <1>7, SettledStepKeeps, ActiveNow

\* handleCloseDeployment.
LEMMA CloseDeploymentStep ==
  ASSUME BalanceInv, CloseDeployment
  PROVE  BalanceInv' /\ ~Open'
<1>1. /\ Open /\ Active \subseteq Leases
      /\ height' = height /\ bids' \subseteq Leases /\ halted' \in BOOLEAN /\ misdated' \in BOOLEAN
      /\ deployment' = [SettledDeployment EXCEPT !.closed = height]
      /\ leases' = Close(SettledLeases, Active)
  BY Types DEF CloseDeployment, BalanceInv, EscrowTypeOK
<1>2. /\ leases' \in [Leases -> Lease]
      /\ \A k \in Leases :
           /\ leases'[k].created = leases[k].created
           /\ leases'[k].closed = IF k \in Active THEN height ELSE SettledLeases[k].closed
           /\ leases'[k].withdrawn = SettledLeases[k].withdrawn
           /\ ~Created(k) => leases'[k] = NoLease
  BY <1>1, CloseIs, SettledIs, ActiveIs
<1>3. Active' = {}
  BY <1>1, <1>2, SettledIs, ActiveNow, ActiveIs DEF Created
<1>4. deployment'.closed = height /\ height # NoHeight
  BY <1>1, SettledIs
<1>5. ClosedWithLastLease'
  BY <1>3, <1>4 DEF ClosedWithLastLease
<1>6. SettledStep
  BY <1>1, <1>2, <1>4, <1>5 DEF SettledStep
<1> QED
  BY <1>1, <1>4, <1>6, SettledStepKeeps DEF Open

\* The steps that leave the rows alone.
LEMMA RowsKept ==
  ASSUME BalanceInv, deployment' = deployment, leases' = leases, bids' \subseteq Leases,
         ~Exists => bids' = {}, halted' \in BOOLEAN, misdated' \in BOOLEAN,
         height' \in {height, height + 1}, height' \in Heights
  PROVE  /\ BalanceInv' /\ Active' = Active /\ Open' = Open
         /\ BlockRate' = BlockRate /\ Expiry' = Expiry
<1>1. height \in Nat /\ height <= height'
  BY Types
<1>2. Active' = Active /\ Open' = Open /\ Exists' = Exists
  BY DEF Active, Created, Open, Exists
<1>3. EscrowTypeOK'
  BY DEF BalanceInv, EscrowTypeOK
<1>4. DatesInv'
  <2>1. /\ deployment'.created <= height' /\ deployment'.lastWithdraw <= height'
        /\ deployment'.closed <= height'
    <3>1. PICK a \in Nat, b \in Nat, c \in Nat, h \in Nat :
            /\ a = deployment.created /\ b = deployment.lastWithdraw /\ c = deployment.closed
            /\ h = height
      BY Types
    <3>2. a <= h /\ b <= h /\ c <= h
      BY <3>1 DEF BalanceInv, DatesInv
    <3> QED
      BY <3>1, <3>2
  <2> QED
    BY <1>2, <2>1 DEF BalanceInv, DatesInv, Created
<1>5. PaidInv' /\ WholeInv' /\ Conserved' /\ ClosedWithLastLease'
  BY <1>2 DEF BalanceInv, PaidInv, WholeInv, Conserved, ClosedWithLastLease, Created, Due
<1>6. BlockRate' = BlockRate /\ Expiry' = Expiry
  BY <1>2 DEF BlockRate, Expiry, RateOf, CeilDiv
<1> QED
  BY <1>2, <1>3, <1>4, <1>5, <1>6 DEF BalanceInv

\* handleCreateDeployment.
LEMMA CreateDeploymentStep ==
  ASSUME BalanceInv, NEW amount \in Amounts, CreateDeployment(amount)
  PROVE  BalanceInv' /\ Active' = {}
<1>1. /\ ~Exists /\ bids = {} /\ height \in Heights /\ height \in MaybeHeight /\ height # NoHeight
      /\ height \in Nat /\ height >= 1
      /\ \A l \in Leases : ~Created(l) /\ leases[l] = NoLease
      /\ leases \in [Leases -> Lease] /\ halted \in BOOLEAN /\ misdated \in BOOLEAN
  BY Types DEF CreateDeployment, BalanceInv, DatesInv, EscrowTypeOK, NoHeight
<1>2. PICK d \in Nat : d = amount * Unit
  BY BoundsAssumption, UnitAssumption, Products
<1>3. /\ UNCHANGED <<height, leases, bids, halted, misdated>>
      /\ deployment' = [NoDeployment EXCEPT !.created = height, !.deposit = d, !.balance = d]
  BY <1>2 DEF CreateDeployment
<1>4. /\ deployment' \in Deployment /\ deployment'.created = height /\ deployment'.deposit = d
      /\ deployment'.balance = d /\ deployment'.withdrawn = 0 /\ deployment'.lastWithdraw = NoHeight
      /\ deployment'.closed = NoHeight
  <2>1. PICK h \in MaybeHeight : h = height
    BY <1>1
  <2>2. deployment' = [NoDeployment EXCEPT !.created = h, !.deposit = d, !.balance = d]
    BY <1>3, <2>1
  <2>3. NoDeployment \in Deployment
    BY DEF NoDeployment, Deployment, MaybeHeight
  <2>4. /\ NoDeployment.withdrawn = 0 /\ NoDeployment.lastWithdraw = NoHeight
        /\ NoDeployment.closed = NoHeight
    BY DEF NoDeployment
  <2>5. d \in Int
    OBVIOUS
  <2>6. /\ deployment' \in Deployment /\ deployment'.created = h /\ deployment'.deposit = d
        /\ deployment'.balance = d /\ deployment'.withdrawn = NoDeployment.withdrawn
        /\ deployment'.lastWithdraw = NoDeployment.lastWithdraw
        /\ deployment'.closed = NoDeployment.closed
    BY ONLY h \in MaybeHeight, d \in Nat, <2>2, <2>3, <2>5 DEF Deployment
  <2> QED
    BY <2>1, <2>4, <2>6
<1>5. Active' = {} /\ Exists' /\ Open' /\ \A l \in Leases : ~Created(l)'
  BY <1>1, <1>3, <1>4 DEF Active, Created, Exists, Open
<1>6. EscrowTypeOK'
  BY <1>1, <1>3, <1>4 DEF EscrowTypeOK
<1>7. DatesInv'
  BY <1>1, <1>3, <1>4, <1>5 DEF DatesInv, NoHeight
<1>8. PaidInv' /\ ClosedWithLastLease'
  BY <1>4, <1>5 DEF PaidInv, ClosedWithLastLease
<1>9. WholeInv'
  <2>1. PICK a \in Nat, U \in Nat \ {0} : a = amount /\ U = Unit
    BY BoundsAssumption, UnitAssumption
  <2>2. (a * U) % U = 0
    OBVIOUS
  <2> QED
    BY <1>2, <1>4, <2>1, <2>2 DEF WholeInv
<1>10. Conserved'
  <2> DEFINE new == [l \in Leases |-> leases'[l].withdrawn]
             old == [l \in Leases |-> leases[l].withdrawn]
  <2>1. deployment.withdrawn = SumFunctionOnSet(old, Leases)
    BY DEF BalanceInv, Conserved, SumFunction, SumFunctionOnSet, FoldFunction
  <2>2. deployment.withdrawn = 0
    BY <1>1 DEF BalanceInv, DatesInv, NoDeployment
  <2>3. SumFunction([l \in Leases |-> leases'[l].withdrawn]) = SumFunctionOnSet(new, Leases)
    BY DEF SumFunction, SumFunctionOnSet, FoldFunction
  <2>4. new = old
    BY <1>3
  <2> QED
    BY <1>4, <2>1, <2>2, <2>3, <2>4 DEF Conserved
<1> QED
  BY <1>5, <1>6, <1>7, <1>8, <1>9, <1>10 DEF BalanceInv

\* handleDepositDeployment.
LEMMA DepositStep ==
  ASSUME BalanceInv, NEW amount \in Amounts, Deposit(amount)
  PROVE  /\ BalanceInv' /\ Active' = Active /\ BlockRate' = BlockRate
         /\ \A l \in Active : leases'[l].predicted = Expiry'
<1> DEFINE p == deployment.lastWithdraw + CeilDiv(deployment'.balance, BlockRate * Unit)
<1>1. /\ Open /\ Exists /\ deployment.closed = NoHeight /\ UNCHANGED <<height, bids, halted>>
      /\ misdated' \in BOOLEAN
  BY DEF Deposit, Open
<1>2. PICK d \in Nat : d = amount * Unit
  BY BoundsAssumption, UnitAssumption, Products
<1>3. /\ deployment' \in Deployment /\ deployment'.created = deployment.created
      /\ deployment'.deposit = deployment.deposit + d /\ deployment'.balance = deployment.balance + d
      /\ deployment'.withdrawn = deployment.withdrawn
      /\ deployment'.lastWithdraw = deployment.lastWithdraw /\ deployment'.closed = deployment.closed
      /\ deployment'.balance \in Nat
  <2>1. PICK x \in Deployment : x = deployment
    BY Types
  <2>2. deployment' = [x EXCEPT !.deposit = x.deposit + d, !.balance = x.balance + d]
    BY <1>2, <2>1 DEF Deposit
  <2>3. PICK b \in Nat : b = x.balance
    BY <2>1, Types
  <2>4. PICK e \in Nat, c \in Nat : e = x.deposit + d /\ c = b + d
    BY <2>1, Types
  <2>5. deployment' = [x EXCEPT !.deposit = e, !.balance = c]
    BY <2>2, <2>3, <2>4
  <2>6. /\ deployment' \in Deployment /\ deployment'.created = x.created
        /\ deployment'.deposit = e /\ deployment'.balance = c
        /\ deployment'.withdrawn = x.withdrawn
        /\ deployment'.lastWithdraw = x.lastWithdraw /\ deployment'.closed = x.closed
    <3>1. c \in Int
      OBVIOUS
    <3> QED
      BY ONLY x \in Deployment, e \in Nat, <3>1, <2>5 DEF Deployment
  <2> QED
    BY <2>1, <2>3, <2>4, <2>6
<1>4. ASSUME NEW l \in Leases
      PROVE  /\ leases'[l] \in Lease /\ leases'[l].created = leases[l].created
             /\ leases'[l].closed = leases[l].closed /\ leases'[l].withdrawn = leases[l].withdrawn
             /\ l \notin Active => leases'[l] = leases[l]
             /\ l \in Active => leases'[l].predicted = p
  <2>1. PICK x \in Lease : x = leases[l]
    BY Types
  <2>2. leases'[l] = IF l \notin Active THEN x ELSE [x EXCEPT !.predicted = p]
    BY <2>1 DEF Deposit
  <2>3. l \in Active => p \in Nat
    <3>1. ASSUME l \in Active PROVE BlockRate * Unit \in Nat \ {0}
      BY <3>1, Types, Rates, Products DEF BlockRate
    <3>2. ASSUME l \in Active PROVE CeilDiv(deployment'.balance, BlockRate * Unit) \in Nat
      <4>1. PICK a \in Nat, b \in Nat \ {0} : a = deployment'.balance /\ b = BlockRate * Unit
        BY <1>3, <3>1, <3>2
      <4>2. CeilDiv(a, b) \in Nat
        BY CeilDivIs
      <4> QED
        BY <4>1, <4>2
    <3>3. deployment.lastWithdraw \in Nat
      BY Types
    <3> QED
      BY <3>2, <3>3
  <2> HIDE DEF p
  <2> QED
    BY <2>1, <2>2, <2>3 DEF Lease
<1>5. leases' \in [Leases -> Lease]
  <2>1. leases' = [l \in Leases |-> leases'[l]]
    BY DEF Deposit
  <2> QED
    BY <1>4, <2>1
<1>6. Active' = Active /\ Exists' /\ \A l \in Leases : Created(l)' <=> Created(l)
  BY <1>1, <1>3, <1>4 DEF Active, Created, Exists
<1>7. BlockRate' = BlockRate /\ Expiry' = p
  BY <1>3, <1>6 DEF BlockRate, RateOf, Expiry, CeilDiv
<1>8. EscrowTypeOK'
  BY <1>1, <1>3, <1>5 DEF BalanceInv, EscrowTypeOK
<1>9. DatesInv'
  <2>1. /\ deployment'.created <= height' /\ deployment'.lastWithdraw <= height'
        /\ deployment'.closed <= height'
    BY <1>1, <1>3 DEF BalanceInv, DatesInv
  <2>2. \A l \in Active' : leases'[l].created <= deployment'.lastWithdraw
    BY <1>3, <1>4, <1>6, Types DEF BalanceInv, DatesInv
  <2>3. ASSUME NEW l \in Leases, ~Created(l)' PROVE leases'[l] = NoLease
    BY <1>4, <1>6, <2>3, ActiveIs DEF BalanceInv, DatesInv
  <2> QED
    BY <1>6, <2>1, <2>2, <2>3 DEF DatesInv
<1>10. PaidInv'
  <2> SUFFICES ASSUME NEW l \in Leases, Created(l)'
               PROVE  /\ leases'[l].closed = NoHeight =>
                           leases'[l].withdrawn = Due(l, deployment.lastWithdraw)'
                      /\ leases'[l].closed # NoHeight =>
                           /\ leases'[l].withdrawn <= Due(l, leases[l].closed)'
                           /\ leases'[l].withdrawn < Due(l, leases[l].closed)' =>
                                deployment'.closed = leases'[l].closed /\ deployment'.balance = 0
    BY DEF PaidInv
  <2>1. /\ Due(l, deployment.lastWithdraw)' = Due(l, deployment.lastWithdraw)
        /\ Due(l, leases[l].closed)' = Due(l, leases[l].closed)
    BY <1>3, <1>4 DEF Due
  <2> QED
    BY <1>1, <1>3, <1>4, <1>6, <2>1 DEF BalanceInv, PaidInv
<1>11. ClosedWithLastLease'
  BY <1>3, <1>6 DEF BalanceInv, ClosedWithLastLease
<1>12. WholeInv'
  <2>1. PICK a \in Nat, b \in Nat, U \in Nat \ {0} : a = amount /\ b = deployment.balance /\ U = Unit
    BY Types, BoundsAssumption, UnitAssumption
  <2>2. b % U = 0
    BY <1>1, <2>1 DEF BalanceInv, WholeInv
  <2>3. PICK q \in Nat : q = b \div U
    BY DivNat
  <2>4. b = (U * q) + (b % U) /\ U * q \in Int
    BY <2>3, DivIs, Products
  <2>5. b + (a * U) = U * (q + a)
    BY <2>2, <2>4
  <2>6. PICK x \in Int : x = q + a
    OBVIOUS
  <2>7. (U * x) % U = 0
    OBVIOUS
  <2> QED
    BY <1>2, <1>3, <2>1, <2>5, <2>6, <2>7 DEF WholeInv
<1>13. Conserved'
  <2> DEFINE new == [l \in Leases |-> leases'[l].withdrawn]
             old == [l \in Leases |-> leases[l].withdrawn]
  <2>1. deployment.withdrawn = SumFunctionOnSet(old, Leases)
    BY DEF BalanceInv, Conserved, SumFunction, SumFunctionOnSet, FoldFunction
  <2>2. SumFunction([l \in Leases |-> leases'[l].withdrawn]) = SumFunctionOnSet(new, Leases)
    BY DEF SumFunction, SumFunctionOnSet, FoldFunction
  <2>3. new = old
    BY <1>4
  <2>4. deployment'.deposit = deployment'.balance + deployment'.withdrawn
    <3>1. PICK x \in Nat, y \in Nat, z \in Nat :
            x = deployment.deposit /\ y = deployment.balance /\ z = deployment.withdrawn
      BY Types
    <3>2. x = y + z
      BY <3>1 DEF BalanceInv, Conserved
    <3> QED
      BY <1>3, <3>1, <3>2
  <2>5. deployment'.balance >= 0
    BY <1>3
  <2> QED
    BY <1>3, <2>1, <2>2, <2>3, <2>4, <2>5 DEF Conserved
<1> QED
  BY <1>4, <1>6, <1>7, <1>8, <1>9, <1>10, <1>11, <1>12, <1>13, Types DEF BalanceInv

\* Unless handleCloseLease made it, the prediction is the height at which the
\* balance runs out.
PredictionInv == ~misdated => PredictedIsExpiry

EscrowInv == BalanceInv /\ PredictionInv

\* The new expiry, with its parts.
LEMMA ExpiryNow ==
  /\ Expiry' = deployment'.lastWithdraw + CeilDiv(deployment'.balance, BlockRate' * Unit)
  /\ BlockRate' = RateOf(Active')
BY DEF Expiry, BlockRate, RateOf, CeilDiv

\* handleWithdrawLease.
LEMMA WithdrawLeaseKeeps ==
  ASSUME EscrowInv, NEW l \in Leases, WithdrawLease(l)
  PROVE  EscrowInv'
<1>1. /\ BalanceInv /\ BalanceInv' /\ Open /\ misdated' = misdated
      /\ (Open' => ~Overdrawn /\ Active' = Active)
      /\ leases' = SettledLeases /\ deployment' = SettledDeployment /\ l \in Active
  BY WithdrawLeaseStep DEF EscrowInv, WithdrawLease
<1>2. ASSUME ~misdated', Open', NEW k \in Active' PROVE leases'[k].predicted = Expiry'
  <2>1. k \in Active /\ k \in Leases /\ ~Overdrawn /\ Active' = Active
    BY <1>1, <1>2, ActiveNow
  <2>2. leases[k].predicted = Expiry
    BY <1>1, <1>2, <2>1 DEF EscrowInv, PredictionInv, PredictedIsExpiry
  <2>3. leases'[k].predicted = leases[k].predicted /\ deployment'.lastWithdraw = height
    BY <1>1, <2>1, SettledRows, SettledDates DEF Open
  <2>4. height + CeilDiv(SettledDeployment.balance, BlockRate * Unit) = Expiry
    BY <1>1, <2>1, SettledExpiry
  <2>5. BlockRate' = BlockRate
    BY <2>1, ExpiryNow DEF BlockRate
  <2> QED
    BY <1>1, <2>2, <2>3, <2>4, <2>5, ExpiryNow
<1> QED
  BY <1>1, <1>2 DEF EscrowInv, PredictionInv, PredictedIsExpiry

\* handleCreateLease.
LEMMA CreateLeaseKeeps ==
  ASSUME EscrowInv, NEW l \in Leases, CreateLease(l)
  PROVE  EscrowInv'
<1>1. BalanceInv /\ BalanceInv' /\ Open /\ deployment' = SettledDeployment
  BY CreateLeaseStep DEF EscrowInv, CreateLease
<1>2. deployment'.lastWithdraw = height
  BY <1>1, SettledDates DEF Open
<1>3. \A k \in Active' : leases'[k].predicted = Expiry'
  BY <1>1, <1>2, CreateLeaseStep, ExpiryNow
<1> QED
  BY <1>1, <1>3 DEF EscrowInv, PredictionInv, PredictedIsExpiry

\* handleCloseLease: its prediction is the one that is not the expiry.
LEMMA CloseLeaseKeeps ==
  ASSUME EscrowInv, NEW l \in Leases, CloseLease(l)
  PROVE  EscrowInv'
<1> DEFINE left == (BlockRate - Price[l]) * Unit
<1>1. /\ BalanceInv /\ l \in Active /\ Open /\ ~halted /\ height' = height /\ bids' = bids
      /\ bids \subseteq Leases /\ misdated' = (misdated \/ OthersActive(l)) /\ height \in Heights
      /\ misdated \in BOOLEAN
  BY SettlesWhenOpen DEF EscrowInv, CloseLease, BalanceInv, EscrowTypeOK
<1>2. misdated' \in BOOLEAN
  <2> HIDE DEF left
  <2> QED
    BY <1>1
<1>3. CASE halted'
  <2>1. /\ OthersActive(l) /\ deployment' = deployment /\ leases' = leases
        /\ halted' \in BOOLEAN
    BY <1>3 DEF CloseLease
  <2>2. BalanceInv'
    BY <1>1, <1>2, <2>1, RowsKept DEF Open
  <2> QED
    BY <1>1, <2>1, <2>2 DEF EscrowInv, PredictionInv
<1>4. CASE ~halted' /\ OthersActive(l)
  <2>1. PICK p : p = SettledDeployment.balance \div left
    OBVIOUS
  <2>2. p \in Nat
    <3>1. PICK d \in Nat \ {0} : d = left
      BY <1>1, <1>4, RateWithout DEF OthersActive
    <3>2. PICK b \in Nat : b = SettledDeployment.balance
      BY <1>1, SettledIs
    <3> QED
      BY <2>1, <3>1, <3>2, DivNat
  <2>3. /\ halted' \in BOOLEAN /\ deployment' = ClosedDeployment(l)
        /\ leases' = Predict(Close(SettledLeases, {l}), p)
    BY <1>4, <2>1 DEF CloseLease
  <2>4. BalanceInv'
    BY <1>1, <1>2, <1>4, <2>2, <2>3, CloseOneStep
  <2> QED
    BY <1>1, <1>4, <2>4 DEF EscrowInv, PredictionInv
<1>5. CASE ~halted' /\ ~OthersActive(l)
  <2>1. /\ halted' \in BOOLEAN /\ deployment' = ClosedDeployment(l)
        /\ leases' = Close(SettledLeases, {l})
    BY <1>5 DEF CloseLease
  <2>2. BalanceInv' /\ ~Open'
    <3>1. 0 \in Nat
      OBVIOUS
    <3> QED
      BY <1>1, <1>2, <1>5, <2>1, <3>1, CloseOneStep
  <2> QED
    BY <2>2 DEF EscrowInv, PredictionInv, PredictedIsExpiry
<1> QED
  BY <1>3, <1>4, <1>5

\* handleCloseBid.
LEMMA CloseBidKeeps ==
  ASSUME EscrowInv, NEW l \in Leases, CloseBid(l)
  PROVE  EscrowInv'
<1> DEFINE left == (BlockRate - Price[l]) * Unit
           p == height + CeilDiv(SettledDeployment.balance, left)
<1>1. /\ BalanceInv /\ height' = height /\ height \in Heights /\ bids' \subseteq Leases
      /\ halted' \in BOOLEAN /\ misdated \in BOOLEAN /\ bids # {}
  BY DEF EscrowInv, CloseBid, BalanceInv, EscrowTypeOK
<1>2. Exists
  BY <1>1 DEF BalanceInv, DatesInv
<1>3. CASE ~Created(l)
  <2>1. deployment' = deployment /\ leases' = leases /\ misdated' = misdated
    BY <1>3 DEF CloseBid
  <2>2. /\ BalanceInv' /\ Active' = Active /\ Open' = Open /\ Expiry' = Expiry
    BY <1>1, <1>2, <2>1, RowsKept
  <2> QED
    BY <2>1, <2>2 DEF EscrowInv, PredictionInv, PredictedIsExpiry
<1>4. CASE Created(l) /\ OthersActive(l)
  <2>1. /\ l \in Active /\ deployment' = ClosedDeployment(l)
        /\ leases' = Predict(Close(SettledLeases, {l}), p)
        /\ misdated' = (misdated /\ ~OthersActive(l))
    BY <1>4 DEF CloseBid
  <2>2. misdated' \in BOOLEAN
    <3> HIDE DEF p, left
    <3> QED
      BY <2>1
  <2>3. left = RateOf(Active \ {l}) * Unit /\ left \in Nat \ {0}
    BY <1>1, <1>4, <2>1, RateWithout DEF OthersActive
  <2>4. p \in Nat
    <3>1. PICK d \in Nat \ {0} : d = left
      BY <2>3
    <3>2. PICK b \in Nat : b = SettledDeployment.balance
      BY <1>1, <2>1, SettledIs, SettlesWhenOpen
    <3>3. PICK c \in Nat : c = CeilDiv(b, d)
      BY CeilDivIs
    <3>4. height \in Nat
      BY <1>1, Types
    <3> QED
      BY <3>1, <3>2, <3>3, <3>4
  <2>5. /\ BalanceInv'
        /\ Open' => /\ Active' = Active \ {l} /\ deployment' = SettledDeployment
                    /\ \A k \in Active' : leases'[k].predicted = p
    <3> HIDE DEF p
    <3> QED
      BY <1>1, <1>4, <2>1, <2>2, <2>4, CloseOneStep
  <2>6. ASSUME Open', NEW k \in Active' PROVE leases'[k].predicted = Expiry'
    <3>1. deployment'.lastWithdraw = height /\ deployment'.balance = SettledDeployment.balance
      BY <1>1, <1>2, <2>5, <2>6, SettledDates
    <3>2. BlockRate' * Unit = left
      BY <2>3, <2>5, <2>6, ExpiryNow
    <3> QED
      BY <2>5, <2>6, <3>1, <3>2, ExpiryNow
  <2> QED
    BY <2>5, <2>6 DEF EscrowInv, PredictionInv, PredictedIsExpiry
<1>5. CASE Created(l) /\ ~OthersActive(l)
  <2>1. /\ l \in Active /\ deployment' = ClosedDeployment(l)
        /\ leases' = Close(SettledLeases, {l})
        /\ misdated' = (misdated /\ ~OthersActive(l))
    BY <1>5 DEF CloseBid
  <2>2. misdated' \in BOOLEAN
    <3> HIDE DEF p, left
    <3> QED
      BY <2>1
  <2>3. BalanceInv' /\ ~Open'
    <3>1. 0 \in Nat
      OBVIOUS
    <3> QED
      BY <1>1, <1>5, <2>1, <2>2, <3>1, CloseOneStep
  <2> QED
    BY <2>3 DEF EscrowInv, PredictionInv, PredictedIsExpiry
<1> QED
  BY <1>3, <1>4, <1>5

\* The other messages, and a new block.
LEMMA OtherStepsKeep ==
  ASSUME EscrowInv,
         \/ \E amount \in Amounts : CreateDeployment(amount) \/ Deposit(amount)
         \/ \E l \in Leases : CreateBid(l)
         \/ CloseDeployment
         \/ NextBlock
         \/ UNCHANGED escrowVars
  PROVE  EscrowInv'
<1>1. BalanceInv /\ EscrowTypeOK
  BY DEF EscrowInv, BalanceInv
<1>2. ASSUME NEW amount \in Amounts, CreateDeployment(amount) PROVE EscrowInv'
  BY <1>1, <1>2, CreateDeploymentStep DEF EscrowInv, PredictionInv, PredictedIsExpiry
<1>3. ASSUME NEW amount \in Amounts, Deposit(amount) PROVE EscrowInv'
  BY <1>1, <1>3, DepositStep DEF EscrowInv, PredictionInv, PredictedIsExpiry
<1>4. ASSUME CloseDeployment PROVE EscrowInv'
  BY <1>1, <1>4, CloseDeploymentStep DEF EscrowInv, PredictionInv, PredictedIsExpiry
<1>5. ASSUME /\ deployment' = deployment /\ leases' = leases /\ misdated' = misdated
             /\ halted' = halted /\ bids' \subseteq Leases /\ (~Exists => bids' = {})
             /\ height' \in {height, height + 1} /\ height' \in Heights
      PROVE  EscrowInv'
  <2>1. halted' \in BOOLEAN /\ misdated' \in BOOLEAN
    BY <1>1, <1>5 DEF EscrowTypeOK
  <2>2. BalanceInv' /\ Active' = Active /\ Open' = Open /\ Expiry' = Expiry
    BY <1>1, <1>5, <2>1, RowsKept
  <2> QED
    BY <1>5, <2>2 DEF EscrowInv, PredictionInv, PredictedIsExpiry
<1>6. height \in Heights /\ bids \subseteq Leases /\ (~Exists => bids = {})
  BY <1>1 DEF EscrowTypeOK, BalanceInv, DatesInv
<1>7. ASSUME NEW l \in Leases, CreateBid(l) PROVE EscrowInv'
  BY <1>5, <1>6, <1>7 DEF CreateBid, Open
<1>8. ASSUME NextBlock PROVE EscrowInv'
  <2>1. height + 1 \in Heights
    <3>1. PICK h \in Nat, m \in Nat : h = height /\ m = MaxHeight /\ 1 <= h
      BY <1>6, BoundsAssumption DEF Heights
    <3> QED
      BY <1>8, <3>1 DEF NextBlock, Heights
  <2> QED
    BY <1>5, <1>6, <1>8, <2>1 DEF NextBlock
<1>9. ASSUME UNCHANGED escrowVars PROVE EscrowInv'
  BY <1>5, <1>6, <1>9 DEF escrowVars
<1> QED
  BY <1>2, <1>3, <1>4, <1>7, <1>8, <1>9

\* Every step preserves the invariant.
LEMMA EscrowStep ==
  ASSUME EscrowInv, [EscrowNext]_escrowVars
  PROVE  EscrowInv'
BY WithdrawLeaseKeeps, CreateLeaseKeeps, CloseLeaseKeeps, CloseBidKeeps, OtherStepsKeep
   DEF EscrowNext, Message

\* It holds of the empty tables.
LEMMA EscrowStart ==
  ASSUME EscrowInit
  PROVE  EscrowInv
<1>1. /\ Active = {} /\ ~Exists /\ \A l \in Leases : ~Created(l) /\ leases[l] = NoLease
  BY DEF EscrowInit, Active, Exists, Created, NoLease, NoDeployment
<1>2. NoLease \in Lease /\ NoDeployment \in Deployment
  BY DEF NoLease, Lease, NoDeployment, Deployment, MaybeHeight
<1>3. EscrowTypeOK
  <2>1. 1 \in Heights
    BY BoundsAssumption DEF Heights
  <2> QED
    BY <1>2, <2>1 DEF EscrowInit, EscrowTypeOK
<1>4. DatesInv
  BY <1>1 DEF DatesInv, EscrowInit, NoDeployment, NoHeight
<1>5. PaidInv /\ WholeInv /\ PredictionInv
  BY <1>1 DEF PaidInv, WholeInv, Open, PredictionInv, PredictedIsExpiry
<1>6. ClosedWithLastLease
  BY <1>1 DEF ClosedWithLastLease
<1>7. Conserved
  <2> DEFINE old == [l \in Leases |-> leases[l].withdrawn]
  <2>1. \A l \in Leases : old[l] = 0
    BY <1>1 DEF NoLease
  <2>2. SumFunctionOnSet(old, Leases) = 0
    <3>1. IsFiniteSet(Leases) /\ 0 \in Int /\ \A l \in Leases : old[l] \in Int /\ old[l] = 0 * old[l]
      BY <2>1, PriceAssumption
    <3> HIDE DEF old
    <3>2. SumFunctionOnSet(old, Leases) = 0 * SumFunctionOnSet(old, Leases)
      BY ONLY <3>1, SumScale, Zenon
    <3>3. SumFunctionOnSet(old, Leases) \in Int
      BY <3>1, SumTypes
    <3> QED
      BY <3>2, <3>3
  <2>3. SumFunction(old) = SumFunctionOnSet(old, Leases)
    BY DEF SumFunction, SumFunctionOnSet, FoldFunction
  <2>4. deployment.deposit = 0 /\ deployment.balance = 0 /\ deployment.withdrawn = 0
    BY DEF EscrowInit, NoDeployment
  <2> QED
    BY <2>2, <2>3, <2>4 DEF Conserved
<1> QED
  BY <1>3, <1>4, <1>5, <1>6, <1>7 DEF EscrowInv, BalanceInv

\* The invariant holds in every state.
LEMMA EscrowInvariant == EscrowSpec => []EscrowInv
BY EscrowStart, EscrowStep, PTL DEF EscrowSpec

\* Every row holds values of its columns' types: no balance is a fraction of
\* the unit, and every predicted height is a whole number.
THEOREM EscrowTypes == EscrowSpec => []EscrowTypeOK
<1>1. EscrowInv => EscrowTypeOK
  BY DEF EscrowInv, BalanceInv
<1> QED
  BY <1>1, EscrowInvariant, PTL

\* A lease is paid for the blocks it lived and no more, in full except when the
\* account was overdrawn, and no token is lost on the way.
THEOREM LeasesArePaidForLifetime == EscrowSpec => []PaidForLifetime
<1>1. ASSUME EscrowInv PROVE PaidForLifetime
  <2>1. BalanceInv /\ Conserved
    BY <1>1 DEF EscrowInv, BalanceInv
  <2>2. ASSUME NEW l \in Leases, Created(l)
        PROVE  LET until == IF l \in Active THEN deployment.lastWithdraw ELSE leases[l].closed
                   due == Price[l] * Unit * (until - leases[l].created)
               IN /\ leases[l].withdrawn <= due
                  /\ leases[l].withdrawn < due => deployment.closed = until /\ deployment.balance = 0
    <3>1. CASE l \in Active
      <4>1. leases[l].withdrawn = (Price[l] * Unit) * (deployment.lastWithdraw - leases[l].created)
        BY <2>1, <2>2, <3>1, ActiveIs DEF BalanceInv, PaidInv, Due
      <4>2. leases[l].withdrawn \in Nat
        BY <2>1, Types
      <4> QED
        BY <3>1, <4>1, <4>2
    <3>2. CASE l \notin Active
      <4>1. leases[l].closed # NoHeight
        BY <2>2, <3>2, ActiveIs
      <4> QED
        BY <2>1, <2>2, <3>2, <4>1 DEF BalanceInv, PaidInv, Due
    <3> QED
      BY <3>1, <3>2
  <2> QED
    BY <2>1, <2>2 DEF PaidForLifetime
<1> QED
  BY <1>1, EscrowInvariant, PTL

\* The deployment is closed exactly when it had leases and all of them ended,
\* or was closed before it had any.
THEOREM DeploymentsCloseWithLastLease == EscrowSpec => []ClosedWithLastLease
<1>1. EscrowInv => ClosedWithLastLease
  BY DEF EscrowInv, BalanceInv
<1> QED
  BY <1>1, EscrowInvariant, PTL

\* The height at which the balance runs out divides the settlements that
\* overdraw the account from those that do not.
LEMMA OverdraftAtExpiry ==
  ASSUME BalanceInv, Active # {}
  PROVE  /\ Overdrawn => height >= Expiry
         /\ height > Expiry => Overdrawn
<1>1. PICK b \in Nat, h \in Nat, w \in Nat, d \in Nat \ {0} :
        /\ b = deployment.balance /\ h = height /\ w = deployment.lastWithdraw
        /\ d = BlockRate * Unit /\ w <= h
  <2>1. BlockRate * Unit \in Nat \ {0}
    BY Types, Rates, Products DEF BlockRate
  <2>2. deployment.lastWithdraw \in Nat /\ deployment.lastWithdraw <= height
    BY Types DEF BalanceInv, DatesInv
  <2> QED
    BY <2>1, <2>2, Types
<1>2. PICK c \in Nat : c = CeilDiv(b, d) /\ b <= d * c /\ d * c < b + d
  <2>1. CeilDiv(b, d) \in Nat /\ b <= d * CeilDiv(b, d) /\ d * CeilDiv(b, d) < b + d
    BY CeilDivIs
  <2>2. PICK c \in Nat : c = CeilDiv(b, d)
    BY <2>1
  <2> QED
    BY <2>1, <2>2
<1>3. Expiry = w + c /\ HeightDelta = h - w
  BY <1>1, <1>2 DEF Expiry, HeightDelta
<1>4. ASSUME Overdrawn PROVE h >= w + c
  <2>1. b < d * (h - w)
    BY <1>1, <1>3, <1>4, FullBlocks DEF Overdrawn
  <2>2. CASE h - w < c
    <3>1. PICK t \in Nat : t = h - w /\ t <= c - 1
      BY <1>1, <2>2
    <3>2. d * t <= d * (c - 1) /\ d * (c - 1) = (d * c) - d /\ d * t \in Int /\ d * c \in Int
      BY <1>2, <3>1, Products
    <3> QED
      BY <1>2, <2>1, <3>1, <3>2
  <2> QED
    BY <1>1, <2>2
<1>5. ASSUME h > w + c PROVE Overdrawn
  <2>1. Settles
    BY <1>1, <1>5 DEF Settles
  <2>2. PICK t \in Nat : t = h - w /\ c + 1 <= t
    BY <1>1, <1>5
  <2>3. d * (c + 1) <= d * t /\ d * (c + 1) = (d * c) + d /\ d * c \in Int /\ d * t \in Int
    BY <2>2, Products
  <2>4. b < d * t
    BY <1>2, <2>3
  <2> QED
    BY <1>1, <1>3, <2>1, <2>2, <2>4, FullBlocks
<1> QED
  BY <1>1, <1>3, <1>4, <1>5

\* predictedClosedHeight is the height at which the balance runs out, whatever
\* was deposited, withdrawn or closed since, unless handleCloseLease wrote it:
\* no settlement before it overdraws the account, and every one after it does.
THEOREM OverdraftsArePredicted == EscrowSpec => OverdraftIsPredicted
<1>1. ASSUME EscrowInv, EscrowInv'
      PROVE  /\ ~misdated' => PredictedIsExpiry'
             /\ \A l \in Active : ~misdated /\ leases'[l].withdrawn # leases[l].withdrawn =>
                  /\ Overdrawn => height >= leases[l].predicted
                  /\ height > leases[l].predicted => Overdrawn
  <2>1. ~misdated' => PredictedIsExpiry'
    BY <1>1 DEF EscrowInv, PredictionInv
  <2>2. ASSUME NEW l \in Active, ~misdated
        PROVE  /\ Overdrawn => height >= leases[l].predicted
               /\ height > leases[l].predicted => Overdrawn
    <3>1. BalanceInv /\ Active # {} /\ Open
      BY <1>1, <2>2, SettlesWhenOpen DEF EscrowInv
    <3>2. leases[l].predicted = Expiry
      BY <1>1, <2>2, <3>1 DEF EscrowInv, PredictionInv, PredictedIsExpiry
    <3> QED
      BY <3>1, <3>2, OverdraftAtExpiry
  <2> QED
    BY <2>1, <2>2
<1> QED
  BY <1>1, EscrowInvariant, PTL DEF OverdraftIsPredicted

------------------------------------------------------------------------------
(* The meter that the account implements                                      *)

\* The lifetimes that the rows hold are those of the meter.
LEMMA MeterRows ==
  /\ Meter!Running = Active
  /\ Meter!Open <=> Open
  /\ \A l \in Leases : (Meter!Started(l) <=> Created(l)) /\ (l \in Meter!Running <=> l \in Active)
  /\ \A l \in Leases : terms[l] = [from |-> leases[l].created, to |-> leases[l].closed]
  /\ account.deposited = deployment.deposit
<1>1. \A l \in Leases : /\ terms[l].from = leases[l].created /\ terms[l].to = leases[l].closed
                        /\ terms[l] = [from |-> leases[l].created, to |-> leases[l].closed]
  BY DEF terms
<1>2. \A l \in Leases : Meter!Started(l) <=> Created(l)
  BY <1>1 DEF Meter!Started, Created
<1>3. Meter!Running = Active
  BY <1>1, <1>2 DEF Meter!Running, Active
<1>4. Meter!Open <=> Open
  BY DEF Meter!Open, Open, Exists, account
<1> QED
  BY <1>1, <1>2, <1>3, <1>4 DEF account

\* What a lease has cost is what it was paid and, while it is active, the
\* blocks since the last settlement.
LEMMA CostIs ==
  ASSUME BalanceInv, Open, NEW l \in Leases
  PROVE  /\ HeightDelta \in Nat /\ leases[l].withdrawn \in Nat
         /\ Meter!Cost(l) = leases[l].withdrawn
                            + (IF l \in Active THEN (Price[l] * Unit) * HeightDelta ELSE 0)
<1>1. PICK h \in Nat, w \in Nat, c \in Nat, p \in Nat, x \in Nat, e \in Nat :
        /\ h = height /\ w = deployment.lastWithdraw /\ c = leases[l].created /\ w <= h
        /\ p = Price[l] * Unit /\ x = leases[l].withdrawn /\ e = leases[l].closed
  <2>1. PICK h \in Nat, w \in Nat : h = height /\ w = deployment.lastWithdraw /\ w <= h
    BY Types
  <2>2. PICK c \in Nat, e \in Nat : c = leases[l].created /\ e = leases[l].closed
    BY Types
  <2>3. PICK p \in Nat, x \in Nat : p = Price[l] * Unit /\ x = leases[l].withdrawn
    BY Types
  <2> QED
    BY <2>1, <2>2, <2>3
<1>2. HeightDelta = h - w /\ HeightDelta \in Nat
  BY <1>1 DEF HeightDelta
<1>3. terms[l].from = c /\ terms[l].to = e
  BY <1>1 DEF terms
<1>4. CASE l \in Active
  <2>1. Created(l) /\ leases[l].closed = NoHeight
    BY <1>4 DEF Active
  <2>2. x = p * (w - c)
    BY <1>1, <2>1 DEF BalanceInv, PaidInv, Due
  <2>3. Meter!Cost(l) = p * (h - c)
    BY <1>1, <1>3, <1>4, <2>1, MeterRows DEF Meter!Cost
  <2>4. p * (h - c) = (p * (w - c)) + (p * (h - w))
    OBVIOUS
  <2> QED
    BY <1>1, <1>2, <1>4, <2>2, <2>3, <2>4
<1>5. CASE l \notin Active /\ Created(l)
  <2>1. leases[l].closed # NoHeight
    BY <1>5 DEF Active
  <2>2. deployment.closed # leases[l].closed
    BY <2>1 DEF Open
  <2>3. x <= p * (e - c) /\ ~(x < p * (e - c))
    BY <1>1, <1>5, <2>1, <2>2 DEF BalanceInv, PaidInv, Due
  <2>4. PICK d \in Int : d = p * (e - c)
    BY Products
  <2>5. x = d
    BY <2>3, <2>4
  <2>6. Meter!Cost(l) = p * (e - c)
    BY <1>1, <1>3, <1>5, MeterRows DEF Meter!Cost
  <2> QED
    BY <1>1, <1>2, <1>5, <2>4, <2>5, <2>6
<1>6. CASE ~Created(l)
  <2>1. leases[l].withdrawn = 0 /\ l \notin Active
    BY <1>6 DEF BalanceInv, DatesInv, NoLease, Active
  <2>2. Meter!Cost(l) = 0
    BY <1>6, MeterRows DEF Meter!Cost
  <2> QED
    BY <1>2, <2>1, <2>2
<1> QED
  BY <1>4, <1>5, <1>6

\* The meter's fund is the balance, less the blocks nobody has settled yet.
LEMMA FundIs ==
  ASSUME BalanceInv, Open
  PROVE  Meter!Fund = deployment.balance - ((BlockRate * Unit) * HeightDelta)
<1> DEFINE cost == [l \in Leases |-> Meter!Cost(l)]
           paid == [l \in Leases |-> leases[l].withdrawn]
           open == [l \in Leases |-> IF l \in Active THEN (Price[l] * Unit) * HeightDelta ELSE 0]
<1>1. IsFiniteSet(Leases) /\ HeightDelta \in Nat
  <2>1. PICK h \in Nat, w \in Nat : h = height /\ w = deployment.lastWithdraw /\ w <= h
    BY Types
  <2> QED
    BY <2>1, Types DEF HeightDelta
<1>2. \A l \in Leases : paid[l] \in Int /\ open[l] \in Int /\ cost[l] = paid[l] + open[l]
  <2> SUFFICES ASSUME NEW l \in Leases
               PROVE  paid[l] \in Int /\ open[l] \in Int /\ cost[l] = paid[l] + open[l]
    OBVIOUS
  <2>1. (Price[l] * Unit) * HeightDelta \in Nat
    BY <1>1, Types, Products
  <2> QED
    BY <2>1, CostIs
<1>3. \A l \in Leases : open[l] = IF l \in Active THEN (Price[l] * Unit) * HeightDelta ELSE 0
  OBVIOUS
<1>4. Meter!Fund = deployment.deposit - SumFunctionOnSet(cost, Leases)
  BY MeterRows DEF Meter!Fund, SumFunctionOnSet, FoldFunctionOnSet,
     Meter!SumFunction, Meter!SumFunctionOnSet, Meter!FoldFunctionOnSet,
     MapThenFoldSet, Meter!MapThenFoldSet
<1>5. deployment.withdrawn = SumFunctionOnSet(paid, Leases)
  BY DEF BalanceInv, Conserved, SumFunction, SumFunctionOnSet, FoldFunction
<1> HIDE DEF cost, paid, open
<1>6. SumFunctionOnSet(cost, Leases) = SumFunctionOnSet(paid, Leases) + SumFunctionOnSet(open, Leases)
  BY ONLY <1>1, <1>2, SumAdd, Zenon
<1>7. SumFunctionOnSet(open, Leases) = (BlockRate * Unit) * HeightDelta
  BY ONLY BalanceInv, <1>1, <1>3, Paying, Zenon
<1>8. PICK b \in Nat, d \in Nat, w \in Nat :
        b = deployment.balance /\ d = deployment.deposit /\ w = deployment.withdrawn /\ d = b + w
  BY Types DEF BalanceInv, Conserved
<1>9. PICK o \in Nat : o = (BlockRate * Unit) * HeightDelta
  <2>1. BlockRate \in Nat /\ Unit \in Nat
    BY Types, Rates DEF BlockRate
  <2> QED
    BY <1>1, <2>1, Products
<1>10. Meter!Fund = d - (w + o)
  <2>1. SumFunctionOnSet(cost, Leases) = w + o
    BY ONLY <1>5, <1>6, <1>7, <1>8, <1>9, Zenon
  <2> QED
    BY ONLY <1>4, <1>8, <2>1, Zenon
<1>11. d - (w + o) = b - o
  BY <1>8
<1> QED
  BY <1>8, <1>9, <1>10, <1>11, Zenon

\* accountSettle overdraws an account exactly when the deposits do not cover
\* the lifetimes of its leases.
LEMMA OverdrawnIs ==
  ASSUME BalanceInv, Open
  PROVE  /\ Meter!Fund \in Int
         /\ Overdrawn <=> Meter!Running # {} /\ Meter!Fund < 0
         /\ ~Overdrawn => Meter!Fund >= 0
<1>1. PICK b \in Nat, r \in Nat : b = deployment.balance /\ r = BlockRate * Unit
  BY Types, Rates, Products DEF BlockRate
<1>2. PICK h \in Nat, w \in Nat : h = height /\ w = deployment.lastWithdraw /\ w <= h
  BY Types
<1>3. HeightDelta = h - w
  BY <1>2 DEF HeightDelta
<1>4. PICK o \in Nat : o = r * (h - w)
  BY <1>2, Products
<1>5. Meter!Fund = b - o /\ Meter!Running = Active
  BY <1>1, <1>3, <1>4, FundIs, MeterRows
<1>6. CASE Settles
  <2>1. Active # {} /\ (Overdrawn <=> b < o)
    BY <1>1, <1>3, <1>4, <1>6, FullBlocks DEF Settles
  <2> QED
    BY <1>5, <2>1
<1>7. CASE Active = {}
  <2>1. ~Overdrawn
    BY <1>7 DEF Overdrawn, Settles
  <2>2. r = 0
    <3>1. BlockRate = 0
      BY <1>7, SumEmpty DEF BlockRate, RateOf
    <3>2. Unit \in Nat
      BY Types
    <3> QED
      BY <1>1, <3>1, <3>2
  <2>3. o = 0
    BY <1>2, <1>4, <2>2
  <2> QED
    BY <1>5, <1>7, <2>1, <2>3
<1>8. CASE ~Settles /\ Active # {}
  <2>1. ~Overdrawn /\ h = w
    BY <1>2, <1>8 DEF Overdrawn, Settles
  <2>2. o = 0
    BY <1>4, <2>1
  <2> QED
    BY <1>5, <2>1, <2>2
<1> QED
  BY <1>6, <1>7, <1>8

\* A message that settles the account and closes the leases it asks for is one
\* demand on the meter.
LEMMA DemandStep ==
  ASSUME BalanceInv, Open, NEW asked, height' = height,
         deployment'.created = deployment.created, deployment'.deposit = deployment.deposit,
         NEW ended, ended = (IF Overdrawn THEN Active ELSE asked),
         deployment'.closed = (IF ended = Active THEN height ELSE NoHeight),
         \A l \in Leases : /\ leases'[l].created = leases[l].created
                           /\ leases'[l].closed = IF l \in ended THEN height ELSE leases[l].closed
  PROVE  Meter!Demand(asked)
<1>1. ended = (IF Meter!Running # {} /\ Meter!Fund < 0 THEN Meter!Running ELSE asked)
  BY OverdrawnIs, MeterRows
<1>2. terms' = [l \in Leases |-> IF l \in ended THEN [terms[l] EXCEPT !.to = height] ELSE terms[l]]
  BY DEF terms
<1>3. account' = IF ended = Active THEN [account EXCEPT !.closed = height] ELSE account
  BY DEF account, Open
<1>4. Meter!End(ended, ended = Meter!Running)
  BY <1>2, <1>3, MeterRows DEF Meter!End
<1>5. Meter!Open
  BY MeterRows
<1> QED
  BY <1>1, <1>4, <1>5 DEF Meter!Demand

\* handleWithdrawLease.
LEMMA WithdrawDemands ==
  ASSUME BalanceInv, NEW l \in Leases, WithdrawLease(l)
  PROVE  Meter!Next
<1>1. /\ Open /\ l \in Active /\ height' = height
      /\ deployment' = SettledDeployment /\ leases' = SettledLeases
  BY SettlesWhenOpen DEF WithdrawLease
<1>2. Meter!Demand({})
  BY <1>1, DemandStep, SettledDates, SettledRows, SettledIs DEF Open
<1> QED
  BY <1>1, <1>2, MeterRows DEF Meter!Next

\* The closing of one lease, by handleCloseLease and handleCloseBid.
LEMMA CloseDemands ==
  ASSUME BalanceInv, NEW l \in Active, NEW p \in Nat, height' = height,
         deployment' = ClosedDeployment(l),
         leases' = IF OthersActive(l) THEN Predict(Close(SettledLeases, {l}), p)
                   ELSE Close(SettledLeases, {l})
  PROVE  Meter!Next
<1> DEFINE ended == IF Overdrawn THEN Active ELSE {l}
           rows == Close(SettledLeases, {l})
<1>1. /\ Open /\ l \in Leases /\ Active \subseteq Leases
  BY SettlesWhenOpen, Types
<1>2. rows \in [Leases -> Lease]
      /\ \A k \in Leases : /\ rows[k].created = leases[k].created
                           /\ rows[k].closed = IF k \in ended THEN height ELSE leases[k].closed
  BY <1>1, CloseIs, SettledIs, SettledRows
<1> HIDE DEF rows
<1>3. \A k \in Leases : leases'[k].created = rows[k].created /\ leases'[k].closed = rows[k].closed
  <2>1. leases' = Predict(rows, p) \/ leases' = rows
    BY DEF rows
  <2> QED
    BY <1>2, <2>1, PredictIs
<1>4. \A k \in Leases : /\ leases'[k].created = leases[k].created
                        /\ leases'[k].closed = IF k \in ended THEN height ELSE leases[k].closed
  BY <1>2, <1>3
<1>5. OthersActive(l) <=> ended # Active
  BY DEF OthersActive
<1>6. /\ deployment'.created = deployment.created /\ deployment'.deposit = deployment.deposit
      /\ deployment'.closed = IF ended = Active THEN height ELSE NoHeight
  <2>1. PICK D \in Deployment : D = SettledDeployment
    BY <1>1, SettledDates DEF Open
  <2>2. /\ D.created = deployment.created /\ D.deposit = deployment.deposit
        /\ D.closed = IF Overdrawn THEN height ELSE NoHeight
    BY <1>1, <2>1, SettledDates, SettledIs DEF Open
  <2>3. deployment' = IF OthersActive(l) THEN D ELSE [D EXCEPT !.closed = height]
    BY <2>1 DEF ClosedDeployment
  <2>4. OthersActive(l) => ~Overdrawn
    BY DEF OthersActive
  <2> HIDE DEF ended
  <2> QED
    BY <1>5, <2>2, <2>3, <2>4 DEF Deployment
<1>7. Meter!Demand({l})
  BY <1>1, <1>4, <1>6, DemandStep
<1> QED
  BY <1>1, <1>7, MeterRows DEF Meter!Next

\* Every step of the account is one of the meter's, or none.
LEMMA MeterStep ==
  ASSUME BalanceInv, [EscrowNext]_escrowVars
  PROVE  [Meter!Next]_(Meter!meterVars)
<1>1. ASSUME deployment' = deployment, leases' = leases, height' = height
      PROVE  [Meter!Next]_(Meter!meterVars)
  BY <1>1 DEF Meter!meterVars, account, terms
<1>2. ASSUME NEW amount \in Amounts, CreateDeployment(amount) PROVE Meter!Next
  <2>1. Meter!OpenAccount(amount)
    BY <1>2 DEF CreateDeployment, Meter!OpenAccount, account, terms, NoDeployment, Exists
  <2> QED
    BY <2>1 DEF Meter!Next
<1>3. ASSUME NEW amount \in Amounts, Deposit(amount) PROVE Meter!Next
  <2>1. deployment \in Deployment
    BY Types
  <2>2. account' = [account EXCEPT !.deposited = @ + amount * Unit] /\ UNCHANGED height /\ Open
    BY <1>3, <2>1 DEF Deposit, account, Deployment
  <2>3. terms' = terms
    <3>1. \A l \in Leases : leases'[l].created = leases[l].created /\ leases'[l].closed = leases[l].closed
      <4> SUFFICES ASSUME NEW l \in Leases
                   PROVE  leases'[l].created = leases[l].created /\ leases'[l].closed = leases[l].closed
        OBVIOUS
      <4>1. leases[l] \in Lease
        BY Types
      <4> QED
        BY <1>3, <4>1 DEF Deposit, Lease
    <3> QED
      BY <3>1 DEF terms
  <2>4. Meter!Deposit(amount)
    BY <2>2, <2>3, MeterRows DEF Meter!Deposit
  <2> QED
    BY <2>4 DEF Meter!Next
<1>4. ASSUME NEW l \in Leases, CreateLease(l) PROVE Meter!Next
  <2>1. Open /\ ~Created(l) /\ ~Overdrawn /\ height' = height /\ deployment' = SettledDeployment
    BY <1>4 DEF CreateLease
  <2>2. account' = account
    <3>1. /\ deployment'.created = deployment.created /\ deployment'.deposit = deployment.deposit
          /\ deployment'.closed = deployment.closed
      BY <2>1, SettledDates DEF Open
    <3> QED
      BY <3>1 DEF account
  <2>3. \A k \in Leases : /\ leases'[k].created = IF k = l THEN height ELSE leases[k].created
                          /\ leases'[k].closed = IF k = l THEN NoHeight ELSE leases[k].closed
    <3> DEFINE new == [NoLease EXCEPT !.created = height]
               rows == [SettledLeases EXCEPT ![l] = new]
               p == height + CeilDiv(SettledDeployment.balance, (BlockRate + Price[l]) * Unit)
    <3>1. leases' = Predict(rows, p)
      BY <1>4 DEF CreateLease
    <3>2. new.created = height /\ new.closed = NoHeight
      BY DEF NoLease
    <3>3. \A k \in Leases : /\ SettledLeases[k].created = leases[k].created
                            /\ SettledLeases[k].closed = leases[k].closed
      BY <2>1, SettledRows DEF Open
    <3>4. rows = [k \in Leases |-> IF k = l THEN new ELSE SettledLeases[k]]
      BY <2>1, SettledRows DEF Open
    <3> HIDE DEF new, p
    <3>5. \A k \in Leases : leases'[k].created = rows[k].created /\ leases'[k].closed = rows[k].closed
      <4>1. rows \in [Leases -> Lease] /\ p \in Nat
        <5>1. new \in Lease
          <6>1. height \in MaybeHeight
            BY Types
          <6> QED
            BY <6>1 DEF new, NoLease, Lease, MaybeHeight
        <5>2. p \in Nat
          <6>1. (BlockRate + Price[l]) * Unit \in Nat \ {0}
            <7>1. BlockRate \in Nat /\ Price[l] \in Nat \ {0} /\ Unit \in Nat \ {0}
              BY Types, Rates DEF BlockRate
            <7>2. PICK r \in Nat \ {0} : r = BlockRate + Price[l]
              BY <7>1
            <7> QED
              BY <7>1, <7>2, Products
          <6>2. PICK d \in Nat \ {0}, b \in Nat, h \in Nat :
                  d = (BlockRate + Price[l]) * Unit /\ b = SettledDeployment.balance /\ h = height
            BY <2>1, <6>1, SettledIs, Types
          <6>3. PICK c \in Nat : c = CeilDiv(b, d)
            BY CeilDivIs
          <6> QED
            BY <6>2, <6>3 DEF p
        <5>3. SettledLeases \in [Leases -> Lease]
          BY <2>1, SettledIs
        <5> QED
          BY <3>4, <5>1, <5>2, <5>3
      <4> HIDE DEF rows
      <4> QED
        BY <3>1, <4>1, PredictIs
    <3> QED
      BY <3>2, <3>3, <3>4, <3>5
  <2>4. terms' = [terms EXCEPT ![l] = [from |-> height, to |-> NoHeight]]
    BY <2>3 DEF terms
  <2>5. Meter!Start(l)
    BY <2>1, <2>2, <2>4, MeterRows, OverdrawnIs DEF Meter!Start
  <2> QED
    BY <2>5 DEF Meter!Next
<1>5. ASSUME NEW l \in Leases, CloseLease(l) PROVE [Meter!Next]_(Meter!meterVars)
  <2> DEFINE left == (BlockRate - Price[l]) * Unit
  <2>1. l \in Active /\ Open /\ height' = height
    BY <1>5, SettlesWhenOpen DEF CloseLease
  <2>2. CASE halted'
    <3>1. deployment' = deployment /\ leases' = leases
      BY <1>5, <2>2 DEF CloseLease
    <3> QED
      BY <1>1, <2>1, <3>1
  <2>3. CASE ~halted' /\ OthersActive(l)
    <3>1. PICK p : p = SettledDeployment.balance \div left
      OBVIOUS
    <3>2. p \in Nat
      <4>1. PICK d \in Nat \ {0}, b \in Nat : d = left /\ b = SettledDeployment.balance
        BY <2>1, <2>3, RateWithout, SettledIs DEF OthersActive
      <4> QED
        BY <3>1, <4>1, DivNat
    <3>3. deployment' = ClosedDeployment(l) /\ leases' = Predict(Close(SettledLeases, {l}), p)
      BY <1>5, <2>3, <3>1 DEF CloseLease
    <3> QED
      BY <2>1, <2>3, <3>2, <3>3, CloseDemands
  <2>4. CASE ~halted' /\ ~OthersActive(l)
    <3>1. deployment' = ClosedDeployment(l) /\ leases' = Close(SettledLeases, {l}) /\ 0 \in Nat
      BY <1>5, <2>4 DEF CloseLease
    <3> QED
      BY <2>1, <2>4, <3>1, CloseDemands
  <2> QED
    BY <2>2, <2>3, <2>4
<1>6. ASSUME NEW l \in Leases, CloseBid(l) PROVE [Meter!Next]_(Meter!meterVars)
  <2> DEFINE left == (BlockRate - Price[l]) * Unit
             p == height + CeilDiv(SettledDeployment.balance, left)
  <2>1. CASE ~Created(l)
    BY <1>1, <1>6, <2>1 DEF CloseBid
  <2>2. CASE Created(l) /\ OthersActive(l)
    <3>1. /\ l \in Active /\ Open /\ height' = height /\ deployment' = ClosedDeployment(l)
          /\ leases' = Predict(Close(SettledLeases, {l}), p)
      BY <1>6, <2>2, SettlesWhenOpen DEF CloseBid
    <3>2. p \in Nat
      <4>1. PICK d \in Nat \ {0}, b \in Nat, h \in Nat :
              d = left /\ b = SettledDeployment.balance /\ h = height
        BY <2>2, <3>1, RateWithout, SettledIs, Types DEF OthersActive
      <4>2. PICK c \in Nat : c = CeilDiv(b, d)
        BY CeilDivIs
      <4> QED
        BY <4>1, <4>2
    <3> HIDE DEF p
    <3> QED
      BY <2>2, <3>1, <3>2, CloseDemands
  <2>3. CASE Created(l) /\ ~OthersActive(l)
    <3>1. /\ l \in Active /\ height' = height /\ deployment' = ClosedDeployment(l)
          /\ leases' = Close(SettledLeases, {l}) /\ 0 \in Nat
      BY <1>6, <2>3 DEF CloseBid
    <3> QED
      BY <2>3, <3>1, CloseDemands
  <2> QED
    BY <2>1, <2>2, <2>3
<1>7. ASSUME CloseDeployment PROVE Meter!Next
  <2>1. /\ Open /\ height' = height /\ leases' = Close(SettledLeases, Active)
        /\ deployment' = [SettledDeployment EXCEPT !.closed = height]
    BY <1>7 DEF CloseDeployment
  <2>2. \A k \in Leases : /\ leases'[k].created = leases[k].created
                          /\ leases'[k].closed = IF k \in Active THEN height ELSE leases[k].closed
    BY <2>1, CloseIs, SettledIs
  <2>3. /\ deployment'.created = deployment.created /\ deployment'.deposit = deployment.deposit
        /\ deployment'.closed = height
    <3>1. PICK D \in Deployment : D = SettledDeployment
      BY <2>1, SettledDates DEF Open
    <3>2. D.created = deployment.created /\ D.deposit = deployment.deposit
      BY <2>1, <3>1, SettledDates DEF Open
    <3> QED
      BY <2>1, <3>1, <3>2 DEF Deployment
  <2>4. Meter!Demand(Active)
    BY <2>1, <2>2, <2>3, DemandStep
  <2> QED
    BY <2>4, MeterRows DEF Meter!Next
<1>8. ASSUME NextBlock PROVE Meter!Next
  BY <1>8 DEF NextBlock, Meter!Next, Meter!Tick, account, terms
<1>9. ASSUME NEW l \in Leases, CreateBid(l) PROVE [Meter!Next]_(Meter!meterVars)
  BY <1>1, <1>9 DEF CreateBid
<1>10. ASSUME UNCHANGED escrowVars PROVE [Meter!Next]_(Meter!meterVars)
  BY <1>1, <1>10 DEF escrowVars
<1> QED
  BY <1>2, <1>3, <1>4, <1>5, <1>6, <1>7, <1>8, <1>9, <1>10, WithdrawDemands DEF EscrowNext, Message

\* The replayed settlements are a meter: with any prices, in whatever order
\* leases start and end, and however often the account is settled in between,
\* it closes at the first message that needs the money once its deposits no
\* longer cover the lifetimes of its leases, and ends no lease before.
THEOREM EscrowImplementsMeter == EscrowSpec => ImplementsMeter
<1>1. EscrowInit => Meter!Init
  BY DEF EscrowInit, Meter!Init, Meter!NoTerm, account, terms, NoDeployment, NoLease
<1>2. EscrowInv /\ [EscrowNext]_escrowVars => [Meter!Next]_(Meter!meterVars)
  BY MeterStep DEF EscrowInv
<1> QED
  BY <1>1, <1>2, EscrowInvariant, PTL DEF EscrowSpec, ImplementsMeter, Meter!Spec

------------------------------------------------------------------------------
(***************************************************************************)
(* UsdSpending for any calendar, prices and number of runs: with nothing   *)
(* left to do for either task, every total follows from the prices, but    *)
(* after a day whose change was lost.                                      *)
(*                                                                         *)
(* The invariant says of each block what excuses a wrong total (a flag, a  *)
(* block before it without totals, or a loss), and of a run of the tracker *)
(* what it has read and how far it has come.                               *)
(***************************************************************************)

MaxPrice == Max(Prices \cup {0})

\* What is known of the constants.
LEMMA Chain ==
  /\ MaxBlocks \in Nat \ {0} /\ \A h \in Blocks : h \in Nat /\ 1 <= h /\ h <= MaxBlocks
  /\ \A h \in Blocks : DayOf[h] \in Nat /\ DayOf[h] \in Days
  /\ \A g, h \in Blocks : g <= h => DayOf[g] <= DayOf[h]
  /\ Days \subseteq Nat /\ Existing \subseteq Days
  /\ MaxPrice \in Nat /\ \A c \in Prices \cup {NoPrice} : c \in Nat /\ c <= MaxPrice
<1>1. /\ MaxBlocks \in Nat \ {0} /\ DayOf \in [Blocks -> Nat] /\ Prices \subseteq Nat \ {0}
      /\ \A g, h \in Blocks : g <= h => DayOf[g] <= DayOf[h]
      /\ IsFiniteSet(Prices)
  BY ChainAssumption
<1>2. IsFiniteSet(Prices \cup {0}) /\ Prices \cup {0} \subseteq Int /\ Prices \cup {0} # {}
  BY <1>1, FS_AddElement
<1>3. MaxPrice \in Prices \cup {0} /\ \A c \in Prices \cup {0} : c <= MaxPrice
  BY <1>2, MaxIs DEF MaxPrice
<1> QED
  BY <1>1, <1>3 DEF Blocks, Days, Existing, NoPrice

\* The blocks of a day follow each other.
LEMMA Calendar ==
  ASSUME NEW d \in Days
  PROVE  /\ FirstBlock(d) \in Blocks /\ DayOf[FirstBlock(d)] = d /\ FirstBlock(d) - 1 \in 0..MaxBlocks
         /\ \A h \in Blocks : DayOf[h] >= d => FirstBlock(d) <= h
         /\ \A h \in Blocks : DayOf[h] < d => h < FirstBlock(d)
<1>1. BlocksOf(d) # {} /\ BlocksOf(d) \subseteq Nat
  BY Chain DEF BlocksOf, Days
<1>2. FirstBlock(d) \in BlocksOf(d) /\ \A h \in BlocksOf(d) : FirstBlock(d) <= h
  BY <1>1, MinIs DEF FirstBlock
<1>3. FirstBlock(d) \in Blocks /\ DayOf[FirstBlock(d)] = d
  BY <1>2 DEF BlocksOf
<1>4. FirstBlock(d) - 1 \in 0..MaxBlocks
  BY <1>3, Chain
<1>5. ASSUME NEW h \in Blocks PROVE (DayOf[h] >= d => FirstBlock(d) <= h) /\ (DayOf[h] < d => h < FirstBlock(d))
  <2>1. PICK f \in Blocks : f = FirstBlock(d)
    BY <1>3
  <2>2. CASE f <= h
    <3>1. DayOf[f] <= DayOf[h] /\ DayOf[f] = d
      BY <1>3, <2>1, <2>2, Chain
    <3> QED
      BY <2>1, <2>2, <3>1, Chain
  <2>3. CASE ~(f <= h)
    <3>1. h \in Nat /\ f \in Nat /\ h < f
      BY <2>3, Chain
    <3>2. DayOf[h] <= d /\ DayOf[h] # d
      BY <1>2, <1>3, <2>1, <3>1, Chain DEF BlocksOf
    <3>3. DayOf[h] \in Nat /\ d \in Nat
      BY Chain
    <3> QED
      BY <2>1, <3>1, <3>2, <3>3
  <2> QED
    BY <2>2, <2>3
<1> QED
  BY <1>3, <1>4, <1>5
------------------------------------------------------------------------------
PriceTypes == price \in [Days -> Prices \cup {NoPrice}]

\* What blocks should have are natural numbers, and nothing before the first.
LEMMA ExpectedTypes ==
  ASSUME PriceTypes, NEW h \in 0..MaxBlocks
  PROVE  Expected(h) \in Nat /\ (h = 0 => Expected(h) = 0)
<1> DEFINE f == [i \in 1..h |-> price[DayOf[i]]]
<1>1. Expected(h) = SumFunctionOnSet(f, 1..h)
  BY DEF Expected, SumFunction, SumFunctionOnSet, FoldFunction
<1>2. IsFiniteSet(1..h) /\ h \in Int /\ MaxBlocks \in Nat
  BY Chain, FS_Interval
<1>3. \A i \in 1..h : f[i] \in Nat
  BY <1>2, Chain DEF Blocks, PriceTypes
<1> HIDE DEF f
<1>4. SumFunctionOnSet(f, 1..h) \in Nat
  BY <1>2, <1>3, SumTypes
<1>5. ASSUME h = 0 PROVE SumFunctionOnSet(f, 1..h) = 0
  <2>1. 1..h = {}
    BY <1>5
  <2> QED
    BY <2>1, SumEmpty
<1> QED
  BY <1>1, <1>4, <1>5

\* On one day it grows by the day's price with each block.
LEMMA ExpectedOnDay ==
  ASSUME PriceTypes, NEW h \in Blocks, NEW p, p = FirstBlock(DayOf[h]) - 1
  PROVE  /\ p \in 0..MaxBlocks /\ p < h
         /\ Expected(h) = Expected(p) + (h - p) * price[DayOf[h]]
<1> DEFINE f == [i \in 1..h |-> price[DayOf[i]]]
           g == [i \in 1..p |-> price[DayOf[i]]]
<1>1. PICK d \in Days : d = DayOf[h]
  BY Chain
<1>2. p \in 0..MaxBlocks /\ p < h /\ h \in Nat /\ p \in Nat /\ MaxBlocks \in Nat /\ h <= MaxBlocks
  BY <1>1, Calendar, Chain
<1>3. Expected(h) = SumFunctionOnSet(f, 1..h) /\ Expected(p) = SumFunctionOnSet(g, 1..p)
  BY DEF Expected, SumFunction, SumFunctionOnSet, FoldFunction
<1>4. ASSUME NEW i \in (p + 1)..h PROVE f[i] = price[d]
  <2>1. i \in Blocks /\ i \in 1..h /\ p + 1 \in Blocks /\ p + 1 <= i /\ i <= h
    BY <1>2 DEF Blocks
  <2>2. DayOf[p + 1] = d
    <3>1. PICK b \in Nat : b = FirstBlock(d) /\ DayOf[b] = d
      BY <1>1, Calendar, Chain
    <3>2. p + 1 = b
      BY <1>1, <3>1
    <3> QED
      BY <3>1, <3>2
  <2>3. DayOf[i] <= d /\ d <= DayOf[i] /\ DayOf[i] \in Nat /\ d \in Nat
    BY <1>1, <2>1, <2>2, Chain
  <2>4. DayOf[i] = d
    BY <2>3
  <2> QED
    BY <2>1, <2>4
<1>5. \A i \in 1..h : f[i] \in Int
  BY <1>2, Chain DEF Blocks, PriceTypes
<1>6. \A i \in 1..p : f[i] = g[i]
  BY <1>2
<1>7. price[d] \in Int
  BY Chain DEF PriceTypes
<1> HIDE DEF f, g
<1>8. /\ 1..p \in SUBSET (1..h) /\ (1..h) \ (1..p) = (p + 1)..h
      /\ IsFiniteSet(1..h) /\ IsFiniteSet(1..p) /\ IsFiniteSet((p + 1)..h)
      /\ Cardinality((p + 1)..h) = h - p
  <2>1. PICK q \in Nat : q = p + 1
    BY <1>2
  <2>2. IsFiniteSet(q..h) /\ Cardinality(q..h) = IF q > h THEN 0 ELSE h - q + 1
    <3>1. q \in Int /\ h \in Int
      BY <1>2
    <3> QED
      BY ONLY <3>1, FS_Interval, Zenon
  <2>3. IsFiniteSet(1..h) /\ IsFiniteSet(1..p)
    BY <1>2, FS_Interval
  <2>4. 1..p \in SUBSET (1..h) /\ (1..h) \ (1..p) = q..h /\ Cardinality(q..h) = h - p
    BY <1>2, <2>1, <2>2
  <2> QED
    BY <2>1, <2>2, <2>3, <2>4
<1>9. SumFunctionOnSet(f, 1..h) = SumFunctionOnSet(f, 1..p) + SumFunctionOnSet(f, (p + 1)..h)
  <2>1. SumFunctionOnSet(f, 1..h) = SumFunctionOnSet(f, 1..p) + SumFunctionOnSet(f, (1..h) \ (1..p))
    BY ONLY <1>5, <1>8, SumSplit, Zenon
  <2> QED
    BY <1>8, <2>1
<1>10. SumFunctionOnSet(f, 1..p) = SumFunctionOnSet(g, 1..p)
  BY ONLY <1>6, <1>8, SumEqual, Zenon
<1>11. SumFunctionOnSet(f, (p + 1)..h) = price[d] * Cardinality((p + 1)..h)
  BY ONLY <1>4, <1>7, <1>8, SumConstant, Zenon
<1>12. PICK c \in Int : c = price[d]
  BY <1>7
<1>13. c * (h - p) = (h - p) * c
  BY <1>2
<1> QED
  BY <1>1, <1>2, <1>3, <1>8, <1>9, <1>10, <1>11, <1>12, <1>13

\* The price of one day matters to the blocks from that day on.
LEMMA ExpectedKept ==
  ASSUME NEW d, d \in Nat, NEW h \in 0..MaxBlocks,
         \A e \in Days : e # d => price'[e] = price[e],
         \A i \in Blocks : i <= h => DayOf[i] < d
  PROVE  Expected(h)' = Expected(h)
<1> DEFINE f == [i \in 1..h |-> price[DayOf[i]]]
           g == [i \in 1..h |-> price'[DayOf[i]]]
<1>1. Expected(h) = SumFunction(f) /\ Expected(h)' = SumFunction(g)
  BY DEF Expected
<1>2. ASSUME NEW i \in 1..h PROVE price[DayOf[i]] = price'[DayOf[i]]
  <2>1. i \in Blocks /\ i <= h
    BY Chain DEF Blocks
  <2>2. DayOf[i] \in Days /\ DayOf[i] < d /\ DayOf[i] \in Nat
    BY <2>1, Chain
  <2>3. DayOf[i] # d
    BY <2>2
  <2> QED
    BY <2>2, <2>3
<1>3. f = g
  BY <1>2
<1> QED
  BY <1>1, <1>3

------------------------------------------------------------------------------
(* The inductive invariant                                                    *)

Pcs == {"idle", "block", "find", "read", "update", "save"}
RowSets == UNION {[D -> Row] : D \in SUBSET Days}
Apis == UNION {[D -> Prices \cup {NoPrice}] : D \in SUBSET Days}
Tracker == [pc : Pcs, day : Days \cup {NoDay}, rows : RowSets, akt : 0..MaxBlocks, usd : Nat]
Sync == [rows : RowSets, api : Apis]

\* The tables.
TablesInv ==
  /\ inserted \in 0..MaxBlocks /\ processed \in 0..MaxBlocks /\ processed <= inserted
  /\ spent \in [Blocks -> {Null} \cup Nat]
  /\ \A h \in Blocks : h > processed => spent[h] = Null
  /\ \A h \in Blocks : spent[h] # Null => spent[h] <= h * MaxPrice
  /\ PriceTypes
  /\ flagged \subseteq Existing /\ lost \subseteq Days
  /\ syncs \in 0..MaxSyncs /\ cuts \in 0..MaxCuts

InRun == tracker.pc \in {"read", "update", "save"}

\* The runs of the two tasks.
RunsInv ==
  /\ tracker \in Tracker /\ sync \in Sync
  /\ ~InRun => DOMAIN tracker.rows = {}
  /\ InRun => tracker.day \in DOMAIN tracker.rows
  /\ tracker.pc = "find" => tracker.day \in Existing
  /\ tracker.day \in Existing \cup {NoDay}
  /\ DOMAIN tracker.rows \subseteq Existing
  /\ DOMAIN sync.rows \subseteq DOMAIN sync.api /\ DOMAIN sync.api \subseteq Existing

Previous(d) == FirstBlock(d) - 1

\* The totals at the end of the previous day are those in the table, or were
\* not there and still are not.
ReadInv ==
  tracker.pc = "update" =>
    LET p == Previous(tracker.day)
    IN  /\ tracker.akt = p \/ (tracker.akt = 0 /\ p # 0 /\ spent[p] = Null)
        /\ tracker.usd = IF p = 0 \/ spent[p] = Null THEN 0 ELSE spent[p]

\* A day the run does not know has no totals yet.
NewDaysInv ==
  InRun => \A h \in Blocks :
    DayOf[h] > tracker.day /\ DayOf[h] \notin DOMAIN tracker.rows => spent[h] = Null

\* A price that is not the one the run has read is flagged again, unless it
\* was flagged when it was read.
StaleInv ==
  InRun => \A d \in DOMAIN tracker.rows : d >= tracker.day =>
    /\ price[d] # tracker.rows[d].price /\ ~tracker.rows[d].flag => d \in flagged \cup lost
    /\ tracker.rows[d].flag => d \in flagged

\* Something other than day d's flag says that the totals from some block up
\* to h are to be computed again, or that this was lost.
ExcusedBut(h, d) ==
  \/ \E e \in lost \cup (flagged \ {d}) : e <= DayOf[h]
  \/ \E i \in 1..h : spent[i] = Null

Good(h) == spent[h] = Expected(h) \/ ExcusedBut(h, NoDay)

\* The run has dealt with the days before the one it is at.
GoodInv ==
  \A h \in Blocks : h <= processed /\ (InRun => DayOf[h] < tracker.day) => Good(h)

\* Before its flag is cleared, a day's blocks have totals at the price read.
SavedWell(h) ==
  LET p == Previous(tracker.day)
  IN  \/ spent[h] = Expected(p) + (h - p) * tracker.rows[tracker.day].price
      \/ ExcusedBut(h, tracker.day)

SaveInv ==
  tracker.pc = "save" =>
    \A h \in Blocks : h <= processed /\ DayOf[h] = tracker.day => SavedWell(h)

UsdInv ==
  TablesInv /\ RunsInv /\ ReadInv /\ NewDaysInv /\ StaleInv /\ GoodInv /\ SaveInv
------------------------------------------------------------------------------
\* Rows in memory.
LEMMA RowSetsIs ==
  ASSUME NEW r \in RowSets
  PROVE  /\ DOMAIN r \subseteq Days
         /\ \A d \in DOMAIN r : r[d].price \in Prices \cup {NoPrice} /\ r[d].flag \in BOOLEAN
         /\ \A D \in SUBSET DOMAIN r : Restrict(r, D) \in RowSets /\ DOMAIN Restrict(r, D) = D
         /\ \A D \in SUBSET DOMAIN r : \A d \in D : Restrict(r, D)[d] = r[d]
<1>1. PICK D \in SUBSET Days : r \in [D -> Row]
  BY DEF RowSets
<1>2. DOMAIN r = D /\ \A d \in D : r[d] \in Row
  BY <1>1
<1>3. \A x \in Row : x.price \in Prices \cup {NoPrice} /\ x.flag \in BOOLEAN
  BY DEF Row
<1>4. ASSUME NEW E \in SUBSET D
      PROVE  /\ Restrict(r, E) \in RowSets /\ DOMAIN Restrict(r, E) = E
             /\ \A d \in E : Restrict(r, E)[d] = r[d]
  <2>1. Restrict(r, E) = [x \in E |-> r[x]]
    BY DEF Restrict
  <2>2. Restrict(r, E) \in [E -> Row]
    BY <1>2, <2>1
  <2>3. E \in SUBSET Days
    BY <1>1
  <2> QED
    BY <2>1, <2>2, <2>3 DEF RowSets
<1> QED
  BY <1>2, <1>3, <1>4

\* The rows as they are in the table.
LEMMA RowsAre ==
  ASSUME PriceTypes, NEW D \in SUBSET Days
  PROVE  /\ Rows(D) \in RowSets /\ DOMAIN Rows(D) = D
         /\ \A d \in D : Rows(D)[d].price = price[d] /\ (Rows(D)[d].flag <=> d \in flagged)
<1>1. Rows(D) = [d \in D |-> [price |-> price[d], flag |-> d \in flagged]]
  BY DEF Rows
<1>2. \A d \in D : [price |-> price[d], flag |-> d \in flagged] \in Row
  BY DEF Row, PriceTypes
<1>3. Rows(D) \in [D -> Row]
  BY <1>1, <1>2
<1>4. Rows(D) \in RowSets /\ DOMAIN Rows(D) = D
  BY <1>1, <1>3 DEF RowSets
<1>5. ASSUME NEW d \in D
      PROVE  Rows(D)[d].price = price[d] /\ (Rows(D)[d].flag <=> d \in flagged)
  <2>1. PICK p, f : p = price[d] /\ f = (d \in flagged)
    OBVIOUS
  <2>2. Rows(D)[d] = [price |-> p, flag |-> f]
    BY <1>1, <2>1, Zenon
  <2>3. Rows(D)[d].price = p /\ Rows(D)[d].flag = f
    <3>1. [price |-> p, flag |-> f].price = p /\ [price |-> p, flag |-> f].flag = f
      OBVIOUS
    <3> QED
      BY ONLY <2>2, <3>1, Zenon
  <2> QED
    BY <2>1, <2>3, Zenon
<1> QED
  BY <1>4, <1>5

\* No rows.
LEMMA NoRows ==
  /\ IdleTracker \in Tracker /\ IdleTracker.pc = "idle" /\ IdleTracker.day = NoDay
  /\ DOMAIN IdleTracker.rows = {}
  /\ IdleSync \in Sync /\ DOMAIN IdleSync.rows = {} /\ DOMAIN IdleSync.api = {}
<1>1. DOMAIN <<>> = {}
  OBVIOUS
<1>2. <<>> \in [{} -> Row] /\ <<>> \in [{} -> Prices \cup {NoPrice}]
  BY <1>1
<1>3. <<>> \in RowSets /\ <<>> \in Apis
  BY <1>2 DEF RowSets, Apis
<1>4. MaxBlocks \in Nat
  BY Chain
<1> QED
  BY <1>1, <1>3, <1>4 DEF IdleTracker, Tracker, Pcs, NoDay, IdleSync, Sync

\* The types of the tracker's and the other task's parts.
LEMMA RunParts ==
  ASSUME RunsInv
  PROVE  /\ tracker \in Tracker /\ tracker.pc \in Pcs /\ tracker.rows \in RowSets /\ tracker.usd \in Nat
         /\ tracker.day \in Days \cup {NoDay} /\ (InRun => tracker.day \in Days /\ tracker.day \in Nat)
         /\ DOMAIN tracker.rows \subseteq Days /\ DOMAIN tracker.rows \subseteq Nat
         /\ sync.rows \in RowSets /\ sync.api \in Apis /\ DOMAIN sync.rows \subseteq Days
         /\ \A d \in DOMAIN sync.rows : sync.api[d] \in Prices \cup {NoPrice}
         /\ \A d \in DOMAIN tracker.rows :
              tracker.rows[d].price \in Prices \cup {NoPrice} /\ tracker.rows[d].flag \in BOOLEAN
<1>1. /\ tracker \in Tracker /\ tracker.pc \in Pcs /\ tracker.rows \in RowSets /\ tracker.usd \in Nat
      /\ tracker.day \in Days \cup {NoDay} /\ sync.rows \in RowSets /\ sync.api \in Apis
  BY DEF RunsInv, Tracker, Sync
<1>2. DOMAIN sync.rows \subseteq Days /\ DOMAIN tracker.rows \subseteq Days
  BY <1>1, RowSetsIs
<1>3. \A d \in DOMAIN sync.api : sync.api[d] \in Prices \cup {NoPrice}
  BY <1>1 DEF Apis
<1>4. InRun => tracker.day \in Days
  BY <1>2 DEF RunsInv
<1>5. \A d \in DOMAIN tracker.rows :
        tracker.rows[d].price \in Prices \cup {NoPrice} /\ tracker.rows[d].flag \in BOOLEAN
  BY <1>1, RowSetsIs
<1> QED
  BY <1>1, <1>2, <1>3, <1>4, <1>5, Chain DEF RunsInv

\* More flags and more that is lost excuse more.
LEMMA ExcusesGrow ==
  ASSUME spent' = spent, flagged \subseteq flagged', lost \subseteq lost', NEW h, NEW d
  PROVE  ExcusedBut(h, d) => ExcusedBut(h, d)'
BY DEF ExcusedBut

\* A block without totals excuses itself.
LEMMA NullIsExcused ==
  ASSUME NEW h \in Blocks, NEW d, spent[h] = Null
  PROVE  ExcusedBut(h, d)
BY Chain DEF ExcusedBut

\* Without a change of prices, what is expected does not change.
LEMMA ExpectedSame == price' = price => \A h : Expected(h)' = Expected(h)
BY DEF Expected

------------------------------------------------------------------------------
(* What the steps do to the invariant                                         *)

RestInv == ReadInv /\ NewDaysInv /\ StaleInv /\ GoodInv /\ SaveInv

\* Steps that change neither totals, prices, flags nor the tracker's run.
LEMMA RunKept ==
  ASSUME RestInv, UNCHANGED <<spent, price, flagged, tracker, lost, processed>>
  PROVE  RestInv'
<1>1. \A h : Expected(h)' = Expected(h)
  BY ExpectedSame
<1>2. \A h, d : ExcusedBut(h, d)' <=> ExcusedBut(h, d)
  BY DEF ExcusedBut
<1>3. \A h : (Good(h)' <=> Good(h)) /\ (SavedWell(h)' <=> SavedWell(h))
  BY <1>1, <1>2 DEF Good, SavedWell, Previous
<1>4. InRun' <=> InRun
  BY DEF InRun
<1>5. ReadInv' /\ NewDaysInv' /\ StaleInv'
  BY <1>4 DEF RestInv, ReadInv, NewDaysInv, StaleInv, Previous
<1>6. GoodInv' /\ SaveInv'
  BY <1>3, <1>4 DEF RestInv, GoodInv, SaveInv
<1> QED
  BY <1>5, <1>6 DEF RestInv

\* Days do not go away.
LEMMA DaysStay ==
  ASSUME inserted \in Nat, inserted' \in Nat, inserted <= inserted'
  PROVE  Existing \subseteq Existing'
<1> SUFFICES ASSUME NEW d \in Existing PROVE d \in Existing'
  OBVIOUS
<1>1. PICK f \in Nat : f = FirstBlock(d) /\ f <= inserted /\ d \in Days
  BY Calendar, Chain DEF Existing
<1> QED
  BY <1>1 DEF Existing

\* A block arrives.
LEMMA InsertBlockKeeps == UsdInv /\ InsertBlock => UsdInv'
<1> SUFFICES ASSUME UsdInv, InsertBlock PROVE UsdInv'
  OBVIOUS
<1>1. /\ inserted \in Nat /\ inserted' = inserted + 1 /\ inserted' <= MaxBlocks /\ processed \in Nat
      /\ processed <= inserted
      /\ UNCHANGED <<processed, spent, price, flagged, tracker, sync, lost, syncs, cuts>>
  BY Chain DEF UsdInv, TablesInv, InsertBlock
<1>2. Existing \subseteq Existing'
  BY <1>1, DaysStay
<1>3. TablesInv'
  BY <1>1, <1>2, Chain DEF UsdInv, TablesInv, PriceTypes
<1>4. RunsInv'
  BY <1>1, <1>2 DEF UsdInv, RunsInv, InRun
<1>5. RestInv'
  BY <1>1, RunKept DEF UsdInv, RestInv
<1> QED
  BY <1>3, <1>4, <1>5 DEF UsdInv, RestInv

\* A block is processed: it has no totals in USD yet.
LEMMA ProcessBlockKeeps == UsdInv /\ ProcessBlock => UsdInv'
<1> SUFFICES ASSUME UsdInv, ProcessBlock PROVE UsdInv'
  OBVIOUS
<1>1. /\ inserted \in 0..MaxBlocks /\ processed \in 0..MaxBlocks /\ processed < inserted
      /\ processed' = processed + 1 /\ MaxBlocks \in Nat
      /\ UNCHANGED <<inserted, spent, price, flagged, tracker, sync, lost, syncs, cuts>>
  BY Chain DEF UsdInv, TablesInv, ProcessBlock
<1>2. processed' \in 0..MaxBlocks /\ processed' <= inserted'
  BY <1>1
<1>3. TablesInv'
  <2>1. \A h \in Blocks : h > processed' => h > processed
    BY <1>1, Chain
  <2>2. Existing' = Existing
    BY <1>1 DEF Existing
  <2> QED
    BY <1>1, <1>2, <2>1, <2>2 DEF UsdInv, TablesInv, PriceTypes
<1>4. RunsInv'
  BY <1>1 DEF UsdInv, RunsInv, InRun, Existing
<1>5. /\ \A h : (Good(h)' <=> Good(h)) /\ (SavedWell(h)' <=> SavedWell(h))
      /\ InRun' <=> InRun
  <2>1. \A h : Expected(h)' = Expected(h)
    BY <1>1, ExpectedSame
  <2>2. \A h, d : ExcusedBut(h, d)' <=> ExcusedBut(h, d)
    BY <1>1 DEF ExcusedBut
  <2> QED
    BY <1>1, <2>1, <2>2 DEF Good, SavedWell, Previous, InRun
<1>6. \A h \in Blocks : h <= processed' => h <= processed \/ spent[h] = Null
  BY <1>1, Chain DEF UsdInv, TablesInv
<1>7. ReadInv' /\ NewDaysInv' /\ StaleInv'
  BY <1>1, <1>5 DEF UsdInv, ReadInv, NewDaysInv, StaleInv, Previous
<1>8. GoodInv'
  <2> SUFFICES ASSUME NEW h \in Blocks, h <= processed', InRun => DayOf[h] < tracker.day
               PROVE  Good(h)
    BY <1>1, <1>5 DEF GoodInv
  <2>1. CASE h <= processed
    BY <2>1 DEF UsdInv, GoodInv
  <2>2. CASE spent[h] = Null
    BY <2>2, NullIsExcused DEF Good
  <2> QED
    BY <1>6, <2>1, <2>2
<1>9. SaveInv'
  <2> SUFFICES ASSUME tracker.pc = "save", NEW h \in Blocks, h <= processed', DayOf[h] = tracker.day
               PROVE  SavedWell(h)
    BY <1>1, <1>5 DEF SaveInv
  <2>1. CASE h <= processed
    BY <2>1 DEF UsdInv, SaveInv
  <2>2. CASE spent[h] = Null
    BY <2>2, NullIsExcused DEF SavedWell
  <2> QED
    BY <1>6, <2>1, <2>2
<1> QED
  BY <1>3, <1>4, <1>7, <1>8, <1>9 DEF UsdInv

\* Steps of the tracker that only read.
LEMMA TablesKept ==
  ASSUME TablesInv, UNCHANGED <<chain, spent, price, flagged, lost, syncs, cuts>>
  PROVE  /\ TablesInv' /\ Existing' = Existing
         /\ \A h : Good(h)' <=> Good(h)
<1>1. \A h : Expected(h)' = Expected(h)
  BY ExpectedSame
<1>2. \A h, d : ExcusedBut(h, d)' <=> ExcusedBut(h, d)
  BY DEF ExcusedBut
<1>3. Existing' = Existing
  BY DEF Existing, chain
<1> QED
  BY <1>1, <1>2, <1>3 DEF Good, TablesInv, PriceTypes, chain

\* A flagged day is one of the chain's, and so is the first of them.
LEMMA FirstOf ==
  ASSUME NEW S, S \subseteq Existing, S # {}
  PROVE  Min(S) \in S /\ Min(S) \in Existing /\ Min(S) \in Days
BY MinIs, Chain

\* The tracker starts.
LEMMA StartTrackerKeeps == UsdInv /\ StartTracker => UsdInv'
<1> SUFFICES ASSUME UsdInv, StartTracker PROVE UsdInv'
  OBVIOUS
<1> DEFINE d == IF flagged = {} THEN NoDay ELSE Min(flagged)
<1>1. /\ tracker.pc = "idle" /\ tracker' = [tracker EXCEPT !.pc = "block", !.day = d]
      /\ UNCHANGED <<chain, spent, price, flagged, sync, lost, syncs, cuts>>
      /\ TablesInv /\ RunsInv /\ flagged \subseteq Existing
  BY DEF StartTracker, UsdInv, TablesInv
<1>2. d \in Existing \cup {NoDay} /\ d \in Days \cup {NoDay}
  BY <1>1, FirstOf
<1> HIDE DEF d
<1>3. tracker \in Tracker /\ "block" \in Pcs
  BY <1>1, RunParts DEF Pcs
<1>4. tracker' \in Tracker /\ tracker'.pc = "block" /\ tracker'.day = d /\ tracker'.rows = tracker.rows
  BY ONLY <1>1, <1>2, <1>3 DEF Tracker
<1>5. ~InRun /\ ~InRun' /\ tracker'.pc # "update" /\ tracker'.pc # "save" /\ tracker'.pc # "find"
  BY <1>1, <1>4 DEF InRun
<1>6. TablesInv' /\ Existing' = Existing /\ \A h : Good(h)' <=> Good(h)
  BY <1>1, TablesKept
<1>7. RunsInv'
  BY <1>1, <1>2, <1>4, <1>5, <1>6 DEF RunsInv
<1>8. GoodInv'
  BY <1>1, <1>5, <1>6 DEF UsdInv, GoodInv, chain
<1> QED
  BY <1>5, <1>6, <1>7, <1>8 DEF UsdInv, ReadInv, NewDaysInv, StaleInv, SaveInv

\* The tracker finds out where to begin, or that there is nothing to do.
LEMMA FindBlockKeeps == UsdInv /\ FindBlock => UsdInv'
<1> SUFFICES ASSUME UsdInv, FindBlock PROVE UsdInv'
  OBVIOUS
<1>1. /\ tracker.pc = "block" /\ TablesInv /\ RunsInv
      /\ UNCHANGED <<chain, spent, price, flagged, sync, lost, syncs, cuts>>
      /\ tracker' = IF ToRefresh = {} THEN IdleTracker
                    ELSE [tracker EXCEPT !.pc = "find", !.day = Min(ToRefresh)]
  BY DEF FindBlock, UsdInv
<1>2. ToRefresh \subseteq Existing
  <2> SUFFICES ASSUME NEW e \in ToRefresh PROVE e \in Existing
    OBVIOUS
  <2>1. CASE e = tracker.day /\ e # NoDay
    BY <1>1, <2>1 DEF RunsInv
  <2>2. CASE \E h \in 1..inserted : e = DayOf[h]
    <3>1. PICK h \in 1..inserted : e = DayOf[h]
      BY <2>2
    <3>2. h \in Blocks /\ h <= inserted /\ inserted \in Nat
      BY <1>1, <3>1, Chain DEF TablesInv, Blocks
    <3>3. e \in Days /\ DayOf[h] >= e
      BY <3>1, <3>2, Chain
    <3>4. e \in Days /\ FirstBlock(e) <= h /\ FirstBlock(e) \in Nat /\ h \in Nat
      BY <3>2, <3>3, Chain, Calendar
    <3> QED
      BY <3>2, <3>4 DEF Existing
  <2> QED
    BY <2>1, <2>2 DEF ToRefresh
<1>3. tracker \in Tracker /\ "find" \in Pcs /\ DOMAIN tracker.rows = {} /\ ~InRun
  BY <1>1, RunParts DEF Pcs, InRun, RunsInv
<1>4. /\ tracker' \in Tracker /\ tracker'.pc \in {"idle", "find"} /\ DOMAIN tracker'.rows = {}
      /\ tracker'.day \in Existing \cup {NoDay}
      /\ tracker'.pc = "find" => tracker'.day \in Existing
  <2>1. CASE ToRefresh = {}
    BY <1>1, <2>1, NoRows
  <2>2. CASE ToRefresh # {}
    <3>1. PICK e \in Days : e = Min(ToRefresh) /\ e \in Existing
      BY <1>2, <2>2, FirstOf
    <3>2. tracker' = [tracker EXCEPT !.pc = "find", !.day = e]
      BY <1>1, <2>2, <3>1
    <3>3. tracker' \in Tracker /\ tracker'.pc = "find" /\ tracker'.day = e /\ tracker'.rows = tracker.rows
      BY ONLY <1>3, <3>1, <3>2 DEF Tracker
    <3> QED
      BY <1>3, <3>1, <3>3
  <2> QED
    BY <2>1, <2>2
<1>5. ~InRun' /\ tracker'.pc # "update" /\ tracker'.pc # "save"
  BY <1>4 DEF InRun
<1>6. TablesInv' /\ Existing' = Existing /\ \A h : Good(h)' <=> Good(h)
  BY <1>1, TablesKept
<1>7. RunsInv'
  BY <1>1, <1>4, <1>5, <1>6 DEF RunsInv
<1>8. GoodInv'
  BY <1>1, <1>3, <1>5, <1>6 DEF UsdInv, GoodInv, chain
<1> QED
  BY <1>5, <1>6, <1>7, <1>8 DEF UsdInv, ReadInv, NewDaysInv, StaleInv, SaveInv

\* A day the table does not have has no processed block.
LEMMA UnknownDays ==
  ASSUME TablesInv, NEW h \in Blocks, DayOf[h] \notin Existing
  PROVE  spent[h] = Null
<1>1. DayOf[h] \in Days /\ FirstBlock(DayOf[h]) <= h /\ FirstBlock(DayOf[h]) \in Nat /\ h \in Nat
  BY Chain, Calendar
<1>2. ~(FirstBlock(DayOf[h]) <= inserted) /\ inserted \in Nat /\ processed \in Nat /\ processed <= inserted
  BY <1>1 DEF Existing, TablesInv
<1>3. h > processed
  BY <1>1, <1>2
<1> QED
  BY <1>3 DEF TablesInv

\* The rows of the days from there on are read.
LEMMA FindDaysKeeps == UsdInv /\ FindDays => UsdInv'
<1> SUFFICES ASSUME UsdInv, FindDays PROVE UsdInv'
  OBVIOUS
<1> DEFINE D == {d \in Existing : d >= tracker.day}
<1>1. /\ tracker.pc = "find" /\ TablesInv /\ RunsInv /\ PriceTypes
      /\ UNCHANGED <<chain, spent, price, flagged, sync, lost, syncs, cuts>>
      /\ tracker' = [tracker EXCEPT !.pc = "read", !.rows = Rows(D)]
  BY DEF FindDays, UsdInv, TablesInv
<1>2. tracker.day \in Existing /\ tracker.day \in D /\ D \in SUBSET Days /\ D \subseteq Existing
  BY <1>1, Chain DEF RunsInv
<1>3. \A d \in Existing : d >= tracker.day => d \in D
  OBVIOUS
<1> HIDE DEF D
<1>4. /\ Rows(D) \in RowSets /\ DOMAIN Rows(D) = D
      /\ \A d \in D : Rows(D)[d].price = price[d] /\ (Rows(D)[d].flag <=> d \in flagged)
  BY <1>1, <1>2, RowsAre
<1>5. tracker \in Tracker /\ "read" \in Pcs /\ ~InRun
  BY <1>1, RunParts DEF Pcs, InRun
<1>6. /\ tracker' \in Tracker /\ tracker'.pc = "read" /\ tracker'.day = tracker.day
      /\ tracker'.rows = Rows(D)
  BY ONLY <1>1, <1>4, <1>5 DEF Tracker
<1>7. InRun' /\ tracker'.pc # "update" /\ tracker'.pc # "save" /\ tracker'.pc # "find"
  BY <1>6 DEF InRun
<1>8. TablesInv' /\ Existing' = Existing /\ \A h : Good(h)' <=> Good(h)
  BY <1>1, TablesKept
<1>9. RunsInv'
  BY <1>1, <1>2, <1>4, <1>6, <1>7, <1>8 DEF RunsInv
<1>10. GoodInv'
  BY <1>1, <1>5, <1>8 DEF UsdInv, GoodInv, chain
<1>11. NewDaysInv'
  <2> SUFFICES ASSUME NEW h \in Blocks, DayOf[h] > tracker.day, DayOf[h] \notin D
               PROVE  spent[h] = Null
    BY <1>1, <1>4, <1>6 DEF NewDaysInv
  <2>1. DayOf[h] \in Nat /\ tracker.day \in Nat
    BY <1>2, Chain
  <2>2. DayOf[h] >= tracker.day
    BY <2>1
  <2>3. DayOf[h] \notin Existing
    BY <1>3, <2>2
  <2> QED
    BY <1>1, <2>3, UnknownDays
<1>12. StaleInv'
  <2> SUFFICES ASSUME NEW d \in D
               PROVE  /\ price[d] # Rows(D)[d].price /\ ~Rows(D)[d].flag => d \in flagged \cup lost
                      /\ Rows(D)[d].flag => d \in flagged
    BY <1>1, <1>4, <1>6 DEF StaleInv
  <2> QED
    BY <1>4
<1> QED
  BY <1>7, <1>8, <1>9, <1>10, <1>11, <1>12 DEF UsdInv, ReadInv, SaveInv

\* The totals at the end of the previous day are read.
LEMMA ReadPreviousDayKeeps == UsdInv /\ ReadPreviousDay => UsdInv'
<1> SUFFICES ASSUME UsdInv, ReadPreviousDay PROVE UsdInv'
  OBVIOUS
<1>1. /\ tracker.pc = "read" /\ TablesInv /\ RunsInv /\ InRun
      /\ UNCHANGED <<chain, spent, price, flagged, sync, lost, syncs, cuts>>
  BY DEF ReadPreviousDay, UsdInv, InRun
<1>2. PICK p \in 0..MaxBlocks : p = FirstBlock(tracker.day) - 1
  BY <1>1, RunParts, Calendar
<1>3. PICK a, b : /\ a = IF p > processed THEN 0 ELSE p
                  /\ b = IF p = 0 \/ spent[p] = Null THEN 0 ELSE spent[p]
  OBVIOUS
<1>4. tracker' = [tracker EXCEPT !.pc = "update", !.akt = a, !.usd = b]
  BY <1>2, <1>3 DEF ReadPreviousDay
<1>5. MaxBlocks \in Nat /\ p \in Nat /\ p <= MaxBlocks /\ processed \in Nat
  BY <1>1, <1>2, Chain DEF TablesInv
<1>6. a \in 0..MaxBlocks /\ b \in Nat
  <2>1. p # 0 => spent[p] \in {Null} \cup Nat
    BY <1>1, <1>5 DEF TablesInv, Blocks
  <2> QED
    BY <1>3, <1>5, <2>1
<1>7. tracker \in Tracker /\ "update" \in Pcs
  BY <1>1, RunParts DEF Pcs
<1>8. /\ tracker' \in Tracker /\ tracker'.pc = "update" /\ tracker'.day = tracker.day
      /\ tracker'.rows = tracker.rows /\ tracker'.akt = a /\ tracker'.usd = b
  BY ONLY <1>4, <1>6, <1>7 DEF Tracker
<1>9. InRun' /\ tracker'.pc # "save" /\ tracker'.pc # "find"
  BY <1>8 DEF InRun
<1>10. TablesInv' /\ Existing' = Existing /\ \A h : Good(h)' <=> Good(h)
  BY <1>1, TablesKept
<1>11. RunsInv'
  BY <1>1, <1>8, <1>9, <1>10 DEF RunsInv
<1>12. GoodInv'
  BY <1>1, <1>8, <1>9, <1>10 DEF UsdInv, GoodInv, chain
<1>13. NewDaysInv' /\ StaleInv'
  BY <1>1, <1>8 DEF UsdInv, NewDaysInv, StaleInv
<1>14. ReadInv'
  <2>1. p > processed => p # 0 /\ spent[p] = Null
    BY <1>1, <1>5 DEF TablesInv, Blocks
  <2>2. Previous(tracker'.day) = p
    BY <1>2, <1>8 DEF Previous
  <2> QED
    BY <1>1, <1>3, <1>5, <1>8, <2>1, <2>2 DEF ReadInv, Previous
<1> QED
  BY <1>9, <1>10, <1>11, <1>12, <1>13, <1>14 DEF UsdInv, SaveInv

\* A flag of the day excuses as much as any other.
LEMMA ExcusedForAny ==
  ASSUME TablesInv, NEW h, NEW d, ExcusedBut(h, d)
  PROVE  ExcusedBut(h, NoDay)
<1>1. NoDay \notin flagged
  BY Chain DEF TablesInv, NoDay
<1> QED
  BY <1>1 DEF ExcusedBut

\* On to the next day the run knows, when the days up to this one are well.
LEMMA NextDayKeeps ==
  ASSUME RunsInv, InRun, NextDay, UNCHANGED <<chain, price, sync>>,
         \A h \in Blocks :
           DayOf[h] > tracker.day /\ DayOf[h] \notin DOMAIN tracker.rows => spent'[h] = Null,
         \A h \in Blocks : h <= processed /\ DayOf[h] <= tracker.day => Good(h)',
         \A d \in DOMAIN tracker.rows : d > tracker.day =>
           /\ price[d] # tracker.rows[d].price /\ ~tracker.rows[d].flag => d \in flagged' \cup lost'
           /\ tracker.rows[d].flag => d \in flagged'
  PROVE  RunsInv' /\ RestInv'
<1> DEFINE rest == {d \in DOMAIN tracker.rows : d > tracker.day}
<1>1. /\ tracker \in Tracker /\ tracker.day \in Nat /\ "read" \in Pcs
      /\ DOMAIN tracker.rows \subseteq Existing /\ DOMAIN tracker.rows \subseteq Nat
      /\ Existing' = Existing /\ processed' = processed
  BY RunParts DEF Pcs, RunsInv, Existing, chain
<1>2. tracker' = IF rest = {} THEN IdleTracker ELSE [tracker EXCEPT !.pc = "read", !.day = Min(rest)]
  BY DEF NextDay
<1>3. rest \subseteq Existing /\ \A d \in DOMAIN tracker.rows : d \in rest <=> d > tracker.day
  BY <1>1
<1>4. ASSUME NEW h \in Blocks, spent'[h] = Null PROVE Good(h)'
  BY <1>4, Chain DEF Good, ExcusedBut
<1> HIDE DEF rest
<1>5. CASE rest = {}
  <2>1. tracker' = IdleTracker
    BY <1>2, <1>5
  <2>2. /\ tracker' \in Tracker /\ tracker'.pc = "idle" /\ tracker'.day = NoDay
        /\ DOMAIN tracker'.rows = {}
    BY <2>1, NoRows
  <2>3. ~InRun' /\ tracker'.pc # "update" /\ tracker'.pc # "save" /\ tracker'.pc # "find"
    BY <2>2 DEF InRun
  <2>4. RunsInv'
    BY <1>1, <2>2, <2>3 DEF RunsInv
  <2>5. GoodInv'
    <3> SUFFICES ASSUME NEW h \in Blocks, h <= processed PROVE Good(h)'
      BY <1>1 DEF GoodInv
    <3>1. DayOf[h] \in Nat
      BY Chain
    <3>2. CASE DayOf[h] <= tracker.day
      BY <3>2
    <3>3. CASE DayOf[h] > tracker.day
      <4>1. DayOf[h] \notin DOMAIN tracker.rows
        BY <1>3, <1>5, <3>3
      <4> QED
        BY <1>4, <3>3, <4>1
    <3> QED
      BY <1>1, <3>1, <3>2, <3>3
  <2> QED
    BY <2>3, <2>4, <2>5 DEF RestInv, ReadInv, NewDaysInv, StaleInv, SaveInv
<1>6. CASE rest # {}
  <2>1. PICK e \in Days : e = Min(rest) /\ e \in rest /\ e \in Existing
    BY <1>3, <1>6, FirstOf
  <2>2. \A d \in rest : e <= d
    <3>1. rest \subseteq Nat
      BY <1>3, Chain
    <3> QED
      BY <1>6, <2>1, <3>1, MinIs
  <2>3. tracker' = [tracker EXCEPT !.pc = "read", !.day = e]
    BY <1>2, <1>6, <2>1
  <2>4. /\ tracker' \in Tracker /\ tracker'.pc = "read" /\ tracker'.day = e
        /\ tracker'.rows = tracker.rows
    BY ONLY <1>1, <2>1, <2>3 DEF Tracker
  <2>5. InRun' /\ tracker'.pc # "update" /\ tracker'.pc # "save" /\ tracker'.pc # "find"
    BY <2>4 DEF InRun
  <2>6. e \in DOMAIN tracker.rows /\ e > tracker.day /\ e \in Nat
    BY <1>1, <1>3, <2>1 DEF rest
  <2>7. RunsInv'
    BY <1>1, <2>1, <2>4, <2>5, <2>6 DEF RunsInv
  <2>8. GoodInv'
    <3> SUFFICES ASSUME NEW h \in Blocks, h <= processed, DayOf[h] < e PROVE Good(h)'
      BY <1>1, <2>4, <2>5 DEF GoodInv
    <3>1. DayOf[h] \in Nat
      BY Chain
    <3>2. CASE DayOf[h] <= tracker.day
      BY <3>2
    <3>3. CASE DayOf[h] > tracker.day
      <4>1. DayOf[h] \notin DOMAIN tracker.rows
        BY <1>3, <2>2, <2>6, <3>1, <3>3
      <4> QED
        BY <1>4, <3>3, <4>1
    <3> QED
      BY <1>1, <3>1, <3>2, <3>3
  <2>9. NewDaysInv'
    <3> SUFFICES ASSUME NEW h \in Blocks, DayOf[h] > e, DayOf[h] \notin DOMAIN tracker.rows
                 PROVE  spent'[h] = Null
      BY <2>4 DEF NewDaysInv
    <3>1. DayOf[h] > tracker.day
      BY <1>1, <2>6, Chain
    <3> QED
      BY <3>1
  <2>10. StaleInv'
    <3> SUFFICES ASSUME NEW d \in DOMAIN tracker.rows, d >= e
                 PROVE  /\ price[d] # tracker.rows[d].price /\ ~tracker.rows[d].flag => d \in flagged' \cup lost'
                        /\ tracker.rows[d].flag => d \in flagged'
      BY <2>4 DEF StaleInv
    <3>1. d > tracker.day
      BY <1>1, <2>6
    <3> QED
      BY <3>1
  <2> QED
    BY <2>5, <2>7, <2>8, <2>9, <2>10 DEF RestInv, ReadInv, SaveInv
<1> QED
  BY <1>5, <1>6

\* The day's totals: natural numbers, no more than at the highest price.
LEMMA SpentIs ==
  ASSUME TablesInv, RunsInv, ReadInv, tracker.pc = "update", NEW h \in Blocks,
         DayOf[h] = tracker.day, NEW p, p = Previous(tracker.day)
  PROVE  /\ p \in 0..MaxBlocks /\ p < h /\ Spent(h) \in Nat /\ Spent(h) <= h * MaxPrice
         /\ p # 0 /\ spent[p] # Null => Spent(h) = spent[p] + (h - p) * tracker.rows[tracker.day].price
         /\ p = 0 => Spent(h) = (h - p) * tracker.rows[tracker.day].price
         /\ p # 0 => p \in Blocks /\ DayOf[p] < tracker.day
<1>1. InRun /\ tracker.day \in Days /\ tracker.day \in DOMAIN tracker.rows
  BY RunParts DEF RunsInv, InRun
<1>2. PICK c \in Nat, P \in Nat : c = tracker.rows[tracker.day].price /\ P = MaxPrice /\ c <= P
  BY <1>1, RunParts, Chain
<1>3. PICK f \in Nat, n \in Nat : f = FirstBlock(tracker.day) /\ n = h /\ f <= n /\ 1 <= f /\ f <= MaxBlocks
  BY <1>1, Calendar, Chain
<1>4. p \in 0..MaxBlocks /\ p < n /\ p \in Nat /\ p = f - 1 /\ MaxBlocks \in Nat
  BY <1>3, Chain DEF Previous
<1>5. p # 0 => p \in Blocks
  BY <1>3, <1>4 DEF Blocks
<1>6. p # 0 => DayOf[p] < tracker.day
  <2>1. ASSUME p # 0, DayOf[p] >= tracker.day PROVE FALSE
    <3>1. f <= p
      BY <1>1, <1>3, <1>5, <2>1, Calendar
    <3> QED
      BY <1>3, <1>4, <3>1
  <2>2. p # 0 => DayOf[p] \in Nat /\ tracker.day \in Nat
    BY <1>1, <1>5, Chain
  <2> QED
    BY <2>1, <2>2
<1>7. PICK a \in 0..p, u \in Nat :
        /\ a = tracker.akt /\ u = tracker.usd /\ u <= a * P
        /\ p # 0 /\ spent[p] # Null => a = p /\ u = spent[p]
        /\ p = 0 => a = 0 /\ u = 0
  <2>1. /\ tracker.akt = p \/ (tracker.akt = 0 /\ p # 0 /\ spent[p] = Null)
        /\ tracker.usd = IF p = 0 \/ spent[p] = Null THEN 0 ELSE spent[p]
    BY DEF ReadInv
  <2>2. p # 0 /\ spent[p] # Null => spent[p] \in Nat /\ spent[p] <= p * P
    BY <1>2, <1>5 DEF TablesInv
  <2>3. CASE p # 0 /\ spent[p] # Null
    BY <1>4, <2>1, <2>2, <2>3
  <2>4. CASE ~(p # 0 /\ spent[p] # Null)
    <3>1. tracker.akt \in 0..p /\ tracker.usd = 0 /\ (p = 0 => tracker.akt = 0)
      BY <1>4, <2>1, <2>4
    <3>2. PICK a \in Nat : a = tracker.akt
      BY <1>4, <3>1
    <3>3. 0 <= a * P
      OBVIOUS
    <3> QED
      BY <2>4, <3>1, <3>2, <3>3
  <2> QED
    BY <2>3, <2>4
<1>8. Spent(h) = u + ((n - a) * c)
  BY <1>2, <1>3, <1>7 DEF Spent
<1>9. PICK k \in Nat : k = n - a
  BY <1>4, <1>7
<1>10. k * c \in Nat /\ k * c <= k * P /\ a * P \in Nat /\ k * P \in Nat /\ n * P = (a * P) + (k * P)
  BY <1>2, <1>3, <1>4, <1>7, <1>9
<1>11. Spent(h) \in Nat /\ Spent(h) <= n * P
  BY <1>7, <1>8, <1>9, <1>10
<1>12. p # 0 /\ spent[p] # Null => Spent(h) = spent[p] + ((n - p) * c)
  BY <1>7, <1>8
<1>13. p = 0 => Spent(h) = (n - p) * c
  <2>1. ASSUME p = 0 PROVE Spent(h) = (n - p) * c
    <3>1. a = p /\ u = 0
      BY <1>7, <2>1
    <3>2. PICK x \in Nat : x = (n - p) * c
      BY <1>9, <1>10, <3>1
    <3> QED
      BY <1>8, <3>1, <3>2
  <2> QED
    BY <2>1
<1> QED
  BY <1>2, <1>3, <1>4, <1>5, <1>6, <1>11, <1>12, <1>13

\* The blocks of the day get their totals.
LEMMA UpdateBlocksKeeps == UsdInv /\ UpdateBlocks => UsdInv'
<1> SUFFICES ASSUME UsdInv, UpdateBlocks PROVE UsdInv'
  OBVIOUS
<1>0. PICK D, c, p :
        D = tracker.day /\ c = tracker.rows[tracker.day].price /\ p = Previous(tracker.day)
  OBVIOUS
<1>1. /\ tracker.pc = "update" /\ InRun /\ TablesInv /\ RunsInv /\ ReadInv /\ NewDaysInv
      /\ StaleInv /\ GoodInv /\ PriceTypes
      /\ UNCHANGED <<chain, price, flagged, sync, lost, syncs, cuts>>
      /\ Existing' = Existing /\ UNCHANGED <<inserted, processed>>
  BY DEF UpdateBlocks, UsdInv, TablesInv, InRun, Existing, chain
<1>2. /\ D \in Days /\ D \in Nat /\ D \in DOMAIN tracker.rows /\ tracker \in Tracker /\ "save" \in Pcs
  BY <1>0, <1>1, RunParts DEF RunsInv, Pcs
<1>3. ASSUME NEW h \in Blocks
      PROVE  spent'[h] = IF h <= processed /\ DayOf[h] = D THEN Spent(h) ELSE spent[h]
  BY <1>0 DEF UpdateBlocks
<1>4. ASSUME NEW h \in Blocks, DayOf[h] = D
      PROVE  /\ p \in 0..MaxBlocks /\ p < h /\ Spent(h) \in Nat /\ Spent(h) <= h * MaxPrice
             /\ p # 0 /\ spent[p] # Null => Spent(h) = spent[p] + (h - p) * c
             /\ p = 0 => Spent(h) = (h - p) * c
             /\ p # 0 => p \in Blocks /\ DayOf[p] < D
  BY <1>0, <1>1, <1>4, SpentIs
<1>5. TablesInv'
  <2>1. ASSUME NEW h \in Blocks
        PROVE  /\ spent'[h] \in {Null} \cup Nat /\ (h > processed => spent'[h] = Null)
               /\ spent'[h] # Null => spent'[h] <= h * MaxPrice
    <3>1. spent[h] \in {Null} \cup Nat /\ (h > processed => spent[h] = Null)
          /\ (spent[h] # Null => spent[h] <= h * MaxPrice)
      BY <1>1 DEF TablesInv
    <3>2. h \in Nat /\ processed \in Nat
      BY <1>1, Chain DEF TablesInv
    <3>3. CASE h <= processed /\ DayOf[h] = D
      BY <1>3, <1>4, <3>2, <3>3
    <3>4. CASE ~(h <= processed /\ DayOf[h] = D)
      BY <1>3, <3>1, <3>4
    <3> QED
      BY <3>3, <3>4
  <2>2. spent' = [h \in Blocks |-> spent'[h]]
    BY DEF UpdateBlocks
  <2>3. spent' \in [Blocks -> {Null} \cup Nat]
    BY <2>1, <2>2
  <2> QED
    BY <1>1, <2>1, <2>3 DEF TablesInv, PriceTypes
<1>6. \A h : Expected(h)' = Expected(h)
  BY <1>1, ExpectedSame
<1>7. ASSUME NEW h \in Blocks, DayOf[h] < D, NEW i \in 1..h, spent[i] = Null
      PROVE  i \in Blocks /\ spent'[i] = Null
  <2>1. i \in Blocks /\ i <= h
    BY <1>7, Chain DEF Blocks
  <2>2. DayOf[i] <= DayOf[h] /\ DayOf[i] \in Nat /\ DayOf[h] \in Nat
    BY <2>1, Chain
  <2>3. DayOf[i] # D
    BY <1>2, <1>7, <2>2
  <2> QED
    BY <1>3, <1>7, <2>1, <2>3
<1>8. ASSUME NEW h \in Blocks, DayOf[h] < D, h <= processed
      PROVE  Good(h)'
  <2>1. Good(h)
    BY <1>0, <1>1, <1>8 DEF GoodInv
  <2>2. spent'[h] = spent[h]
    BY <1>2, <1>3, <1>8, Chain
  <2>3. CASE spent[h] = Expected(h)
    BY <1>6, <2>2, <2>3 DEF Good
  <2>4. CASE \E e \in lost \cup (flagged \ {NoDay}) : e <= DayOf[h]
    BY <1>1, <2>4 DEF Good, ExcusedBut
  <2>5. CASE \E i \in 1..h : spent[i] = Null
    BY <1>7, <1>8, <2>5 DEF Good, ExcusedBut
  <2> QED
    BY <2>1, <2>3, <2>4, <2>5 DEF Good, ExcusedBut
<1>9. ASSUME NEW h \in Blocks, DayOf[h] = D, h <= processed
      PROVE  spent'[h] = Expected(p) + (h - p) * c \/ ExcusedBut(h, D)'
  <2>1. spent'[h] = Spent(h) /\ h \in Nat /\ DayOf[h] \in Nat
    BY <1>3, <1>9, Chain
  <2>2. CASE p = 0
    <3>1. Expected(p) = 0
      <4>1. 0 \in 0..MaxBlocks
        BY Chain
      <4> QED
        BY <1>1, <2>2, <4>1, ExpectedTypes
    <3>2. Spent(h) = (h - p) * c /\ Spent(h) \in Nat
      BY <1>4, <1>9, <2>2
    <3> QED
      BY <2>1, <3>1, <3>2
  <2>3. CASE p # 0 /\ spent[p] = Null
    <3>1. p \in Blocks /\ DayOf[p] < D /\ p < h
      BY <1>4, <1>9, <2>3
    <3>2. p \in Nat /\ 1 <= p /\ p <= h /\ DayOf[p] \in Nat
      BY <2>1, <3>1, Chain
    <3>3. spent'[p] = spent[p]
      BY <1>2, <1>3, <3>1, <3>2
    <3>4. spent'[p] = Null /\ p \in 1..h
      BY <2>1, <2>3, <3>2, <3>3
    <3> QED
      BY <3>4 DEF ExcusedBut
  <2>4. CASE p # 0 /\ spent[p] # Null
    <3>1. p \in Blocks /\ DayOf[p] < D /\ p < h /\ p \in Nat /\ DayOf[p] \in Nat
      BY <1>4, <1>9, <2>4, Chain
    <3>2. p <= processed
      BY <1>1, <2>4, <3>1, Chain DEF TablesInv
    <3>3. Good(p)
      BY <1>0, <1>1, <3>1, <3>2 DEF GoodInv
    <3>4. CASE spent[p] = Expected(p)
      <4>1. Spent(h) = spent[p] + (h - p) * c
        BY <1>4, <1>9, <2>4
      <4> QED
        BY <2>1, <3>4, <4>1
    <3>5. CASE \E e \in lost \cup (flagged \ {NoDay}) : e <= DayOf[p]
      <4>1. PICK e \in lost \cup (flagged \ {NoDay}) : e <= DayOf[p]
        BY <3>5
      <4>2. e \in Nat
        BY <1>1, Chain DEF TablesInv
      <4>3. e # D /\ e <= DayOf[h]
        BY <1>2, <1>9, <3>1, <4>1, <4>2
      <4> QED
        BY <1>1, <4>3 DEF ExcusedBut
    <3>6. CASE \E i \in 1..p : spent[i] = Null
      <4>1. PICK i \in 1..p : spent[i] = Null
        BY <3>6
      <4>2. i \in 1..h /\ spent'[i] = Null
        BY <1>7, <2>1, <3>1, <4>1
      <4> QED
        BY <4>2 DEF ExcusedBut
    <3> QED
      BY <3>3, <3>4, <3>5, <3>6 DEF Good, ExcusedBut
  <2> QED
    BY <2>2, <2>3, <2>4
<1>10. ASSUME NEW h \in Blocks, DayOf[h] > D PROVE spent'[h] = spent[h]
  BY <1>2, <1>3, <1>10, Chain
<1>11. CASE tracker.rows[D].flag
  <2>1. tracker' = [tracker EXCEPT !.pc = "save"]
    BY <1>0, <1>11 DEF UpdateBlocks
  <2>2. /\ tracker' \in Tracker /\ tracker'.pc = "save" /\ tracker'.day = D
        /\ tracker'.rows = tracker.rows
    BY ONLY <1>0, <1>2, <2>1 DEF Tracker
  <2>3. InRun'
    BY <2>2 DEF InRun
  <2>4. RunsInv'
    BY <1>0, <1>1, <1>2, <2>2, <2>3 DEF RunsInv
  <2>5. NewDaysInv'
    BY <1>0, <1>1, <1>10, <2>2 DEF NewDaysInv
  <2>6. StaleInv'
    BY <1>0, <1>1, <2>2 DEF StaleInv
  <2>7. GoodInv'
    BY <1>1, <1>8, <2>2, <2>3 DEF GoodInv
  <2>8. SaveInv'
    <3> SUFFICES ASSUME NEW h \in Blocks, h <= processed, DayOf[h] = D PROVE SavedWell(h)'
      BY <1>1, <2>2 DEF SaveInv
    <3>1. tracker'.rows[tracker'.day].price = c /\ Previous(tracker'.day) = p
      BY <1>0, <2>2
    <3>2. spent'[h] = Expected(p) + (h - p) * c \/ ExcusedBut(h, D)'
      BY <1>9
    <3>3. Expected(p)' = Expected(p)
      BY <1>6
    <3> QED
      BY <2>2, <3>1, <3>2, <3>3 DEF SavedWell, Previous, ExcusedBut
  <2> QED
    BY <1>5, <2>2, <2>4, <2>5, <2>6, <2>7, <2>8 DEF UsdInv, ReadInv
<1>12. CASE ~tracker.rows[D].flag
  <2>1. NextDay
    BY <1>0, <1>12 DEF UpdateBlocks
  <2>2. ASSUME NEW h \in Blocks, h <= processed, DayOf[h] <= D PROVE Good(h)'
    <3>1. CASE DayOf[h] < D
      BY <1>8, <2>2, <3>1
    <3>2. CASE DayOf[h] = D
      <4>1. CASE ExcusedBut(h, D)'
        <5>1. NoDay \notin flagged'
          BY <1>1, Chain DEF TablesInv, NoDay
        <5> QED
          BY <4>1, <5>1 DEF Good, ExcusedBut
      <4>2. CASE price[D] # c
        <5>1. D \in flagged \cup lost
          BY <1>0, <1>1, <1>2, <1>12, <4>2 DEF StaleInv
        <5>2. D # NoDay /\ D <= DayOf[h]
          BY <1>2, <3>2 DEF NoDay
        <5> QED
          BY <1>1, <5>1, <5>2 DEF Good, ExcusedBut
      <4>3. CASE price[D] = c /\ spent'[h] = Expected(p) + (h - p) * c
        <5>1. p = FirstBlock(DayOf[h]) - 1
          BY <1>0, <3>2 DEF Previous
        <5>2. Expected(h) = Expected(p) + (h - p) * price[DayOf[h]]
          BY <1>1, <5>1, ExpectedOnDay
        <5> QED
          BY <1>6, <3>2, <4>3, <5>2 DEF Good
      <4> QED
        BY <1>9, <2>2, <3>2, <4>1, <4>2, <4>3
    <3>3. DayOf[h] \in Nat
      BY Chain
    <3> QED
      BY <1>2, <2>2, <3>1, <3>2, <3>3
  <2>3. \A h \in Blocks :
          DayOf[h] > tracker.day /\ DayOf[h] \notin DOMAIN tracker.rows => spent'[h] = Null
    BY <1>0, <1>1, <1>10 DEF NewDaysInv
  <2>4. \A d \in DOMAIN tracker.rows : d > tracker.day =>
          /\ price[d] # tracker.rows[d].price /\ ~tracker.rows[d].flag => d \in flagged' \cup lost'
          /\ tracker.rows[d].flag => d \in flagged'
    <3> SUFFICES ASSUME NEW d \in DOMAIN tracker.rows, d > tracker.day
                 PROVE  /\ price[d] # tracker.rows[d].price /\ ~tracker.rows[d].flag => d \in flagged \cup lost
                        /\ tracker.rows[d].flag => d \in flagged
      BY <1>1
    <3>1. d >= tracker.day
      BY <1>0, <1>1, <1>2, RunParts
    <3> QED
      BY <1>1, <3>1 DEF StaleInv
  <2>5. \A h \in Blocks : h <= processed /\ DayOf[h] <= tracker.day => Good(h)'
    BY <1>0, <2>2
  <2>6. UNCHANGED <<chain, price, sync>>
    BY <1>1
  <2>7. RunsInv' /\ RestInv'
    BY <1>1, <2>1, <2>3, <2>4, <2>5, <2>6, NextDayKeeps
  <2> QED
    BY <1>5, <2>7 DEF UsdInv, RestInv
<1> QED
  BY <1>11, <1>12

\* Blocks before a day, in the sense of the calendar.
LEMMA DaysBefore ==
  ASSUME NEW d \in Days, NEW i \in Blocks, i < FirstBlock(d)
  PROVE  DayOf[i] < d
<1>1. PICK f \in Nat : f = FirstBlock(d)
  BY Calendar, Chain
<1>2. i \in Nat /\ ~(f <= i)
  BY <1>1, Chain
<1>3. ~(DayOf[i] >= d) /\ DayOf[i] \in Nat /\ d \in Nat
  BY <1>1, <1>2, Calendar, Chain
<1> QED
  BY <1>3

\* Totals of the day at the price in the table are what is expected.
LEMMA SavedIsExpected ==
  ASSUME PriceTypes, NEW h \in Blocks, DayOf[h] = tracker.day,
         tracker.rows[tracker.day].price = price[tracker.day], SavedWell(h)
  PROVE  spent[h] = Expected(h) \/ ExcusedBut(h, tracker.day)
<1>1. PICK p : p = FirstBlock(DayOf[h]) - 1
  OBVIOUS
<1>2. Expected(h) = Expected(p) + (h - p) * price[DayOf[h]]
  BY <1>1, ExpectedOnDay
<1>3. p = Previous(tracker.day)
  BY <1>1 DEF Previous
<1>4. \/ spent[h] = Expected(p) + (h - p) * tracker.rows[tracker.day].price
      \/ ExcusedBut(h, tracker.day)
  BY <1>3 DEF SavedWell
<1> QED
  BY <1>2, <1>4

\* The day's flag is cleared.
LEMMA SaveDayKeeps == UsdInv /\ SaveDay => UsdInv'
<1> SUFFICES ASSUME UsdInv, SaveDay PROVE UsdInv'
  OBVIOUS
<1>0. PICK D, c : D = tracker.day /\ c = tracker.rows[tracker.day].price
  OBVIOUS
<1>1. /\ tracker.pc = "save" /\ InRun /\ TablesInv /\ RunsInv /\ NewDaysInv
      /\ StaleInv /\ GoodInv /\ SaveInv /\ PriceTypes
      /\ flagged' = flagged \ {D} /\ lost' = IF price[D] = c THEN lost ELSE lost \cup {D}
      /\ NextDay /\ UNCHANGED <<chain, spent, price, sync, syncs, cuts>>
      /\ Existing' = Existing /\ UNCHANGED <<inserted, processed>>
  BY <1>0 DEF SaveDay, UsdInv, TablesInv, InRun, Existing, chain
<1>2. D \in Days /\ D \in Nat /\ D \in DOMAIN tracker.rows /\ D # NoDay
  BY <1>0, <1>1, RunParts DEF RunsInv, NoDay
<1>3. TablesInv'
  BY <1>1, <1>2 DEF TablesInv, PriceTypes
<1>4. NoDay \notin flagged'
  BY <1>1, Chain DEF TablesInv, NoDay
<1>5. \A h : Expected(h)' = Expected(h)
  BY <1>1, ExpectedSame
<1>6. ASSUME NEW h \in Blocks, ExcusedBut(h, D)
      PROVE  Good(h)'
  BY <1>1, <1>4, <1>6 DEF ExcusedBut, Good
<1>7. ASSUME NEW h \in Blocks, h <= processed, DayOf[h] <= D PROVE Good(h)'
  <2>0. DayOf[h] \in Nat
    BY Chain
  <2>1. CASE DayOf[h] < D
    <3>1. Good(h)
      BY <1>0, <1>1, <1>7, <2>1 DEF GoodInv
    <3>2. CASE spent[h] = Expected(h)
      BY <1>1, <1>5, <3>2 DEF Good
    <3>3. CASE \E e \in lost \cup (flagged \ {NoDay}) : e <= DayOf[h]
      <4>1. PICK e \in lost \cup (flagged \ {NoDay}) : e <= DayOf[h]
        BY <3>3
      <4>2. e \in Nat
        BY <1>1, Chain DEF TablesInv
      <4>3. e # D
        BY <1>2, <2>0, <2>1, <4>1, <4>2
      <4>4. ExcusedBut(h, D)
        BY <4>1, <4>3 DEF ExcusedBut
      <4> QED
        BY <1>6, <4>4
    <3>4. CASE \E i \in 1..h : spent[i] = Null
      BY <1>6, <3>4 DEF ExcusedBut
    <3> QED
      BY <3>1, <3>2, <3>3, <3>4 DEF Good, ExcusedBut
  <2>2. CASE DayOf[h] = D
    <3>1. SavedWell(h)
      BY <1>0, <1>1, <1>7, <2>2 DEF SaveInv
    <3>2. CASE price[D] = c
      <4>1. spent[h] = Expected(h) \/ ExcusedBut(h, D)
        BY <1>0, <1>1, <2>2, <3>1, <3>2, SavedIsExpected
      <4> QED
        BY <1>1, <1>5, <1>6, <4>1 DEF Good
    <3>3. CASE price[D] # c
      <4>1. D \in lost' /\ D <= DayOf[h]
        BY <1>1, <1>2, <2>2, <3>3
      <4> QED
        BY <4>1 DEF Good, ExcusedBut
    <3> QED
      BY <3>2, <3>3
  <2> QED
    BY <1>2, <1>7, <2>0, <2>1, <2>2
<1>8. \A h \in Blocks :
        DayOf[h] > tracker.day /\ DayOf[h] \notin DOMAIN tracker.rows => spent'[h] = Null
  BY <1>1 DEF NewDaysInv
<1>9. \A d \in DOMAIN tracker.rows : d > tracker.day =>
        /\ price[d] # tracker.rows[d].price /\ ~tracker.rows[d].flag => d \in flagged' \cup lost'
        /\ tracker.rows[d].flag => d \in flagged'
  <2> SUFFICES ASSUME NEW d \in DOMAIN tracker.rows, d > D
               PROVE  /\ price[d] # tracker.rows[d].price /\ ~tracker.rows[d].flag => d \in flagged' \cup lost'
                      /\ tracker.rows[d].flag => d \in flagged'
    BY <1>0
  <2>1. d >= D /\ d # D
    BY <1>1, <1>2, RunParts
  <2> QED
    BY <1>0, <1>1, <2>1 DEF StaleInv
<1>10. \A h \in Blocks : h <= processed /\ DayOf[h] <= tracker.day => Good(h)'
  BY <1>0, <1>7
<1>11. UNCHANGED <<chain, price, sync>>
  BY <1>1
<1>12. RunsInv' /\ RestInv'
  BY <1>1, <1>8, <1>9, <1>10, <1>11, NextDayKeeps
<1> QED
  BY <1>3, <1>12 DEF UsdInv, RestInv

\* A run of the tracker is cut short.
LEMMA TrackerFailsKeeps == UsdInv /\ TrackerFails => UsdInv'
<1> SUFFICES ASSUME UsdInv, TrackerFails PROVE UsdInv'
  OBVIOUS
<1> DEFINE L == {d \in DOMAIN tracker.rows : d > tracker.day \/ (d = tracker.day /\ tracker.pc # "save")}
<1>1. /\ TablesInv /\ RunsInv /\ NewDaysInv /\ StaleInv /\ GoodInv /\ SaveInv /\ PriceTypes
      /\ tracker' = IdleTracker /\ cuts' = cuts - 1 /\ cuts > 0 /\ lost' = lost \cup L
      /\ UNCHANGED <<chain, spent, price, flagged, sync, syncs>>
      /\ Existing' = Existing /\ UNCHANGED <<inserted, processed>>
  BY DEF TrackerFails, UsdInv, TablesInv, Existing, chain
<1>2. L \subseteq Days
  BY <1>1, RunParts
<1>3. TablesInv'
  <2>1. cuts' \in 0..MaxCuts
    BY <1>1, ChainAssumption DEF TablesInv
  <2> QED
    BY <1>1, <1>2, <2>1 DEF TablesInv, PriceTypes
<1>4. tracker' \in Tracker /\ tracker'.pc = "idle" /\ tracker'.day = NoDay /\ DOMAIN tracker'.rows = {}
  BY <1>1, NoRows
<1>5. ~InRun' /\ tracker'.pc # "update" /\ tracker'.pc # "save" /\ tracker'.pc # "find"
  BY <1>4 DEF InRun
<1>6. RunsInv'
  BY <1>1, <1>4, <1>5 DEF RunsInv
<1>7. \A h : Expected(h)' = Expected(h)
  BY <1>1, ExpectedSame
<1>8. ASSUME NEW h \in Blocks, Good(h) PROVE Good(h)'
  BY <1>1, <1>7, <1>8, ExcusesGrow DEF Good
<1>9. ASSUME NEW h \in Blocks, NEW e \in lost' \cup flagged', e <= DayOf[h] PROVE Good(h)'
  <2>1. e # NoDay
    BY <1>3, Chain DEF TablesInv, NoDay, Existing
  <2> QED
    BY <1>9, <2>1 DEF Good, ExcusedBut
<1>10. ASSUME NEW h \in Blocks, h <= processed PROVE Good(h)'
  <2>1. CASE ~InRun
    BY <1>1, <1>8, <1>10, <2>1 DEF GoodInv
  <2>2. CASE InRun
    <3>0. PICK D, c : D = tracker.day /\ c = tracker.rows[tracker.day].price
      OBVIOUS
    <3>1. D \in Nat /\ DayOf[h] \in Nat /\ D \in DOMAIN tracker.rows
      BY <1>1, <2>2, <3>0, RunParts, Chain DEF RunsInv
    <3>2. CASE DayOf[h] < D
      BY <1>1, <1>8, <1>10, <3>0, <3>2 DEF GoodInv
    <3>3. CASE DayOf[h] > D
      <4>1. CASE DayOf[h] \in DOMAIN tracker.rows
        <5>1. DayOf[h] \in lost' /\ DayOf[h] <= DayOf[h]
          BY <1>1, <3>0, <3>1, <3>3, <4>1
        <5> QED
          BY <1>9, <5>1
      <4>2. CASE DayOf[h] \notin DOMAIN tracker.rows
        <5>1. spent[h] = Null
          BY <1>1, <2>2, <3>0, <3>3, <4>2 DEF NewDaysInv
        <5> QED
          BY <1>8, <5>1, NullIsExcused DEF Good
      <4> QED
        BY <4>1, <4>2
    <3>4. CASE DayOf[h] = D
      <4>0. D <= DayOf[h]
        BY <3>1, <3>4
      <4>1. CASE tracker.pc # "save"
        <5>1. D \in lost'
          BY <1>1, <3>0, <3>1, <4>1
        <5> QED
          BY <1>9, <4>0, <5>1
      <4>2. CASE D \in flagged \cup lost
        <5>1. D \in lost' \cup flagged'
          BY <1>1, <4>2
        <5> QED
          BY <1>9, <4>0, <5>1
      <4>3. CASE tracker.pc = "save" /\ D \notin flagged \cup lost
        <5>1. price[D] = c
          BY <1>1, <2>2, <3>0, <3>1, <4>3, RunParts DEF StaleInv
        <5>2. SavedWell(h)
          BY <1>1, <1>10, <3>0, <3>4, <4>3 DEF SaveInv
        <5>3. spent[h] = Expected(h) \/ ExcusedBut(h, D)
          BY <1>1, <3>0, <3>4, <5>1, <5>2, SavedIsExpected
        <5> QED
          BY <1>1, <1>8, <5>3, ExcusedForAny DEF Good
      <4> QED
        BY <4>1, <4>2, <4>3
    <3> QED
      BY <3>1, <3>2, <3>3, <3>4
  <2> QED
    BY <2>1, <2>2
<1>11. GoodInv'
  BY <1>1, <1>10 DEF GoodInv
<1> QED
  BY <1>3, <1>5, <1>6, <1>11 DEF UsdInv, ReadInv, NewDaysInv, StaleInv, SaveInv

\* Prices arrive and the rows are read.
LEMMA StartSyncKeeps == UsdInv /\ StartSync => UsdInv'
<1> SUFFICES ASSUME UsdInv, StartSync PROVE UsdInv'
  OBVIOUS
<1>1. /\ TablesInv /\ RunsInv /\ RestInv /\ PriceTypes /\ syncs > 0 /\ syncs' = syncs - 1
      /\ UNCHANGED <<chain, spent, price, flagged, tracker, lost, cuts>>
      /\ Existing' = Existing /\ UNCHANGED <<inserted, processed>>
  BY DEF StartSync, UsdInv, RestInv, TablesInv, Existing, chain
<1>2. PICK api \in [Existing -> Prices \cup {NoPrice}] : sync' = [rows |-> Rows(Existing), api |-> api]
  BY DEF StartSync
<1>3. Existing \in SUBSET Days
  BY Chain
<1>4. Rows(Existing) \in RowSets /\ DOMAIN Rows(Existing) = Existing
  BY <1>1, <1>3, RowsAre
<1>5. api \in Apis /\ DOMAIN api = Existing
  BY <1>2, <1>3 DEF Apis
<1>6. sync' \in Sync /\ sync'.rows = Rows(Existing) /\ sync'.api = api
  BY ONLY <1>2, <1>4, <1>5 DEF Sync
<1>7. syncs' \in 0..MaxSyncs
  BY <1>1, ChainAssumption DEF TablesInv
<1>8. TablesInv'
  BY <1>1, <1>7 DEF TablesInv, PriceTypes
<1>9. RunsInv'
  BY <1>1, <1>4, <1>5, <1>6 DEF RunsInv, InRun
<1>10. RestInv'
  BY <1>1, RunKept
<1> QED
  BY <1>8, <1>9, <1>10 DEF UsdInv, RestInv

\* The rows that are left, after one is saved.
LEMMA RowsLeft ==
  ASSUME RunsInv, NEW d \in DOMAIN sync.rows, NEW rest, rest = DOMAIN sync.rows \ {d},
         sync' = IF rest = {} THEN IdleSync ELSE [sync EXCEPT !.rows = Restrict(@, rest)]
  PROVE  /\ sync' \in Sync /\ DOMAIN sync'.rows \subseteq DOMAIN sync'.api
         /\ DOMAIN sync'.api \subseteq DOMAIN sync.api
<1>1. CASE rest = {}
  <2>1. sync' = IdleSync
    BY <1>1
  <2> QED
    BY <2>1, NoRows
<1>2. CASE rest # {}
  <2>1. sync \in Sync /\ sync.rows \in RowSets /\ DOMAIN sync.rows \subseteq DOMAIN sync.api
    BY RunParts DEF RunsInv
  <2>2. PICK r : r = Restrict(sync.rows, rest)
    OBVIOUS
  <2>3. r \in RowSets /\ DOMAIN r = rest
    BY <2>1, <2>2, RowSetsIs
  <2>4. sync' = [sync EXCEPT !.rows = r]
    BY <1>2, <2>2
  <2>5. sync' \in Sync /\ sync'.rows = r /\ sync'.api = sync.api
    BY ONLY <2>1, <2>3, <2>4 DEF Sync
  <2> QED
    BY <2>1, <2>3, <2>5
<1> QED
  BY <1>1, <1>2

\* A row is saved, with its price when it has changed.
LEMMA SavePriceKeeps == UsdInv /\ SavePrice => UsdInv'
<1> SUFFICES ASSUME UsdInv, SavePrice PROVE UsdInv'
  OBVIOUS
<1>0. PICK d \in DOMAIN sync.rows :
        LET left == DOMAIN sync.rows \ {d} IN
        /\ price' = [price EXCEPT ![d] = IF Changes(d) THEN sync.api[d] ELSE @]
        /\ flagged' = IF Changes(d) THEN flagged \cup Flags(d) ELSE flagged
        /\ lost' = IF Changes(d) /\ d \notin flagged' THEN lost \cup {d} ELSE lost
        /\ sync' = IF left = {} THEN IdleSync ELSE [sync EXCEPT !.rows = Restrict(@, left)]
        /\ UNCHANGED <<chain, spent, tracker, syncs, cuts>>
  BY DEF SavePrice
<1>1. PICK rest :
        /\ rest = DOMAIN sync.rows \ {d}
        /\ price' = [price EXCEPT ![d] = IF Changes(d) THEN sync.api[d] ELSE @]
        /\ flagged' = IF Changes(d) THEN flagged \cup Flags(d) ELSE flagged
        /\ lost' = IF Changes(d) /\ d \notin flagged' THEN lost \cup {d} ELSE lost
        /\ sync' = IF rest = {} THEN IdleSync ELSE [sync EXCEPT !.rows = Restrict(@, rest)]
        /\ UNCHANGED <<chain, spent, tracker, syncs, cuts>>
  BY <1>0
<1>2. /\ TablesInv /\ RunsInv /\ RestInv /\ PriceTypes
      /\ Existing' = Existing /\ UNCHANGED <<inserted, processed>>
  BY <1>1 DEF UsdInv, RestInv, TablesInv, Existing, chain
<1>3. /\ d \in Existing /\ d \in Days /\ d \in Nat /\ sync.api[d] \in Prices \cup {NoPrice}
      /\ tracker.day \in Days \cup {NoDay}
  BY <1>2, RunParts, Chain DEF RunsInv
<1>4. /\ sync' \in Sync /\ DOMAIN sync'.rows \subseteq DOMAIN sync'.api
      /\ DOMAIN sync'.api \subseteq DOMAIN sync.api
  BY <1>1, <1>2, RowsLeft
<1>5. RunsInv'
  BY <1>1, <1>2, <1>4 DEF RunsInv, InRun
<1>6. CASE ~Changes(d)
  <2>1. price' = price /\ flagged' = flagged /\ lost' = lost
    BY <1>1, <1>2, <1>6 DEF PriceTypes
  <2>2. TablesInv'
    BY <1>1, <1>2, <2>1 DEF TablesInv, PriceTypes
  <2>3. RestInv'
    BY <1>1, <1>2, <2>1, RunKept
  <2> QED
    BY <1>5, <2>2, <2>3 DEF UsdInv, RestInv
<1>7. CASE Changes(d)
  <2>1. /\ price' = [price EXCEPT ![d] = sync.api[d]] /\ flagged' = flagged \cup Flags(d)
        /\ lost' = IF d \notin flagged' THEN lost \cup {d} ELSE lost
    BY <1>1, <1>7
  <2>2. /\ flagged \subseteq flagged' /\ lost \subseteq lost' /\ flagged' \subseteq flagged \cup {d}
        /\ d \in flagged' \cup lost' /\ lost' \subseteq lost \cup {d}
    BY <2>1 DEF Flags
  <2>3. price' \in [Days -> Prices \cup {NoPrice}] /\ \A e \in Days : e # d => price'[e] = price[e]
    BY <1>2, <1>3, <2>1 DEF PriceTypes
  <2>4. TablesInv'
    BY <1>1, <1>2, <1>3, <2>2, <2>3 DEF TablesInv, PriceTypes
  <2>5. ReadInv' /\ NewDaysInv'
    BY <1>1, <1>2 DEF RestInv, ReadInv, NewDaysInv, InRun, Previous
  <2>6. StaleInv'
    <3> SUFFICES ASSUME InRun, NEW e \in DOMAIN tracker.rows, e >= tracker.day
                 PROVE  /\ price'[e] # tracker.rows[e].price /\ ~tracker.rows[e].flag => e \in flagged' \cup lost'
                        /\ tracker.rows[e].flag => e \in flagged'
      BY <1>1 DEF StaleInv, InRun
    <3>1. /\ price[e] # tracker.rows[e].price /\ ~tracker.rows[e].flag => e \in flagged \cup lost
          /\ tracker.rows[e].flag => e \in flagged
      BY <1>2 DEF RestInv, StaleInv
    <3>2. e \in Days
      BY <1>2, RunParts
    <3>3. e = d \/ price'[e] = price[e]
      BY <2>3, <3>2
    <3> QED
      BY <2>2, <3>1, <3>3
  <2>7. \A h, e : ExcusedBut(h, e) => ExcusedBut(h, e)'
    BY <1>1, <2>2, ExcusesGrow
  <2>8. ASSUME NEW h \in 0..MaxBlocks, \A i \in Blocks : i <= h => DayOf[i] < d
        PROVE  Expected(h)' = Expected(h)
    BY <1>3, <2>3, <2>8, ExpectedKept
  <2>9. ASSUME NEW h \in Blocks, Good(h) PROVE Good(h)'
    <3>1. CASE ExcusedBut(h, NoDay)
      BY <2>7, <3>1 DEF Good
    <3>2. CASE DayOf[h] >= d
      <4>1. d \in lost' \cup (flagged' \ {NoDay}) /\ d <= DayOf[h]
        BY <1>3, <2>2, <3>2, Chain DEF NoDay
      <4> QED
        BY <4>1 DEF Good, ExcusedBut
    <3>3. CASE spent[h] = Expected(h) /\ ~(DayOf[h] >= d)
      <4>1. h \in 0..MaxBlocks /\ DayOf[h] \in Nat /\ DayOf[h] < d
        BY <1>3, <3>3, Chain
      <4>2. ASSUME NEW i \in Blocks, i <= h PROVE DayOf[i] < d
        <5>1. DayOf[i] <= DayOf[h] /\ DayOf[i] \in Nat
          BY <4>2, Chain
        <5> QED
          BY <1>3, <4>1, <5>1
      <4>3. Expected(h)' = Expected(h)
        BY <2>8, <4>1, <4>2
      <4> QED
        BY <1>1, <3>3, <4>3 DEF Good
    <3> QED
      BY <2>9, <3>1, <3>2, <3>3 DEF Good
  <2>10. GoodInv'
    <3> SUFFICES ASSUME NEW h \in Blocks, h <= processed, InRun => DayOf[h] < tracker.day PROVE Good(h)'
      BY <1>1, <1>2 DEF GoodInv, InRun
    <3> QED
      BY <1>2, <2>9 DEF RestInv, GoodInv
  <2>11. SaveInv'
    <3> SUFFICES ASSUME tracker.pc = "save", NEW h \in Blocks, h <= processed, DayOf[h] = tracker.day
                 PROVE  SavedWell(h)'
      BY <1>1, <1>2 DEF SaveInv
    <3>0. PICK D, c, p : D = tracker.day /\ c = tracker.rows[tracker.day].price /\ p = Previous(tracker.day)
      OBVIOUS
    <3>1. spent[h] = Expected(p) + (h - p) * c \/ ExcusedBut(h, D)
      BY <1>2, <3>0 DEF RestInv, SaveInv, SavedWell
    <3>2. D \in Days /\ D \in Nat /\ DayOf[h] = D
      BY <3>0, Chain
    <3>3. tracker'.rows[tracker'.day].price = c /\ Previous(tracker'.day) = p /\ tracker'.day = D
      BY <1>1, <3>0
    <3>4. spent'[h] = Expected(p)' + (h - p) * c \/ ExcusedBut(h, D)'
      <4>1. CASE ExcusedBut(h, D)
        BY <2>7, <4>1
      <4>2. CASE d < D
        <5>1. d \in lost' \cup (flagged' \ {D}) /\ d <= DayOf[h]
          BY <1>3, <2>2, <3>2, <4>2
        <5> QED
          BY <5>1 DEF ExcusedBut
      <4>3. CASE spent[h] = Expected(p) + (h - p) * c /\ D <= d
        <5>1. p \in 0..MaxBlocks /\ p = FirstBlock(D) - 1 /\ FirstBlock(D) \in Blocks
          BY <3>0, <3>2, Calendar DEF Previous
        <5>2. ASSUME NEW i \in Blocks, i <= p PROVE DayOf[i] < d
          <6>1. PICK f \in Nat : f = FirstBlock(D)
            BY <5>1, Chain
          <6>2. i < f
            BY <5>1, <5>2, <6>1, Chain
          <6>3. DayOf[i] < D /\ DayOf[i] \in Nat
            BY <3>2, <6>1, <6>2, DaysBefore, Chain
          <6> QED
            BY <1>3, <3>2, <4>3, <6>3
        <5>3. Expected(p)' = Expected(p)
          BY <2>8, <5>1, <5>2
        <5> QED
          BY <1>1, <4>3, <5>3
      <4> QED
        BY <1>3, <3>1, <3>2, <4>1, <4>2, <4>3
    <3> QED
      BY <3>3, <3>4 DEF SavedWell, Previous, ExcusedBut
  <2> QED
    BY <1>5, <2>4, <2>5, <2>6, <2>10, <2>11 DEF UsdInv
<1> QED
  BY <1>6, <1>7

------------------------------------------------------------------------------
\* The invariant holds at the beginning.
LEMMA UsdInitInv == UsdInit => UsdInv
<1> SUFFICES ASSUME UsdInit PROVE UsdInv
  OBVIOUS
<1>1. /\ inserted = 0 /\ processed = 0 /\ spent = [h \in Blocks |-> Null]
      /\ price = [d \in Days |-> NoPrice] /\ flagged = {} /\ tracker = IdleTracker /\ sync = IdleSync
      /\ lost = {} /\ syncs = MaxSyncs /\ cuts = MaxCuts
  BY DEF UsdInit
<1>2. MaxBlocks \in Nat /\ MaxSyncs \in Nat /\ MaxCuts \in Nat
  BY ChainAssumption
<1>3. TablesInv
  BY <1>1, <1>2, Chain DEF TablesInv, PriceTypes
<1>4. ~InRun /\ tracker.pc = "idle" /\ RunsInv
  BY <1>1, NoRows DEF InRun, RunsInv
<1>5. GoodInv
  <2> SUFFICES ASSUME NEW h \in Blocks PROVE ~(h <= processed)
    BY DEF GoodInv
  <2> QED
    BY <1>1, Chain
<1> QED
  BY <1>3, <1>4, <1>5 DEF UsdInv, ReadInv, NewDaysInv, StaleInv, SaveInv

\* Every step keeps the invariant.
LEMMA UsdStepInv == UsdInv /\ [UsdNext]_usdVars => UsdInv'
<1> SUFFICES ASSUME UsdInv, [UsdNext]_usdVars PROVE UsdInv'
  OBVIOUS
<1>1. CASE UNCHANGED usdVars
  <2>1. UNCHANGED <<inserted, processed, chain, spent, price, flagged, tracker, sync, lost, syncs, cuts>>
    BY <1>1 DEF usdVars, chain
  <2>2. TablesInv' /\ Existing' = Existing
    BY <2>1, TablesKept DEF UsdInv
  <2>3. RunsInv'
    BY <2>1, <2>2 DEF UsdInv, RunsInv, InRun
  <2>4. RestInv'
    BY <2>1, RunKept DEF UsdInv, RestInv
  <2> QED
    BY <2>2, <2>3, <2>4 DEF UsdInv, RestInv
<1> QED
  BY <1>1, InsertBlockKeeps, ProcessBlockKeeps, StartTrackerKeeps, FindBlockKeeps, FindDaysKeeps,
     ReadPreviousDayKeeps, UpdateBlocksKeeps, SaveDayKeeps, TrackerFailsKeeps, StartSyncKeeps,
     SavePriceKeeps DEF UsdNext

\* The invariant holds in every behaviour.
LEMMA UsdSpecInv == UsdSpec => []UsdInv
BY UsdInitInv, UsdStepInv, PTL DEF UsdSpec

\* The invariant gives the types: no total is higher than all blocks at the highest price.
LEMMA UsdInvTypes == UsdInv => UsdTypeOK
<1> SUFFICES ASSUME UsdInv PROVE UsdTypeOK
  OBVIOUS
<1>1. TablesInv /\ RunsInv
  BY DEF UsdInv
<1>2. PICK P \in Nat : P = MaxPrice
  BY Chain
<1>3. ASSUME NEW h \in Blocks PROVE spent[h] \in {Null} \cup 0..(MaxBlocks * P)
  <2>1. PICK n \in Nat, m \in Nat : n = h /\ m = MaxBlocks /\ n <= m
    BY Chain
  <2>2. n * P <= m * P /\ n * P \in Nat /\ m * P \in Nat
    BY <1>2, <2>1
  <2>3. spent[h] \in {Null} \cup Nat /\ (spent[h] # Null => spent[h] <= n * P)
    BY <1>1, <1>2, <2>1 DEF TablesInv
  <2> QED
    BY <2>1, <2>2, <2>3
<1>4. spent \in [Blocks -> {Null} \cup 0..(MaxBlocks * P)]
  BY <1>1, <1>3 DEF TablesInv
<1>5. processed \in 0..inserted
  BY <1>1, Chain DEF TablesInv
<1>6. tracker.pc \in Pcs /\ tracker.day \in Days \cup {NoDay}
  BY <1>1, RunParts
<1> QED
  BY <1>1, <1>2, <1>4, <1>5, <1>6 DEF UsdTypeOK, TablesInv, RunsInv, PriceTypes, Pcs, InRun, MaxPrice

\* When nothing is left to do, the invariant's excuses are what was lost.
LEMMA UsdInvTotals == UsdInv => TotalsFollowPrices
<1> SUFFICES ASSUME UsdInv, Settled, NEW h \in 1..processed
             PROVE  spent[h] = Expected(h) \/ \E d \in lost : d <= DayOf[h]
  BY DEF TotalsFollowPrices
<1>1. TablesInv /\ GoodInv /\ flagged = {} /\ ~InRun /\ \A i \in 1..processed : spent[i] # Null
  BY DEF UsdInv, Settled, InRun
<1>2. h \in Blocks /\ h <= processed /\ processed \in Nat
  BY <1>1, Chain DEF TablesInv, Blocks
<1>3. Good(h)
  BY <1>1, <1>2 DEF GoodInv
<1>4. ~(\E i \in 1..h : spent[i] = Null)
  BY <1>1, <1>2
<1> QED
  BY <1>1, <1>3, <1>4 DEF Good, ExcusedBut

\* The tables and the runs have their types, the totals within all blocks at the highest price.
THEOREM UsdSpendingTypes == UsdSpec => []UsdTypeOK
BY UsdSpecInv, UsdInvTypes, PTL

\* When neither task has anything left to do, the totals of every block follow from
\* the prices of the days up to it, but after a day whose change was lost.
THEOREM UsdTotalsFollowPrices == UsdSpec => []TotalsFollowPrices
BY UsdSpecInv, UsdInvTotals, PTL
================================================================================
