---------------------------- MODULE ProviderStatus ----------------------------
(***************************************************************************)
(* The task "Sync Providers Info" (providers/providerStatusProvider.ts)    *)
(* for one provider: every check adds a snapshot, moves the marks of the   *)
(* day's last snapshots, and plans the next check on the provider's row.   *)
(*                                                                         *)
(* A check works on the row as it was read when the run began.  When the   *)
(* status of another provider cannot be saved, the run fails while checks  *)
(* of up to nine providers are still waiting for answers; these orphans    *)
(* save later, after a new run may have read the same row.                 *)
(***************************************************************************)
EXTENDS Integers, Sequences, FiniteSets, SequencesExt

CONSTANTS
  DayLength,            \* units of time in a day
  UptimeCheckInterval,  \* wait after a successful check
  Backoff,              \* waits after failures: [below |-> downtime, wait |-> time], in order
  LongestWait,          \* wait after a longer downtime
  MaxTime,              \* bound: end of time
  MaxFaults             \* bound: failed saves and restarts in a behaviour

ASSUME ConstantsAssumption ==
  /\ DayLength \in Nat \ {0} /\ UptimeCheckInterval \in 1..LongestWait /\ LongestWait \in Nat
  /\ Backoff \in Seq([below : Nat \ {0}, wait : 1..LongestWait])
  /\ MaxTime \in Nat /\ MaxFaults \in Nat

VARIABLES
  now,
  snapshots,  \* table providerSnapshot, in the order of creation
  provider,   \* the provider's row; 0 is null
  deleted,    \* its deletedHeight is set
  check,      \* the check of the current run: the row it works on and when it was read
  orphans,    \* checks of failed runs that are still in flight
  stale,      \* history: a check was saved that worked on an outdated row
  faults      \* failures left

vars == <<now, snapshots, provider, deleted, check, orphans, stale, faults>>

NoCheck == <<>>
Snapshot == [at : 0..MaxTime, isOnline : BOOLEAN, isLastOfDay : BOOLEAN, isLastSuccessOfDay : BOOLEAN]
Ids == DOMAIN snapshots
ProviderRow == [lastSnapshotId : Ids \cup {0}, lastSuccessfulSnapshotId : Ids \cup {0},
                downtimeFirstSnapshotId : Ids \cup {0}, failedCheckCount : 0..Len(snapshots),
                nextCheckDate : 0..(MaxTime + LongestWait)]
Check == [row : ProviderRow, at : 0..now]

\* The next check is planned after the last one, at most the longest wait later.
TypeOK ==
  /\ now \in 0..MaxTime
  /\ snapshots \in Seq(Snapshot)
  /\ provider \in ProviderRow
  /\ provider.lastSnapshotId # 0 =>
       LET checked == snapshots[provider.lastSnapshotId].at
       IN  provider.nextCheckDate \in (checked + 1)..(checked + LongestWait)
  /\ deleted \in BOOLEAN /\ stale \in BOOLEAN /\ faults \in 0..MaxFaults
  /\ check \in Check \cup {NoCheck}
  /\ orphans \in Seq(Check) /\ Len(orphans) <= MaxFaults

Init ==
  /\ now = 0 /\ snapshots = <<>>
  /\ provider = [lastSnapshotId |-> 0, lastSuccessfulSnapshotId |-> 0,
                 downtimeFirstSnapshotId |-> 0, failedCheckCount |-> 0, nextCheckDate |-> 0]
  /\ deleted = FALSE /\ check = NoCheck /\ orphans = <<>>
  /\ stale = FALSE /\ faults = MaxFaults

IsSameDay(t, u) == t \div DayLength = u \div DayLength

------------------------------------------------------------------------------
\* A run finds the provider due.
StartCheck ==
  /\ check = NoCheck
  /\ ~deleted /\ provider.nextCheckDate <= now
  /\ check' = [row |-> provider, at |-> now]
  /\ UNCHANGED <<now, snapshots, provider, deleted, orphans, stale, faults>>

\* The wait after a failed check.
WaitAfter(downtime) ==
  LET steps == {i \in DOMAIN Backoff : downtime < Backoff[i].below}
  IN  IF steps = {} THEN LongestWait ELSE Backoff[Min(steps)].wait

NextCheckDate(successful, downtimeStart) ==
  now + (IF successful THEN UptimeCheckInterval ELSE WaitAfter(now - downtimeStart))

\* The snapshot that loses both marks to a new one.
Unmarked(row) ==
  {i \in {row.lastSnapshotId} \cap Ids : IsSameDay(snapshots[i].at, now)}

\* The snapshot that loses the mark of the last success only.  The code asks whether the
\* last snapshot is of the same day, not whether this one is.
SuccessUnmarked(row) ==
  IF Unmarked(row) = {} THEN {}
  ELSE ({row.lastSuccessfulSnapshotId} \ {row.lastSnapshotId}) \cap Ids

Marks(row, successful) ==
  LET lost == Unmarked(row) \cup (IF successful THEN SuccessUnmarked(row) ELSE {})
  IN  [i \in Ids |-> [snapshots[i] EXCEPT !.isLastOfDay = @ /\ i \notin Unmarked(row),
                                         !.isLastSuccessOfDay = @ /\ i \notin lost]]

\* Mutant of UpdatedRow: every failure starts a downtime.
UpdatedRowRestartsDowntime(row, successful, id) ==
  [lastSnapshotId |-> id,
   lastSuccessfulSnapshotId |-> IF successful THEN id ELSE row.lastSuccessfulSnapshotId,
   downtimeFirstSnapshotId |-> IF successful THEN 0 ELSE id,
   failedCheckCount |-> IF successful THEN 0 ELSE row.failedCheckCount + 1,
   nextCheckDate |-> NextCheckDate(successful, now)]

UpdatedRow(row, successful, id) ==
  LET known == row.downtimeFirstSnapshotId # 0
  IN  [lastSnapshotId |-> id,
       lastSuccessfulSnapshotId |-> IF successful THEN id ELSE row.lastSuccessfulSnapshotId,
       downtimeFirstSnapshotId |->
         IF successful THEN 0 ELSE IF known THEN row.downtimeFirstSnapshotId ELSE id,
       failedCheckCount |-> IF successful THEN 0 ELSE row.failedCheckCount + 1,
       nextCheckDate |->
         NextCheckDate(successful,
                       IF known THEN snapshots[row.downtimeFirstSnapshotId].at ELSE now)]

\* Mutant of SaveStatus: a failed check is not marked.
SaveStatusMarksSuccess(row, successful) ==
  /\ snapshots' = Append(Marks(row, successful),
                         [at |-> now, isOnline |-> successful, isLastOfDay |-> successful,
                          isLastSuccessOfDay |-> successful])
  /\ provider' = UpdatedRow(row, successful, Len(snapshots) + 1)
  /\ stale' = (stale \/ row # provider)

\* saveProviderStatus: one transaction.
SaveStatus(row, successful) ==
  /\ snapshots' = Append(Marks(row, successful),
                         [at |-> now, isOnline |-> successful, isLastOfDay |-> TRUE,
                          isLastSuccessOfDay |-> successful])
  /\ provider' = UpdatedRow(row, successful, Len(snapshots) + 1)
  /\ stale' = (stale \/ row # provider)

FinishCheck ==
  /\ check # NoCheck /\ check' = NoCheck
  /\ \E successful \in BOOLEAN : SaveStatus(check.row, successful)
  /\ UNCHANGED <<now, deleted, orphans, faults>>

FinishOrphan ==
  \E i \in DOMAIN orphans :
    /\ orphans' = RemoveAt(orphans, i)
    /\ \E successful \in BOOLEAN : SaveStatus(orphans[i].row, successful)
    /\ UNCHANGED <<now, deleted, check, faults>>

------------------------------------------------------------------------------
Fault == faults > 0 /\ faults' = faults - 1

\* The status of this provider is not saved; the run fails.
SaveFails ==
  /\ Fault
  /\ check # NoCheck /\ check' = NoCheck
  /\ UNCHANGED <<now, snapshots, provider, deleted, orphans, stale>>

\* That of another provider is not saved, and the run fails while this check goes on.
RunFails ==
  /\ Fault
  /\ check # NoCheck /\ check' = NoCheck
  /\ orphans' = Append(orphans, check)
  /\ UNCHANGED <<now, snapshots, provider, deleted, stale>>

Crash ==
  /\ Fault
  /\ check' = NoCheck /\ orphans' = <<>>
  /\ UNCHANGED <<now, snapshots, provider, deleted, stale>>

\* MsgDeleteProvider.
DeleteProvider ==
  /\ ~deleted /\ deleted' = TRUE
  /\ UNCHANGED <<now, snapshots, provider, check, orphans, stale, faults>>

\* Time passes; requests have a timeout, so that no check lasts longer than one unit.
Tick ==
  /\ now < MaxTime /\ now' = now + 1
  /\ check # NoCheck => check.at = now
  /\ \A i \in DOMAIN orphans : orphans[i].at = now
  /\ UNCHANGED <<snapshots, provider, deleted, check, orphans, stale, faults>>

Next ==
  \/ StartCheck \/ FinishCheck \/ FinishOrphan
  \/ SaveFails \/ RunFails \/ Crash \/ DeleteProvider \/ Tick

Spec == Init /\ [][Next]_vars
------------------------------------------------------------------------------
OfSameDay(i) == {j \in Ids : IsSameDay(snapshots[j].at, snapshots[i].at)}
Successes == {i \in Ids : snapshots[i].isOnline}
Downtime == {i \in Ids : \A j \in Ids : j >= i => ~snapshots[j].isOnline}

IsLastOfDay(i) == \A j \in OfSameDay(i) : j <= i
IsLastSuccessOfDay(i) == i \in Successes /\ \A j \in OfSameDay(i) \cap Successes : j <= i

\* "Indicates if this is the last snapshot of the day for this provider" (README,
\* ProviderSnapshot): the last snapshot of each day is marked, even when orphans save in
\* between. As long as no check was saved that worked on an outdated row, no other one is
\* marked, none but the last successful one is marked as such, and that one keeps its mark
\* at least until the first failure after it.
DayMarksFollowSnapshots ==
  /\ \A i \in Ids : IsLastOfDay(i) => snapshots[i].isLastOfDay
  /\ ~stale => \A i \in Ids :
       /\ snapshots[i].isLastOfDay => IsLastOfDay(i)
       /\ snapshots[i].isLastSuccessOfDay => IsLastSuccessOfDay(i)
       /\ IsLastSuccessOfDay(i) /\ (i + 1 \in Ids => i + 1 \in Successes) =>
            snapshots[i].isLastSuccessOfDay

\* The provider's row says what its snapshots say: which is the last, which was the last
\* success, when the current downtime began and how many checks have failed in it; and a
\* provider that is down is checked again after the wait for its whole downtime.
RowFollowsSnapshots ==
  ~stale =>
    /\ provider.lastSnapshotId = Len(snapshots)
    /\ provider.lastSuccessfulSnapshotId = Max(Successes \cup {0})
    /\ provider.downtimeFirstSnapshotId = IF Downtime = {} THEN 0 ELSE Min(Downtime)
    /\ provider.failedCheckCount = Cardinality(Downtime)
    /\ Downtime # {} =>
         LET checked == snapshots[Len(snapshots)].at
         IN  provider.nextCheckDate = checked + WaitAfter(checked - snapshots[Min(Downtime)].at)
==============================================================================
