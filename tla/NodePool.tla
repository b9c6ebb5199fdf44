------------------------------- MODULE NodePool -------------------------------
(***************************************************************************)
(* The RPC nodes the indexer downloads from (indexer/src/chain/nodeInfo.ts *)
(* and nodeAccessor.ts).  A node that rate-limits, lags or fails is taken  *)
(* out of use and looked at again after a while.                           *)
(*                                                                         *)
(* Timers, status requests and queries run side by side: a node may fail   *)
(* several queries at once, each of them starting a timer of its own, and  *)
(* the answer to a status request may come between.  Time is counted in    *)
(* minutes, the greatest common divisor of all waiting periods: a timeout  *)
(* that runs k minutes ends k ticks later, in any order with what else     *)
(* happens in that minute, and of two events k ticks apart it is open      *)
(* whether k minutes are between them.  A block may be asked for twice at  *)
(* the same time, by a run of the downloads and by what a failed run left. *)
(***************************************************************************)
EXTENDS Integers, FiniteSets, Functions

CONSTANTS
  Nodes,          \* rpcNodes of the chain definition
  MaxHeight,      \* bound: blocks asked for
  MaxConcurrent,  \* concurrentNodeQuery (5)
  MaxDelay,       \* delays of 500 ms before a node counts as unavailable (10)
  Askers,         \* bound: how often a block may be asked for at a time
  MaxFaults       \* bound: error answers and restarts in a behaviour

Heights == 1..MaxHeight
Status == 0               \* the path /status, with no height
Paths == {Status} \cup Heights
NoHeight == 0             \* an undefined earliestBlockHeight

\* Waiting periods, in minutes.
RateLimitWaitingPeriod == 2
LateNodeWaitingPeriod == 5
UnavailableLongWaitingPeriod == 5
UnavailableWaitingPeriods == {1, UnavailableLongWaitingPeriod}
Minutes == 0..5
NoError == 6               \* an undefined lastErrorDate, or one of long ago

ASSUME ConstantsAssumption ==
  /\ IsFiniteSet(Nodes) /\ MaxHeight \in Nat \ {0} /\ MaxConcurrent \in Nat \ {0}
  /\ MaxDelay \in Nat /\ Askers \in Nat \ {0} /\ MaxFaults \in Nat

VARIABLES
  phase,     \* of the process: "down", "loading" until loadNodeStatus returns, "up"
  status,    \* status of each node
  limit,     \* maxConcurrentQuery
  delay,     \* delayBetweenRequests, in steps of 500 ms
  earliest,  \* earliestBlockHeight
  age,       \* ticks since lastErrorDate, or NoError
  timers,    \* running timeouts of each node, by the minutes they have left
  checks,    \* running updateStatus calls of each node
  active,    \* activeQueries of each node: how often each path is in it
  running,   \* the queries the node really has to answer
  exists,    \* there is a nodeStatus.json
  file,      \* what it says of each node
  unlisted,  \* the nodes it lacked when it was loaded
  saving,    \* the timer that saves it is running
  faults     \* error answers and restarts left

node == <<status, limit, delay, earliest>>
waits == <<timers, checks>>
queries == <<active, running>>
disk == <<exists, file, unlisted, saving>>
vars == <<phase, node, age, waits, queries, disk, faults>>

NodeStatus == {"OK", "UNAVAILABLE", "UNKNOWN", "RATE_LIMIT", "LATE"}
SavedNodeInfo == [status : NodeStatus, limit : 1..MaxConcurrent, delay : Nat,
                  earliest : 0..(MaxHeight + 1)]
NewNode == [status |-> "UNKNOWN", limit |-> MaxConcurrent, delay |-> 0, earliest |-> NoHeight]
NoRecord == [NewNode EXCEPT !.limit = 0]

TypeOK ==
  /\ phase \in {"down", "loading", "up"}
  /\ status \in [Nodes -> NodeStatus]
  /\ limit \in [Nodes -> 1..MaxConcurrent]
  /\ delay \in [Nodes -> Nat]
  /\ earliest \in [Nodes -> 0..(MaxHeight + 1)]
  /\ age \in [Nodes -> Minutes \cup {NoError}]
  /\ timers \in [Nodes -> [Minutes -> Nat]]
  /\ checks \in [Nodes -> Nat]
  /\ active \in [Nodes -> [Paths -> Nat]]
  /\ running \in [Nodes -> [Paths -> Nat]]
  /\ file \in [Nodes -> SavedNodeInfo \cup {NoRecord}]
  /\ exists \in BOOLEAN /\ unlisted \subseteq Nodes /\ saving \in BOOLEAN
  /\ faults \in 0..MaxFaults

Total(bag) == SumFunction(bag)
NoTimers == [m \in Minutes |-> 0]
Idle == [p \in Paths |-> 0]

\* The process is not running yet: there is no file, or one that knows some of the nodes
\* (the chain definition may have others since).
Init ==
  /\ phase = "down"
  /\ status = [n \in Nodes |-> "UNKNOWN"] /\ limit = [n \in Nodes |-> MaxConcurrent]
  /\ delay = [n \in Nodes |-> 0] /\ earliest = [n \in Nodes |-> NoHeight]
  /\ age = [n \in Nodes |-> NoError]
  /\ timers = [n \in Nodes |-> NoTimers] /\ checks = [n \in Nodes |-> 0]
  /\ active = [n \in Nodes |-> Idle] /\ running = [n \in Nodes |-> Idle]
  /\ file \in [Nodes -> {NoRecord} \cup
                        {NewNode} \cup {[NewNode EXCEPT !.status = s, !.earliest = 1] :
                                        s \in NodeStatus \ {"UNKNOWN"}}]
  /\ exists \in BOOLEAN /\ (~exists => \A n \in Nodes : file[n] = NoRecord)
  /\ unlisted = {} /\ saving = FALSE /\ faults = MaxFaults

------------------------------------------------------------------------------
\* Mutant of TimersOf: a node that was late is not looked at after a restart.
TimersOfForgetsLate(record) ==
  CASE record.status = "RATE_LIMIT" -> [NoTimers EXCEPT ![RateLimitWaitingPeriod] = 1]
    [] record.status = "UNAVAILABLE" -> [NoTimers EXCEPT ![UnavailableLongWaitingPeriod] = 1]
    [] OTHER -> NoTimers

\* The timers that loading a record starts; with no success counted yet, the wait for an
\* unavailable node is the long one.
TimersOf(record) ==
  CASE record.status = "RATE_LIMIT" -> [NoTimers EXCEPT ![RateLimitWaitingPeriod] = 1]
    [] record.status = "LATE" -> [NoTimers EXCEPT ![LateNodeWaitingPeriod] = 1]
    [] record.status = "UNAVAILABLE" -> [NoTimers EXCEPT ![UnavailableLongWaitingPeriod] = 1]
    [] OTHER -> NoTimers

\* loadNodeStatus.  The nodes of the file are loaded, and looked at if their status was
\* unknown; a node the file lacks is left alone.  Without a file every node is looked at,
\* and no timer for saving is started.
LoadNodeStatus ==
  LET record == [n \in Nodes |-> IF file[n] = NoRecord THEN NewNode ELSE file[n]]
  IN
  /\ phase = "down" /\ phase' = IF exists THEN "up" ELSE "loading"
  /\ status' = [n \in Nodes |-> record[n].status]
  /\ limit' = [n \in Nodes |-> record[n].limit]
  /\ delay' = [n \in Nodes |-> record[n].delay]
  /\ earliest' = [n \in Nodes |-> record[n].earliest]
  /\ timers' = [n \in Nodes |-> TimersOf(record[n])]
  /\ checks' = [n \in Nodes |->
       IF record[n].status = "UNKNOWN" /\ (exists => file[n] # NoRecord) THEN 1 ELSE 0]
  /\ saving' = exists
  /\ unlisted' = IF exists THEN {n \in Nodes : file[n] = NoRecord} ELSE {}
  /\ UNCHANGED <<age, queries, exists, file, faults>>

Records == [n \in Nodes |-> [status |-> status[n], limit |-> limit[n],
                             delay |-> delay[n], earliest |-> earliest[n]]]

\* The rest of loadNodeStatus when there was no file.
FirstSave ==
  /\ phase = "loading" /\ \A n \in Nodes : checks[n] = 0
  /\ phase' = "up" /\ exists' = TRUE /\ file' = Records
  /\ UNCHANGED <<node, age, waits, queries, unlisted, saving, faults>>

SaveNodeStatus ==
  /\ phase = "up" /\ saving
  /\ file' = Records
  /\ UNCHANGED <<phase, node, age, waits, queries, exists, unlisted, saving, faults>>

------------------------------------------------------------------------------
Fault == faults > 0 /\ faults' = faults - 1

StartTimer(n, minutes) == timers' = [timers EXCEPT ![n][minutes] = @ + 1]

HandleUnavailable(n) ==
  /\ status' = [status EXCEPT ![n] = "UNAVAILABLE"]
  /\ \E minutes \in UnavailableWaitingPeriods : StartTimer(n, minutes)
  /\ UNCHANGED <<limit, delay>>

LastErrorIsWithin(n, minutes) == age[n] <= minutes
LastErrorIsBefore(n, minutes) == age[n] >= minutes

\* One query less at a time; a node that has no more to lose is asked less often, and
\* counts as unavailable in the end.
SlowDown(n) ==
  \/ /\ limit[n] > 1
     /\ limit' = [limit EXCEPT ![n] = @ - 1]
     /\ status' = [status EXCEPT ![n] = "RATE_LIMIT"]
     /\ UNCHANGED delay
  \/ /\ limit[n] = 1
     /\ delay' = [delay EXCEPT ![n] = @ + 1]
     /\ status' = [status EXCEPT ![n] =
                     IF delay'[n] > MaxDelay THEN "UNAVAILABLE" ELSE "RATE_LIMIT"]
     /\ UNCHANGED limit

\* A node that had no error for a minute is slowed down and looked at again; one that had
\* only changes its status.
HandleRateLimiting(n) ==
  \/ /\ LastErrorIsWithin(n, 1)
     /\ status' = [status EXCEPT ![n] = "RATE_LIMIT"]
     /\ UNCHANGED <<limit, delay, timers>>
  \/ /\ LastErrorIsBefore(n, 1)
     /\ SlowDown(n)
     /\ StartTimer(n, RateLimitWaitingPeriod)

\* A node far behind the height it was asked for.
HandleMissingBlock(n) ==
  /\ \/ LastErrorIsWithin(n, LateNodeWaitingPeriod) /\ UNCHANGED <<status, timers>>
     \/ /\ LastErrorIsBefore(n, LateNodeWaitingPeriod)
        /\ status' = [status EXCEPT ![n] = "LATE"]
        /\ StartTimer(n, LateNodeWaitingPeriod)
  /\ UNCHANGED <<limit, delay>>

------------------------------------------------------------------------------
TimerFires(n) ==
  /\ timers[n][0] > 0
  /\ timers' = [timers EXCEPT ![n][0] = @ - 1]
  /\ checks' = [checks EXCEPT ![n] = @ + 1]
  /\ UNCHANGED <<phase, node, age, queries, disk, faults>>

\* updateStatus ends: the node is in use again.
CheckSucceeds(n) ==
  /\ checks[n] > 0 /\ checks' = [checks EXCEPT ![n] = @ - 1]
  /\ status' = [status EXCEPT ![n] = "OK"]
  /\ \E h \in Heights : earliest' = [earliest EXCEPT ![n] = h]
  /\ UNCHANGED <<phase, limit, delay, age, timers, queries, disk, faults>>

\* Mutant of CheckFails: a node that cannot be reached is given up.
CheckFailsForGood(n) ==
  /\ Fault
  /\ checks[n] > 0 /\ checks' = [checks EXCEPT ![n] = @ - 1]
  /\ \/ status' = [status EXCEPT ![n] = "UNAVAILABLE"] /\ UNCHANGED <<limit, delay, timers>>
     \/ HandleRateLimiting(n)
  /\ UNCHANGED <<phase, earliest, age, queries, disk>>

CheckFails(n) ==
  /\ Fault
  /\ checks[n] > 0 /\ checks' = [checks EXCEPT ![n] = @ - 1]
  /\ HandleUnavailable(n) \/ HandleRateLimiting(n)
  /\ UNCHANGED <<phase, earliest, age, queries, disk>>

\* Mutant of IsAvailable: one query too many.
IsAvailableAtLimit(n, h) ==
  /\ status[n] = "OK"
  /\ earliest[n] # NoHeight /\ earliest[n] <= h
  /\ Total(active[n]) <= limit[n]

IsAvailable(n, h) ==
  /\ status[n] = "OK"
  /\ earliest[n] # NoHeight /\ earliest[n] <= h
  /\ Total(active[n]) < limit[n]

StartQuery(n, p) ==
  /\ active' = [active EXCEPT ![n][p] = @ + 1]
  /\ running' = [running EXCEPT ![n][p] = @ + 1]
  /\ UNCHANGED <<phase, node, age, waits, disk, faults>>

\* fetch waits until a node is available, and takes one of the least busy.
Fetch(n, h) ==
  /\ phase = "up"
  /\ SumFunction([m \in Nodes |-> running[m][h]]) < Askers
  /\ IsAvailable(n, h)
  /\ \A m \in Nodes : IsAvailable(m, h) => Total(active[n]) <= Total(active[m])
  /\ StartQuery(n, h)

\* getLatestBlockHeight asks every node in use, however busy, once per run.
FetchLatestHeight(n) ==
  /\ phase = "up" /\ status[n] = "OK" /\ running[n][Status] = 0
  /\ StartQuery(n, Status)

\* The end of a query takes every entry of its path out of activeQueries.
EndQuery(n, p) ==
  /\ running[n][p] > 0
  /\ running' = [running EXCEPT ![n][p] = @ - 1]
  /\ active' = [active EXCEPT ![n][p] = 0]

QuerySucceeds(n, p) ==
  /\ EndQuery(n, p)
  /\ UNCHANGED <<phase, node, age, waits, disk, faults>>

\* The node answers that it has pruned the block, and which is its lowest.
BlockWasPruned(n, h) ==
  /\ \E e \in (h + 1)..(MaxHeight + 1) : earliest' = [earliest EXCEPT ![n] = e]
  /\ UNCHANGED <<status, limit, delay, timers>>

\* Other errors of the node about a block do not count against it.
QueryFails(n, p) ==
  /\ Fault
  /\ EndQuery(n, p)
  /\ \/ HandleRateLimiting(n) /\ UNCHANGED earliest
     \/ HandleUnavailable(n) /\ UNCHANGED earliest
     \/ p \in Heights /\ HandleMissingBlock(n) /\ UNCHANGED earliest
     \/ p \in Heights /\ BlockWasPruned(n, p)
     \/ p \in Heights /\ UNCHANGED <<node, timers>>
  /\ age' = [age EXCEPT ![n] = 0]
  /\ UNCHANGED <<phase, checks, disk>>

\* A minute passes; a timer that is due fires before.
Tick ==
  /\ phase # "down" /\ \A n \in Nodes : timers[n][0] = 0
  /\ timers' = [n \in Nodes |-> [m \in Minutes |-> IF m = 5 THEN 0 ELSE timers[n][m + 1]]]
  /\ age' = [n \in Nodes |-> IF age[n] < NoError THEN age[n] + 1 ELSE NoError]
  /\ UNCHANGED <<phase, node, checks, queries, disk, faults>>

\* The process dies: what is not in the file is forgotten.
Crash ==
  /\ Fault
  /\ phase # "down" /\ phase' = "down"
  /\ status' = [n \in Nodes |-> "UNKNOWN"] /\ limit' = [n \in Nodes |-> MaxConcurrent]
  /\ delay' = [n \in Nodes |-> 0] /\ earliest' = [n \in Nodes |-> NoHeight]
  /\ age' = [n \in Nodes |-> NoError]
  /\ timers' = [n \in Nodes |-> NoTimers] /\ checks' = [n \in Nodes |-> 0]
  /\ active' = [n \in Nodes |-> Idle] /\ running' = [n \in Nodes |-> Idle]
  /\ saving' = FALSE /\ unlisted' = {}
  /\ UNCHANGED <<exists, file>>

Next ==
  \/ LoadNodeStatus \/ FirstSave \/ SaveNodeStatus \/ Tick \/ Crash
  \/ \E n \in Nodes :
       \/ TimerFires(n) \/ CheckSucceeds(n) \/ CheckFails(n) \/ FetchLatestHeight(n)
       \/ \E h \in Heights : Fetch(n, h)
       \/ \E p \in Paths : QuerySucceeds(n, p) \/ QueryFails(n, p)

Spec == Init /\ [][Next]_vars

\* The process is started when it is down, requests have a timeout, time passes.
Fairness ==
  /\ WF_vars(LoadNodeStatus) /\ WF_vars(FirstSave) /\ WF_vars(Tick)
  /\ \A n \in Nodes : WF_vars(TimerFires(n)) /\ WF_vars(CheckSucceeds(n) \/ CheckFails(n))

FairSpec == Spec /\ Fairness
------------------------------------------------------------------------------
\* The node will be looked at again.
Waits(n) == checks[n] > 0 \/ \E m \in Minutes : timers[n][m] > 0

\* "their status is then kept updated" (README, Step #1): a node that is out of use will be
\* looked at again, whatever requests, timers and restarts overlap, unless it was rate-limited
\* within a minute of another error, or was not in the file and still has the status it got
\* then.
UnavailableIsLookedAt ==
  phase # "down" =>
    \A n \in Nodes :
      status[n] \in {"UNAVAILABLE", "LATE"} \/ (status[n] = "UNKNOWN" /\ n \notin unlisted)
        => Waits(n)

\* A node never has to answer more block requests at a time than configured, as long as
\* no block is asked for twice at a time: the end of one request takes the other one out of
\* activeQueries too, and the node is then given more.
ConcurrencyIsLimited ==
  Askers = 1 =>
    \A n \in Nodes : SumFunctionOnSet(running[n], Heights) <= MaxConcurrent

\* With finitely many errors, every node is in use in the end, with the same exceptions.
NodesRecover ==
  \A n \in Nodes :
    <>[](status[n] \in {"OK", "RATE_LIMIT"} \/ (status[n] = "UNKNOWN" /\ n \in unlisted))
==============================================================================
