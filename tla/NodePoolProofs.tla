---------------------------- MODULE NodePoolProofs ----------------------------
(***************************************************************************)
(* The pool of nodes for any number of nodes, errors, restarts and         *)
(* overlapping queries.                                                    *)
(*                                                                         *)
(* That a node out of use is looked at again needs little to be inductive: *)
(* the numbers of timers and checks are natural numbers, so that starting  *)
(* one makes the node wait, and what a file says of a node is a status.    *)
(*                                                                         *)
(* The type invariant is inductive as it stands: what the file says of a   *)
(* node has the type of what is loaded from it.                            *)
(*                                                                         *)
(* The limit of a node's block requests follows once each block is asked   *)
(* of one node only: then what the node counts is what it has to answer.   *)
(***************************************************************************)
EXTENDS NodePool, SumTheorems, TLAPS

WaitTypes ==
  /\ status \in [Nodes -> NodeStatus]
  /\ timers \in [Nodes -> [Minutes -> Nat]]
  /\ checks \in [Nodes -> Nat]
  /\ \A n \in Nodes : file[n] = NoRecord \/ file[n].status \in NodeStatus

WaitInv == WaitTypes /\ UnavailableIsLookedAt

\* The status of a node that must have a timer or a check.
OutOfUse(n) ==
  status[n] \in {"UNAVAILABLE", "LATE"} \/ (status[n] = "UNKNOWN" /\ n \notin unlisted)

\* Starting a timer keeps the types and all waits, and makes the node wait.
LEMMA StartTimerWaits ==
  ASSUME WaitTypes, NEW n \in Nodes, NEW k \in Minutes, StartTimer(n, k)
  PROVE  /\ timers' \in [Nodes -> [Minutes -> Nat]]
         /\ timers'[n][k] > 0
         /\ \A i \in Nodes, m \in Minutes : timers[i][m] > 0 => timers'[i][m] > 0
<1>1. \A i \in Nodes, m \in Minutes : timers[i][m] \in Nat
  BY DEF WaitTypes
<1>2. \A i \in Nodes, m \in Minutes :
        timers'[i][m] = IF i = n /\ m = k THEN timers[i][m] + 1 ELSE timers[i][m]
  BY DEF WaitTypes, StartTimer
<1>3. timers' \in [Nodes -> [Minutes -> Nat]]
  BY <1>1 DEF WaitTypes, StartTimer
<1> QED BY <1>1, <1>2, <1>3

\* What an error may do to a node: it gets a status and a timer, or is rate-limited.
Reaction(n) ==
  \/ \E s \in NodeStatus, k \in Minutes :
       status' = [status EXCEPT ![n] = s] /\ StartTimer(n, k)
  \/ status' = [status EXCEPT ![n] = "RATE_LIMIT"] /\ timers' = timers

\* The handlers of errors are reactions, or leave the status and the timers alone.
LEMMA HandlersReact ==
  ASSUME NEW n \in Nodes
  PROVE  /\ HandleUnavailable(n) \/ HandleRateLimiting(n) => Reaction(n)
         /\ HandleMissingBlock(n) => Reaction(n) \/ (status' = status /\ timers' = timers)
<1>1. HandleUnavailable(n) => Reaction(n)
  BY DEF HandleUnavailable, Reaction, NodeStatus, UnavailableWaitingPeriods,
              UnavailableLongWaitingPeriod, Minutes
<1>2. HandleRateLimiting(n) => Reaction(n)
  BY DEF HandleRateLimiting, SlowDown, Reaction, NodeStatus, RateLimitWaitingPeriod, Minutes
<1>3. HandleMissingBlock(n) => Reaction(n) \/ (status' = status /\ timers' = timers)
  BY DEF HandleMissingBlock, Reaction, NodeStatus, LateNodeWaitingPeriod, Minutes
<1> QED BY <1>1, <1>2, <1>3

\* A reaction leaves the node in a status that needs no waiting, or waiting; the waits of the
\* others stay.
LEMMA ReactionKeepsInv ==
  ASSUME WaitInv, NEW n \in Nodes, Reaction(n), phase' = phase, file' = file,
         unlisted' = unlisted, checks' \in [Nodes -> Nat],
         \A i \in Nodes \ {n} : checks'[i] = checks[i]
  PROVE  WaitInv'
<1> USE DEF WaitInv
<1>1. status' \in [Nodes -> NodeStatus] /\ timers' \in [Nodes -> [Minutes -> Nat]]
  BY StartTimerWaits DEF Reaction, WaitTypes, NodeStatus
<1>2. WaitTypes'
  BY <1>1 DEF WaitTypes
<1>3. ASSUME NEW i \in Nodes, phase' # "down", OutOfUse(i)'
      PROVE  Waits(i)'
  <2>1. CASE i # n
    <3>1. status'[i] = status[i]
      BY <2>1 DEF Reaction, WaitTypes
    <3>2. Waits(i)
      BY <1>3, <3>1 DEF OutOfUse, UnavailableIsLookedAt
    <3>3. \A m \in Minutes : timers[i][m] > 0 => timers'[i][m] > 0
      BY StartTimerWaits DEF Reaction
    <3> QED BY <2>1, <3>2, <3>3 DEF Waits
  <2>2. CASE i = n
    <3>1. CASE \E s \in NodeStatus, k \in Minutes :
                 status' = [status EXCEPT ![n] = s] /\ StartTimer(n, k)
      <4>1. PICK k \in Minutes : StartTimer(n, k)
        BY <3>1
      <4>2. timers'[n][k] > 0
        BY <4>1, StartTimerWaits
      <4> QED BY <2>2, <4>2 DEF Waits
    <3>2. CASE status' = [status EXCEPT ![n] = "RATE_LIMIT"] /\ timers' = timers
      BY <1>3, <2>2, <3>2 DEF OutOfUse, WaitTypes
    <3> QED BY <3>1, <3>2 DEF Reaction
  <2> QED BY <2>1, <2>2
<1>4. UnavailableIsLookedAt'
  BY <1>3 DEF UnavailableIsLookedAt, OutOfUse
<1> QED BY <1>2, <1>4
------------------------------------------------------------------------------
\* Nothing waits, and nothing has to, before the process is started.
LEMMA InitWaits ==
  ASSUME Init
  PROVE  WaitInv
<1>1. WaitTypes
  <2>1. status \in [Nodes -> NodeStatus]
    BY DEF Init, NodeStatus
  <2>2. timers \in [Nodes -> [Minutes -> Nat]] /\ checks \in [Nodes -> Nat]
    BY DEF Init, NoTimers
  <2>3. \A n \in Nodes : file[n] = NoRecord \/ file[n].status \in NodeStatus
    <3> SUFFICES ASSUME NEW n \in Nodes, file[n] # NoRecord
                 PROVE  file[n].status \in NodeStatus
      OBVIOUS
    <3>1. CASE file[n] = NewNode
      BY <3>1 DEF NewNode, NodeStatus
    <3>2. CASE \E s \in NodeStatus : file[n] = [NewNode EXCEPT !.status = s, !.earliest = 1]
      <4>1. PICK s \in NodeStatus : file[n] = [NewNode EXCEPT !.status = s, !.earliest = 1]
        BY <3>2
      <4>2. file[n].status = s
        BY <4>1 DEF NewNode
      <4> QED BY <4>2
    <3>3. file[n] \in {NoRecord} \cup {NewNode} \cup
            {[NewNode EXCEPT !.status = s, !.earliest = 1] : s \in NodeStatus \ {"UNKNOWN"}}
      BY DEF Init
    <3> QED BY <3>1, <3>2, <3>3
  <2> QED BY <2>1, <2>2, <2>3 DEF WaitTypes
<1>2. UnavailableIsLookedAt
  BY DEF Init, UnavailableIsLookedAt
<1> QED BY <1>1, <1>2 DEF WaitInv

\* Loading gives every node out of use its timer back, and a check to every unknown node but
\* those the file lacks.
LEMMA LoadWaits ==
  ASSUME WaitInv, LoadNodeStatus
  PROVE  WaitInv'
<1> DEFINE record == [n \in Nodes |-> IF file[n] = NoRecord THEN NewNode ELSE file[n]]
<1>1. \A n \in Nodes :
        /\ status'[n] = record[n].status
        /\ timers'[n] = TimersOf(record[n])
        /\ checks'[n] = IF record[n].status = "UNKNOWN" /\ (exists => file[n] # NoRecord)
                         THEN 1 ELSE 0
  BY DEF LoadNodeStatus
<1>2. \A n \in Nodes : record[n].status \in NodeStatus
  BY DEF WaitInv, WaitTypes, NewNode, NodeStatus
<1>3. WaitTypes'
  <2>1. status' \in [Nodes -> NodeStatus]
    BY <1>2 DEF LoadNodeStatus
  <2>2. \A n \in Nodes : TimersOf(record[n]) \in [Minutes -> Nat]
    BY DEF TimersOf, NoTimers
  <2>3. timers' \in [Nodes -> [Minutes -> Nat]]
    BY <2>2 DEF LoadNodeStatus
  <2>4. checks' \in [Nodes -> Nat]
    BY DEF LoadNodeStatus
  <2>5. file' = file
    BY DEF LoadNodeStatus
  <2> QED BY <2>1, <2>3, <2>4, <2>5 DEF WaitInv, WaitTypes
<1>4. ASSUME NEW n \in Nodes, OutOfUse(n)'
      PROVE  Waits(n)'
  <2>1. CASE status'[n] = "UNAVAILABLE"
    <3> HIDE DEF record
    <3>1. timers'[n] = [NoTimers EXCEPT ![UnavailableLongWaitingPeriod] = 1]
      BY <1>1, <2>1 DEF TimersOf
    <3>2. timers'[n][UnavailableLongWaitingPeriod] > 0
      BY <3>1 DEF NoTimers, Minutes, UnavailableLongWaitingPeriod
    <3> QED BY <3>2 DEF Waits, Minutes, UnavailableLongWaitingPeriod
  <2>2. CASE status'[n] = "LATE"
    <3> HIDE DEF record
    <3>1. timers'[n] = [NoTimers EXCEPT ![LateNodeWaitingPeriod] = 1]
      BY <1>1, <2>2 DEF TimersOf
    <3>2. timers'[n][LateNodeWaitingPeriod] > 0
      BY <3>1 DEF NoTimers, Minutes, LateNodeWaitingPeriod
    <3> QED BY <3>2 DEF Waits, Minutes, LateNodeWaitingPeriod
  <2>3. CASE status'[n] = "UNKNOWN" /\ n \notin unlisted'
    <3>1. exists => file[n] # NoRecord
      BY <2>3 DEF LoadNodeStatus
    <3>2. checks'[n] = 1
      BY <1>1, <2>3, <3>1
    <3> QED BY <3>2 DEF Waits
  <2> QED BY <1>4, <2>1, <2>2, <2>3 DEF OutOfUse
<1> QED BY <1>3, <1>4 DEF WaitInv, UnavailableIsLookedAt, OutOfUse

\* A minute passes: no timer that is due is lost.
LEMMA TickWaits ==
  ASSUME WaitInv, Tick
  PROVE  WaitInv'
<1>1. \A n \in Nodes, m \in Minutes : timers[n][m] \in Nat
  BY DEF WaitInv, WaitTypes
<1>2. \A n \in Nodes, m \in Minutes :
        timers'[n][m] = IF m = 5 THEN 0 ELSE timers[n][m + 1]
  BY DEF Tick
<1>3. WaitTypes'
  <2>1. \A m \in Minutes : m # 5 => m + 1 \in Minutes
    BY DEF Minutes
  <2>2. timers' \in [Nodes -> [Minutes -> Nat]]
    BY <1>1, <2>1 DEF Tick
  <2> QED BY <2>2 DEF Tick, node, disk, WaitInv, WaitTypes
<1>4. ASSUME NEW n \in Nodes, Waits(n)
      PROVE  Waits(n)'
  <2>1. CASE checks[n] > 0
    BY <2>1 DEF Waits, Tick
  <2>2. CASE \E m \in Minutes : timers[n][m] > 0
    <3>1. PICK m \in Minutes : timers[n][m] > 0
      BY <2>2
    <3>2. m # 0
      BY <3>1, <1>1 DEF Tick
    <3>3. m - 1 \in Minutes /\ m - 1 # 5 /\ (m - 1) + 1 = m
      BY <3>2 DEF Minutes
    <3>4. timers'[n][m - 1] > 0
      BY <1>2, <3>1, <3>3
    <3> QED BY <3>3, <3>4 DEF Waits
  <2> QED BY <1>4, <2>1, <2>2 DEF Waits
<1>5. UnavailableIsLookedAt'
  BY <1>4 DEF WaitInv, UnavailableIsLookedAt, Tick, node, disk
<1> QED BY <1>3, <1>5 DEF WaitInv

\* A due timer fires: a check takes its place.
LEMMA TimerWaits ==
  ASSUME WaitInv, NEW n \in Nodes, TimerFires(n)
  PROVE  WaitInv'
<1>1. \A i \in Nodes, m \in Minutes : timers[i][m] \in Nat
  BY DEF WaitInv, WaitTypes
<1>2. 0 \in Minutes
  BY DEF Minutes
<1>3. WaitTypes'
  <2>1. timers' \in [Nodes -> [Minutes -> Nat]]
    BY <1>1, <1>2 DEF TimerFires, WaitInv, WaitTypes
  <2>2. checks' \in [Nodes -> Nat]
    BY DEF TimerFires, WaitInv, WaitTypes
  <2> QED BY <2>1, <2>2 DEF TimerFires, node, disk, WaitInv, WaitTypes
<1>4. Waits(n)'
  BY DEF TimerFires, WaitInv, WaitTypes, Waits
<1>5. \A i \in Nodes : Waits(i) => Waits(i)'
  BY <1>4 DEF TimerFires, WaitInv, WaitTypes, Waits
<1>6. UnavailableIsLookedAt'
  BY <1>5 DEF WaitInv, UnavailableIsLookedAt, TimerFires, node, disk
<1> QED BY <1>3, <1>6 DEF WaitInv

\* A status request ends; the node is in use, or has a timer again, or is rate-limited.
LEMMA CheckWaits ==
  ASSUME WaitInv, NEW n \in Nodes, CheckSucceeds(n) \/ CheckFails(n)
  PROVE  WaitInv'
<1>1. /\ checks' \in [Nodes -> Nat]
      /\ \A i \in Nodes \ {n} : checks'[i] = checks[i]
      /\ phase' = phase /\ file' = file /\ unlisted' = unlisted
  BY DEF CheckSucceeds, CheckFails, disk, WaitInv, WaitTypes
<1>2. CASE CheckSucceeds(n)
  <2>1. WaitTypes'
    BY <1>1, <1>2 DEF CheckSucceeds, WaitInv, WaitTypes, NodeStatus
  <2>2. status'[n] = "OK" /\ \A i \in Nodes \ {n} : status'[i] = status[i]
    BY <1>2 DEF CheckSucceeds, WaitInv, WaitTypes
  <2>3. \A i \in Nodes \ {n} : Waits(i) => Waits(i)'
    BY <1>1, <1>2 DEF CheckSucceeds, Waits
  <2>4. UnavailableIsLookedAt'
    BY <1>1, <2>2, <2>3 DEF WaitInv, UnavailableIsLookedAt
  <2> QED BY <2>1, <2>4 DEF WaitInv
<1>3. CASE CheckFails(n)
  <2>1. HandleUnavailable(n) \/ HandleRateLimiting(n)
    BY <1>3 DEF CheckFails
  <2>2. Reaction(n)
    BY <2>1, HandlersReact
  <2> QED BY <1>1, <2>2, ReactionKeepsInv
<1> QED BY <1>2, <1>3

\* A query fails.
LEMMA QueryFailureWaits ==
  ASSUME WaitInv, NEW n \in Nodes, NEW p \in Paths, QueryFails(n, p)
  PROVE  WaitInv'
<1>1. phase' = phase /\ file' = file /\ unlisted' = unlisted /\ checks' = checks
  BY DEF QueryFails, disk
<1>2. CASE Reaction(n)
  <2>1. checks' \in [Nodes -> Nat] /\ \A i \in Nodes \ {n} : checks'[i] = checks[i]
    BY <1>1 DEF WaitInv, WaitTypes
  <2> QED BY <1>1, <1>2, <2>1, ReactionKeepsInv
<1>3. CASE status' = status /\ timers' = timers
  BY <1>1, <1>3 DEF WaitInv, WaitTypes, UnavailableIsLookedAt, Waits
<1>4. Reaction(n) \/ (status' = status /\ timers' = timers)
  BY HandlersReact DEF QueryFails, BlockWasPruned, node
<1> QED BY <1>2, <1>3, <1>4

\* What leaves the statuses, the timers and the checks alone keeps the waits, whatever it
\* writes to the file.
LEMMA OthersWait ==
  ASSUME WaitInv, status' = status, timers' = timers, checks' = checks, unlisted' = unlisted,
         phase' # "down" => phase # "down",
         file' = file \/ file' = Records
  PROVE  WaitInv'
<1>1. \A n \in Nodes : file'[n] = NoRecord \/ file'[n].status \in NodeStatus
  BY DEF WaitInv, WaitTypes, Records
<1> QED BY <1>1 DEF WaitInv, WaitTypes, UnavailableIsLookedAt, Waits

\* A crash loses all timers and checks, but nobody looks at nodes while the process is down.
LEMMA CrashWaits ==
  ASSUME WaitInv, Crash
  PROVE  WaitInv'
BY DEF Crash, WaitInv, WaitTypes, UnavailableIsLookedAt, NodeStatus, NoTimers

\* Every step of a node pool, or of none, keeps the waits.
LEMMA StepWaits ==
  ASSUME WaitInv, [Next]_vars
  PROVE  WaitInv'
<1>1. CASE LoadNodeStatus
  BY <1>1, LoadWaits
<1>2. CASE FirstSave \/ SaveNodeStatus
  BY <1>2, OthersWait DEF FirstSave, SaveNodeStatus, node, waits
<1>3. CASE Tick
  BY <1>3, TickWaits
<1>4. CASE Crash
  BY <1>4, CrashWaits
<1>5. ASSUME NEW n \in Nodes, TimerFires(n)
      PROVE  WaitInv'
  BY <1>5, TimerWaits
<1>6. ASSUME NEW n \in Nodes, CheckSucceeds(n) \/ CheckFails(n)
      PROVE  WaitInv'
  BY <1>6, CheckWaits
<1>7. ASSUME NEW n \in Nodes, FetchLatestHeight(n) \/ \E h \in Heights : Fetch(n, h)
      PROVE  WaitInv'
  BY <1>7, OthersWait DEF FetchLatestHeight, Fetch, StartQuery, node, waits, disk
<1>8. ASSUME NEW n \in Nodes, NEW p \in Paths, QuerySucceeds(n, p)
      PROVE  WaitInv'
  BY <1>8, OthersWait DEF QuerySucceeds, node, waits, disk
<1>9. ASSUME NEW n \in Nodes, NEW p \in Paths, QueryFails(n, p)
      PROVE  WaitInv'
  BY <1>9, QueryFailureWaits
<1>10. CASE UNCHANGED vars
  BY <1>10, OthersWait DEF vars, node, waits, disk
<1> QED BY <1>1, <1>2, <1>3, <1>4, <1>5, <1>6, <1>7, <1>8, <1>9, <1>10 DEF Next

\* However many queries, status checks, timers and restarts overlap, a node that is
\* unavailable, late or unknown has a timer or a status request running, unless the status
\* file lacked it (nodeInfo.ts, nodeAccessor.ts).
THEOREM LookedAt == Spec => []UnavailableIsLookedAt
<1>1. Init => WaitInv
  BY InitWaits
<1>2. WaitInv /\ [Next]_vars => WaitInv'
  BY StepWaits
<1>3. WaitInv => UnavailableIsLookedAt
  BY DEF WaitInv
<1> QED BY <1>1, <1>2, <1>3, PTL DEF Spec
------------------------------------------------------------------------------
\* A change of a function at one argument keeps its type.
LEMMA ExceptTypes ==
  ASSUME NEW S, NEW T, NEW f \in [S -> T], NEW x \in S, NEW v \in T
  PROVE  [f EXCEPT ![x] = v] \in [S -> T]
OBVIOUS

\* The limit of a slowed down node stays at least one.
LEMMA HandlersKeepTypes ==
  ASSUME TypeOK, NEW n \in Nodes,
         HandleUnavailable(n) \/ HandleRateLimiting(n) \/ HandleMissingBlock(n)
  PROVE  /\ status' \in [Nodes -> NodeStatus]
         /\ timers' \in [Nodes -> [Minutes -> Nat]]
         /\ limit' \in [Nodes -> 1..MaxConcurrent]
         /\ delay' \in [Nodes -> Nat]
<1>1. limit[n] \in 1..MaxConcurrent /\ delay[n] \in Nat /\ MaxConcurrent \in Nat
  BY ConstantsAssumption DEF TypeOK
<1>2. ASSUME NEW k \in Minutes, StartTimer(n, k)
      PROVE  timers' \in [Nodes -> [Minutes -> Nat]]
  BY <1>2 DEF TypeOK, StartTimer
<1>3. RateLimitWaitingPeriod \in Minutes /\ LateNodeWaitingPeriod \in Minutes
      /\ UnavailableWaitingPeriods \subseteq Minutes
  BY DEF RateLimitWaitingPeriod, LateNodeWaitingPeriod, UnavailableWaitingPeriods,
         UnavailableLongWaitingPeriod, Minutes
<1>4. timers' \in [Nodes -> [Minutes -> Nat]]
  BY <1>2, <1>3 DEF TypeOK, HandleUnavailable, HandleRateLimiting, HandleMissingBlock
<1>5. status' \in [Nodes -> NodeStatus]
  BY DEF TypeOK, NodeStatus, HandleUnavailable, HandleRateLimiting, SlowDown, HandleMissingBlock
<1>6. limit' = limit \/ (limit[n] > 1 /\ limit' = [limit EXCEPT ![n] = @ - 1])
  BY DEF HandleUnavailable, HandleRateLimiting, SlowDown, HandleMissingBlock
<1>7. limit' \in [Nodes -> 1..MaxConcurrent]
  <2>1. limit \in [Nodes -> 1..MaxConcurrent]
    BY DEF TypeOK
  <2>2. CASE limit[n] > 1 /\ limit' = [limit EXCEPT ![n] = @ - 1]
    <3>1. limit[n] - 1 \in 1..MaxConcurrent
      BY <1>1, <2>2
    <3>2. [limit EXCEPT ![n] = limit[n] - 1] \in [Nodes -> 1..MaxConcurrent]
      BY ONLY <2>1, <3>1, n \in Nodes, ExceptTypes, Zenon
    <3> QED BY <2>2, <3>2
  <2> QED BY <1>6, <2>1, <2>2
<1>8. delay' = delay \/ delay' = [delay EXCEPT ![n] = @ + 1]
  BY DEF HandleUnavailable, HandleRateLimiting, SlowDown, HandleMissingBlock
<1>9. delay' \in [Nodes -> Nat]
  <2>1. delay \in [Nodes -> Nat] /\ delay[n] + 1 \in Nat
    BY <1>1 DEF TypeOK
  <2>2. [delay EXCEPT ![n] = delay[n] + 1] \in [Nodes -> Nat]
    BY ONLY <2>1, n \in Nodes, ExceptTypes, Zenon
  <2> QED BY <1>8, <2>1, <2>2
<1> QED BY <1>4, <1>5, <1>7, <1>9

\* What is saved of the nodes is a record of each.
LEMMA RecordsAreSaved ==
  ASSUME TypeOK
  PROVE  Records \in [Nodes -> SavedNodeInfo]
<1>1. \A n \in Nodes : /\ status[n] \in NodeStatus /\ limit[n] \in 1..MaxConcurrent
                      /\ delay[n] \in Nat /\ earliest[n] \in 0..(MaxHeight + 1)
  BY DEF TypeOK
<1>2. \A n \in Nodes : [status |-> status[n], limit |-> limit[n], delay |-> delay[n],
                       earliest |-> earliest[n]] \in SavedNodeInfo
  BY <1>1 DEF SavedNodeInfo
<1> QED BY <1>2, Zenon DEF Records

\* A node nothing is known of has a record of the type that is saved.
LEMMA NewNodeIsSaved == NewNode \in SavedNodeInfo
<1>1. MaxConcurrent \in 1..MaxConcurrent /\ 0 \in 0..(MaxHeight + 1)
  BY ConstantsAssumption
<1> QED BY <1>1 DEF NewNode, SavedNodeInfo, NodeStatus, NoHeight

\* So has one that is given another status and another earliest height.
LEMMA ChangedRecordIsSaved ==
  ASSUME NEW r \in SavedNodeInfo, NEW s \in NodeStatus, NEW e \in 0..(MaxHeight + 1)
  PROVE  [r EXCEPT !.status = s, !.earliest = e] \in SavedNodeInfo
<1>1. [r EXCEPT !.status = s] \in SavedNodeInfo
  BY DEF SavedNodeInfo
<1>2. \A q \in SavedNodeInfo : [q EXCEPT !.earliest = e] \in SavedNodeInfo
  BY DEF SavedNodeInfo
<1> QED BY <1>1, <1>2

\* The process is down, and the file says nothing or something of each node.
LEMMA InitTypes ==
  ASSUME Init
  PROVE  TypeOK
<1>1. NewNode \in SavedNodeInfo
  BY NewNodeIsSaved
<1>2. ASSUME NEW s \in NodeStatus
      PROVE  [NewNode EXCEPT !.status = s, !.earliest = 1] \in SavedNodeInfo
  <2>1. 1 \in 0..(MaxHeight + 1)
    BY ConstantsAssumption
  <2> QED BY <1>1, <2>1, ChangedRecordIsSaved
<1>3. file \in [Nodes -> SavedNodeInfo \cup {NoRecord}]
  <2> DEFINE saved == {NoRecord} \cup {NewNode} \cup
           {[NewNode EXCEPT !.status = s, !.earliest = 1] : s \in NodeStatus \ {"UNKNOWN"}}
  <2>1. saved \subseteq SavedNodeInfo \cup {NoRecord}
    BY <1>1, <1>2
  <2>2. file \in [Nodes -> saved]
    BY DEF Init
  <2> HIDE DEF saved
  <2> QED BY <2>1, <2>2
<1>4. /\ status \in [Nodes -> NodeStatus] /\ limit \in [Nodes -> 1..MaxConcurrent]
      /\ delay \in [Nodes -> Nat] /\ earliest \in [Nodes -> 0..(MaxHeight + 1)]
      /\ age \in [Nodes -> Minutes \cup {NoError}]
  <2>1. MaxConcurrent \in 1..MaxConcurrent /\ NoHeight \in 0..(MaxHeight + 1)
    BY ConstantsAssumption DEF NoHeight
  <2>2. "UNKNOWN" \in NodeStatus
    BY DEF NodeStatus
  <2> QED BY <2>1, <2>2 DEF Init
<1>5. /\ timers \in [Nodes -> [Minutes -> Nat]] /\ checks \in [Nodes -> Nat]
      /\ active \in [Nodes -> [Paths -> Nat]] /\ running \in [Nodes -> [Paths -> Nat]]
  BY DEF Init, NoTimers, Idle
<1>6. /\ phase \in {"down", "loading", "up"} /\ exists \in BOOLEAN /\ unlisted \subseteq Nodes
      /\ saving \in BOOLEAN /\ faults \in 0..MaxFaults
  <2>1. MaxFaults \in 0..MaxFaults
    BY ConstantsAssumption
  <2> QED BY <2>1, Zenon DEF Init
<1> QED BY <1>3, <1>4, <1>5, <1>6 DEF TypeOK

\* A file gives every node back what was saved.
LEMMA LoadTypes ==
  ASSUME TypeOK, LoadNodeStatus
  PROVE  TypeOK'
<1> DEFINE record == [n \in Nodes |-> IF file[n] = NoRecord THEN NewNode ELSE file[n]]
<1>1. NewNode \in SavedNodeInfo
  BY NewNodeIsSaved
<1>2. \A n \in Nodes : record[n] \in SavedNodeInfo
  BY <1>1 DEF TypeOK
<1>3. /\ status' = [n \in Nodes |-> record[n].status]
      /\ limit' = [n \in Nodes |-> record[n].limit]
      /\ delay' = [n \in Nodes |-> record[n].delay]
      /\ earliest' = [n \in Nodes |-> record[n].earliest]
      /\ timers' = [n \in Nodes |-> TimersOf(record[n])]
      /\ checks' \in [Nodes -> Nat]
  BY DEF LoadNodeStatus
<1>4. \A n \in Nodes : TimersOf(record[n]) \in [Minutes -> Nat]
  BY DEF TimersOf, NoTimers
<1> HIDE DEF record
<1>5. /\ status' \in [Nodes -> NodeStatus] /\ limit' \in [Nodes -> 1..MaxConcurrent]
      /\ delay' \in [Nodes -> Nat] /\ earliest' \in [Nodes -> 0..(MaxHeight + 1)]
  BY <1>2, <1>3 DEF SavedNodeInfo
<1>6. timers' \in [Nodes -> [Minutes -> Nat]]
  BY <1>3, <1>4
<1>7. /\ phase' \in {"down", "loading", "up"} /\ unlisted' \subseteq Nodes
      /\ saving' \in BOOLEAN
  BY DEF LoadNodeStatus, TypeOK
<1>8. UNCHANGED <<age, active, running, exists, file, faults>>
  BY DEF LoadNodeStatus, queries
<1> QED BY <1>3, <1>5, <1>6, <1>7, <1>8 DEF TypeOK

\* A minute makes every error a minute older and every timer a minute shorter.
LEMMA TickTypes ==
  ASSUME TypeOK, Tick
  PROVE  TypeOK'
<1>1. timers' \in [Nodes -> [Minutes -> Nat]]
  BY DEF TypeOK, Tick, Minutes
<1>2. age' \in [Nodes -> Minutes \cup {NoError}]
  <2>1. \A n \in Nodes : age[n] \in Minutes \cup {NoError}
    BY DEF TypeOK
  <2> QED BY <2>1 DEF Tick, Minutes, NoError
<1> QED BY <1>1, <1>2 DEF TypeOK, Tick, node, queries, disk

\* Queries begin and end.
LEMMA QueryTypes ==
  ASSUME TypeOK, NEW n \in Nodes, NEW p \in Paths, StartQuery(n, p) \/ EndQuery(n, p)
  PROVE  /\ active' \in [Nodes -> [Paths -> Nat]]
         /\ running' \in [Nodes -> [Paths -> Nat]]
<1>1. active[n] \in [Paths -> Nat] /\ running[n] \in [Paths -> Nat]
      /\ active[n][p] \in Nat /\ running[n][p] \in Nat
  BY DEF TypeOK
<1>2. CASE StartQuery(n, p)
  BY <1>1, <1>2 DEF StartQuery, TypeOK
<1>3. CASE EndQuery(n, p)
  <2>1. running[n][p] - 1 \in Nat
    BY <1>1, <1>3 DEF EndQuery
  <2> QED BY <1>1, <1>3, <2>1 DEF EndQuery, TypeOK
<1> QED BY <1>2, <1>3

\* Every step, or none, keeps the types.
LEMMA StepTypes ==
  ASSUME TypeOK, [Next]_vars
  PROVE  TypeOK'
<1>1. CASE LoadNodeStatus
  BY <1>1, LoadTypes
<1>2. CASE FirstSave \/ SaveNodeStatus
  BY <1>2, RecordsAreSaved DEF FirstSave, SaveNodeStatus, node, waits, queries, TypeOK
<1>3. CASE Tick
  BY <1>3, TickTypes
<1>4. CASE Crash
  <2>1. /\ status' \in [Nodes -> NodeStatus] /\ limit' \in [Nodes -> 1..MaxConcurrent]
        /\ delay' \in [Nodes -> Nat] /\ earliest' \in [Nodes -> 0..(MaxHeight + 1)]
        /\ age' \in [Nodes -> Minutes \cup {NoError}]
    BY <1>4, ConstantsAssumption DEF Crash, NodeStatus, NoHeight
  <2>2. /\ timers' \in [Nodes -> [Minutes -> Nat]] /\ checks' \in [Nodes -> Nat]
        /\ active' \in [Nodes -> [Paths -> Nat]] /\ running' \in [Nodes -> [Paths -> Nat]]
    BY <1>4 DEF Crash, NoTimers, Idle
  <2>3. faults' \in 0..MaxFaults
    BY <1>4, ConstantsAssumption DEF Crash, Fault, TypeOK
  <2>4. /\ phase' = "down" /\ saving' = FALSE /\ unlisted' = {}
        /\ UNCHANGED <<exists, file>>
    BY <1>4 DEF Crash
  <2> QED BY <2>1, <2>2, <2>3, <2>4 DEF TypeOK
<1>5. ASSUME NEW n \in Nodes, TimerFires(n)
      PROVE  TypeOK'
  <2>1. timers[n][0] \in Nat /\ checks[n] \in Nat /\ 0 \in Minutes
    BY DEF TypeOK, Minutes
  <2>2. timers' \in [Nodes -> [Minutes -> Nat]] /\ checks' \in [Nodes -> Nat]
    BY <1>5, <2>1 DEF TimerFires, TypeOK
  <2> QED BY <1>5, <2>2 DEF TimerFires, node, queries, disk, TypeOK
<1>6. ASSUME NEW n \in Nodes, CheckSucceeds(n)
      PROVE  TypeOK'
  <2>1. checks' \in [Nodes -> Nat] /\ status' \in [Nodes -> NodeStatus]
    BY <1>6 DEF CheckSucceeds, TypeOK, NodeStatus
  <2>2. earliest' \in [Nodes -> 0..(MaxHeight + 1)]
    BY <1>6, ConstantsAssumption DEF CheckSucceeds, TypeOK, Heights
  <2> QED BY <1>6, <2>1, <2>2 DEF CheckSucceeds, queries, disk, TypeOK
<1>7. ASSUME NEW n \in Nodes, CheckFails(n)
      PROVE  TypeOK'
  <2>1. checks' \in [Nodes -> Nat] /\ faults' \in 0..MaxFaults
    BY <1>7, ConstantsAssumption DEF CheckFails, Fault, TypeOK
  <2> QED BY <1>7, <2>1, HandlersKeepTypes DEF CheckFails, queries, disk, TypeOK
<1>8. ASSUME NEW n \in Nodes, NEW p \in Paths, StartQuery(n, p)
      PROVE  TypeOK'
  BY <1>8, QueryTypes DEF StartQuery, node, waits, disk, TypeOK
<1>9. ASSUME NEW n \in Nodes, FetchLatestHeight(n) \/ \E h \in Heights : Fetch(n, h)
      PROVE  TypeOK'
  BY <1>8, <1>9 DEF FetchLatestHeight, Fetch, Paths, Status
<1>10. ASSUME NEW n \in Nodes, NEW p \in Paths, QuerySucceeds(n, p)
       PROVE  TypeOK'
  BY <1>10, QueryTypes DEF QuerySucceeds, node, waits, disk, TypeOK
<1>11. ASSUME NEW n \in Nodes, NEW p \in Paths, QueryFails(n, p)
       PROVE  TypeOK'
  <2>1. active' \in [Nodes -> [Paths -> Nat]] /\ running' \in [Nodes -> [Paths -> Nat]]
    BY <1>11, QueryTypes DEF QueryFails
  <2>2. age' \in [Nodes -> Minutes \cup {NoError}]
    BY <1>11 DEF QueryFails, TypeOK, Minutes
  <2>3. faults' \in 0..MaxFaults
    BY <1>11, ConstantsAssumption DEF QueryFails, Fault, TypeOK
  <2>4. /\ status' \in [Nodes -> NodeStatus] /\ timers' \in [Nodes -> [Minutes -> Nat]]
        /\ limit' \in [Nodes -> 1..MaxConcurrent] /\ delay' \in [Nodes -> Nat]
    BY <1>11, HandlersKeepTypes DEF QueryFails, BlockWasPruned, node, TypeOK
  <2>5. ASSUME p \in Heights, BlockWasPruned(n, p)
        PROVE  earliest' \in [Nodes -> 0..(MaxHeight + 1)]
    BY <2>5, ConstantsAssumption DEF BlockWasPruned, TypeOK, Heights
  <2>6. earliest' \in [Nodes -> 0..(MaxHeight + 1)]
    BY <1>11, <2>5 DEF QueryFails, node, TypeOK
  <2> QED BY <1>11, <2>1, <2>2, <2>3, <2>4, <2>6 DEF QueryFails, disk, TypeOK
<1>12. CASE UNCHANGED vars
  BY <1>12 DEF vars, node, waits, queries, disk, TypeOK
<1> QED BY <1>1, <1>2, <1>3, <1>4, <1>5, <1>6, <1>7, <1>9, <1>10, <1>11, <1>12 DEF Next

\* For any nodes, limits and numbers of errors the pool's state keeps its types; in
\* particular no node's limit of concurrent queries falls to zero, in memory or in the
\* status file (handleRateLimiting, nodeInfo.ts): a node in use can always be asked.
THEOREM TypeCorrect == Spec => []TypeOK
<1>1. Init => TypeOK
  BY InitTypes
<1>2. TypeOK /\ [Next]_vars => TypeOK'
  BY StepTypes
<1> QED BY <1>1, <1>2, PTL DEF Spec
------------------------------------------------------------------------------
\* How often each node is asked for a block.
AskedFor(h) == [m \in Nodes |-> running[m][h]]

\* With a block asked for once at a time, what is in activeQueries of a block is what the
\* node has to answer, and no node has more to answer than its limit ever was.
QueryInv ==
  Askers = 1 =>
    /\ \A n \in Nodes, h \in Heights : active[n][h] = running[n][h]
    /\ \A h \in Heights : SumFunctionOnSet(AskedFor(h), Nodes) <= 1
    /\ \A n \in Nodes : SumFunctionOnSet(running[n], Heights) <= MaxConcurrent

\* Sums over a whole function are sums over its domain.
LEMMA WholeSum == \A f : SumFunction(f) = SumFunctionOnSet(f, DOMAIN f)
BY DEF SumFunction, SumFunctionOnSet, FoldFunction

\* The heights are finitely many paths.
LEMMA PathsAre ==
  /\ IsFiniteSet(Heights) /\ IsFiniteSet(Paths) /\ IsFiniteSet(Nodes)
  /\ Heights \in SUBSET Paths /\ Status \in Paths /\ Status \notin Heights
  /\ MaxConcurrent \in Nat
<1>1. IsFiniteSet(Heights)
  BY ConstantsAssumption, FS_Interval DEF Heights
<1>2. IsFiniteSet(Paths)
  BY <1>1, FS_AddElement DEF Paths
<1> QED
  BY <1>1, <1>2, ConstantsAssumption DEF Paths, Heights, Status

\* What a node has to answer about blocks is no more than what is in its activeQueries.
LEMMA BlocksAreActive ==
  ASSUME TypeOK, NEW n \in Nodes, \A h \in Heights : active[n][h] = running[n][h]
  PROVE  /\ SumFunctionOnSet(running[n], Heights) <= Total(active[n])
         /\ SumFunctionOnSet(running[n], Heights) \in Nat /\ Total(active[n]) \in Nat
<1> DEFINE A == active[n]
           R == running[n]
<1>1. /\ A \in [Paths -> Nat] /\ R \in [Paths -> Nat]
  BY DEF TypeOK
<1>2. Total(A) = SumFunctionOnSet(A, Paths)
  BY <1>1, WholeSum DEF Total
<1>3. /\ \A x \in Paths : A[x] \in Nat /\ A[x] \in Int
      /\ \A x \in Heights : R[x] \in Nat /\ A[x] = R[x]
  BY <1>1, PathsAre
<1> HIDE DEF A, R
<1>4. SumFunctionOnSet(A, Paths)
        = SumFunctionOnSet(A, Heights) + SumFunctionOnSet(A, Paths \ Heights)
  BY ONLY <1>3, PathsAre, SumSplit, Zenon
<1>5. IsFiniteSet(Paths \ Heights) /\ \A x \in Paths \ Heights : A[x] \in Nat
  BY <1>3, PathsAre, FS_Subset
<1>6. SumFunctionOnSet(A, Paths \ Heights) \in Nat
  BY <1>5, SumTypes
<1>7. SumFunctionOnSet(A, Heights) = SumFunctionOnSet(R, Heights)
  BY ONLY <1>3, PathsAre, SumEqual, Zenon
<1>8. SumFunctionOnSet(R, Heights) \in Nat
  BY <1>3, PathsAre, SumTypes
<1>9. SumFunctionOnSet(running[n], Heights) = SumFunctionOnSet(R, Heights) /\ Total(active[n]) = Total(A)
  BY DEF A, R
<1> QED
  BY <1>2, <1>4, <1>6, <1>7, <1>8, <1>9

\* A node that has to answer about a block is the only one, and has to answer once.
LEMMA AskedOnce ==
  ASSUME TypeOK, NEW n \in Nodes, NEW h \in Heights, SumFunctionOnSet(AskedFor(h), Nodes) <= 1
  PROVE  running[n][h] \in {0, 1}
<1> DEFINE f == AskedFor(h)
<1>1. \A m \in Nodes : f[m] = running[m][h] /\ f[m] \in Nat /\ f[m] \in Int
  BY PathsAre DEF TypeOK, AskedFor
<1>2. SumFunctionOnSet(f, Nodes) <= 1
  OBVIOUS
<1> HIDE DEF f
<1>3. SumFunctionOnSet(f, Nodes) \in Nat
  BY <1>1, PathsAre, SumTypes
<1>4. f[n] <= SumFunctionOnSet(f, Nodes)
  BY ONLY <1>1, PathsAre, n \in Nodes, SumTerm, Zenon
<1> QED
  BY <1>1, <1>2, <1>3, <1>4

\* What a change of one number of queries does to the sums.
LEMMA SumsChange ==
  ASSUME TypeOK, NEW n \in Nodes, NEW p \in Paths, NEW v \in Nat,
         running' = [running EXCEPT ![n][p] = v]
  PROVE  /\ \A h \in Heights : h # p => SumFunctionOnSet(AskedFor(h)', Nodes) = SumFunctionOnSet(AskedFor(h), Nodes)
         /\ p \in Heights => SumFunctionOnSet(AskedFor(p)', Nodes)
                               = SumFunctionOnSet(AskedFor(p), Nodes) - running[n][p] + v
         /\ \A m \in Nodes : m # n => running'[m] = running[m]
         /\ p \notin Heights =>
              SumFunctionOnSet(running'[n], Heights) = SumFunctionOnSet(running[n], Heights)
         /\ p \in Heights =>
              SumFunctionOnSet(running'[n], Heights)
                = SumFunctionOnSet(running[n], Heights) - running[n][p] + v
<1>1. /\ \A m \in Nodes, q \in Paths : running[m][q] \in Int /\ running'[m][q] \in Int
      /\ \A m \in Nodes, q \in Paths : m # n \/ q # p => running'[m][q] = running[m][q]
      /\ \A m \in Nodes : m # n => running'[m] = running[m]
      /\ running'[n][p] = v
  BY DEF TypeOK
<1>2. \A h \in Heights, m \in Nodes :
        /\ AskedFor(h)[m] = running[m][h] /\ AskedFor(h)'[m] = running'[m][h]
        /\ AskedFor(h)[m] \in Int /\ AskedFor(h)'[m] \in Int
  BY <1>1, PathsAre DEF AskedFor
<1>3. ASSUME NEW h \in Heights, h # p
      PROVE  SumFunctionOnSet(AskedFor(h)', Nodes) = SumFunctionOnSet(AskedFor(h), Nodes)
  <2>1. AskedFor(h)' = AskedFor(h)
    BY <1>1, <1>3, PathsAre DEF AskedFor
  <2> QED
    BY <2>1
<1>4. ASSUME p \in Heights
      PROVE  SumFunctionOnSet(AskedFor(p)', Nodes)
               = SumFunctionOnSet(AskedFor(p), Nodes) - running[n][p] + v
  <2>1. PICK f, g : f = AskedFor(p) /\ g = AskedFor(p)'
    OBVIOUS
  <2>2. /\ \A m \in Nodes : f[m] \in Int /\ g[m] \in Int
        /\ \A m \in Nodes : m # n => g[m] = f[m]
        /\ f[n] = running[n][p] /\ g[n] = v
    BY <1>1, <1>2, <1>4, <2>1
  <2>3. SumFunctionOnSet(g, Nodes) = SumFunctionOnSet(f, Nodes) - f[n] + g[n]
    BY ONLY <2>2, PathsAre, n \in Nodes, SumUpdate
  <2> QED
    BY <2>1, <2>2, <2>3
<1>5. PICK r, s : r = running[n] /\ s = running'[n]
  OBVIOUS
<1>6. /\ \A q \in Heights : r[q] \in Int /\ s[q] \in Int
      /\ \A q \in Heights : q # p => s[q] = r[q]
      /\ r[p] = running[n][p] /\ s[p] = v
  BY <1>1, <1>5, PathsAre
<1>7. ASSUME p \notin Heights
      PROVE  SumFunctionOnSet(s, Heights) = SumFunctionOnSet(r, Heights)
  <2>1. \A q \in Heights : s[q] = r[q]
    BY <1>6, <1>7
  <2> QED
    BY ONLY <2>1, PathsAre, SumEqual, Zenon
<1>8. ASSUME p \in Heights
      PROVE  SumFunctionOnSet(s, Heights) = SumFunctionOnSet(r, Heights) - r[p] + s[p]
  BY ONLY <1>6, <1>8, PathsAre, SumUpdate
<1> QED
  BY <1>1, <1>3, <1>4, <1>5, <1>6, <1>7, <1>8

\* A block is asked for only of a node that may take one query more, and by nobody else.
LEMMA FetchKeepsQueries ==
  ASSUME TypeOK, QueryInv, NEW n \in Nodes, NEW h \in Heights, Fetch(n, h)
  PROVE  QueryInv'
<1> SUFFICES ASSUME Askers = 1 PROVE QueryInv'
  BY DEF QueryInv
<1>1. PICK r \in Nat, a \in Nat : r = running[n][h] /\ a = active[n][h] /\ a = r /\ h \in Paths
  BY PathsAre DEF TypeOK, QueryInv
<1>2. running' = [running EXCEPT ![n][h] = r + 1] /\ active' = [active EXCEPT ![n][h] = a + 1]
  BY <1>1 DEF Fetch, StartQuery
<1>3. \A m \in Nodes, k \in Heights : active'[m][k] = running'[m][k]
  BY <1>1, <1>2, PathsAre DEF TypeOK, QueryInv
<1>4. SumFunctionOnSet(AskedFor(h), Nodes) < 1
  <2>1. SumFunction(AskedFor(h)) < 1
    BY DEF Fetch, AskedFor
  <2>2. DOMAIN AskedFor(h) = Nodes
    BY DEF AskedFor
  <2> QED
    BY <2>1, <2>2, WholeSum
<1>5. /\ SumFunctionOnSet(running[n], Heights) <= Total(active[n])
      /\ SumFunctionOnSet(running[n], Heights) \in Nat /\ Total(active[n]) \in Nat
  BY BlocksAreActive DEF QueryInv
<1>6. limit[n] \in Nat /\ limit[n] <= MaxConcurrent /\ Total(active[n]) < limit[n] /\ MaxConcurrent \in Nat
  BY PathsAre DEF TypeOK, Fetch, IsAvailable
<1>7. SumFunctionOnSet(AskedFor(h), Nodes) \in Int
  <2>1. \A m \in Nodes : AskedFor(h)[m] \in Int
    BY PathsAre DEF AskedFor, TypeOK
  <2> QED
    BY <2>1, PathsAre, SumTypes
<1>8. /\ \A k \in Heights : k # h => SumFunctionOnSet(AskedFor(k)', Nodes) = SumFunctionOnSet(AskedFor(k), Nodes)
      /\ SumFunctionOnSet(AskedFor(h)', Nodes) = SumFunctionOnSet(AskedFor(h), Nodes) - r + (r + 1)
      /\ \A m \in Nodes : m # n => running'[m] = running[m]
      /\ SumFunctionOnSet(running'[n], Heights) = SumFunctionOnSet(running[n], Heights) - r + (r + 1)
  <2>1. PICK v \in Nat : v = r + 1
    BY <1>1
  <2>2. running' = [running EXCEPT ![n][h] = v] /\ h \in Paths /\ n \in Nodes
    BY <1>1, <1>2, <2>1
  <2>3. /\ \A k \in Heights : k # h => SumFunctionOnSet(AskedFor(k)', Nodes) = SumFunctionOnSet(AskedFor(k), Nodes)
        /\ \A m \in Nodes : m # n => running'[m] = running[m]
    BY ONLY <2>2, TypeOK, SumsChange
  <2>4. SumFunctionOnSet(AskedFor(h)', Nodes) = SumFunctionOnSet(AskedFor(h), Nodes) - running[n][h] + v
    BY ONLY <2>2, h \in Heights, TypeOK, SumsChange
  <2>5. SumFunctionOnSet(running'[n], Heights) = SumFunctionOnSet(running[n], Heights) - running[n][h] + v
    BY ONLY <2>2, h \in Heights, TypeOK, SumsChange
  <2> QED
    BY ONLY <1>1, <2>1, <2>3, <2>4, <2>5
<1>9. \A k \in Heights : SumFunctionOnSet(AskedFor(k)', Nodes) <= 1
  BY <1>4, <1>7, <1>8 DEF QueryInv
<1>10. \A m \in Nodes : SumFunctionOnSet(running'[m], Heights) <= MaxConcurrent
  BY <1>5, <1>6, <1>8 DEF QueryInv
<1> QED
  BY <1>3, <1>9, <1>10 DEF QueryInv

\* Asking for the latest height adds nothing to what is asked about blocks.
LEMMA LatestKeepsQueries ==
  ASSUME TypeOK, QueryInv, NEW n \in Nodes, FetchLatestHeight(n)
  PROVE  QueryInv'
<1> SUFFICES ASSUME Askers = 1 PROVE QueryInv'
  BY DEF QueryInv
<1>1. PICK r \in Nat, a \in Nat : r = running[n][Status] /\ a = active[n][Status]
  BY PathsAre DEF TypeOK
<1>2. running' = [running EXCEPT ![n][Status] = r + 1] /\ active' = [active EXCEPT ![n][Status] = a + 1]
  BY <1>1 DEF FetchLatestHeight, StartQuery
<1>3. \A m \in Nodes, k \in Heights : active'[m][k] = running'[m][k]
  BY <1>2, PathsAre DEF TypeOK, QueryInv
<1>4. /\ \A k \in Heights : SumFunctionOnSet(AskedFor(k)', Nodes) = SumFunctionOnSet(AskedFor(k), Nodes)
      /\ \A m \in Nodes : m # n => running'[m] = running[m]
      /\ SumFunctionOnSet(running'[n], Heights) = SumFunctionOnSet(running[n], Heights)
  <2>1. PICK v \in Nat : v = r + 1
    BY <1>1
  <2>2. running' = [running EXCEPT ![n][Status] = v] /\ n \in Nodes
    BY <1>1, <1>2, <2>1
  <2>3. \A k \in Heights : k # Status
    BY PathsAre
  <2> QED
    BY ONLY <2>1, <2>2, <2>3, PathsAre, TypeOK, SumsChange
<1> QED
  BY <1>3, <1>4 DEF QueryInv

\* The end of a query takes the block's only entry out of activeQueries.
LEMMA EndKeepsQueries ==
  ASSUME TypeOK, QueryInv, NEW n \in Nodes, NEW p \in Paths, EndQuery(n, p)
  PROVE  QueryInv'
<1> SUFFICES ASSUME Askers = 1 PROVE QueryInv'
  BY DEF QueryInv
<1>1. PICK r \in Nat : r = running[n][p] /\ r > 0
  BY DEF TypeOK, EndQuery
<1>2. PICK v \in Nat : v = r - 1
  BY <1>1
<1>3. running' = [running EXCEPT ![n][p] = v] /\ active' = [active EXCEPT ![n][p] = 0]
  BY <1>1, <1>2 DEF EndQuery
<1>4. p \in Heights => v = 0
  BY <1>1, <1>2, AskedOnce DEF QueryInv
<1>5. ASSUME NEW m \in Nodes, NEW k \in Heights PROVE active'[m][k] = running'[m][k]
  <2>1. active[m][k] = running[m][k] /\ k \in Paths
    BY PathsAre DEF QueryInv
  <2> QED
    BY <1>3, <1>4, <2>1 DEF TypeOK
<1>6. /\ \A h \in Heights : SumFunctionOnSet(AskedFor(h), Nodes) \in Int
      /\ \A m \in Nodes : SumFunctionOnSet(running[m], Heights) \in Int
  <2>1. ASSUME NEW h \in Heights PROVE SumFunctionOnSet(AskedFor(h), Nodes) \in Int
    <3>1. \A m \in Nodes : AskedFor(h)[m] \in Int
      BY PathsAre DEF AskedFor, TypeOK
    <3> QED
      BY <3>1, PathsAre, SumTypes
  <2>2. ASSUME NEW m \in Nodes PROVE SumFunctionOnSet(running[m], Heights) \in Int
    <3>1. \A h \in Heights : running[m][h] \in Int
      BY PathsAre DEF TypeOK
    <3> QED
      BY <3>1, PathsAre, SumTypes
  <2> QED
    BY <2>1, <2>2
<1>7. /\ \A h \in Heights : h # p => SumFunctionOnSet(AskedFor(h)', Nodes) = SumFunctionOnSet(AskedFor(h), Nodes)
      /\ p \in Heights => SumFunctionOnSet(AskedFor(p)', Nodes) = SumFunctionOnSet(AskedFor(p), Nodes) - r + v
      /\ \A m \in Nodes : m # n => running'[m] = running[m]
      /\ p \notin Heights => SumFunctionOnSet(running'[n], Heights) = SumFunctionOnSet(running[n], Heights)
      /\ p \in Heights =>
           SumFunctionOnSet(running'[n], Heights) = SumFunctionOnSet(running[n], Heights) - r + v
  <2>1. n \in Nodes /\ p \in Paths /\ TypeOK
    OBVIOUS
  <2>2. /\ \A h \in Heights : h # p => SumFunctionOnSet(AskedFor(h)', Nodes) = SumFunctionOnSet(AskedFor(h), Nodes)
        /\ \A m \in Nodes : m # n => running'[m] = running[m]
    BY ONLY <1>3, <2>1, SumsChange
  <2>3. p \in Heights =>
          SumFunctionOnSet(AskedFor(p)', Nodes) = SumFunctionOnSet(AskedFor(p), Nodes) - running[n][p] + v
    BY ONLY <1>3, <2>1, SumsChange
  <2>4. /\ p \notin Heights => SumFunctionOnSet(running'[n], Heights) = SumFunctionOnSet(running[n], Heights)
        /\ p \in Heights =>
             SumFunctionOnSet(running'[n], Heights) = SumFunctionOnSet(running[n], Heights) - running[n][p] + v
    BY ONLY <1>3, <2>1, SumsChange
  <2> QED
    BY ONLY <1>1, <2>2, <2>3, <2>4
<1>8. ASSUME NEW h \in Heights PROVE SumFunctionOnSet(AskedFor(h)', Nodes) <= 1
  <2>1. SumFunctionOnSet(AskedFor(h), Nodes) <= 1
    BY DEF QueryInv
  <2> QED
    BY <1>1, <1>2, <1>6, <1>7, <2>1
<1>9. ASSUME NEW m \in Nodes PROVE SumFunctionOnSet(running'[m], Heights) <= MaxConcurrent
  <2>1. SumFunctionOnSet(running[m], Heights) <= MaxConcurrent
    BY DEF QueryInv
  <2> QED
    BY <1>1, <1>2, <1>6, <1>7, <2>1, PathsAre
<1> QED
  BY <1>5, <1>8, <1>9 DEF QueryInv

\* Without queries there are none too many.
LEMMA NoQueries ==
  ASSUME NEW none, none = [n \in Nodes |-> Idle]
  PROVE  /\ \A h \in Heights : SumFunctionOnSet([m \in Nodes |-> none[m][h]], Nodes) <= 1
         /\ \A n \in Nodes : SumFunctionOnSet(none[n], Heights) <= MaxConcurrent
<1>1. \A n \in Nodes, h \in Heights : none[n][h] = 0
  BY PathsAre DEF Idle
<1>2. ASSUME NEW S, IsFiniteSet(S), NEW f, \A x \in S : f[x] = 0
      PROVE  SumFunctionOnSet(f, S) = 0
  <2>1. SumFunctionOnSet(f, S) = 0 * Cardinality(S)
    BY ONLY <1>2, 0 \in Int, SumConstant, Zenon
  <2>2. Cardinality(S) \in Nat
    BY <1>2, FS_CardinalityType
  <2> QED
    BY <2>1, <2>2
<1>3. ASSUME NEW h \in Heights PROVE SumFunctionOnSet([m \in Nodes |-> none[m][h]], Nodes) <= 1
  <2>1. PICK f : f = [m \in Nodes |-> none[m][h]]
    OBVIOUS
  <2>2. \A m \in Nodes : f[m] = 0
    BY <1>1, <2>1
  <2>3. SumFunctionOnSet(f, Nodes) = 0
    BY <1>2, <2>2, PathsAre
  <2> QED
    BY <2>1, <2>3
<1>4. ASSUME NEW n \in Nodes PROVE SumFunctionOnSet(none[n], Heights) <= MaxConcurrent
  <2>1. SumFunctionOnSet(none[n], Heights) = 0
    BY <1>1, <1>2, PathsAre
  <2> QED
    BY <2>1, PathsAre
<1> QED
  BY <1>3, <1>4

\* Every step, or none, keeps the queries within the limit.
LEMMA StepKeepsQueries ==
  ASSUME TypeOK, QueryInv, [Next]_vars
  PROVE  QueryInv'
<1>1. CASE UNCHANGED queries
  BY <1>1 DEF queries, QueryInv, AskedFor
<1>2. ASSUME NEW n \in Nodes, NEW h \in Heights, Fetch(n, h)
      PROVE  QueryInv'
  BY <1>2, FetchKeepsQueries
<1>3. ASSUME NEW n \in Nodes, FetchLatestHeight(n)
      PROVE  QueryInv'
  BY <1>3, LatestKeepsQueries
<1>4. ASSUME NEW n \in Nodes, NEW p \in Paths, QuerySucceeds(n, p) \/ QueryFails(n, p)
      PROVE  QueryInv'
  BY <1>4, EndKeepsQueries DEF QuerySucceeds, QueryFails
<1>5. CASE Crash
  <2>1. running' = [n \in Nodes |-> Idle] /\ active' = running'
    BY <1>5 DEF Crash
  <2> QED
    BY <2>1, NoQueries DEF QueryInv, AskedFor
<1>6. CASE LoadNodeStatus \/ FirstSave \/ SaveNodeStatus \/ Tick \/ UNCHANGED vars
  BY <1>1, <1>6 DEF LoadNodeStatus, FirstSave, SaveNodeStatus, Tick, vars
<1>7. ASSUME NEW n \in Nodes, TimerFires(n) \/ CheckSucceeds(n) \/ CheckFails(n)
      PROVE  QueryInv'
  BY <1>1, <1>7 DEF TimerFires, CheckSucceeds, CheckFails
<1> QED BY <1>2, <1>3, <1>4, <1>5, <1>6, <1>7 DEF Next

\* For any nodes and heights, and whatever queries fail, time out or are interrupted by a
\* restart: as long as no block is asked for twice at a time, no node has to answer more
\* block requests than concurrentNodeQuery (fetch, nodeAccessor.ts; query, nodeInfo.ts).
THEOREM QueriesAreLimited == Spec => []ConcurrencyIsLimited
<1>1. Init => TypeOK /\ QueryInv
  <2> SUFFICES ASSUME Init PROVE TypeOK /\ QueryInv
    OBVIOUS
  <2>1. running = [n \in Nodes |-> Idle] /\ active = running
    BY DEF Init
  <2> QED
    BY <2>1, InitTypes, NoQueries DEF QueryInv, AskedFor
<1>2. TypeOK /\ QueryInv /\ [Next]_vars => (TypeOK /\ QueryInv)'
  BY StepTypes, StepKeepsQueries
<1>3. QueryInv => ConcurrencyIsLimited
  BY DEF QueryInv, ConcurrencyIsLimited
<1> QED BY <1>1, <1>2, <1>3, PTL DEF Spec
==============================================================================
