------------------------------- MODULE ApiCache -------------------------------
(***************************************************************************)
(* The response cache of the api, for one key: requests are answered from  *)
(* the cache, or wait for the one refresh that is under way                *)
(* (api/src/caching/helpers.ts, memoryCacheEngine.ts).                      *)
(*                                                                         *)
(* Keys share nothing.  Data stands for the second in which the service    *)
(* behind the key (a database, a node, a web page) produced it.            *)
(***************************************************************************)
EXTENDS Integers, Sequences, FiniteSets

CONSTANTS
  Requests,     \* requests being handled at a time
  Seconds,      \* ttlInSeconds
  MaxTime,      \* bound: seconds in a behaviour
  MaxRefreshes  \* bound: refreshes in a behaviour

ASSUME ConstantsAssumption == Seconds \in Nat \ {0} /\ MaxTime \in Nat /\ MaxRefreshes \in Nat

Nothing == -1   \* undefined
NoRefresh == 0
Data == 0..MaxTime

VARIABLES
  keepData,   \* option of the key: its entry has no timeout
  now,
  cached,     \* the entry of the key: when it was stored, and its data
  refreshes,  \* the refreshes begun, by number
  pending,    \* pendingRequests[key]
  waiting,    \* the refresh a request waits for
  answer,     \* history: the last answer given
  newest      \* history: the newest data in any answer

vars == <<keepData, now, cached, refreshes, pending, waiting, answer, newest>>

\* A refresh asks, its data is on the way, the handlers then and catch have
\* run, and at last finally.
Refresh == [phase : {"asking", "arriving", "settled", "done"}, data : Data \cup {Nothing}]

TypeOK ==
  /\ keepData \in BOOLEAN /\ now \in 0..MaxTime
  /\ cached \in [date : 0..MaxTime, data : Data \cup {Nothing}]
  /\ refreshes \in Seq(Refresh)
  /\ pending \in 0..Len(refreshes)
  /\ waiting \in [Requests -> 0..Len(refreshes)]
  /\ answer \in Data \cup {Nothing} /\ newest \in Data \cup {Nothing}

Init ==
  /\ keepData \in BOOLEAN /\ now = 0
  /\ cached = [date |-> 0, data |-> Nothing]
  /\ refreshes = <<>> /\ pending = NoRefresh
  /\ waiting = [r \in Requests |-> NoRefresh]
  /\ answer = Nothing /\ newest = Nothing

------------------------------------------------------------------------------
Expired == now - cached.date > Seconds

\* cachedObject: without keepData the memory cache forgets an entry as its
\* lifetime ends, a second before differenceInSeconds exceeds it.
Found == cached.data # Nothing /\ (keepData \/ now - cached.date < Seconds)

\* Mutant of MustRefresh: every request that finds nothing asks the service.
MustRefreshAlways == ~Found \/ Expired

MustRefresh == (~Found \/ Expired) /\ pending = NoRefresh

Answer(data) ==
  /\ answer' = data
  /\ newest' = IF data > newest THEN data ELSE newest

\* The refresh under way once the request has looked.
Current == IF MustRefresh THEN Len(refreshes) + 1 ELSE pending

\* A request begins the refresh, is answered with what was cached, be it
\* expired, or waits for the refresh under way.
Call(r) ==
  /\ waiting[r] = NoRefresh
  /\ pending' = Current /\ Current <= MaxRefreshes
  /\ refreshes' = IF MustRefresh THEN Append(refreshes, [phase |-> "asking", data |-> Nothing])
                  ELSE refreshes
  /\ IF Found THEN Answer(cached.data) /\ UNCHANGED waiting
     ELSE waiting' = [waiting EXCEPT ![r] = Current] /\ UNCHANGED <<answer, newest>>
  /\ UNCHANGED <<keepData, now, cached>>

\* The service behind the key produces its data.
Produce(n) ==
  /\ refreshes[n].phase = "asking"
  /\ refreshes' = [refreshes EXCEPT ![n] = [phase |-> "arriving", data |-> now]]
  /\ UNCHANGED <<keepData, now, cached, pending, waiting, answer, newest>>

\* then: the data is stored.
Store(n) ==
  /\ refreshes[n].phase = "arriving"
  /\ refreshes' = [refreshes EXCEPT ![n].phase = "settled"]
  /\ cached' = [date |-> now, data |-> refreshes[n].data]
  /\ UNCHANGED <<keepData, now, pending, waiting, answer, newest>>

\* catch: the error is logged, and those who wait get nothing.
Fail(n) ==
  /\ refreshes[n].phase \in {"asking", "arriving"}
  /\ refreshes' = [refreshes EXCEPT ![n] = [phase |-> "settled", data |-> Nothing]]
  /\ UNCHANGED <<keepData, now, cached, pending, waiting, answer, newest>>

\* finally: the key has no pending request.
Finally(n) ==
  /\ refreshes[n].phase = "settled"
  /\ refreshes' = [refreshes EXCEPT ![n].phase = "done"]
  /\ pending' = NoRefresh
  /\ UNCHANGED <<keepData, now, cached, waiting, answer, newest>>

\* Mutant of Resume: a waiting request looks into the cache again.
ResumeWhenFound(r) ==
  /\ waiting[r] # NoRefresh /\ Found
  /\ Answer(cached.data)
  /\ waiting' = [waiting EXCEPT ![r] = NoRefresh]
  /\ UNCHANGED <<keepData, now, cached, refreshes, pending>>

\* A request gets what the refresh it has waited for returned.
Resume(r) ==
  /\ waiting[r] # NoRefresh /\ refreshes[waiting[r]].phase = "done"
  /\ Answer(refreshes[waiting[r]].data)
  /\ waiting' = [waiting EXCEPT ![r] = NoRefresh]
  /\ UNCHANGED <<keepData, now, cached, refreshes, pending>>

\* Time passes when no handler is about to run.
Settled(n) == refreshes[n].phase = "settled"
Ready(r) == waiting[r] # NoRefresh /\ refreshes[waiting[r]].phase = "done"
Tick ==
  /\ now < MaxTime /\ now' = now + 1
  /\ \A n \in 1..Len(refreshes) : ~Settled(n)
  /\ \A r \in Requests : ~Ready(r)
  /\ UNCHANGED <<keepData, cached, refreshes, pending, waiting, answer, newest>>

RefreshStep == \E n \in 1..Len(refreshes) : Produce(n) \/ Store(n) \/ Fail(n) \/ Finally(n)

Next ==
  \/ \E r \in Requests : Call(r) \/ Resume(r)
  \/ RefreshStep
  \/ Tick

\* What a refresh asks for answers or fails in the end; handlers run.
Fairness == WF_vars(RefreshStep) /\ \A r \in Requests : WF_vars(Resume(r))

Spec == Init /\ [][Next]_vars /\ Fairness
------------------------------------------------------------------------------
\* However many requests find nothing or something expired, the service behind
\* a key is asked once at a time: the slot of pendingRequests stands for every
\* refresh that has not run to its end.
OneRefreshAtATime ==
  \A m, n \in 1..Len(refreshes) :
    refreshes[m].phase # "done" /\ refreshes[n].phase # "done" => m = n

\* An answer is never older than one given before, to whichever request, by
\* whichever way: from the cache, late from the cache, or from a refresh.
AnswersNeverGoBack == answer \in {Nothing, newest}

\* A request that waits is answered, also when the refresh has failed.
RequestsAreAnswered == \A r \in Requests : waiting[r] # NoRefresh ~> waiting[r] = NoRefresh
==============================================================================
