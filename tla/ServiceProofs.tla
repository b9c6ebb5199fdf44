----------------------------- MODULE ServiceProofs -----------------------------
(* The two services that keep something between requests: the api's response  *)
(* cache, and the provider proxy with the pages that are its clients. Their   *)
(* specifications share no variable; this module holds the proofs of both.    *)
(*                                                                            *)
(* The cache, for any requests, time to live and number of refreshes: one     *)
(* refresh at a time, and answers that never go back. The order of the answers *)
(* depends on the slot of the pending request, and on handlers running without *)
(* delay.                                                                     *)
(*                                                                            *)
(* The proxy, for any urls, connections, sockets, frames, selections and keys: *)
(* no socket is left open behind its client, keys reach the shell they were   *)
(* typed for, a shell page shows the loss of its shell, a saved file is whole. *)
EXTENDS ApiCache, ProxyClients, SequenceTheorems, TLAPS

(* The slot holds the refresh that has not run to its end, if there is one.   *)
SlotInv ==
  /\ \A n \in 1..Len(refreshes) : refreshes[n].phase # "done" => pending = n
  /\ pending # NoRefresh => refreshes[pending].phase # "done"

(* What is cached is as new as any answer, and a refresh brings nothing older. *)
OrderInv ==
  /\ newest <= cached.data /\ cached.data <= now
  /\ \A n \in 1..Len(refreshes) :
       /\ refreshes[n].data <= now
       /\ refreshes[n].phase = "arriving" => cached.data <= refreshes[n].data

(* Data that has just arrived is the cached one until all have it.            *)
JustCached(n) == cached = [date |-> now, data |-> refreshes[n].data]
ArrivalInv ==
  /\ \A n \in 1..Len(refreshes) :
       refreshes[n].phase = "settled" /\ refreshes[n].data # Nothing => JustCached(n)
  /\ \A r \in Requests :
       Ready(r) /\ refreshes[waiting[r]].data # Nothing
         => pending = NoRefresh /\ JustCached(waiting[r])

IInv == TypeOK /\ SlotInv /\ OrderInv /\ ArrivalInv /\ AnswersNeverGoBack
------------------------------------------------------------------------------
(* Nothing is cached, asked or answered at first.                             *)
LEMMA InitInv == Init => IInv
<1> SUFFICES ASSUME Init PROVE IInv
  OBVIOUS
<1> USE ConstantsAssumption DEF Init, NoRefresh, Nothing
<1>1. Len(refreshes) = 0 /\ refreshes \in Seq(Refresh) /\ 1..0 = {}
  OBVIOUS
<1>2. TypeOK
  BY <1>1 DEF TypeOK, Data
<1>3. SlotInv /\ OrderInv
  BY <1>1 DEF SlotInv, OrderInv
<1>4. ArrivalInv
  BY <1>1 DEF ArrivalInv, Ready
<1>5. AnswersNeverGoBack
  BY DEF AnswersNeverGoBack
<1>6. QED
  BY <1>2, <1>3, <1>4, <1>5 DEF IInv

(* The types of what the steps use.                                           *)
LEMMA IInvTypes ==
  ASSUME IInv
  PROVE  /\ now \in Nat /\ MaxTime \in Nat /\ Seconds \in Nat \ {0} /\ now <= MaxTime
         /\ refreshes \in Seq(Refresh) /\ Len(refreshes) \in Nat
         /\ \A n \in 1..Len(refreshes) : refreshes[n] \in Refresh
         /\ pending \in 0..Len(refreshes)
         /\ \A r \in Requests : waiting[r] \in 0..Len(refreshes)
         /\ cached \in [date : 0..MaxTime, data : Data \cup {Nothing}]
         /\ newest \in Data \cup {Nothing} /\ answer \in Data \cup {Nothing}
BY ConstantsAssumption DEF IInv, TypeOK

(* The new state of one refresh, the others' unchanged.                       *)
LEMMA OneChanges ==
  ASSUME IInv, NEW n \in 1..Len(refreshes), NEW r \in Refresh,
         refreshes' = [refreshes EXCEPT ![n] = r]
  PROVE  /\ refreshes' \in Seq(Refresh) /\ Len(refreshes') = Len(refreshes)
         /\ refreshes'[n] = r
         /\ \A m \in 1..Len(refreshes) : m # n => refreshes'[m] = refreshes[m]
BY IInvTypes

(* An answer from data that is as new as any answer so far.                   *)
LEMMA AnswerInOrder ==
  ASSUME IInv, NEW data \in {cached.data, Nothing}, Answer(data)
  PROVE  /\ answer' \in Data \cup {Nothing} /\ newest' \in Data \cup {Nothing}
         /\ newest' <= cached.data /\ answer' \in {Nothing, newest'}
BY IInvTypes DEF Answer, IInv, OrderInv, Data, Nothing

(* A request: the refresh it begins is the only one.                          *)
LEMMA CallStep == ASSUME IInv, NEW r \in Requests, Call(r) PROVE IInv'
<1> USE DEF NoRefresh
<1>1. /\ UNCHANGED <<keepData, now, cached>> /\ pending' = Current /\ waiting[r] = NoRefresh
      /\ refreshes' = IF MustRefresh THEN Append(refreshes, [phase |-> "asking", data |-> Nothing])
                      ELSE refreshes
  BY DEF Call
<1>2. /\ answer' \in Data \cup {Nothing} /\ newest' \in Data \cup {Nothing}
      /\ newest' <= cached.data /\ answer' \in {Nothing, newest'}
  <2>1. CASE Found
    BY <2>1, AnswerInOrder DEF Call
  <2>2. CASE ~Found
    BY <2>2, IInvTypes DEF Call, IInv, OrderInv, AnswersNeverGoBack
  <2>3. QED
    BY <2>1, <2>2
<1>3. \/ waiting' = waiting
      \/ ~Found /\ Current # NoRefresh /\ waiting' = [waiting EXCEPT ![r] = Current]
  BY IInvTypes DEF Call, Current, MustRefresh
<1>4. CASE MustRefresh
  <2> DEFINE new == Len(refreshes) + 1
  <2>1. pending = NoRefresh /\ pending' = new
    BY <1>1, <1>4 DEF MustRefresh, Current
  <2>2. /\ refreshes' \in Seq(Refresh) /\ Len(refreshes') = new
        /\ refreshes'[new] = [phase |-> "asking", data |-> Nothing]
        /\ \A n \in 1..Len(refreshes) : refreshes'[n] = refreshes[n]
    BY <1>1, <1>4, IInvTypes DEF Refresh
  <2>3. 1..new = (1..Len(refreshes)) \cup {new} /\ new \notin 1..Len(refreshes) /\ new # NoRefresh
    BY IInvTypes
  <2>4. \A n \in 1..Len(refreshes) : refreshes[n].phase = "done"
    BY <2>1 DEF IInv, SlotInv
  <2>5. waiting' \in [Requests -> 0..new]
    BY <1>3, <1>4, <2>3, IInvTypes DEF Current, IInv, TypeOK
  <2>6. TypeOK'
    <3>1. pending' \in 0..Len(refreshes')
      BY <2>1, <2>2, IInvTypes
    <3>2. QED
      BY ONLY IInv, <1>1, <1>2, <2>2, <2>5, <3>1 DEF IInv, TypeOK
  <2>7. SlotInv'
    BY <2>1, <2>2, <2>3, <2>4 DEF SlotInv
  <2>8. OrderInv'
    BY <1>1, <1>2, <2>2, <2>3, IInvTypes DEF IInv, OrderInv, Nothing
  <2>9. ArrivalInv'
    <3>1. ~(cached.date = now /\ cached.data # Nothing)
      BY <1>4, IInvTypes DEF MustRefresh, Found, Expired
    <3>2. \A q \in Requests : ~(Ready(q) /\ refreshes[waiting[q]].data # Nothing)
      BY <3>1, IInvTypes DEF IInv, ArrivalInv, JustCached
    <3>3. ASSUME NEW q \in Requests, Ready(q)' PROVE Ready(q) /\ refreshes'[waiting'[q]] = refreshes[waiting[q]]
      <4>1. waiting'[q] # new
        BY <3>3, <2>2 DEF Ready
      <4>2. waiting'[q] = waiting[q]
        BY <4>1, <1>3, <1>4, IInvTypes DEF Current, IInv, TypeOK
      <4>3. waiting[q] \in 1..Len(refreshes)
        BY <4>2, <3>3, IInvTypes DEF Ready
      <4>4. QED
        BY <3>3, <4>2, <4>3, <2>2 DEF Ready
    <3>4. QED
      BY <3>2, <3>3, <2>2, <2>3, <2>4 DEF ArrivalInv
  <2>10. QED
    BY <2>6, <2>7, <2>8, <2>9, <1>2 DEF IInv, AnswersNeverGoBack
<1>5. CASE ~MustRefresh
  <2>1. pending' = pending /\ refreshes' = refreshes
    BY <1>1, <1>5 DEF Current
  <2>2. waiting' \in [Requests -> 0..Len(refreshes)]
    BY <1>3, <1>5, IInvTypes DEF Current, IInv, TypeOK
  <2>3. TypeOK'
    BY ONLY IInv, <1>1, <1>2, <2>1, <2>2 DEF IInv, TypeOK
  <2>4. SlotInv'
    BY <2>1 DEF IInv, SlotInv
  <2>5. OrderInv'
    BY <1>1, <1>2, <2>1 DEF IInv, OrderInv
  <2>6. ArrivalInv'
    <3>1. ASSUME NEW q \in Requests, Ready(q)' PROVE Ready(q) /\ waiting'[q] = waiting[q]
      <4>1. waiting'[q] # Current \/ Current = NoRefresh
        BY <3>1, <2>1, <1>5, IInvTypes DEF Ready, IInv, SlotInv, Current
      <4>2. waiting'[q] = waiting[q]
        BY <4>1, <1>3, IInvTypes DEF IInv, TypeOK
      <4>3. QED
        BY <3>1, <4>2, <2>1 DEF Ready
    <3>2. QED
      BY <3>1, <1>1, <2>1 DEF IInv, ArrivalInv, JustCached
  <2>7. QED
    BY <2>3, <2>4, <2>5, <2>6, <1>2 DEF IInv, AnswersNeverGoBack
<1>6. QED
  BY <1>4, <1>5

(* The one refresh under way: none has its data, and none waits on another.   *)
LEMMA UnderWay ==
  ASSUME IInv, NEW n \in 1..Len(refreshes), refreshes[n].phase # "done"
  PROVE  /\ pending = n
         /\ \A m \in 1..Len(refreshes) : m # n => refreshes[m].phase = "done"
         /\ \A r \in Requests : ~(Ready(r) /\ refreshes[waiting[r]].data # Nothing)
BY IInvTypes DEF IInv, SlotInv, ArrivalInv, NoRefresh

(* The service produces data, newer than any.                                 *)
LEMMA ProduceStep == ASSUME IInv, NEW n \in 1..Len(refreshes), Produce(n) PROVE IInv'
<1> DEFINE new == [phase |-> "arriving", data |-> now]
<1>1. /\ refreshes' = [refreshes EXCEPT ![n] = new] /\ refreshes[n].phase = "asking"
      /\ UNCHANGED <<keepData, now, cached, pending, waiting, answer, newest>>
  BY DEF Produce
<1>2. new \in Refresh
  BY IInvTypes DEF Refresh, Data
<1>3. /\ refreshes' \in Seq(Refresh) /\ Len(refreshes') = Len(refreshes) /\ refreshes'[n] = new
      /\ \A m \in 1..Len(refreshes) : m # n => refreshes'[m] = refreshes[m]
  BY <1>1, <1>2, OneChanges
<1>4. TypeOK'
  BY ONLY IInv, <1>1, <1>3 DEF IInv, TypeOK
<1>5. SlotInv'
  BY <1>1, <1>3, IInvTypes, UnderWay DEF SlotInv
<1>6. OrderInv'
  BY <1>1, <1>3, IInvTypes DEF IInv, OrderInv
<1>7. ArrivalInv'
  <2>1. \A m \in 1..Len(refreshes) : refreshes'[m].phase # "settled"
    BY <1>1, <1>3, UnderWay
  <2>2. ASSUME NEW r \in Requests, Ready(r)' PROVE Ready(r) /\ refreshes'[waiting[r]] = refreshes[waiting[r]]
    BY <2>2, <1>1, <1>3, IInvTypes DEF Ready, NoRefresh
  <2>3. QED
    BY <2>1, <2>2, <1>1, <1>3, UnderWay DEF ArrivalInv
<1>8. QED
  BY <1>1, <1>4, <1>5, <1>6, <1>7 DEF IInv, AnswersNeverGoBack

(* What has arrived is stored.                                                *)
LEMMA StoreStep == ASSUME IInv, NEW n \in 1..Len(refreshes), Store(n) PROVE IInv'
<1> DEFINE new == [refreshes[n] EXCEPT !.phase = "settled"]
<1>1. /\ refreshes' = [refreshes EXCEPT ![n] = new] /\ refreshes[n].phase = "arriving"
      /\ cached' = [date |-> now, data |-> refreshes[n].data]
      /\ UNCHANGED <<keepData, now, pending, waiting, answer, newest>>
  BY IInvTypes DEF Store
<1>2. new \in Refresh /\ new.data = refreshes[n].data /\ new.phase = "settled"
  BY IInvTypes DEF Refresh
<1> HIDE DEF new
<1>3. /\ refreshes' \in Seq(Refresh) /\ Len(refreshes') = Len(refreshes) /\ refreshes'[n] = new
      /\ \A m \in 1..Len(refreshes) : m # n => refreshes'[m] = refreshes[m]
  BY <1>1, <1>2, OneChanges
<1>4. cached' \in [date : 0..MaxTime, data : Data \cup {Nothing}]
  BY <1>1, IInvTypes DEF Refresh
<1>5. TypeOK'
  BY ONLY IInv, <1>1, <1>3, <1>4 DEF IInv, TypeOK
<1>6. SlotInv'
  BY <1>1, <1>2, <1>3, IInvTypes, UnderWay DEF SlotInv
<1>7. OrderInv'
  <2>1. newest <= refreshes[n].data /\ refreshes[n].data <= now
    BY <1>1, IInvTypes DEF IInv, OrderInv, Refresh, Data, Nothing
  <2>2. \A m \in 1..Len(refreshes) : refreshes'[m].phase # "arriving" /\ refreshes'[m].data <= now
    BY <1>1, <1>2, <1>3, <2>1, UnderWay DEF IInv, OrderInv
  <2>3. QED
    BY <2>1, <2>2, <1>1, <1>3 DEF OrderInv
<1>8. ArrivalInv'
  <2>1. \A m \in 1..Len(refreshes) : refreshes'[m].phase = "settled" => m = n
    BY <1>1, <1>3, UnderWay
  <2>2. ASSUME NEW r \in Requests, Ready(r)' PROVE Ready(r) /\ refreshes'[waiting[r]] = refreshes[waiting[r]]
    BY <2>2, <1>1, <1>2, <1>3, IInvTypes DEF Ready, NoRefresh
  <2>3. cached' = [date |-> now', data |-> refreshes'[n].data]
    BY <1>1, <1>2, <1>3
  <2>4. \A r \in Requests : ~(Ready(r)' /\ refreshes'[waiting[r]].data # Nothing)
    BY <2>2, <1>1, UnderWay
  <2>5. QED
    BY <2>1, <2>3, <2>4, <1>1, <1>3 DEF ArrivalInv, JustCached
<1>9. QED
  BY <1>1, <1>5, <1>6, <1>7, <1>8 DEF IInv, AnswersNeverGoBack

(* A refresh fails: nothing is stored.                                        *)
LEMMA FailStep == ASSUME IInv, NEW n \in 1..Len(refreshes), Fail(n) PROVE IInv'
<1> DEFINE new == [phase |-> "settled", data |-> Nothing]
<1>1. /\ refreshes' = [refreshes EXCEPT ![n] = new] /\ refreshes[n].phase \in {"asking", "arriving"}
      /\ UNCHANGED <<keepData, now, cached, pending, waiting, answer, newest>>
  BY DEF Fail
<1>2. new \in Refresh
  BY DEF Refresh
<1>3. /\ refreshes' \in Seq(Refresh) /\ Len(refreshes') = Len(refreshes) /\ refreshes'[n] = new
      /\ \A m \in 1..Len(refreshes) : m # n => refreshes'[m] = refreshes[m]
  BY <1>1, <1>2, OneChanges
<1>4. TypeOK'
  BY ONLY IInv, <1>1, <1>3 DEF IInv, TypeOK
<1>5. SlotInv'
  BY <1>1, <1>3, IInvTypes, UnderWay DEF SlotInv
<1>6. OrderInv'
  BY <1>1, <1>3, IInvTypes DEF IInv, OrderInv, Nothing
<1>7. ArrivalInv'
  <2>1. \A m \in 1..Len(refreshes) : refreshes'[m].phase = "settled" => refreshes'[m].data = Nothing
    BY <1>1, <1>3, UnderWay
  <2>2. ASSUME NEW r \in Requests, Ready(r)' PROVE Ready(r) /\ refreshes'[waiting[r]] = refreshes[waiting[r]]
    BY <2>2, <1>1, <1>3, IInvTypes DEF Ready, NoRefresh
  <2>3. QED
    BY <2>1, <2>2, <1>1, <1>3, UnderWay DEF ArrivalInv
<1>8. QED
  BY <1>1, <1>4, <1>5, <1>6, <1>7 DEF IInv, AnswersNeverGoBack

(* The slot is freed, and those who wait may run.                             *)
LEMMA FinallyStep == ASSUME IInv, NEW n \in 1..Len(refreshes), Finally(n) PROVE IInv'
<1> DEFINE new == [refreshes[n] EXCEPT !.phase = "done"]
<1>1. /\ refreshes' = [refreshes EXCEPT ![n] = new] /\ refreshes[n].phase = "settled"
      /\ pending' = NoRefresh
      /\ UNCHANGED <<keepData, now, cached, waiting, answer, newest>>
  BY IInvTypes DEF Finally
<1>2. new \in Refresh /\ new.data = refreshes[n].data /\ new.phase = "done"
  BY IInvTypes DEF Refresh
<1> HIDE DEF new
<1>3. /\ refreshes' \in Seq(Refresh) /\ Len(refreshes') = Len(refreshes) /\ refreshes'[n] = new
      /\ \A m \in 1..Len(refreshes) : m # n => refreshes'[m] = refreshes[m]
  BY <1>1, <1>2, OneChanges
<1>4. pending' \in 0..Len(refreshes')
  BY <1>1, <1>3, IInvTypes DEF NoRefresh
<1>5. TypeOK'
  BY ONLY IInv, <1>1, <1>3, <1>4 DEF IInv, TypeOK
<1>6. SlotInv'
  BY <1>1, <1>2, <1>3, UnderWay DEF SlotInv
<1>7. OrderInv'
  BY <1>1, <1>2, <1>3, IInvTypes DEF IInv, OrderInv
<1>8. ArrivalInv'
  <2>1. \A m \in 1..Len(refreshes) : refreshes'[m].phase # "settled"
    BY <1>1, <1>2, <1>3, UnderWay
  <2>2. ASSUME NEW r \in Requests, Ready(r)', refreshes'[waiting[r]].data # Nothing
        PROVE  cached = [date |-> now, data |-> refreshes'[waiting[r]].data]
    <3>1. waiting[r] \in 1..Len(refreshes)
      BY <2>2, <1>1, IInvTypes DEF Ready, NoRefresh
    <3>2. waiting[r] = n
      BY <2>2, <3>1, <1>1, <1>3, UnderWay DEF Ready
    <3>3. QED
      BY <2>2, <3>2, <1>1, <1>2, <1>3 DEF IInv, ArrivalInv, JustCached
  <2>3. QED
    BY <2>1, <2>2, <1>1, <1>3 DEF ArrivalInv, JustCached
<1>9. QED
  BY <1>1, <1>5, <1>6, <1>7, <1>8 DEF IInv, AnswersNeverGoBack

(* A request that has waited is answered.                                     *)
LEMMA ResumeStep == ASSUME IInv, NEW r \in Requests, Resume(r) PROVE IInv'
<1>1. /\ Answer(refreshes[waiting[r]].data) /\ Ready(r)
      /\ waiting' = [waiting EXCEPT ![r] = NoRefresh]
      /\ UNCHANGED <<keepData, now, cached, refreshes, pending>>
  BY DEF Resume, Ready
<1>2. refreshes[waiting[r]].data \in {cached.data, Nothing}
  BY <1>1 DEF IInv, ArrivalInv, JustCached
<1>3. /\ answer' \in Data \cup {Nothing} /\ newest' \in Data \cup {Nothing}
      /\ newest' <= cached.data /\ answer' \in {Nothing, newest'}
  BY <1>1, <1>2, AnswerInOrder
<1>4. waiting' \in [Requests -> 0..Len(refreshes)]
  BY <1>1, IInvTypes DEF NoRefresh, IInv, TypeOK
<1>5. TypeOK'
  BY ONLY IInv, <1>1, <1>3, <1>4 DEF IInv, TypeOK
<1>6. SlotInv' /\ OrderInv'
  BY <1>1, <1>3 DEF IInv, SlotInv, OrderInv
<1>7. ArrivalInv'
  <2>1. ASSUME NEW q \in Requests, Ready(q)' PROVE Ready(q) /\ waiting'[q] = waiting[q]
    BY <2>1, <1>1 DEF Ready, IInv, TypeOK
  <2>2. QED
    BY <2>1, <1>1 DEF IInv, ArrivalInv, JustCached
<1>8. QED
  BY <1>3, <1>5, <1>6, <1>7 DEF IInv, AnswersNeverGoBack

(* Time passes when nothing has just arrived.                                 *)
LEMMA TickStep == ASSUME IInv, Tick PROVE IInv'
<1>1. /\ now < MaxTime /\ now' = now + 1
      /\ \A n \in 1..Len(refreshes) : ~Settled(n)
      /\ \A r \in Requests : ~Ready(r)
      /\ UNCHANGED <<keepData, cached, refreshes, pending, waiting, answer, newest>>
  BY DEF Tick
<1>2. now' \in 0..MaxTime
  BY <1>1, IInvTypes
<1>3. TypeOK'
  BY ONLY IInv, <1>1, <1>2 DEF IInv, TypeOK
<1>4. SlotInv'
  BY <1>1 DEF IInv, SlotInv
<1>5. OrderInv'
  <2>1. now \in Int /\ cached.data \in Int /\ newest \in Int
        /\ \A n \in 1..Len(refreshes) : refreshes[n].data \in Int
    BY IInvTypes DEF Refresh, Data, Nothing
  <2>2. QED
    BY <2>1, <1>1 DEF IInv, OrderInv
<1>6. ArrivalInv'
  BY <1>1 DEF ArrivalInv, Settled, Ready
<1>7. QED
  BY <1>1, <1>3, <1>4, <1>5, <1>6 DEF IInv, AnswersNeverGoBack

------------------------------------------------------------------------------
(* The invariant is inductive.                                                *)
THEOREM Invariance == Spec => []IInv
<1>1. IInv /\ [Next]_vars => IInv'
  <2> SUFFICES ASSUME IInv, [Next]_vars PROVE IInv'
    OBVIOUS
  <2>1. ASSUME NEW r \in Requests, Call(r) \/ Resume(r) PROVE IInv'
    BY <2>1, CallStep, ResumeStep
  <2>2. ASSUME NEW n \in 1..Len(refreshes), Produce(n) \/ Store(n) \/ Fail(n) \/ Finally(n)
        PROVE  IInv'
    BY <2>2, ProduceStep, StoreStep, FailStep, FinallyStep
  <2>3. CASE Tick
    BY <2>3, TickStep
  <2>4. CASE UNCHANGED vars
    BY <2>4 DEF vars, IInv, TypeOK, SlotInv, OrderInv, ArrivalInv, JustCached, Ready,
                AnswersNeverGoBack
  <2>5. QED
    BY <2>1, <2>2, <2>3, <2>4 DEF Next, RefreshStep
<1>2. QED
  BY <1>1, InitInv, PTL DEF Spec

(* Every variable keeps its type: in particular every request that waits      *)
(* waits for a refresh that was begun.                                        *)
THEOREM TypeCorrect == Spec => []TypeOK
<1>1. IInv => TypeOK
  BY DEF IInv
<1>2. QED
  BY <1>1, Invariance, PTL

(* The service behind a key is asked once at a time.                          *)
THEOREM AskedOnce == Spec => []OneRefreshAtATime
<1>1. IInv => OneRefreshAtATime
  BY UnderWay DEF OneRefreshAtATime
<1>2. QED
  BY <1>1, Invariance, PTL

(* No answer is older than one given before.                                  *)
THEOREM InOrder == Spec => []AnswersNeverGoBack
<1>1. IInv => AnswersNeverGoBack
  BY DEF IInv
<1>2. QED
  BY <1>1, Invariance, PTL

------------------------------------------------------------------------------
(* Sockets, connections and clients of the provider proxy *)

(* States of a socket that has not been terminated.                           *)
Live == {"connecting", "open", "done"}

(* A client uses its connections one after another.                           *)
LinksInOrder ==
  /\ \A c \in Conns : (c < conn => link[c] \in {"cut", "gone"}) /\ (c > conn => link[c] = "unused")
  /\ kind \in Streams => link[conn] \in {"unused", "up"}
  /\ kind \in Downloads =>
       /\ conn = 1
       /\ IF download.outcome = "none" THEN link[1] \in {"unused", "up"} ELSE link[1] \in {"cut", "gone"}
  /\ \A c \in Conns : /\ link[c] \in {"unused", "gone"} => toProxy[c] = <<>>
                      /\ link[c] # "up" => toClient[c] = <<>>
  /\ link[conn] = "up" => outbox = <<>>

(* The current socket of a connection is one it has opened.                   *)
CurrentOwned ==
  \A c \in Conns : openSocket[c] # NoSocket =>
    /\ link[c] \in {"up", "cut"}
    /\ openSocket[c] \in DOMAIN sockets
    /\ sockets[openSocket[c]].conn = c

(* A socket is its connection's current one until it is terminated or closed. *)
SocketsOwned ==
  \A s \in DOMAIN sockets :
    LET c == sockets[s].conn IN
    /\ link[c] # "unused"
    /\ link[c] # "gone" => s <= openSocket[c]
    /\ sockets[s].state \in Live => openSocket[c] = s
    /\ Pending(s) => s # openSocket[c]
    /\ Pending(s) /\ openSocket[c] # NoSocket => sockets[openSocket[c]].state = "connecting"

(* What the other invariants rest on.                                         *)
Base == ClientsTypeOK /\ LinksInOrder /\ CurrentOwned /\ SocketsOwned

(* What a message to the proxy can be.                                        *)
LEMMA RequestIs ==
  ASSUME NEW m \in Request
  PROVE  m = Ping \/ (m # Ping /\ m.type \in {"open", "data"} /\ m.url \in Urls)
BY DEF Request, Ping

(* States of a socket.                                                        *)
States == {"connecting", "open", "done", "aborted", "ending", "closed"}

(* Socket s has changed, in its state, its output and what it got only, and is *)
(* plain only if it was.                                                      *)
Changed(s) ==
  /\ sockets' \in Seq(Socket) /\ Len(sockets') = Len(sockets) /\ DOMAIN sockets' = DOMAIN sockets
  /\ \A t \in DOMAIN sockets :
       /\ sockets'[t].conn = sockets[t].conn /\ sockets'[t].url = sockets[t].url
       /\ sockets'[t].cert = sockets[t].cert
       /\ sockets'[t].plain => sockets[t].plain
       /\ t # s => sockets'[t] = sockets[t]

(* The types of what is said of sockets.                                      *)
LEMMA SocketTypes ==
  ASSUME ClientsTypeOK
  PROVE  /\ sockets \in Seq(Socket) /\ Len(sockets) \in Nat /\ DOMAIN sockets = 1..Len(sockets)
         /\ Len(sockets) <= MaxSockets /\ MaxSockets \in Nat /\ MaxOutput \in Nat
         /\ openSocket \in [Conns -> 0..MaxSockets] /\ conn \in Conns /\ Conns = 1..MaxConns
         /\ MaxConns \in Nat /\ 1 \in Conns
         /\ \A s \in DOMAIN sockets :
              /\ sockets[s] \in Socket /\ sockets[s].conn \in Conns /\ sockets[s].url \in Urls
              /\ sockets[s].cert \in BOOLEAN /\ sockets[s].state \in States
              /\ sockets[s].emitted \in 0..MaxOutput /\ sockets[s].got \in SUBSET Urls
              /\ sockets[s].plain \in BOOLEAN
<1>1. sockets \in Seq(Socket) /\ Len(sockets) <= MaxSockets
  BY DEF ClientsTypeOK, ProxyTypeOK
<1>2. \A s \in DOMAIN sockets : sockets[s] \in Socket
  BY <1>1
<1>3. /\ MaxSockets \in Nat /\ MaxOutput \in Nat /\ MaxConns \in Nat
      /\ Conns = 1..MaxConns /\ 1 \in Conns
  BY ProviderProxyAssumption DEF Conns
<1>4. openSocket \in [Conns -> 0..MaxSockets] /\ conn \in Conns
  BY DEF ClientsTypeOK, ProxyTypeOK
<1>5. Len(sockets) \in Nat /\ DOMAIN sockets = 1..Len(sockets)
  BY <1>1
<1>6. ASSUME NEW s \in DOMAIN sockets
      PROVE  /\ sockets[s].conn \in Conns /\ sockets[s].url \in Urls
             /\ sockets[s].cert \in BOOLEAN /\ sockets[s].state \in States
             /\ sockets[s].emitted \in 0..MaxOutput /\ sockets[s].got \in SUBSET Urls
             /\ sockets[s].plain \in BOOLEAN
  BY <1>2 DEF Socket, States
<1> QED
  BY <1>1, <1>2, <1>3, <1>4, <1>5, <1>6

(* One socket is replaced.                                                    *)
LEMMA SocketEffect ==
  ASSUME ClientsTypeOK, NEW s \in DOMAIN sockets, NEW r \in Socket,
         r.conn = sockets[s].conn, r.url = sockets[s].url, r.cert = sockets[s].cert,
         r.plain => sockets[s].plain, sockets' = [sockets EXCEPT ![s] = r]
  PROVE  Changed(s) /\ sockets'[s] = r
BY SocketTypes, ExceptSeq DEF Changed

(* One socket changes its state.                                              *)
LEMMA StateEffect ==
  ASSUME ClientsTypeOK, NEW s \in DOMAIN sockets, NEW st \in States,
         sockets' = [sockets EXCEPT ![s].state = st]
  PROVE  /\ Changed(s) /\ sockets'[s].state = st
         /\ sockets'[s].emitted = sockets[s].emitted /\ sockets'[s].got = sockets[s].got
         /\ sockets'[s].plain = sockets[s].plain
<1> DEFINE r == [sockets[s] EXCEPT !.state = st]
<1>1. sockets[s] \in Socket
  BY SocketTypes
<1>2. /\ r \in Socket /\ r.conn = sockets[s].conn /\ r.url = sockets[s].url
      /\ r.cert = sockets[s].cert /\ r.state = st /\ r.plain = sockets[s].plain
      /\ r.emitted = sockets[s].emitted /\ r.got = sockets[s].got
  BY <1>1 DEF Socket, States
<1>3. sockets' = [sockets EXCEPT ![s] = r]
  OBVIOUS
<1> HIDE DEF r
<1> QED
  BY <1>2, <1>3, SocketEffect

(* Replies are appended to what is on its way, if the client is there.         *)
LEMMA ForwardEffect ==
  ASSUME ClientsTypeOK, NEW c \in Conns, NEW replies \in Seq(Reply), Forward(c, replies)
  PROVE  /\ toClient' \in [Conns -> Seq(Reply)]
         /\ \A d \in Conns : d # c \/ link[c] # "up" => toClient'[d] = toClient[d]
         /\ link[c] = "up" => toClient'[c] = toClient[c] \o replies
<1>1. toClient \in [Conns -> Seq(Reply)]
  BY DEF ClientsTypeOK, ProxyTypeOK
<1>2. toClient[c] \o replies \in Seq(Reply)
  BY <1>1, ConcatProperties
<1> QED
  BY <1>1, <1>2 DEF Forward

(* The replies the proxy sends at once.                                       *)
LEMMA Replies ==
  /\ <<"pong">> \in Seq(Reply) /\ <<"error">> \in Seq(Reply) /\ <<"output">> \in Seq(Reply)
  /\ <<"result">> \in Seq(Reply) /\ <<"failure">> \in Seq(Reply) /\ <<"closed">> \in Seq(Reply)
  /\ <<"error", "closed">> \in Seq(Reply)
BY DEF Reply

(* A frame of output changes the count of frames, and maybe plain.            *)
LEMMA OutputEffect ==
  ASSUME ClientsTypeOK, NEW s \in DOMAIN sockets, SocketOutput(s)
  PROVE  /\ Changed(s) /\ sockets'[s].state = sockets[s].state /\ sockets'[s].got = sockets[s].got
         /\ sockets'[s].emitted = sockets[s].emitted + 1
<1>1. sockets[s] \in Socket /\ MaxOutput \in Nat /\ sockets[s].plain \in BOOLEAN
  BY SocketTypes
<1>2. PICK plain \in {sockets[s].plain, FALSE} :
        sockets' = [sockets EXCEPT ![s].emitted = @ + 1, ![s].plain = plain]
  BY DEF SocketOutput
<1> DEFINE r == [sockets[s] EXCEPT !.emitted = @ + 1, !.plain = plain]
<1>3. sockets[s].emitted + 1 \in 0..MaxOutput
  BY <1>1 DEF Socket, SocketOutput
<1>4. /\ r \in Socket /\ r.conn = sockets[s].conn /\ r.url = sockets[s].url
      /\ r.cert = sockets[s].cert /\ r.state = sockets[s].state
      /\ r.emitted = sockets[s].emitted + 1 /\ r.got = sockets[s].got
      /\ r.plain => sockets[s].plain
  BY <1>1, <1>2, <1>3 DEF Socket
<1>5. sockets' = [sockets EXCEPT ![s] = r]
  BY <1>2
<1> HIDE DEF r
<1> QED
  BY <1>4, <1>5, SocketEffect

(* A socket that is no longer plain, whatever its new state.                   *)
LEMMA SpoiltEffect ==
  ASSUME ClientsTypeOK, NEW s \in DOMAIN sockets, NEW st \in States,
         sockets' = [sockets EXCEPT ![s].state = st, ![s].plain = FALSE]
  PROVE  /\ Changed(s) /\ sockets'[s].state = st /\ sockets'[s].plain = FALSE
         /\ sockets'[s].emitted = sockets[s].emitted /\ sockets'[s].got = sockets[s].got
<1> DEFINE r == [sockets[s] EXCEPT !.state = st, !.plain = FALSE]
<1>1. sockets[s] \in Socket
  BY SocketTypes
<1>2. /\ r \in Socket /\ r.conn = sockets[s].conn /\ r.url = sockets[s].url
      /\ r.cert = sockets[s].cert /\ r.state = st /\ r.plain = FALSE
      /\ r.emitted = sockets[s].emitted /\ r.got = sockets[s].got
  BY <1>1 DEF Socket, States
<1>3. sockets' = [sockets EXCEPT ![s] = r]
  OBVIOUS
<1> HIDE DEF r
<1> QED
  BY <1>2, <1>3, SocketEffect

(* A frame that reads as an exit code leaves the socket's state as it is.      *)
LEMMA MimicEffect ==
  ASSUME ClientsTypeOK, NEW s \in DOMAIN sockets, SocketMimics(s)
  PROVE  /\ Changed(s) /\ sockets'[s].state = sockets[s].state /\ sockets'[s].plain = FALSE
         /\ sockets'[s].emitted = sockets[s].emitted /\ sockets'[s].got = sockets[s].got
<1> DEFINE r == [sockets[s] EXCEPT !.plain = FALSE]
<1>1. sockets[s] \in Socket
  BY SocketTypes
<1>2. /\ r \in Socket /\ r.conn = sockets[s].conn /\ r.url = sockets[s].url
      /\ r.cert = sockets[s].cert /\ r.state = sockets[s].state /\ r.plain = FALSE
      /\ r.emitted = sockets[s].emitted /\ r.got = sockets[s].got
  BY <1>1 DEF Socket
<1>3. sockets' = [sockets EXCEPT ![s] = r]
  BY DEF SocketMimics
<1> HIDE DEF r
<1> QED
  BY <1>2, <1>3, SocketEffect

(* Every step of a socket opens it, is a frame of output or is one of these.   *)
LEMMA SocketMoves ==
  ASSUME ClientsTypeOK, NEW s \in DOMAIN sockets,
         \/ SocketRefused(s) \/ SocketResult(s) \/ SocketCloses(s) \/ TerminatedCloses(s)
  PROVE  \E replies \in Seq(Reply) :
           /\ \A i \in 1..Len(replies) : replies[i] # "output"
           /\ \/ /\ SocketResult(s) /\ sockets'[s].state = "done"
                 /\ \/ replies = <<"result">>
                       /\ (sockets'[s].plain => sockets[s].emitted = MaxOutput)
                    \/ replies = <<"failure">>
              \/ /\ ~SocketResult(s) /\ sockets'[s].state = "closed"
                 /\ (replies = <<"closed">> \/ replies = <<"error", "closed">>)
           /\ Changed(s) /\ sockets'[s].emitted = sockets[s].emitted
           /\ sockets'[s].got = sockets[s].got
           /\ Forward(sockets[s].conn, replies)
           /\ UNCHANGED <<link, toProxy, openSocket>>
<1> USE Replies
<1>1. CASE SocketResult(s)
  <2>0. UNCHANGED <<link, toProxy, openSocket>>
    BY <1>1 DEF SocketResult
  <2>1. CASE sockets[s].emitted = MaxOutput /\ sockets' = SetState(s, "done")
             /\ Forward(sockets[s].conn, <<"result">>)
    <3>1. /\ Changed(s) /\ sockets'[s].state = "done" /\ sockets'[s].emitted = sockets[s].emitted
          /\ sockets'[s].got = sockets[s].got
      BY <2>1, StateEffect DEF States, SetState
    <3> WITNESS <<"result">> \in Seq(Reply)
    <3> QED
      BY <1>1, <2>0, <2>1, <3>1
  <2>2. CASE sockets' = [sockets EXCEPT ![s].state = "done", ![s].plain = FALSE]
             /\ Forward(sockets[s].conn, <<"result">>)
    <3>1. /\ Changed(s) /\ sockets'[s].state = "done" /\ sockets'[s].plain = FALSE
          /\ sockets'[s].emitted = sockets[s].emitted /\ sockets'[s].got = sockets[s].got
      BY <2>2, SpoiltEffect DEF States
    <3> WITNESS <<"result">> \in Seq(Reply)
    <3> QED
      BY <1>1, <2>0, <2>2, <3>1
  <2>3. CASE sockets' = SetState(s, "done") /\ Forward(sockets[s].conn, <<"failure">>)
    <3>1. /\ Changed(s) /\ sockets'[s].state = "done" /\ sockets'[s].emitted = sockets[s].emitted
          /\ sockets'[s].got = sockets[s].got
      BY <2>3, StateEffect DEF States, SetState
    <3> WITNESS <<"failure">> \in Seq(Reply)
    <3> QED
      BY <1>1, <2>0, <2>3, <3>1
  <2> QED
    BY <1>1, <2>1, <2>2, <2>3 DEF SocketResult
<1>2. ASSUME NEW replies \in {<<"closed">>, <<"error", "closed">>},
             sockets' = SetState(s, "closed"), Forward(sockets[s].conn, replies),
             UNCHANGED <<link, toProxy, openSocket>>, ~SocketResult(s)
      PROVE  \E r \in Seq(Reply) :
               /\ \A i \in 1..Len(r) : r[i] # "output"
               /\ ~SocketResult(s) /\ sockets'[s].state = "closed"
               /\ (r = <<"closed">> \/ r = <<"error", "closed">>)
               /\ Changed(s) /\ sockets'[s].emitted = sockets[s].emitted
               /\ sockets'[s].got = sockets[s].got
               /\ Forward(sockets[s].conn, r)
               /\ UNCHANGED <<link, toProxy, openSocket>>
  <2>1. replies \in Seq(Reply)
    OBVIOUS
  <2>2. \A i \in 1..Len(replies) : replies[i] # "output"
    OBVIOUS
  <2>3. /\ Changed(s) /\ sockets'[s].state = "closed" /\ sockets'[s].emitted = sockets[s].emitted
        /\ sockets'[s].got = sockets[s].got
    BY <1>2, StateEffect DEF States, SetState
  <2> QED
    BY <1>2, <2>1, <2>2, <2>3
<1>3. CASE ~SocketResult(s) /\ SocketRefused(s)
  BY <1>2, <1>3 DEF SocketRefused
<1>4. CASE ~SocketResult(s) /\ SocketCloses(s)
  BY <1>2, <1>4 DEF SocketCloses
<1>5. CASE ~SocketResult(s) /\ TerminatedCloses(s)
  BY <1>2, <1>5 DEF TerminatedCloses
<1> QED
  BY <1>1, <1>2, <1>3, <1>4, <1>5

(* What every step of a socket leaves as it is.                               *)
LEMMA SocketStepEffect ==
  ASSUME ClientsTypeOK, NEW s \in DOMAIN sockets,
         \/ SocketOpens(s) \/ SocketRefused(s) \/ SocketOutput(s) \/ SocketMimics(s)
         \/ SocketResult(s) \/ SocketCloses(s) \/ TerminatedCloses(s)
  PROVE  /\ UNCHANGED <<link, toProxy, openSocket>>
         /\ Changed(s) /\ sockets'[s].got = sockets[s].got
         /\ toClient' \in [Conns -> Seq(Reply)]
         /\ \A d \in Conns : link[d] # "up" => toClient'[d] = toClient[d]
<1>1. CASE SocketOpens(s)
  BY <1>1, StateEffect DEF SocketOpens, SetState, States, ClientsTypeOK, ProxyTypeOK
<1>2. CASE SocketOutput(s)
  BY ZenonT(60), <1>2, OutputEffect, ForwardEffect, Replies, SocketTypes DEF SocketOutput
<1>3. CASE SocketMimics(s)
  BY ZenonT(60), <1>3, MimicEffect, ForwardEffect, Replies, SocketTypes DEF SocketMimics
<1>4. CASE SocketRefused(s) \/ SocketResult(s) \/ SocketCloses(s) \/ TerminatedCloses(s)
  <2>1. PICK replies \in Seq(Reply) :
          /\ Changed(s) /\ sockets'[s].got = sockets[s].got /\ Forward(sockets[s].conn, replies)
          /\ UNCHANGED <<link, toProxy, openSocket>>
    BY <1>4, SocketMoves
  <2> QED
    BY <2>1, ForwardEffect, SocketTypes
<1> QED
  BY <1>1, <1>2, <1>3, <1>4

(* terminate() on the current socket of connection c.                          *)
LEMMA TerminatedEffect ==
  ASSUME ClientsTypeOK, NEW c \in Conns, openSocket[c] \in {NoSocket} \cup DOMAIN sockets
  PROVE  LET ss == Terminated(c) IN
         /\ ss \in Seq(Socket) /\ Len(ss) = Len(sockets) /\ DOMAIN ss = DOMAIN sockets
         /\ \A t \in DOMAIN sockets :
              /\ ss[t].conn = sockets[t].conn /\ ss[t].url = sockets[t].url
              /\ ss[t].cert = sockets[t].cert /\ ss[t].got = sockets[t].got
              /\ ss[t].emitted = sockets[t].emitted /\ ss[t].plain = sockets[t].plain
              /\ t # openSocket[c] => ss[t] = sockets[t]
              /\ t = openSocket[c] => ss[t].state = TerminatedState(sockets[t].state)
<1>1. CASE openSocket[c] = NoSocket
  BY <1>1, SocketTypes DEF Terminated, NoSocket
<1>2. CASE openSocket[c] # NoSocket
  <2> DEFINE s == openSocket[c]
             r == [sockets[s] EXCEPT !.state = TerminatedState(@)]
             ss == [sockets EXCEPT ![s] = r]
  <2>1. s \in DOMAIN sockets /\ sockets[s] \in Socket
    BY <1>2, SocketTypes
  <2>2. /\ r \in Socket /\ r.conn = sockets[s].conn /\ r.url = sockets[s].url
        /\ r.cert = sockets[s].cert /\ r.state = TerminatedState(sockets[s].state)
        /\ r.emitted = sockets[s].emitted /\ r.got = sockets[s].got
        /\ r.plain = sockets[s].plain
    BY <2>1 DEF Socket, TerminatedState
  <2>3. Terminated(c) = ss
    BY <1>2 DEF Terminated
  <2> HIDE DEF r
  <2>4. /\ ss \in Seq(Socket) /\ Len(ss) = Len(sockets) /\ DOMAIN ss = DOMAIN sockets
        /\ ss[s] = r /\ \A t \in DOMAIN sockets : t # s => ss[t] = sockets[t]
    BY <2>1, <2>2, SocketTypes, ExceptSeq
  <2> HIDE DEF ss, s
  <2>5. ASSUME NEW t \in DOMAIN sockets
        PROVE  /\ ss[t].conn = sockets[t].conn /\ ss[t].url = sockets[t].url
               /\ ss[t].cert = sockets[t].cert /\ ss[t].got = sockets[t].got
               /\ ss[t].emitted = sockets[t].emitted /\ ss[t].plain = sockets[t].plain
               /\ t # s => ss[t] = sockets[t]
               /\ t = s => ss[t].state = TerminatedState(sockets[t].state)
    BY <2>2, <2>4
  <2> QED
    BY <2>3, <2>4, <2>5 DEF s
<1> QED
  BY <1>1, <1>2

(* The sockets after a message, and after a connection's end.                 *)
LEMMA SendOnEffect ==
  ASSUME ClientsTypeOK, NEW c \in Conns, NEW m \in Request, m # Ping,
         openSocket[c] \in {NoSocket} \cup DOMAIN sockets,
         IsForOpenSocket(c, m), SendOn(c, m)
  PROVE  LET s == openSocket[c] IN
         /\ s \in DOMAIN sockets /\ Changed(s) /\ sockets'[s].state = sockets[s].state
         /\ sockets'[s].emitted = sockets[s].emitted
         /\ sockets'[s].got \in {sockets[s].got, sockets[s].got \cup {sockets[s].url}}
         /\ \/ toClient' = toClient
            \/ Forward(c, <<"error">>)
<1> DEFINE s == openSocket[c]
           r == [sockets[s] EXCEPT !.got = @ \cup {m.url}]
<1>1. s \in DOMAIN sockets /\ sockets[s].url = m.url
  BY DEF IsForOpenSocket
<1>2. sockets[s] \in Socket
  BY <1>1, SocketTypes
<1>3. (Changed(s) /\ sockets' = sockets) \/ sockets' = [sockets EXCEPT ![s] = r]
  BY <1>1, SocketTypes DEF SendOn, Changed
<1>4. /\ r \in Socket /\ r.conn = sockets[s].conn /\ r.url = sockets[s].url
      /\ r.cert = sockets[s].cert /\ r.state = sockets[s].state
      /\ r.emitted = sockets[s].emitted /\ r.got = sockets[s].got \cup {sockets[s].url}
      /\ r.plain = sockets[s].plain
  BY <1>1, <1>2 DEF Socket
<1>5. toClient' = toClient \/ Forward(c, <<"error">>)
  BY DEF SendOn
<1> HIDE DEF r
<1>6. CASE sockets' = sockets
  BY <1>1, <1>3, <1>5, <1>6, SocketTypes DEF Changed
<1>7. CASE sockets' = [sockets EXCEPT ![s] = r]
  BY <1>1, <1>4, <1>5, <1>7, SocketEffect
<1> QED
  BY <1>3, <1>6, <1>7

(* The new socket comes last, and the current one is terminated.              *)
LEMMA OpenSocketEffect ==
  ASSUME ClientsTypeOK, NEW c \in Conns, NEW m \in Request, m # Ping,
         openSocket[c] \in {NoSocket} \cup DOMAIN sockets, OpenSocket(c, m)
  PROVE  LET n == Len(sockets) + 1 IN
         /\ sockets' \in Seq(Socket) /\ Len(sockets') = n /\ n <= MaxSockets
         /\ DOMAIN sockets' = DOMAIN sockets \cup {n} /\ n \notin DOMAIN sockets
         /\ sockets'[n] = [conn |-> c, url |-> m.url, cert |-> m.type = "open",
                           state |-> "connecting", emitted |-> 0, plain |-> TRUE, got |-> {}]
         /\ \A t \in DOMAIN sockets :
              /\ sockets'[t].conn = sockets[t].conn /\ sockets'[t].url = sockets[t].url
              /\ sockets'[t].cert = sockets[t].cert /\ sockets'[t].got = sockets[t].got
              /\ t # openSocket[c] => sockets'[t] = sockets[t]
              /\ t = openSocket[c] => sockets'[t].state = TerminatedState(sockets[t].state)
         /\ openSocket' = [openSocket EXCEPT ![c] = n] /\ toClient' = toClient
<1> DEFINE n == Len(sockets) + 1
           ss == Terminated(c)
           x == [conn |-> c, url |-> m.url, cert |-> m.type = "open",
                 state |-> "connecting", emitted |-> 0, plain |-> TRUE, got |-> {}]
<1>1. sockets' = Append(ss, x) /\ Len(sockets) < MaxSockets
      /\ openSocket' = [openSocket EXCEPT ![c] = n] /\ toClient' = toClient
  BY DEF OpenSocket
<1>2. x \in Socket /\ n \in Nat /\ n <= MaxSockets /\ n \notin DOMAIN sockets
      /\ DOMAIN sockets = 1..Len(sockets) /\ Len(sockets) \in Nat
  BY <1>1, RequestIs, SocketTypes DEF Socket
<1> HIDE DEF x
<1>3. /\ ss \in Seq(Socket) /\ Len(ss) = Len(sockets) /\ DOMAIN ss = DOMAIN sockets
      /\ \A t \in DOMAIN sockets :
           /\ ss[t].conn = sockets[t].conn /\ ss[t].url = sockets[t].url
           /\ ss[t].cert = sockets[t].cert /\ ss[t].got = sockets[t].got
           /\ t # openSocket[c] => ss[t] = sockets[t]
           /\ t = openSocket[c] => ss[t].state = TerminatedState(sockets[t].state)
  BY TerminatedEffect
<1> HIDE DEF ss
<1>4. /\ sockets' \in Seq(Socket) /\ Len(sockets') = n /\ sockets'[n] = x
      /\ \A t \in 1..Len(sockets) : sockets'[t] = ss[t]
  BY <1>1, <1>2, <1>3, AppendProperties
<1>5. DOMAIN sockets' = 1..n /\ 1..n = DOMAIN sockets \cup {n}
  BY <1>2, <1>4, LenProperties
<1> QED
  BY <1>1, <1>2, <1>3, <1>4, <1>5 DEF x

(* Nothing is opened at first.                                                *)
LEMMA BaseInit == ClientsInit => Base
<1> SUFFICES ASSUME ClientsInit PROVE Base
  OBVIOUS
<1>1. ProxyInit /\ kind \in Streams \cup Downloads /\ conn = 1 /\ sent = 0 /\ selections = 0
  BY DEF ClientsInit
<1>2. 1 \in Conns /\ Conns \subseteq Nat \ {0}
  BY ProviderProxyAssumption DEF Conns
<1>3. sockets = <<>> /\ sockets \in Seq(Socket) /\ Len(sockets) = 0 /\ DOMAIN sockets = {}
  BY <1>1 DEF ProxyInit
<1>4. ProxyTypeOK
  BY <1>1, <1>3, ProviderProxyAssumption DEF ProxyInit, ProxyTypeOK, NoSocket
<1>5. outbox \in Seq(Request)
  <2>1. <<FirstLease, FirstService>> \in Urls
    BY ProxyClientsAssumption
  <2>2. [type |-> "open", url |-> <<FirstLease, FirstService>>] \in Request
    BY <2>1 DEF Request
  <2> QED
    BY <2>2 DEF ClientsInit
<1>6. page \in Page /\ download \in Download /\ download.outcome = "none"
  BY ProxyClientsAssumption DEF ClientsInit, Page, Download
<1>7. ClientsTypeOK
  BY <1>1, <1>2, <1>4, <1>5, <1>6, ProxyClientsAssumption DEF ClientsTypeOK
<1>8. LinksInOrder
  BY <1>1, <1>2, <1>6 DEF ProxyInit, LinksInOrder
<1>9. CurrentOwned /\ SocketsOwned
  BY <1>1, <1>3 DEF ProxyInit, CurrentOwned, SocketsOwned, NoSocket
<1> QED
  BY <1>7, <1>8, <1>9 DEF Base

(* A socket moves on: its connection keeps it as the current one.             *)
LEMMA OwnedAfterChange ==
  ASSUME ClientsTypeOK, CurrentOwned, SocketsOwned, NEW s \in DOMAIN sockets,
         Changed(s), UNCHANGED <<link, openSocket>>,
         sockets'[s].state \in Live => sockets[s].state \in Live,
         sockets'[s].state \in {"aborted", "ending"} => Pending(s),
         sockets[s].state = "connecting" =>
           \/ sockets'[s].state = "connecting"
           \/ \A t \in 1..(s - 1) : sockets[t].conn = sockets[s].conn => ~Pending(t)
  PROVE  CurrentOwned' /\ SocketsOwned'
<1>1. CurrentOwned'
  BY DEF CurrentOwned, Changed
<1>2. ASSUME NEW t \in DOMAIN sockets'
      PROVE  LET c == sockets'[t].conn IN
             /\ link'[c] # "unused"
             /\ link'[c] # "gone" => t <= openSocket'[c]
             /\ sockets'[t].state \in Live => openSocket'[c] = t
             /\ Pending(t)' => t # openSocket'[c]
             /\ Pending(t)' /\ openSocket'[c] # NoSocket => sockets'[openSocket'[c]].state = "connecting"
  <2> DEFINE c == sockets[t].conn
             o == openSocket[c]
  <2>1. t \in DOMAIN sockets /\ sockets'[t].conn = c /\ c \in Conns
    BY <1>2, SocketTypes DEF Changed
  <2>2. /\ link[c] # "unused" /\ (link[c] # "gone" => t <= o)
        /\ (sockets[t].state \in Live => o = t)
        /\ (Pending(t) => t # o)
        /\ (Pending(t) /\ o # NoSocket => sockets[o].state = "connecting")
    BY <2>1 DEF SocketsOwned
  <2>3. /\ sockets'[t].state \in Live => sockets[t].state \in Live
        /\ Pending(t)' => Pending(t)
    BY <2>1 DEF Changed, Pending
  <2>4. ASSUME Pending(t), o # NoSocket PROVE sockets'[o].state = "connecting"
    <3>1. o \in DOMAIN sockets /\ sockets[o].conn = c /\ sockets[o].state = "connecting" /\ link[c] \in {"up", "cut"}
      BY <2>1, <2>2, <2>4 DEF CurrentOwned
    <3>2. t <= o /\ t # o
      BY <2>2, <2>4, <3>1
    <3>3. CASE o = s
      <4>1. t \in 1..(s - 1) /\ sockets[t].conn = sockets[s].conn
        BY <2>1, <3>1, <3>2, <3>3, SocketTypes
      <4>2. sockets'[s].state = "connecting"
        BY <2>4, <3>1, <3>3, <4>1
      <4> QED
        BY <3>3, <4>2
    <3>4. CASE o # s
      BY <3>1, <3>4 DEF Changed
    <3> QED
      BY <3>3, <3>4
  <2> QED
    BY <2>1, <2>2, <2>3, <2>4
<1> QED
  BY <1>1, <1>2 DEF SocketsOwned

(* A provider's socket opens, prints, ends or closes.                          *)
LEMMA SocketStepBase ==
  ASSUME Base, NEW s \in DOMAIN sockets, UNCHANGED clientVars,
         \/ SocketOpens(s) \/ SocketRefused(s) \/ SocketOutput(s) \/ SocketMimics(s)
         \/ SocketResult(s) \/ SocketCloses(s) \/ TerminatedCloses(s)
  PROVE  Base'
<1> USE DEF Base
<1>1. /\ UNCHANGED <<link, toProxy, openSocket>> /\ Changed(s)
      /\ toClient' \in [Conns -> Seq(Reply)]
      /\ \A d \in Conns : link[d] # "up" => toClient'[d] = toClient[d]
  BY SocketStepEffect
<1>2. ClientsTypeOK'
  BY <1>1, SocketTypes DEF ClientsTypeOK, ProxyTypeOK, clientVars, Changed
<1>3. LinksInOrder'
  BY <1>1 DEF LinksInOrder, clientVars
<1>4. /\ sockets'[s].state \in Live => sockets[s].state \in Live
      /\ sockets'[s].state \in {"aborted", "ending"} => Pending(s)
      /\ sockets[s].state = "connecting" =>
           \/ sockets'[s].state = "connecting"
           \/ \A t \in 1..(s - 1) : sockets[t].conn = sockets[s].conn => ~Pending(t)
  <2>1. CASE SocketOpens(s)
    BY <2>1, StateEffect DEF SocketOpens, SetState, States, Live, Pending
  <2>2. CASE SocketRefused(s)
    BY <2>2, StateEffect DEF SocketRefused, SetState, States, Live, Pending
  <2>3. CASE SocketOutput(s)
    BY <2>3, OutputEffect DEF Live, Pending
  <2>4. CASE SocketResult(s)
    <3>1. sockets'[s].state = "done" /\ sockets[s].state = "open"
      BY <2>4, SocketMoves DEF SocketResult
    <3> QED
      BY <3>1 DEF Live, Pending
  <2>5. CASE SocketCloses(s)
    BY <2>5, StateEffect DEF SocketCloses, SetState, States, Live, Pending
  <2>6. CASE TerminatedCloses(s)
    BY <2>6, StateEffect DEF TerminatedCloses, SetState, States, Live, Pending
  <2>7. CASE SocketMimics(s)
    BY <2>7, MimicEffect DEF Live, Pending
  <2> QED
    BY <2>1, <2>2, <2>3, <2>4, <2>5, <2>6, <2>7
<1>5. CurrentOwned' /\ SocketsOwned'
  BY <1>1, <1>4, OwnedAfterChange
<1> QED
  BY <1>2, <1>3, <1>5

(* The message at the head of a queue, and the queue without it.              *)
LEMMA HeadOfQueue ==
  ASSUME ClientsTypeOK, NEW c \in Conns, toProxy[c] # <<>>,
         toProxy' = [toProxy EXCEPT ![c] = Tail(@)]
  PROVE  /\ Head(toProxy[c]) \in Request /\ toProxy[c] \in Seq(Request)
         /\ Head(toProxy[c]) = toProxy[c][1] /\ Len(toProxy[c]) \in Nat \ {0}
         /\ toProxy' \in [Conns -> Seq(Request)]
         /\ Len(toProxy'[c]) = Len(toProxy[c]) - 1
         /\ \A i \in 1..Len(toProxy'[c]) : toProxy'[c][i] = toProxy[c][i + 1]
         /\ \A d \in Conns : d # c => toProxy'[d] = toProxy[d]
<1>1. toProxy \in [Conns -> Seq(Request)]
  BY DEF ClientsTypeOK, ProxyTypeOK
<1>2. /\ Head(toProxy[c]) \in Request /\ Tail(toProxy[c]) \in Seq(Request)
      /\ Len(Tail(toProxy[c])) = Len(toProxy[c]) - 1
      /\ \A i \in 1..Len(Tail(toProxy[c])) : Tail(toProxy[c])[i] = toProxy[c][i + 1]
  BY <1>1, HeadTailProperties
<1>3. Len(toProxy[c]) \in Nat \ {0} /\ Head(toProxy[c]) = toProxy[c][1]
  BY <1>1, EmptySeq
<1>4. toProxy'[c] = Tail(toProxy[c])
  BY <1>1
<1> QED
  BY <1>1, <1>2, <1>3, <1>4

(* The three things the proxy does with a message.                             *)
LEMMA ReceiveCases ==
  ASSUME NEW c \in Conns, ProxyReceive(c)
  PROVE  LET m == Head(toProxy[c]) IN
         /\ link[c] \in {"up", "cut"} /\ toProxy[c] # <<>> /\ link' = link
         /\ toProxy' = [toProxy EXCEPT ![c] = Tail(@)]
         /\ \/ m = Ping /\ Forward(c, <<"pong">>) /\ UNCHANGED <<openSocket, sockets>>
            \/ m # Ping /\ IsForOpenSocket(c, m) /\ SendOn(c, m) /\ UNCHANGED openSocket
            \/ m # Ping /\ ~IsForOpenSocket(c, m) /\ OpenSocket(c, m)
BY DEF ProxyReceive

(* A message: the current socket is replaced, and never another one.          *)
LEMMA ReceiveBase ==
  ASSUME Base, NEW c \in Conns, UNCHANGED clientVars, ProxyReceive(c)
  PROVE  Base'
<1> USE DEF Base
<1> DEFINE m == Head(toProxy[c])
<1>1. /\ link[c] \in {"up", "cut"} /\ toProxy[c] # <<>> /\ link' = link
      /\ toProxy' = [toProxy EXCEPT ![c] = Tail(@)]
  BY ReceiveCases
<1>2. m \in Request /\ toProxy' \in [Conns -> Seq(Request)] /\ \A d \in Conns : d # c => toProxy'[d] = toProxy[d]
  BY <1>1, HeadOfQueue
<1>3. openSocket[c] \in {NoSocket} \cup DOMAIN sockets
  BY DEF CurrentOwned
<1>4. ASSUME toClient' \in [Conns -> Seq(Reply)], sockets' \in Seq(Socket), Len(sockets') <= MaxSockets,
             openSocket' \in [Conns -> 0..MaxSockets],
             \A d \in Conns : link[d] # "up" => toClient'[d] = toClient[d]
      PROVE  ClientsTypeOK' /\ LinksInOrder'
  <2>1. ClientsTypeOK'
    BY <1>1, <1>2, <1>4 DEF ClientsTypeOK, ProxyTypeOK, clientVars
  <2>2. LinksInOrder'
    BY <1>1, <1>2, <1>4 DEF LinksInOrder, clientVars
  <2> QED
    BY <2>1, <2>2
<1>5. /\ toClient \in [Conns -> Seq(Reply)] /\ sockets \in Seq(Socket) /\ Len(sockets) <= MaxSockets
      /\ openSocket \in [Conns -> 0..MaxSockets]
  BY DEF ClientsTypeOK, ProxyTypeOK
<1>6. ASSUME NEW replies \in {<<"pong">>, <<"error">>}, Forward(c, replies)
      PROVE  /\ toClient' \in [Conns -> Seq(Reply)]
             /\ \A d \in Conns : link[d] # "up" => toClient'[d] = toClient[d]
  BY <1>6, ForwardEffect, Replies
<1>7. CASE m = Ping /\ Forward(c, <<"pong">>) /\ UNCHANGED <<openSocket, sockets>>
  <2>1. CurrentOwned' /\ SocketsOwned'
    BY <1>1, <1>7 DEF CurrentOwned, SocketsOwned, Pending
  <2> QED
    BY <1>4, <1>5, <1>6, <1>7, <2>1
<1>8. CASE m # Ping /\ IsForOpenSocket(c, m) /\ SendOn(c, m) /\ UNCHANGED openSocket
  <2> DEFINE s == openSocket[c]
  <2>1. /\ s \in DOMAIN sockets /\ Changed(s) /\ sockets'[s].state = sockets[s].state
        /\ toClient' = toClient \/ Forward(c, <<"error">>)
    BY <1>2, <1>3, <1>8, SendOnEffect
  <2>2. CurrentOwned' /\ SocketsOwned'
    BY <1>1, <1>8, <2>1, OwnedAfterChange DEF Pending
  <2>3. sockets' \in Seq(Socket) /\ Len(sockets') <= MaxSockets
    BY <1>5, <2>1 DEF Changed
  <2> QED
    BY <1>4, <1>5, <1>6, <1>8, <2>1, <2>2, <2>3
<1>9. CASE m # Ping /\ ~IsForOpenSocket(c, m) /\ OpenSocket(c, m)
  <2> DEFINE n == Len(sockets) + 1
  <2>1. /\ sockets' \in Seq(Socket) /\ Len(sockets') = n /\ n <= MaxSockets
        /\ DOMAIN sockets' = DOMAIN sockets \cup {n} /\ n \notin DOMAIN sockets
        /\ sockets'[n] = [conn |-> c, url |-> m.url, cert |-> m.type = "open",
                          state |-> "connecting", emitted |-> 0, plain |-> TRUE, got |-> {}]
        /\ \A t \in DOMAIN sockets :
             /\ sockets'[t].conn = sockets[t].conn
             /\ t # openSocket[c] => sockets'[t] = sockets[t]
             /\ t = openSocket[c] => sockets'[t].state = TerminatedState(sockets[t].state)
        /\ openSocket' = [openSocket EXCEPT ![c] = n] /\ toClient' = toClient
    BY <1>2, <1>3, <1>9, OpenSocketEffect
  <2>2. DOMAIN sockets = 1..Len(sockets) /\ Len(sockets) \in Nat /\ n \in Nat
    BY SocketTypes
  <2>3. openSocket' \in [Conns -> 0..MaxSockets]
    BY <1>5, <2>1, <2>2, SocketTypes
  <2>4. openSocket'[c] = n /\ \A d \in Conns : d # c => openSocket'[d] = openSocket[d]
    BY <1>5, <2>1
  <2> HIDE DEF n, m
  <2>5. CurrentOwned'
    BY <1>1, <2>1, <2>4 DEF CurrentOwned, NoSocket
  <2>6. ASSUME NEW t \in DOMAIN sockets'
        PROVE  LET d == sockets'[t].conn IN
               /\ link'[d] # "unused"
               /\ link'[d] # "gone" => t <= openSocket'[d]
               /\ sockets'[t].state \in Live => openSocket'[d] = t
               /\ Pending(t)' => t # openSocket'[d]
               /\ Pending(t)' /\ openSocket'[d] # NoSocket => sockets'[openSocket'[d]].state = "connecting"
    <3>1. CASE t = n
      BY <1>1, <2>1, <2>2, <2>4, <3>1 DEF Pending
    <3>2. CASE t \in DOMAIN sockets /\ sockets[t].conn = c
      <4>1. t <= n /\ t # n /\ sockets'[t].conn = c
        BY <2>1, <2>2, <3>2
      <4>2. sockets'[t].state \notin Live
        <5>1. CASE t = openSocket[c]
          BY <2>1, <3>2, <5>1, SocketTypes DEF TerminatedState, Live, States
        <5>2. CASE t # openSocket[c]
          BY <2>1, <3>2, <5>2 DEF SocketsOwned
        <5> QED
          BY <5>1, <5>2
      <4> QED
        BY <1>1, <2>1, <2>4, <4>1, <4>2
    <3>3. CASE t \in DOMAIN sockets /\ sockets[t].conn # c
      <4> DEFINE d == sockets[t].conn
      <4>1. d \in Conns /\ d # c /\ t # openSocket[c]
        BY <3>3, SocketTypes DEF CurrentOwned, NoSocket
      <4>2. sockets'[t] = sockets[t] /\ openSocket'[d] = openSocket[d]
        BY <2>1, <2>4, <3>3, <4>1
      <4>3. openSocket[d] # NoSocket => sockets'[openSocket[d]] = sockets[openSocket[d]]
        BY <2>1, <4>1 DEF CurrentOwned
      <4>4. /\ link[d] # "unused" /\ (link[d] # "gone" => t <= openSocket[d])
            /\ (sockets[t].state \in Live => openSocket[d] = t)
            /\ (Pending(t) => t # openSocket[d])
            /\ (Pending(t) /\ openSocket[d] # NoSocket => sockets[openSocket[d]].state = "connecting")
        BY <3>3 DEF SocketsOwned
      <4> QED
        BY <1>1, <4>2, <4>3, <4>4 DEF Pending
    <3> QED
      BY <2>1, <3>1, <3>2, <3>3
  <2>7. SocketsOwned'
    BY <2>6 DEF SocketsOwned
  <2> QED
    BY <1>4, <1>5, <2>1, <2>3, <2>5, <2>7
<1> QED
  BY <1>7, <1>8, <1>9, ReceiveCases

(* The end of a connection leaves no current socket behind.                   *)
LEMMA CloseBase ==
  ASSUME Base, NEW c \in Conns, UNCHANGED clientVars, ProxyClose(c)
  PROVE  Base'
<1> USE DEF Base
<1>1. /\ link[c] = "cut" /\ link' = [link EXCEPT ![c] = "gone"] /\ toProxy' = [toProxy EXCEPT ![c] = <<>>]
      /\ sockets' = Terminated(c) /\ openSocket' = [openSocket EXCEPT ![c] = NoSocket] /\ toClient' = toClient
  BY DEF ProxyClose, SocketsAfterClose
<1>2. openSocket[c] \in {NoSocket} \cup DOMAIN sockets
  BY DEF CurrentOwned
<1>3. /\ sockets' \in Seq(Socket) /\ Len(sockets') = Len(sockets) /\ DOMAIN sockets' = DOMAIN sockets
      /\ \A t \in DOMAIN sockets :
           /\ sockets'[t].conn = sockets[t].conn
           /\ t # openSocket[c] => sockets'[t] = sockets[t]
           /\ t = openSocket[c] => sockets'[t].state = TerminatedState(sockets[t].state)
  BY <1>1, <1>2, TerminatedEffect
<1>4. /\ link \in [Conns -> {"unused", "up", "cut", "gone"}] /\ openSocket \in [Conns -> 0..MaxSockets]
      /\ toProxy \in [Conns -> Seq(Request)] /\ MaxSockets \in Nat
  BY SocketTypes DEF ClientsTypeOK, ProxyTypeOK
<1>5. link' \in [Conns -> {"unused", "up", "cut", "gone"}] /\ toProxy' \in [Conns -> Seq(Request)]
      /\ openSocket' \in [Conns -> 0..MaxSockets]
  BY <1>1, <1>4 DEF NoSocket
<1>6. /\ link'[c] = "gone" /\ openSocket'[c] = NoSocket /\ toProxy'[c] = <<>>
      /\ \A d \in Conns : d # c => link'[d] = link[d] /\ openSocket'[d] = openSocket[d] /\ toProxy'[d] = toProxy[d]
  BY <1>1, <1>4
<1>7. ClientsTypeOK'
  BY <1>1, <1>3, <1>5 DEF ClientsTypeOK, ProxyTypeOK, clientVars
<1>8. LinksInOrder'
  BY <1>1, <1>6, SocketTypes DEF LinksInOrder, clientVars
<1>9. CurrentOwned'
  BY <1>3, <1>6 DEF CurrentOwned
<1>10. ASSUME NEW t \in DOMAIN sockets'
       PROVE  LET d == sockets'[t].conn IN
              /\ link'[d] # "unused"
              /\ link'[d] # "gone" => t <= openSocket'[d]
              /\ sockets'[t].state \in Live => openSocket'[d] = t
              /\ Pending(t)' => t # openSocket'[d]
              /\ Pending(t)' /\ openSocket'[d] # NoSocket => sockets'[openSocket'[d]].state = "connecting"
  <2>0. t \in DOMAIN sockets /\ t # NoSocket
    BY <1>3, SocketTypes DEF NoSocket
  <2>1. CASE sockets[t].conn = c
    <3>1. sockets'[t].state \notin Live
      <4>1. CASE t = openSocket[c]
        BY <1>3, <2>0, <4>1, SocketTypes DEF TerminatedState, Live, States
      <4>2. CASE t # openSocket[c]
        BY <1>3, <2>0, <2>1, <4>2 DEF SocketsOwned
      <4> QED
        BY <4>1, <4>2
    <3> QED
      BY <1>3, <1>6, <2>0, <2>1, <3>1
  <2>2. CASE sockets[t].conn # c
    <3> DEFINE d == sockets[t].conn
    <3>1. d \in Conns /\ d # c /\ t # openSocket[c]
      BY <2>0, <2>2, SocketTypes DEF CurrentOwned
    <3>2. sockets'[t] = sockets[t] /\ openSocket'[d] = openSocket[d] /\ link'[d] = link[d]
      BY <1>3, <1>6, <2>0, <3>1
    <3>3. openSocket[d] # NoSocket => sockets'[openSocket[d]] = sockets[openSocket[d]]
      BY <1>3, <3>1 DEF CurrentOwned
    <3>4. /\ link[d] # "unused" /\ (link[d] # "gone" => t <= openSocket[d])
          /\ (sockets[t].state \in Live => openSocket[d] = t)
          /\ (Pending(t) => t # openSocket[d])
          /\ (Pending(t) /\ openSocket[d] # NoSocket => sockets[openSocket[d]].state = "connecting")
      BY <2>0 DEF SocketsOwned
    <3> QED
      BY <3>2, <3>3, <3>4 DEF Pending
  <2> QED
    BY <2>1, <2>2
<1>11. SocketsOwned'
  BY <1>10 DEF SocketsOwned
<1> QED
  BY <1>7, <1>8, <1>9, <1>11
------------------------------------------------------------------------------
(* A message of the client joins those on their way, or those that wait.       *)
LEMMA SendEffect ==
  ASSUME ClientsTypeOK, NEW m \in Request, Send(m)
  PROVE  /\ toProxy' \in [Conns -> Seq(Request)] /\ outbox' \in Seq(Request)
         /\ \A c \in Conns : c # conn => toProxy'[c] = toProxy[c]
         /\ link[conn] = "up" => toProxy'[conn] = Append(toProxy[conn], m) /\ outbox' = outbox
         /\ link[conn] # "up" => toProxy' = toProxy /\ outbox' = Append(outbox, m)
<1>1. toProxy \in [Conns -> Seq(Request)] /\ outbox \in Seq(Request) /\ conn \in Conns
  BY DEF ClientsTypeOK, ProxyTypeOK
<1>2. CASE link[conn] = "up"
  <2>1. Append(toProxy[conn], m) \in Seq(Request)
    BY <1>1, AppendProperties
  <2> QED
    BY <1>1, <1>2, <2>1 DEF Send
<1>3. CASE link[conn] # "up"
  <2>1. Append(outbox, m) \in Seq(Request)
    BY <1>1, AppendProperties
  <2> QED
    BY <1>1, <1>3, <2>1 DEF Send
<1> QED
  BY <1>2, <1>3

(* A step of a page that changes the queues to the proxy at most.              *)
LEMMA PageStepBase ==
  ASSUME Base, UNCHANGED <<link, openSocket, sockets, kind, conn, download>>,
         toProxy' \in [Conns -> Seq(Request)], outbox' \in Seq(Request),
         toClient' \in [Conns -> Seq(Reply)],
         \A c \in Conns : c # conn => toProxy'[c] = toProxy[c] /\ toClient'[c] = toClient[c],
         link[conn] = "up" => outbox' = outbox,
         link[conn] # "up" => toProxy' = toProxy /\ toClient' = toClient,
         page' \in Page, sent' \in 0..MaxSent, selections' \in 0..MaxSelections
  PROVE  Base'
<1> USE DEF Base
<1>1. ClientsTypeOK'
  BY DEF ClientsTypeOK, ProxyTypeOK
<1>2. LinksInOrder'
  BY DEF LinksInOrder
<1>3. CurrentOwned' /\ SocketsOwned'
  BY DEF CurrentOwned, SocketsOwned, Pending
<1> QED
  BY <1>1, <1>2, <1>3

(* The types of what is said of clients.                                      *)
LEMMA ClientTypes ==
  ASSUME ClientsTypeOK
  PROVE  /\ page \in Page /\ sent \in 0..MaxSent /\ selections \in 0..MaxSelections
         /\ MaxSent \in Nat /\ MaxSelections \in Nat
         /\ toProxy \in [Conns -> Seq(Request)] /\ outbox \in Seq(Request)
         /\ toClient \in [Conns -> Seq(Reply)] /\ link \in [Conns -> {"unused", "up", "cut", "gone"}]
         /\ conn \in Conns /\ download \in Download
BY ProxyClientsAssumption DEF ClientsTypeOK, ProxyTypeOK

(* What is asked for is a stream of the menus.                                *)
LEMMA AskTypes ==
  ASSUME ClientsTypeOK, NEW p \in Page, p.service # None, Ask(p)
  PROVE  /\ page' \in Page /\ page' = [p EXCEPT !.currentUrl = <<p.lease, p.service>>]
         /\ [type |-> "open", url |-> <<p.lease, p.service>>] \in Request
         /\ Send([type |-> "open", url |-> <<p.lease, p.service>>])
<1>1. <<p.lease, p.service>> \in Urls
  BY ProxyClientsAssumption DEF Page
<1> QED
  BY <1>1 DEF Ask, Page, Request

(* The status of the lease arrives.                                           *)
LEMMA StatusArrivesBase == ASSUME Base, StatusArrives PROVE Base'
<1> DEFINE p == [page EXCEPT !.service = FirstService]
<1>1. p \in Page /\ p.service # None
  BY ClientTypes, ProxyClientsAssumption DEF Base, Page
<1>2. /\ UNCHANGED <<link, toClient, openSocket, sockets, kind, conn, download, sent, selections>>
      /\ (page' = p /\ UNCHANGED <<toProxy, outbox>>) \/ Ask(p)
  BY DEF StatusArrives
<1> HIDE DEF p
<1>3. CASE page' = p /\ UNCHANGED <<toProxy, outbox>>
  BY <1>1, <1>2, <1>3, ClientTypes, PageStepBase DEF Base
<1>4. CASE Ask(p)
  <2>1. page' \in Page /\ \E m \in Request : Send(m)
    BY <1>1, <1>4, AskTypes DEF Base
  <2> QED
    BY <1>2, <2>1, SendEffect, ClientTypes, PageStepBase DEF Base
<1> QED
  BY <1>2, <1>3, <1>4

(* Another service is selected.                                               *)
LEMMA SelectServiceBase == ASSUME Base, SelectService PROVE Base'
<1>1. PICK v \in Services :
        Ask([page EXCEPT !.service = v, !.isConnectionEstablished = FALSE,
                         !.isChangingSocket = kind = "shell"])
  BY DEF SelectService
<1> DEFINE p == [page EXCEPT !.service = v, !.isConnectionEstablished = FALSE,
                             !.isChangingSocket = kind = "shell"]
<1>2. p \in Page /\ p.service # None
  BY ClientTypes, ProxyClientsAssumption DEF Base, Page
<1> HIDE DEF p
<1>3. page' \in Page /\ \E m \in Request : Send(m)
  BY <1>1, <1>2, AskTypes DEF Base, p
<1>4. /\ UNCHANGED <<link, toClient, openSocket, sockets, kind, conn, download, sent>>
      /\ selections' \in 0..MaxSelections
  BY ClientTypes DEF SelectService, Base
<1> QED
  BY <1>3, <1>4, SendEffect, ClientTypes, PageStepBase DEF Base

(* Another lease is selected.                                                 *)
LEMMA SelectLeaseBase == ASSUME Base, SelectLease PROVE Base'
<1>1. page' \in Page
  BY ClientTypes DEF SelectLease, Base, Page
<1>2. /\ UNCHANGED <<link, toProxy, toClient, openSocket, sockets, kind, conn, outbox, download, sent>>
      /\ selections' \in 0..MaxSelections
  BY ClientTypes DEF SelectLease, Base, proxyVars
<1> QED
  BY <1>1, <1>2, ClientTypes, PageStepBase DEF Base

(* A key is typed.                                                            *)
LEMMA KeyBase == ASSUME Base, Key PROVE Base'
<1>1. page.currentUrl \in Urls
  BY ClientTypes DEF Key, Base, Page
<1>2. [type |-> "data", url |-> page.currentUrl] \in Request
  BY <1>1 DEF Request
<1>3. \E m \in Request : Send(m)
  BY <1>2 DEF Key
<1>4. /\ UNCHANGED <<link, toClient, openSocket, sockets, kind, conn, page, download, selections>>
      /\ sent' \in 0..MaxSent
  BY ClientTypes DEF Key, Base
<1> QED
  BY <1>3, <1>4, SendEffect, ClientTypes, PageStepBase DEF Base

(* A ping is sent.                                                            *)
LEMMA SendPingBase == ASSUME Base, SendPing PROVE Base'
<1>1. \E m \in Request : Send(m)
  BY DEF SendPing, Ping, Request
<1>2. /\ UNCHANGED <<link, toClient, openSocket, sockets, kind, conn, page, download, selections>>
      /\ sent' \in 0..MaxSent
  BY ClientTypes DEF SendPing, Base
<1> QED
  BY <1>1, <1>2, SendEffect, ClientTypes, PageStepBase DEF Base

(* The reply at the head of the queue to the client, and the queue without it. *)
LEMMA HeadOfReplies ==
  ASSUME ClientsTypeOK, toClient[conn] # <<>>, toClient' = [toClient EXCEPT ![conn] = Tail(@)]
  PROVE  /\ Head(toClient[conn]) \in Reply /\ toClient[conn] \in Seq(Reply)
         /\ Head(toClient[conn]) = toClient[conn][1] /\ Len(toClient[conn]) \in Nat \ {0}
         /\ toClient' \in [Conns -> Seq(Reply)]
         /\ Len(toClient'[conn]) = Len(toClient[conn]) - 1
         /\ \A i \in 1..Len(toClient'[conn]) : toClient'[conn][i] = toClient[conn][i + 1]
         /\ \A c \in Conns : c # conn => toClient'[c] = toClient[c]
<1>1. toClient \in [Conns -> Seq(Reply)] /\ conn \in Conns
  BY ClientTypes
<1>2. /\ Head(toClient[conn]) \in Reply /\ Tail(toClient[conn]) \in Seq(Reply)
      /\ Len(Tail(toClient[conn])) = Len(toClient[conn]) - 1
      /\ \A i \in 1..Len(Tail(toClient[conn])) : Tail(toClient[conn])[i] = toClient[conn][i + 1]
  BY <1>1, HeadTailProperties
<1>3. Len(toClient[conn]) \in Nat \ {0} /\ Head(toClient[conn]) = toClient[conn][1]
  BY <1>1, EmptySeq
<1> QED
  BY <1>1, <1>2, <1>3

(* A page takes the reply at the head.                                        *)
LEMMA PageReceiveBase == ASSUME Base, PageReceive PROVE Base'
<1>1. /\ kind \in Streams /\ toClient[conn] # <<>> /\ toClient' = [toClient EXCEPT ![conn] = Tail(@)]
      /\ UNCHANGED <<link, toProxy, openSocket, sockets, kind, conn, outbox, download, sent, selections>>
      /\ page' = IF kind = "shell" THEN ShellReceived(Head(toClient[conn])) ELSE LogReceived
  BY DEF PageReceive
<1>2. page' \in Page
  BY <1>1, ClientTypes DEF Base, Page, ShellReceived, LogReceived
<1>3. link[conn] = "up"
  BY <1>1, ClientTypes DEF Base, LinksInOrder
<1> QED
  BY <1>1, <1>2, <1>3, HeadOfReplies, ClientTypes, PageStepBase DEF Base

(* The connection opens, with what was waiting for it.                        *)
LEMMA ConnectBase == ASSUME Base, Connect PROVE Base'
<1> USE DEF Base
<1>1. /\ link[conn] = "unused" /\ link' = [link EXCEPT ![conn] = "up"]
      /\ toProxy' = [toProxy EXCEPT ![conn] = outbox] /\ outbox' = <<>>
      /\ UNCHANGED <<toClient, openSocket, sockets, kind, conn, page, download, sent, selections>>
  BY DEF Connect
<1>2. /\ link' \in [Conns -> {"unused", "up", "cut", "gone"}] /\ toProxy' \in [Conns -> Seq(Request)]
      /\ link'[conn] = "up" /\ toProxy'[conn] = outbox
      /\ \A c \in Conns : c # conn => link'[c] = link[c] /\ toProxy'[c] = toProxy[c]
  BY <1>1, ClientTypes
<1>3. ClientsTypeOK'
  BY <1>1, <1>2 DEF ClientsTypeOK, ProxyTypeOK
<1>4. LinksInOrder'
  BY <1>1, <1>2, SocketTypes DEF LinksInOrder
<1>5. CurrentOwned' /\ SocketsOwned'
  BY <1>1, <1>2, SocketTypes DEF CurrentOwned, SocketsOwned, Pending
<1> QED
  BY <1>3, <1>4, <1>5

(* The client's end of its connection closes; it may go on with the next one. *)
LEMMA CutBase ==
  ASSUME Base, link[conn] \in {"unused", "up"}, Cut,
         UNCHANGED <<toProxy, openSocket, sockets, kind, outbox, page, sent, selections>>,
         download' \in Download,
         \/ kind \in Streams /\ link[conn] = "up" /\ conn' = conn + 1 /\ conn < MaxConns
              /\ UNCHANGED download
         \/ kind \in Downloads /\ conn' = conn /\ download'.outcome # "none"
  PROVE  Base'
<1> USE DEF Base
<1>1. /\ link' = [link EXCEPT ![conn] = "cut"] /\ toClient' = [toClient EXCEPT ![conn] = <<>>]
  BY DEF Cut
<1>2. /\ link' \in [Conns -> {"unused", "up", "cut", "gone"}] /\ toClient' \in [Conns -> Seq(Reply)]
      /\ link'[conn] = "cut" /\ toClient'[conn] = <<>>
      /\ \A c \in Conns : c # conn => link'[c] = link[c] /\ toClient'[c] = toClient[c]
  BY <1>1, ClientTypes
<1>3. conn \in Conns /\ conn' \in Conns /\ Conns = 1..MaxConns /\ MaxConns \in Nat
  BY SocketTypes
<1>4. ClientsTypeOK'
  BY <1>2, <1>3 DEF ClientsTypeOK, ProxyTypeOK
<1>5. Streams \cap Downloads = {}
  BY DEF Streams, Downloads
<1>6. LinksInOrder'
  <2>1. CASE kind \in Streams /\ link[conn] = "up" /\ conn' = conn + 1 /\ conn < MaxConns
    <3>1. /\ link'[conn'] = "unused"
          /\ \A c \in Conns : (c < conn' => link'[c] \in {"cut", "gone"}) /\ (c > conn' => link'[c] = "unused")
      <4>1. conn + 1 \in Conns /\ conn + 1 # conn /\ conn + 1 > conn
        BY <1>3, <2>1
      <4>2. ASSUME NEW c \in Conns
            PROVE  (c < conn + 1 => link'[c] \in {"cut", "gone"}) /\ (c > conn + 1 => link'[c] = "unused")
        <5>1. c < conn \/ c = conn \/ c > conn
          BY <1>3
        <5>2. (c < conn => link[c] \in {"cut", "gone"}) /\ (c > conn => link[c] = "unused")
          BY DEF LinksInOrder
        <5>3. ~(c < conn + 1 /\ c > conn) /\ (c > conn + 1 => c > conn)
          BY <1>3
        <5> QED
          BY <1>2, <5>1, <5>2, <5>3
      <4>3. link'[conn + 1] = "unused"
        BY <1>2, <4>1 DEF LinksInOrder
      <4> QED
        BY <2>1, <4>2, <4>3
    <3> QED
      BY ZenonT(60), <1>2, <1>3, <1>5, <2>1, <3>1 DEF LinksInOrder
  <2>2. CASE kind \in Downloads /\ conn' = conn /\ download'.outcome # "none"
    BY <1>2, <1>3, <1>5, <2>2 DEF LinksInOrder
  <2> QED
    BY <2>1, <2>2
<1>7. \A c \in Conns : /\ link[c] \in {"up", "cut"} => link'[c] \in {"up", "cut"}
                       /\ link[c] # "unused" => link'[c] # "unused"
                       /\ link[c] = "gone" => link'[c] = "gone"
  BY <1>2
<1>8. CurrentOwned'
  BY <1>7 DEF CurrentOwned
<1>9. SocketsOwned'
  BY ZenonT(60), <1>2, <1>7, SocketTypes DEF SocketsOwned, Pending
<1> QED
  BY <1>4, <1>6, <1>8, <1>9

(* A page goes on with its next connection.                                   *)
LEMMA ConnectionLostBase == ASSUME Base, ConnectionLost PROVE Base'
BY CutBase, ClientTypes DEF ConnectionLost, Base

(* What a download does with a reply.                                          *)
LEMMA DownloadReceiveIs ==
  ASSUME Base, DownloadReceive
  PROVE  /\ kind \in Downloads /\ conn = 1 /\ link[conn] = "up" /\ toClient[conn] # <<>>
         /\ download.outcome = "none"
         /\ UNCHANGED <<toProxy, openSocket, sockets, kind, conn, outbox, page, sent, selections>>
         /\ download' \in Download
         /\ LET m == Head(toClient[conn]) IN
            \/ /\ download'.outcome = "none" /\ UNCHANGED link
               /\ toClient' = [toClient EXCEPT ![conn] = Tail(@)]
               /\ \/ m = "output" /\ download'.content = download.content + 1
                  \/ kind = "logFile" /\ m # "output" /\ download'.content = download.content
            \/ /\ kind = "file" /\ Cut /\ download'.content = download.content
               /\ download'.outcome = "failed"
                    \/ (download'.outcome = "saved" /\ m = "result")
<1>1. /\ kind \in Downloads /\ link[conn] = "up" /\ toClient[conn] # <<>>
      /\ UNCHANGED <<toProxy, openSocket, sockets, kind, conn, outbox, page, sent, selections>>
      /\ LET m == Head(toClient[conn]) IN
         IF kind = "file" THEN FileReceived(m) ELSE LogLineReceived(m)
      /\ toClient' = IF download'.outcome = "none" THEN [toClient EXCEPT ![conn] = Tail(@)]
                     ELSE [toClient EXCEPT ![conn] = <<>>]
  BY DEF DownloadReceive
<1>2. conn = 1 /\ download.outcome = "none" /\ download \in Download
  BY <1>1, ClientTypes DEF Base, LinksInOrder
<1>3. ASSUME NEW o \in {"saved", "failed"}, Ended(o)
      PROVE  download' \in Download /\ download'.outcome = o /\ download'.content = download.content /\ Cut
  BY <1>2, <1>3 DEF Ended, Download
<1>4. ASSUME download' = [download EXCEPT !.content = @ + 1]
      PROVE  download' \in Download /\ download'.outcome = "none" /\ download'.content = download.content + 1
  BY <1>2, <1>4 DEF Download
<1> DEFINE m == Head(toClient[conn])
<1>5. CASE kind = "file"
  <2>1. FileReceived(m)
    BY <1>1, <1>5
  <2> HIDE DEF m
  <2>2. CASE m = "output"
    BY <1>1, <1>2, <1>4, <2>1, <2>2 DEF FileReceived, m
  <2>3. CASE m = "result" /\ download.content > 0
    BY <1>1, <1>2, <1>3, <1>5, <2>1, <2>3 DEF FileReceived, m
  <2>4. CASE m # "output" /\ ~(m = "result" /\ download.content > 0)
    <3>1. Ended("failed")
      BY <2>1, <2>4 DEF FileReceived
    <3> QED
      BY <1>1, <1>2, <1>3, <1>5, <3>1 DEF m
  <2> QED
    BY <2>2, <2>3, <2>4
<1>6. CASE kind = "logFile"
  <2>1. LogLineReceived(m)
    BY <1>1, <1>6
  <2> HIDE DEF m
  <2> QED
    BY <1>1, <1>2, <1>4, <1>6, <2>1 DEF LogLineReceived, m
<1> QED
  BY <1>1, <1>5, <1>6 DEF Downloads

(* A download takes the reply at the head.                                    *)
LEMMA DownloadReceiveBase == ASSUME Base, DownloadReceive PROVE Base'
<1>1. /\ kind \in Downloads /\ conn = 1 /\ link[conn] = "up" /\ toClient[conn] # <<>>
      /\ download.outcome = "none"
      /\ UNCHANGED <<toProxy, openSocket, sockets, kind, conn, outbox, page, sent, selections>>
      /\ download' \in Download
      /\ \/ /\ download'.outcome = "none" /\ UNCHANGED link
            /\ toClient' = [toClient EXCEPT ![conn] = Tail(@)]
         \/ Cut /\ download'.outcome # "none"
  BY DownloadReceiveIs, Zenon
<1>2. CASE Cut /\ download'.outcome # "none"
  BY <1>1, <1>2, CutBase
<1>3. CASE download'.outcome = "none" /\ UNCHANGED link /\ toClient' = [toClient EXCEPT ![conn] = Tail(@)]
  <2>1. toClient' \in [Conns -> Seq(Reply)] /\ \A c \in Conns : c # conn => toClient'[c] = toClient[c]
    BY <1>1, <1>3, HeadOfReplies DEF Base
  <2>2. ClientsTypeOK'
    BY <1>1, <1>3, <2>1 DEF Base, ClientsTypeOK, ProxyTypeOK
  <2>3. LinksInOrder'
    BY <1>1, <1>3, <2>1 DEF Base, LinksInOrder
  <2>4. CurrentOwned' /\ SocketsOwned'
    BY <1>1, <1>3 DEF Base, CurrentOwned, SocketsOwned, Pending
  <2> QED
    BY <2>2, <2>3, <2>4 DEF Base
<1> QED
  BY <1>1, <1>2, <1>3

(* A download is ended.                                                       *)
LEMMA DownloadEndsBase == ASSUME Base, LogsAreIdle \/ DownloadEnds PROVE Base'
<1>1. /\ kind \in Downloads /\ download.outcome = "none"
      /\ UNCHANGED <<toProxy, openSocket, sockets, kind, conn, outbox, page, sent, selections>>
      /\ \E o \in {"saved", "cancelled", "failed"} : Ended(o)
  BY DEF LogsAreIdle, DownloadEnds, Downloads
<1>2. Cut /\ download' \in Download /\ download'.outcome # "none"
  BY <1>1, ClientTypes DEF Base, Ended, Download
<1>3. link[conn] \in {"unused", "up"}
  BY <1>1 DEF Base, LinksInOrder
<1> QED
  BY <1>1, <1>2, <1>3, CutBase

(* Every step keeps sockets and connections in order.                         *)
LEMMA BaseStep == Base /\ [ClientsNext]_allVars => Base'
<1> SUFFICES ASSUME Base, [ClientsNext]_allVars PROVE Base'
  OBVIOUS
<1>1. CASE ProxyStep /\ UNCHANGED clientVars
  <2>1. ASSUME NEW c \in Conns, ProxyReceive(c) \/ ProxyClose(c) PROVE Base'
    BY <1>1, <2>1, ReceiveBase, CloseBase
  <2>2. ASSUME NEW s \in DOMAIN sockets,
               \/ SocketOpens(s) \/ SocketRefused(s) \/ SocketOutput(s) \/ SocketMimics(s)
               \/ SocketResult(s) \/ SocketCloses(s) \/ TerminatedCloses(s)
        PROVE Base'
    BY <1>1, <2>2, SocketStepBase
  <2> QED
    BY <1>1, <2>1, <2>2 DEF ProxyStep
<1>2. CASE UNCHANGED allVars
  BY <1>2 DEF Base, allVars, proxyVars, clientVars, ClientsTypeOK, ProxyTypeOK, LinksInOrder,
              CurrentOwned, SocketsOwned, Pending
<1> QED
  BY <1>1, <1>2, ConnectBase, ConnectionLostBase, StatusArrivesBase, SelectServiceBase,
     SelectLeaseBase, KeyBase, SendPingBase, PageReceiveBase, DownloadReceiveBase, DownloadEndsBase
     DEF ClientsNext
------------------------------------------------------------------------------
(* Keys *)

(* Connection c has opened a shell with the certificate.                      *)
HasCert(c) == \E s \in DOMAIN sockets : sockets[s].conn = c /\ sockets[s].cert
(* The current socket of c is one to url u.                                   *)
Owns(c, u) == openSocket[c] # NoSocket /\ sockets[openSocket[c]].url = u
(* A key for url u that arrives now finds its shell, or opens one on a        *)
(* connection that was opened again.                                          *)
MeetsShell(c, u) == IF HasCert(c) THEN Owns(c, u) ELSE c > 1
IsOpen(m) == m.type = "open"
(* A key for u after the first n messages of q will be met by its shell.      *)
Directed(c, q, n, u) ==
  \/ \E j \in 1..n : IsOpen(q[j]) /\ q[j].url = u /\ \A k \in (j + 1)..n : ~IsOpen(q[k])
  \/ (\A k \in 1..n : ~IsOpen(q[k])) /\ MeetsShell(c, u)
(* All keys of a queue will be.                                               *)
QueueDirected(c, q) ==
  \A i \in 1..Len(q) : q[i].type = "data" => Directed(c, q, i - 1, q[i].url)

OnTheirWay == \A c \in Conns : \A q \in {toProxy[c]} : QueueDirected(c, q)
InTheOutbox == link[conn] = "unused" => \A c \in {conn} : \A q \in {outbox} : QueueDirected(c, q)
(* Where the next message goes.                                               *)
Waiting == IF link[conn] = "up" THEN toProxy[conn] ELSE outbox
(* The next key will be, too.                                                 *)
NextKey ==
  kind = "shell" =>
    \A c \in {conn} : \A q \in {Waiting} : \A u \in {page.currentUrl} \ {None} :
      Directed(c, q, Len(q), u)
KeyInv == KeysReachTheirShell /\ OnTheirWay /\ InTheOutbox /\ NextKey

(* Who meets a shell depends on the sockets only.                             *)
LEMMA MeetsSame ==
  ASSUME CurrentOwned, DOMAIN sockets' = DOMAIN sockets,
         \A t \in DOMAIN sockets :
           /\ sockets'[t].conn = sockets[t].conn /\ sockets'[t].url = sockets[t].url
           /\ sockets'[t].cert = sockets[t].cert,
         NEW c \in Conns, openSocket'[c] = openSocket[c]
  PROVE  \A q, n, u : Directed(c, q, n, u)' <=> Directed(c, q, n, u)
<1>1. ASSUME NEW u PROVE MeetsShell(c, u)' <=> MeetsShell(c, u)
  BY DEF MeetsShell, HasCert, Owns, CurrentOwned
<1>2. ASSUME NEW q, NEW n, NEW u PROVE Directed(c, q, n, u)' <=> Directed(c, q, n, u)
  BY <1>1 DEF Directed, IsOpen
<1> QED
  BY <1>2

(* The message at the head is taken off.                                      *)
LEMMA DirectedTail ==
  ASSUME NEW c, NEW u, NEW q, NEW r, NEW n \in Nat, Len(q) \in Nat \ {0}, Len(r) = Len(q) - 1, n <= Len(r),
         \A i \in 1..Len(r) : r[i] = q[i + 1],
         Directed(c, q, n + 1, u),
         IsOpen(q[1]) => MeetsShell(c, q[1].url)',
         ~IsOpen(q[1]) /\ MeetsShell(c, u) => MeetsShell(c, u)'
  PROVE  Directed(c, r, n, u)'
<1>1. \A i \in 1..n : r[i] = q[i + 1] /\ i + 1 \in 1..(n + 1)
  OBVIOUS
<1>2. 1 \in 1..(n + 1)
  OBVIOUS
<1>3. CASE (\A k \in 1..(n + 1) : ~IsOpen(q[k])) /\ MeetsShell(c, u)
  BY <1>1, <1>2, <1>3 DEF Directed, IsOpen
<1>4. ASSUME NEW j \in 1..(n + 1), IsOpen(q[j]), q[j].url = u, \A k \in (j + 1)..(n + 1) : ~IsOpen(q[k])
      PROVE  Directed(c, r, n, u)'
  <2>1. CASE j = 1
    <3>0. \A k \in 1..n : k + 1 \in (j + 1)..(n + 1)
      BY <2>1
    <3>1. \A k \in 1..n : ~IsOpen(r[k])
      BY <1>1, <1>4, <3>0
    <3>2. MeetsShell(c, u)'
      BY <1>4, <2>1
    <3> QED
      BY <3>1, <3>2 DEF Directed, IsOpen
  <2>2. CASE j # 1
    <3>0. j - 1 \in 1..n /\ j = (j - 1) + 1
      BY <2>2
    <3>1. PICK i \in 1..n : j = i + 1
      BY ONLY <3>0
    <3>2. IsOpen(r[i]) /\ r[i].url = u
      BY <1>1, <1>4, <3>1
    <3>3. \A k \in (i + 1)..n : k \in 1..n /\ k + 1 \in (j + 1)..(n + 1)
      BY <3>1
    <3>4. \A k \in (i + 1)..n : ~IsOpen(r[k])
      BY <1>1, <1>4, <3>3
    <3> QED
      BY <3>2, <3>4 DEF Directed, IsOpen
  <2> QED
    BY <2>1, <2>2
<1> QED
  BY <1>3, <1>4 DEF Directed

(* A message is sent after the others.                                        *)
LEMMA DirectedAppend ==
  ASSUME NEW c, NEW q \in Seq(Request), NEW m \in Request,
         QueueDirected(c, q), m.type = "data" => Directed(c, q, Len(q), m.url)
  PROVE  /\ QueueDirected(c, Append(q, m))
         /\ \A u : ~IsOpen(m) /\ Directed(c, q, Len(q), u) => Directed(c, Append(q, m), Len(Append(q, m)), u)
         /\ IsOpen(m) => Directed(c, Append(q, m), Len(Append(q, m)), m.url)
<1> DEFINE r == Append(q, m)
<1>1. /\ Len(r) = Len(q) + 1 /\ r[Len(q) + 1] = m /\ Len(q) \in Nat
      /\ \A i \in 1..Len(q) : r[i] = q[i]
  BY AppendProperties
<1> HIDE DEF r
<1>2. ASSUME NEW n \in 0..Len(q), NEW u, Directed(c, q, n, u) PROVE Directed(c, r, n, u)
  <2>1. \A i \in 1..n : r[i] = q[i]
    BY <1>1
  <2>2. CASE (\A k \in 1..n : ~IsOpen(q[k])) /\ MeetsShell(c, u)
    BY <2>1, <2>2 DEF Directed
  <2>3. CASE \E j \in 1..n : IsOpen(q[j]) /\ q[j].url = u /\ \A k \in (j + 1)..n : ~IsOpen(q[k])
    <3>1. PICK j \in 1..n : IsOpen(q[j]) /\ q[j].url = u /\ \A k \in (j + 1)..n : ~IsOpen(q[k])
      BY <2>3
    <3>2. \A k \in (j + 1)..n : k \in 1..n
      OBVIOUS
    <3> QED
      BY <2>1, <3>1, <3>2 DEF Directed
  <2> QED
    BY <1>2, <2>2, <2>3 DEF Directed
<1>3. QueueDirected(c, r)
  <2>1. ASSUME NEW i \in 1..Len(r), r[i].type = "data" PROVE Directed(c, r, i - 1, r[i].url)
    <3>1. CASE i \in 1..Len(q)
      <4>1. i - 1 \in 0..Len(q) /\ r[i] = q[i]
        BY <1>1, <3>1
      <4> QED
        BY <1>2, <2>1, <3>1, <4>1 DEF QueueDirected
    <3>2. CASE i = Len(q) + 1
      <4>1. i - 1 = Len(q) /\ Len(q) \in 0..Len(q) /\ r[i] = m
        BY <1>1, <3>2
      <4> QED
        BY <1>2, <2>1, <4>1
    <3> QED
      BY <1>1, <3>1, <3>2
  <2> QED
    BY <2>1 DEF QueueDirected
<1>4. ASSUME NEW u, ~IsOpen(m), Directed(c, q, Len(q), u) PROVE Directed(c, r, Len(r), u)
  <2>1. Directed(c, r, Len(q), u)
    BY <1>1, <1>2, <1>4
  <2>2. CASE (\A k \in 1..Len(q) : ~IsOpen(r[k])) /\ MeetsShell(c, u)
    BY <1>1, <1>4, <2>2 DEF Directed
  <2>3. ASSUME NEW j \in 1..Len(q), IsOpen(r[j]), r[j].url = u, \A k \in (j + 1)..Len(q) : ~IsOpen(r[k])
        PROVE  Directed(c, r, Len(r), u)
    <3>1. j \in 1..Len(r) /\ \A k \in (j + 1)..Len(r) : (k \in (j + 1)..Len(q) \/ k = Len(q) + 1)
      BY <1>1
    <3> QED
      BY <1>1, <1>4, <2>3, <3>1 DEF Directed
  <2> QED
    BY <2>1, <2>2, <2>3 DEF Directed
<1>5. ASSUME IsOpen(m) PROVE Directed(c, r, Len(r), m.url)
  <2>1. Len(r) \in 1..Len(r) /\ (Len(r) + 1)..Len(r) = {}
    BY <1>1
  <2> QED
    BY <1>1, <1>5, <2>1 DEF Directed
<1> QED
  BY <1>3, <1>4, <1>5 DEF r

(* Nothing of the sockets has changed but the state and the output of one.     *)
LEMMA SocketsKept ==
  ASSUME Base, KeysReachTheirShell,
         sockets' = sockets \/ \E s \in DOMAIN sockets :
           /\ Changed(s)
           /\ sockets'[s].got \in {sockets[s].got, sockets[s].got \cup {sockets[s].url}}
  PROVE  /\ KeysReachTheirShell'
         /\ \A c \in Conns : openSocket'[c] = openSocket[c] =>
              \A q, n, u : Directed(c, q, n, u)' <=> Directed(c, q, n, u)
<1> USE DEF Base
<1>1. CASE sockets' = sockets
  BY <1>1, MeetsSame DEF KeysReachTheirShell
<1>2. ASSUME NEW s \in DOMAIN sockets, Changed(s),
             sockets'[s].got \in {sockets[s].got, sockets[s].got \cup {sockets[s].url}}
      PROVE  /\ KeysReachTheirShell'
             /\ \A c \in Conns : openSocket'[c] = openSocket[c] =>
                  \A q, n, u : Directed(c, q, n, u)' <=> Directed(c, q, n, u)
  <2>1. ASSUME NEW t \in DOMAIN sockets'
        PROVE  /\ sockets'[t].got \subseteq {sockets'[t].url}
               /\ ~sockets'[t].cert
                    => /\ sockets'[t].conn > 1
                       /\ \A o \in 1..(t - 1) : sockets'[o].conn = sockets'[t].conn => ~sockets'[o].cert
    <3>1. t \in DOMAIN sockets /\ 1..(t - 1) \subseteq DOMAIN sockets
      BY <1>2, SocketTypes DEF Changed
    <3>2. sockets'[t].got \subseteq {sockets'[t].url}
      BY <1>2, <3>1 DEF KeysReachTheirShell, Changed
    <3> QED
      BY <1>2, <3>1, <3>2 DEF KeysReachTheirShell, Changed
  <2>2. KeysReachTheirShell'
    BY <2>1 DEF KeysReachTheirShell
  <2> QED
    BY <1>2, <2>2, MeetsSame DEF Changed
<1> QED
  BY <1>1, <1>2

(* The queues to the proxy are as they were.                                   *)
LEMMA KeysKept ==
  ASSUME Base, KeyInv, UNCHANGED <<toProxy, openSocket, outbox, kind, conn, link>>,
         page'.currentUrl = page.currentUrl,
         sockets' = sockets \/ \E s \in DOMAIN sockets :
           /\ Changed(s)
           /\ sockets'[s].got \in {sockets[s].got, sockets[s].got \cup {sockets[s].url}}
  PROVE  KeyInv'
<1>1. KeysReachTheirShell' /\ \A c \in Conns : \A q, n, u : Directed(c, q, n, u)' <=> Directed(c, q, n, u)
  BY SocketsKept DEF KeyInv
<1>2. \A c \in Conns : \A q : QueueDirected(c, q)' <=> QueueDirected(c, q)
  BY <1>1 DEF QueueDirected
<1>3. OnTheirWay'
  BY <1>2 DEF KeyInv, OnTheirWay
<1>4. conn \in Conns
  BY SocketTypes DEF Base
<1>5. InTheOutbox'
  BY <1>2, <1>4 DEF KeyInv, InTheOutbox
<1>6. NextKey'
  BY <1>1, <1>4 DEF KeyInv, NextKey, Waiting
<1> QED
  BY <1>1, <1>3, <1>5, <1>6 DEF KeyInv

(* No socket gets anything by a step of its own.                              *)
LEMMA SocketStepKeys ==
  ASSUME Base, KeyInv, NEW s \in DOMAIN sockets, UNCHANGED clientVars,
         \/ SocketOpens(s) \/ SocketRefused(s) \/ SocketOutput(s) \/ SocketMimics(s)
         \/ SocketResult(s) \/ SocketCloses(s) \/ TerminatedCloses(s)
  PROVE  KeyInv'
<1>1. UNCHANGED <<link, toProxy, openSocket>> /\ Changed(s) /\ sockets'[s].got = sockets[s].got
  BY SocketStepEffect DEF Base
<1> QED
  BY <1>1, KeysKept DEF clientVars

(* The end of a connection: nothing of it is on its way any more.             *)
LEMMA CloseKeys ==
  ASSUME Base, KeyInv, NEW c \in Conns, UNCHANGED clientVars, ProxyClose(c)
  PROVE  KeyInv'
<1> USE DEF Base
<1>1. /\ link[c] = "cut" /\ link' = [link EXCEPT ![c] = "gone"] /\ toProxy' = [toProxy EXCEPT ![c] = <<>>]
      /\ sockets' = Terminated(c) /\ openSocket' = [openSocket EXCEPT ![c] = NoSocket]
  BY DEF ProxyClose, SocketsAfterClose
<1>2. openSocket[c] \in {NoSocket} \cup DOMAIN sockets
  BY DEF CurrentOwned
<1>3. /\ DOMAIN sockets' = DOMAIN sockets
      /\ \A t \in DOMAIN sockets :
           /\ sockets'[t].conn = sockets[t].conn /\ sockets'[t].url = sockets[t].url
           /\ sockets'[t].cert = sockets[t].cert /\ sockets'[t].got = sockets[t].got
  BY <1>1, <1>2, TerminatedEffect
<1>4. KeysReachTheirShell'
  <2>1. ASSUME NEW t \in DOMAIN sockets'
        PROVE  /\ sockets'[t].got \subseteq {sockets'[t].url}
               /\ ~sockets'[t].cert
                    => /\ sockets'[t].conn > 1
                       /\ \A o \in 1..(t - 1) : sockets'[o].conn = sockets'[t].conn => ~sockets'[o].cert
    <3>1. t \in DOMAIN sockets /\ 1..(t - 1) \subseteq DOMAIN sockets
      BY <1>3, SocketTypes
    <3> QED
      BY <1>3, <3>1 DEF KeyInv, KeysReachTheirShell
  <2> QED
    BY <2>1 DEF KeysReachTheirShell
<1>5. /\ \A d \in Conns : d # c => openSocket'[d] = openSocket[d] /\ toProxy'[d] = toProxy[d] /\ link'[d] = link[d]
      /\ toProxy'[c] = <<>> /\ link'[c] = "gone"
  BY <1>1, ClientTypes, SocketTypes
<1>6. \A d \in Conns : d # c => \A q, n, u : Directed(d, q, n, u)' <=> Directed(d, q, n, u)
  BY <1>3, <1>5, MeetsSame
<1>7. \A d \in Conns : d # c => \A q : QueueDirected(d, q)' <=> QueueDirected(d, q)
  BY <1>6 DEF QueueDirected
<1>8. OnTheirWay'
  <2>1. ASSUME NEW d \in Conns, NEW q, q = toProxy'[d] PROVE QueueDirected(d, q)'
    <3>1. CASE d = c
      <4>1. Len(q) = 0 /\ 1..0 = {}
        BY <1>5, <2>1, <3>1
      <4> QED
        BY <4>1 DEF QueueDirected
    <3>2. CASE d # c
      BY <1>5, <1>7, <2>1, <3>2 DEF KeyInv, OnTheirWay
    <3> QED
      BY <3>1, <3>2
  <2> QED
    BY <2>1 DEF OnTheirWay
<1>9. conn \in Conns /\ UNCHANGED <<kind, conn, outbox, page>>
  BY SocketTypes DEF clientVars
<1>10. InTheOutbox'
  BY <1>5, <1>7, <1>9 DEF KeyInv, InTheOutbox
<1>11. NextKey'
  <2>1. kind = "shell" => conn # c
    BY <1>1 DEF LinksInOrder, Streams
  <2> QED
    BY <1>5, <1>6, <1>9, <2>1 DEF KeyInv, NextKey, Waiting
<1> QED
  BY <1>4, <1>8, <1>10, <1>11 DEF KeyInv

(* What a message does for those after it.                                     *)
LEMMA ReceiveMeets ==
  ASSUME Base, KeyInv, NEW c \in Conns, ProxyReceive(c), NEW m, m = Head(toProxy[c])
  PROVE  /\ KeysReachTheirShell'
         /\ \A d \in Conns : d # c => \A q, n, u : Directed(d, q, n, u)' <=> Directed(d, q, n, u)
         /\ IsOpen(m) => MeetsShell(c, m.url)'
         /\ \A u : ~IsOpen(m) /\ MeetsShell(c, u) => MeetsShell(c, u)'
<1> USE DEF Base
<1>1. toProxy[c] # <<>> /\ toProxy' = [toProxy EXCEPT ![c] = Tail(@)]
  BY ReceiveCases
<1>2. /\ m \in Request /\ toProxy[c] \in Seq(Request)
      /\ m = toProxy[c][1] /\ Len(toProxy[c]) \in Nat \ {0}
  BY <1>1, HeadOfQueue
<1>3. m = Ping \/ (m # Ping /\ m.type \in {"open", "data"} /\ m.url \in Urls)
  BY <1>2, RequestIs
<1>4. openSocket[c] \in {NoSocket} \cup DOMAIN sockets
  BY DEF CurrentOwned
<1>5. m.type = "data" => MeetsShell(c, m.url)
  <2>1. QueueDirected(c, toProxy[c])
    BY DEF KeyInv, OnTheirWay
  <2>2. 1 \in 1..Len(toProxy[c]) /\ 1 - 1 = 0 /\ 1..0 = {}
    BY <1>2
  <2>3. m.type = "data" => Directed(c, toProxy[c], 0, m.url)
    BY <1>2, <2>1, <2>2 DEF QueueDirected
  <2> QED
    BY <2>2, <2>3 DEF Directed
<1>6. \/ m = Ping /\ UNCHANGED <<openSocket, sockets>>
      \/ m # Ping /\ IsForOpenSocket(c, m) /\ SendOn(c, m) /\ UNCHANGED openSocket
      \/ m # Ping /\ ~IsForOpenSocket(c, m) /\ OpenSocket(c, m)
  BY ReceiveCases
<1>7. ~IsOpen(Ping)
  BY DEF IsOpen, Ping
<1>9. CASE m = Ping /\ UNCHANGED <<openSocket, sockets>>
  <2>1. \A u : MeetsShell(c, u)' <=> MeetsShell(c, u)
    BY <1>9 DEF MeetsShell, HasCert, Owns
  <2> QED
    BY <1>7, <1>9, <2>1, SocketsKept DEF KeyInv
<1>10. CASE m # Ping /\ IsForOpenSocket(c, m) /\ SendOn(c, m) /\ UNCHANGED openSocket
  <2> DEFINE s == openSocket[c]
  <2>1. /\ s \in DOMAIN sockets /\ Changed(s)
        /\ sockets'[s].got \in {sockets[s].got, sockets[s].got \cup {sockets[s].url}}
    BY <1>2, <1>4, <1>10, SendOnEffect
  <2>2. KeysReachTheirShell' /\ \A d \in Conns : \A q, n, u : Directed(d, q, n, u)' <=> Directed(d, q, n, u)
    BY <1>10, <2>1, SocketsKept DEF KeyInv
  <2>3. \A u : MeetsShell(c, u)' <=> MeetsShell(c, u)
    BY <1>10, <2>1 DEF MeetsShell, HasCert, Owns, Changed
  <2>4. Owns(c, m.url)
    BY <1>10 DEF Owns, IsForOpenSocket
  <2>5. MeetsShell(c, m.url)
    <3>0. sockets[s].conn = c /\ s # NoSocket
      BY <1>10 DEF CurrentOwned, IsForOpenSocket
    <3>1. CASE sockets[s].cert
      <4>1. HasCert(c)
        BY <2>1, <3>0, <3>1 DEF HasCert
      <4> QED
        BY <2>4, <4>1 DEF MeetsShell
    <3>2. CASE ~sockets[s].cert
      <4>2. c > 1
        BY <2>1, <3>0, <3>2 DEF KeyInv, KeysReachTheirShell
      <4> QED
        BY <2>4, <4>2 DEF MeetsShell
    <3> QED
      BY <3>1, <3>2
  <2> QED
    BY <1>10, <2>2, <2>3, <2>5
<1>11. CASE m # Ping /\ ~IsForOpenSocket(c, m) /\ OpenSocket(c, m)
  <2> DEFINE n == Len(sockets) + 1
  <2>1. /\ DOMAIN sockets' = DOMAIN sockets \cup {n} /\ n \notin DOMAIN sockets
        /\ sockets'[n] = [conn |-> c, url |-> m.url, cert |-> m.type = "open",
                          state |-> "connecting", emitted |-> 0, plain |-> TRUE, got |-> {}]
        /\ \A t \in DOMAIN sockets :
             /\ sockets'[t].conn = sockets[t].conn /\ sockets'[t].url = sockets[t].url
             /\ sockets'[t].cert = sockets[t].cert /\ sockets'[t].got = sockets[t].got
        /\ openSocket' = [openSocket EXCEPT ![c] = n]
    BY <1>2, <1>4, <1>11, OpenSocketEffect
  <2>0. /\ sockets'[n].conn = c /\ sockets'[n].url = m.url /\ sockets'[n].got = {}
        /\ sockets'[n].cert <=> m.type = "open"
    <3>1. sockets'[n] = [conn |-> c, url |-> m.url, cert |-> m.type = "open",
                         state |-> "connecting", emitted |-> 0, plain |-> TRUE, got |-> {}]
      BY <2>1
    <3>2. sockets'[n].conn = c /\ sockets'[n].url = m.url /\ sockets'[n].got = {}
      BY <3>1
    <3>3. sockets'[n].cert = (m.type = "open")
      <4>1. ASSUME NEW x, x = sockets'[n], NEW type, type = m.type PROVE x.cert = (type = "open")
        <5>1. x = [conn |-> c, url |-> m.url, cert |-> type = "open",
                   state |-> "connecting", emitted |-> 0, plain |-> TRUE, got |-> {}]
          BY ONLY <3>1, <4>1, Zenon
        <5> QED
          BY ONLY <5>1, Zenon
      <4> QED
        BY ONLY <4>1, Zenon
    <3> QED
      BY <3>2, <3>3
  <2>2. /\ DOMAIN sockets = 1..Len(sockets) /\ Len(sockets) \in Nat /\ openSocket'[c] = n /\ n # NoSocket
        /\ \A d \in Conns : d # c => openSocket'[d] = openSocket[d]
    BY <2>1, SocketTypes DEF NoSocket
  <2>3. m.type = "data" => ~HasCert(c) /\ c > 1
    BY <1>5, <1>11 DEF MeetsShell, Owns, IsForOpenSocket
  <2> HIDE DEF n
  <2>4. \A u : Owns(c, u)' <=> u = m.url
    BY <2>0, <2>2 DEF Owns
  <2>5. HasCert(c)' <=> (HasCert(c) \/ m.type = "open")
    BY <2>0, <2>1 DEF HasCert
  <2>6. m.type = "open" => MeetsShell(c, m.url)'
    <3>1. ASSUME m.type = "open" PROVE HasCert(c)' /\ Owns(c, m.url)'
      BY <2>4, <2>5, <3>1
    <3> QED
      BY <3>1 DEF MeetsShell
  <2>7. m.type = "data" => \A u : MeetsShell(c, u)'
    BY <2>3, <2>5 DEF MeetsShell
  <2>8. ASSUME NEW d \in Conns, d # c PROVE \A q, k, u : Directed(d, q, k, u)' <=> Directed(d, q, k, u)
    <3>1. HasCert(d)' <=> HasCert(d)
      BY <2>0, <2>1, <2>8 DEF HasCert
    <3>2. \A u : Owns(d, u)' <=> Owns(d, u)
      BY <2>1, <2>2, <2>8 DEF Owns, CurrentOwned
    <3>3. \A u : MeetsShell(d, u)' <=> MeetsShell(d, u)
      BY <3>1, <3>2 DEF MeetsShell
    <3> QED
      BY <3>3 DEF Directed, IsOpen
  <2>9. KeysReachTheirShell'
    <3>1. ASSUME NEW t \in DOMAIN sockets'
          PROVE  /\ sockets'[t].got \subseteq {sockets'[t].url}
                 /\ ~sockets'[t].cert
                      => /\ sockets'[t].conn > 1
                         /\ \A o \in 1..(t - 1) : sockets'[o].conn = sockets'[t].conn => ~sockets'[o].cert
      <4>1. CASE t = n
        <5>1. 1..(t - 1) = DOMAIN sockets
          BY <2>2, <4>1 DEF n
        <5>2. ~sockets'[t].cert => m.type = "data"
          BY <1>3, <1>11, <2>0, <4>1
        <5> QED
          BY <2>0, <2>1, <2>3, <4>1, <5>1, <5>2 DEF HasCert
      <4>2. CASE t \in DOMAIN sockets
        <5>1. 1..(t - 1) \subseteq DOMAIN sockets
          BY <2>2, <4>2
        <5> QED
          BY <2>1, <4>2, <5>1 DEF KeyInv, KeysReachTheirShell
      <4> QED
        BY <2>1, <4>1, <4>2
    <3> QED
      BY <3>1 DEF KeysReachTheirShell
  <2> QED
    BY <1>3, <1>11, <2>6, <2>7, <2>8, <2>9 DEF IsOpen
<1> QED
  BY <1>6, <1>9, <1>10, <1>11

(* A message arrives: a key at its shell, or as what opens it.                *)
LEMMA ReceiveKeys ==
  ASSUME Base, KeyInv, NEW c \in Conns, UNCHANGED clientVars, ProxyReceive(c)
  PROVE  KeyInv'
<1> USE DEF Base
<1>1. /\ link[c] \in {"up", "cut"} /\ toProxy[c] # <<>> /\ link' = link
      /\ toProxy' = [toProxy EXCEPT ![c] = Tail(@)]
      /\ UNCHANGED <<kind, conn, outbox, page>>
  BY ReceiveCases DEF clientVars
<1>2. PICK m : m = Head(toProxy[c])
  OBVIOUS
<1>3. PICK q : q = toProxy[c]
  OBVIOUS
<1>4. PICK r : r = toProxy'[c]
  OBVIOUS
<1>5. /\ m = q[1] /\ Len(q) \in Nat \ {0} /\ Len(r) \in Nat /\ Len(r) = Len(q) - 1
      /\ \A i \in 1..Len(r) : r[i] = q[i + 1]
      /\ \A d \in Conns : d # c => toProxy'[d] = toProxy[d]
  <2>1. /\ Head(toProxy[c]) = toProxy[c][1] /\ Len(toProxy[c]) \in Nat \ {0}
        /\ Len(toProxy'[c]) = Len(toProxy[c]) - 1
        /\ \A i \in 1..Len(toProxy'[c]) : toProxy'[c][i] = toProxy[c][i + 1]
        /\ \A d \in Conns : d # c => toProxy'[d] = toProxy[d]
    BY <1>1, HeadOfQueue
  <2>2. /\ m = q[1] /\ Len(q) \in Nat \ {0} /\ Len(r) = Len(q) - 1
        /\ \A i \in 1..Len(r) : r[i] = q[i + 1]
    BY <1>2, <1>3, <1>4, <2>1
  <2> QED
    BY <2>1, <2>2
<1>6. /\ KeysReachTheirShell'
      /\ \A d \in Conns : d # c => \A p, n, u : Directed(d, p, n, u)' <=> Directed(d, p, n, u)
      /\ IsOpen(m) => MeetsShell(c, m.url)'
      /\ \A u : ~IsOpen(m) /\ MeetsShell(c, u) => MeetsShell(c, u)'
  BY <1>2, ReceiveMeets
<1>7. ASSUME NEW n \in Nat, n <= Len(r), NEW u, Directed(c, q, n + 1, u) PROVE Directed(c, r, n, u)'
  BY <1>5, <1>6, <1>7, DirectedTail
<1>8. QueueDirected(c, q)
  BY <1>3 DEF KeyInv, OnTheirWay
<1>9. QueueDirected(c, r)'
  <2>1. ASSUME NEW i \in 1..Len(r), r[i].type = "data" PROVE Directed(c, r, i - 1, r[i].url)'
    <3>1. /\ i + 1 \in 1..Len(q) /\ (i + 1) - 1 = (i - 1) + 1 /\ i - 1 \in Nat /\ i - 1 <= Len(r)
          /\ r[i] = q[i + 1]
      BY <1>5
    <3>2. Directed(c, q, (i - 1) + 1, r[i].url)
      BY <1>8, <2>1, <3>1 DEF QueueDirected
    <3> QED
      BY <1>7, <3>1, <3>2
  <2> QED
    BY <2>1 DEF QueueDirected
<1>10. \A d \in Conns : d # c => \A p : QueueDirected(d, p)' <=> QueueDirected(d, p)
  BY <1>6 DEF QueueDirected
<1>11. OnTheirWay'
  <2>1. ASSUME NEW d \in Conns, NEW p, p = toProxy'[d] PROVE QueueDirected(d, p)'
    BY <1>4, <1>5, <1>9, <1>10, <2>1 DEF KeyInv, OnTheirWay
  <2> QED
    BY <2>1 DEF OnTheirWay
<1>12. conn \in Conns
  BY SocketTypes
<1>13. InTheOutbox'
  <2>1. ASSUME link[conn] = "unused" PROVE conn # c
    BY <1>1, <2>1
  <2> QED
    BY <1>1, <1>10, <1>12, <2>1 DEF KeyInv, InTheOutbox
<1>14. NextKey'
  <2> SUFFICES ASSUME kind = "shell", NEW d, d = conn, NEW p, p = Waiting', NEW u \in {page.currentUrl} \ {None}
               PROVE  Directed(d, p, Len(p), u)'
    BY <1>1 DEF NextKey
  <2>1. CASE d = c
    <3>1. link[c] = "up"
      BY <1>1, <2>1 DEF LinksInOrder, Streams
    <3>2. p = r /\ q = Waiting
      BY <1>1, <1>3, <1>4, <2>1, <3>1 DEF Waiting
    <3>3. Directed(c, q, Len(q), u)
      BY <2>1, <3>2 DEF KeyInv, NextKey
    <3>4. Len(q) = Len(r) + 1
      BY <1>5
    <3> QED
      BY <1>5, <1>7, <2>1, <3>2, <3>3, <3>4
  <2>2. CASE d # c
    <3>1. p = Waiting
      BY <1>1, <1>5, <1>12, <2>2 DEF Waiting
    <3> QED
      BY <1>6, <1>12, <2>2, <3>1 DEF KeyInv, NextKey
  <2> QED
    BY <2>1, <2>2
<1> QED
  BY <1>6, <1>11, <1>13, <1>14 DEF KeyInv

(* A message is sent for the url asked for last, or asks for another.          *)
LEMMA SendKeys ==
  ASSUME Base, KeyInv, UNCHANGED <<link, openSocket, sockets, kind, conn>>, kind \in Streams,
         NEW m \in Request, Send(m),
         m.type = "data" => kind = "shell" /\ m.url = page.currentUrl /\ page.currentUrl # None,
         IF IsOpen(m) THEN page'.currentUrl = m.url ELSE page'.currentUrl = page.currentUrl
  PROVE  KeyInv'
<1> USE DEF Base
<1>1. /\ \A c \in Conns : c # conn => toProxy'[c] = toProxy[c]
      /\ link[conn] = "up" => toProxy'[conn] = Append(toProxy[conn], m) /\ outbox' = outbox
      /\ link[conn] # "up" => toProxy' = toProxy /\ outbox' = Append(outbox, m)
  BY SendEffect
<1>2. /\ conn \in Conns /\ toProxy \in [Conns -> Seq(Request)] /\ outbox \in Seq(Request)
      /\ link[conn] \in {"unused", "up"}
  BY ClientTypes DEF LinksInOrder
<1>3. PICK d : d = conn
  OBVIOUS
<1>4. PICK q : q = Waiting
  OBVIOUS
<1>5. PICK r : r = Append(q, m)
  OBVIOUS
<1>6. q \in Seq(Request) /\ QueueDirected(d, q)
  BY <1>2, <1>3, <1>4 DEF Waiting, KeyInv, OnTheirWay, InTheOutbox
<1>7. m.type = "data" => Directed(d, q, Len(q), m.url)
  BY <1>3, <1>4 DEF KeyInv, NextKey
<1>8. /\ QueueDirected(d, r)
      /\ \A u : ~IsOpen(m) /\ Directed(d, q, Len(q), u) => Directed(d, r, Len(r), u)
      /\ IsOpen(m) => Directed(d, r, Len(r), m.url)
  BY <1>5, <1>6, <1>7, DirectedAppend
<1>9. \A c \in Conns : \A p, n, u : Directed(c, p, n, u)' <=> Directed(c, p, n, u)
  BY MeetsSame
<1>10. \A c \in Conns : \A p : QueueDirected(c, p)' <=> QueueDirected(c, p)
  BY <1>9 DEF QueueDirected
<1>11. Waiting' = r
  BY <1>1, <1>2, <1>4, <1>5 DEF Waiting
<1>12. OnTheirWay'
  <2>1. ASSUME NEW c \in Conns, NEW p, p = toProxy'[c] PROVE QueueDirected(c, p)
    <3>1. CASE c = conn /\ link[conn] = "up"
      BY <1>3, <1>8, <1>11, <2>1, <3>1 DEF Waiting
    <3>2. CASE ~(c = conn /\ link[conn] = "up")
      BY <1>1, <2>1, <3>2 DEF KeyInv, OnTheirWay
    <3> QED
      BY <3>1, <3>2
  <2> QED
    BY <1>10, <2>1 DEF OnTheirWay
<1>13. InTheOutbox'
  <2>1. ASSUME link[conn] = "unused" PROVE outbox' = r
    BY <1>11, <2>1 DEF Waiting
  <2>2. link[conn] = "unused" => QueueDirected(d, outbox')
    BY <1>8, <2>1
  <2>3. ASSUME link[conn] = "unused", NEW c, c = conn, NEW p, p = outbox' PROVE QueueDirected(c, p)'
    BY <1>2, <1>3, <1>8, <1>10, <2>1, <2>3
  <2> QED
    BY <2>3 DEF InTheOutbox
<1>14. NextKey'
  <2>1. ASSUME kind = "shell", NEW c, c = conn, NEW p, p = Waiting', NEW u \in {page'.currentUrl} \ {None}
        PROVE  Directed(c, p, Len(p), u)'
    <3>1. Directed(d, r, Len(r), u)
      <4>1. CASE IsOpen(m)
        BY <1>8, <2>1, <4>1
      <4>2. CASE ~IsOpen(m)
        <5>1. Directed(d, q, Len(q), u)
          BY <1>3, <1>4, <2>1, <4>2 DEF KeyInv, NextKey
        <5> QED
          BY <1>8, <4>2, <5>1
      <4> QED
        BY <4>1, <4>2
    <3> QED
      BY <1>2, <1>3, <1>9, <1>11, <2>1, <3>1
  <2> QED
    BY <2>1 DEF NextKey
<1>15. KeysReachTheirShell'
  BY DEF KeyInv, KeysReachTheirShell
<1> QED
  BY <1>12, <1>13, <1>14, <1>15 DEF KeyInv

(* A stream is asked for: the next keys are for it.                           *)
LEMMA AskKeys ==
  ASSUME Base, KeyInv, UNCHANGED <<link, openSocket, sockets, kind, conn>>, kind \in Streams,
         NEW p \in Page, p.service # None, Ask(p)
  PROVE  KeyInv'
<1> DEFINE m == [type |-> "open", url |-> <<p.lease, p.service>>]
<1>1. m \in Request /\ Send(m) /\ page' = [p EXCEPT !.currentUrl = <<p.lease, p.service>>]
  BY AskTypes DEF Base
<1>2. page'.currentUrl = m.url /\ m.type = "open"
  BY <1>1 DEF Page
<1> HIDE DEF m
<1> QED
  BY <1>1, <1>2, SendKeys DEF IsOpen

(* The steps of a page.                                                       *)
LEMMA PageStepKeys ==
  ASSUME Base, KeyInv,
         StatusArrives \/ SelectService \/ SelectLease \/ Key \/ SendPing \/ PageReceive
  PROVE  KeyInv'
<1>0. page \in Page
  BY ClientTypes DEF Base
<1>1. CASE StatusArrives
  <2> DEFINE p == [page EXCEPT !.service = FirstService]
  <2>1. p \in Page /\ p.service # None /\ p.currentUrl = page.currentUrl
    BY <1>0, ProxyClientsAssumption DEF Page
  <2>2. /\ UNCHANGED <<link, toClient, openSocket, sockets, kind, conn, download, sent, selections>>
        /\ kind \in Streams
        /\ (page' = p /\ UNCHANGED <<toProxy, outbox>>) \/ Ask(p)
    BY <1>1 DEF StatusArrives
  <2> HIDE DEF p
  <2> QED
    BY <2>1, <2>2, AskKeys, KeysKept
<1>2. CASE SelectService
  <2>1. PICK v \in Services :
          Ask([page EXCEPT !.service = v, !.isConnectionEstablished = FALSE,
                           !.isChangingSocket = kind = "shell"])
    BY <1>2 DEF SelectService
  <2> DEFINE p == [page EXCEPT !.service = v, !.isConnectionEstablished = FALSE,
                               !.isChangingSocket = kind = "shell"]
  <2>2. p \in Page /\ p.service # None
    BY <1>0, ProxyClientsAssumption DEF Page
  <2>3. Ask(p)
    BY <2>1
  <2> HIDE DEF p
  <2> QED
    BY <1>2, <2>2, <2>3, AskKeys DEF SelectService
<1>3. CASE SelectLease
  <2>1. page'.currentUrl = page.currentUrl
    BY <1>0, <1>3 DEF SelectLease, Page
  <2> QED
    BY <1>3, <2>1, KeysKept DEF SelectLease, proxyVars
<1>4. CASE Key
  <2> DEFINE m == [type |-> "data", url |-> page.currentUrl]
  <2>1. m \in Request /\ ~IsOpen(m) /\ m.url = page.currentUrl /\ Send(m)
    BY <1>0, <1>4 DEF Key, Page, Request, IsOpen
  <2> HIDE DEF m
  <2> QED
    BY <1>4, <2>1, SendKeys DEF Key, Streams
<1>5. CASE SendPing
  <2>1. Ping \in Request /\ ~IsOpen(Ping) /\ Ping.type # "data"
    BY DEF Ping, Request, IsOpen
  <2> QED
    BY <1>5, <2>1, SendKeys DEF SendPing, Streams
<1>6. CASE PageReceive
  <2>1. page'.currentUrl = page.currentUrl
    BY <1>0, <1>6 DEF PageReceive, ShellReceived, LogReceived, Page
  <2> QED
    BY <1>6, <2>1, KeysKept DEF PageReceive
<1> QED
  BY <1>1, <1>2, <1>3, <1>4, <1>5, <1>6

(* What was waiting is sent first.                                            *)
LEMMA ConnectKeys == ASSUME Base, KeyInv, Connect PROVE KeyInv'
<1> USE DEF Base
<1>1. /\ link[conn] = "unused" /\ link' = [link EXCEPT ![conn] = "up"]
      /\ toProxy' = [toProxy EXCEPT ![conn] = outbox] /\ outbox' = <<>>
      /\ UNCHANGED <<toClient, openSocket, sockets, kind, conn, page>>
  BY DEF Connect
<1>2. /\ link'[conn] = "up" /\ toProxy'[conn] = outbox /\ conn \in Conns
      /\ \A c \in Conns : c # conn => toProxy'[c] = toProxy[c]
  BY <1>1, ClientTypes
<1>3. \A c \in Conns : \A q, n, u : Directed(c, q, n, u)' <=> Directed(c, q, n, u)
  BY <1>1, MeetsSame
<1>4. \A c \in Conns : \A q : QueueDirected(c, q)' <=> QueueDirected(c, q)
  BY <1>3 DEF QueueDirected
<1>5. OnTheirWay'
  BY <1>1, <1>2, <1>4 DEF KeyInv, OnTheirWay, InTheOutbox
<1>6. InTheOutbox'
  BY <1>1, <1>2 DEF InTheOutbox
<1>7. Waiting' = Waiting
  BY <1>1, <1>2 DEF Waiting
<1>8. NextKey'
  BY <1>1, <1>2, <1>3, <1>7 DEF KeyInv, NextKey
<1>9. KeysReachTheirShell'
  BY <1>1 DEF KeyInv, KeysReachTheirShell
<1> QED
  BY <1>5, <1>6, <1>8, <1>9 DEF KeyInv

(* On a new connection the page's keys are the first to come.                  *)
LEMMA CutKeys ==
  ASSUME Base, KeyInv, UNCHANGED <<toProxy, openSocket, sockets, kind, outbox, page>>, Cut,
         \/ kind \in Streams /\ link[conn] = "up" /\ conn' = conn + 1 /\ conn < MaxConns
         \/ kind \in Downloads /\ conn' = conn
  PROVE  KeyInv'
<1> USE DEF Base
<1>1. /\ conn \in Conns /\ \A c \in Conns : c # conn => link'[c] = link[c]
      /\ link'[conn] = "cut"
  BY ClientTypes DEF Cut
<1>2. \A c \in Conns : \A q, n, u : Directed(c, q, n, u)' <=> Directed(c, q, n, u)
  BY MeetsSame
<1>3. \A c \in Conns : \A q : QueueDirected(c, q)' <=> QueueDirected(c, q)
  BY <1>2 DEF QueueDirected
<1>4. OnTheirWay'
  BY <1>3 DEF KeyInv, OnTheirWay
<1>5. KeysReachTheirShell'
  BY DEF KeyInv, KeysReachTheirShell
<1>6. CASE kind \in Streams /\ link[conn] = "up" /\ conn' = conn + 1 /\ conn < MaxConns
  <2>1. PICK d : d = conn + 1
    OBVIOUS
  <2>2. d \in Conns /\ d > 1 /\ d > conn /\ conn' = d
    BY <1>6, <2>1, SocketTypes
  <2>3. outbox = <<>> /\ link[d] = "unused" /\ link'[d] = "unused"
    BY <1>1, <1>6, <2>2, SocketTypes DEF LinksInOrder
  <2>4. ~HasCert(d)
    BY <2>3 DEF SocketsOwned, HasCert
  <2>5. \A u : MeetsShell(d, u)
    BY <2>2, <2>4 DEF MeetsShell
  <2>6. Len(outbox) = 0 /\ 1..0 = {}
    BY <2>3
  <2>7. \A u : Directed(d, outbox, 0, u)
    BY <2>5, <2>6 DEF Directed
  <2>8. InTheOutbox'
    <3>1. ASSUME NEW q, q = outbox PROVE QueueDirected(d, q)'
      BY <2>6, <3>1 DEF QueueDirected
    <3> QED
      BY <2>2, <3>1 DEF InTheOutbox
  <2>9. NextKey'
    <3>1. ASSUME NEW q, q = Waiting', NEW u PROVE Directed(d, q, Len(q), u)'
      <4>1. q = outbox
        BY <2>2, <2>3, <3>1 DEF Waiting
      <4>2. Directed(d, q, Len(q), u)
        BY <2>6, <2>7, <4>1
      <4> QED
        BY <1>2, <2>2, <4>2
    <3> QED
      BY <2>2, <3>1 DEF NextKey
  <2> QED
    BY <1>4, <1>5, <2>8, <2>9 DEF KeyInv
<1>7. CASE kind \in Downloads /\ conn' = conn
  <2>1. kind # "shell" /\ link'[conn] # "unused"
    BY <1>1, <1>7 DEF Downloads
  <2> QED
    BY <1>4, <1>5, <1>7, <2>1 DEF KeyInv, InTheOutbox, NextKey
<1> QED
  BY <1>6, <1>7

(* A download sends no keys.                                                  *)
LEMMA DownloadKeys ==
  ASSUME Base, KeyInv, DownloadReceive \/ LogsAreIdle \/ DownloadEnds
  PROVE  KeyInv'
<1>1. kind \in Downloads /\ UNCHANGED <<toProxy, openSocket, sockets, kind, conn, outbox, page>>
  BY DEF DownloadReceive, LogsAreIdle, DownloadEnds, Downloads
<1>2. UNCHANGED link \/ Cut
  BY DownloadReceiveIs DEF LogsAreIdle, DownloadEnds, Ended
<1> QED
  BY <1>1, <1>2, CutKeys, KeysKept

(* Nothing is typed at first.                                                 *)
LEMMA KeyInit == ClientsInit => KeyInv
<1> SUFFICES ASSUME ClientsInit PROVE KeyInv
  OBVIOUS
<1>1. sockets = <<>> /\ DOMAIN sockets = {} /\ toProxy = [c \in Conns |-> <<>>] /\ page.currentUrl = None
  BY DEF ClientsInit, ProxyInit
<1>2. KeysReachTheirShell /\ NextKey
  BY <1>1 DEF KeysReachTheirShell, NextKey
<1>3. OnTheirWay
  <2>1. Len(<<>>) = 0 /\ 1..0 = {}
    OBVIOUS
  <2> QED
    BY <1>1, <2>1 DEF OnTheirWay, QueueDirected
<1>4. InTheOutbox
  <2>1. ASSUME NEW i \in 1..Len(outbox) PROVE outbox[i].type # "data"
    BY DEF ClientsInit
  <2> QED
    BY <2>1 DEF InTheOutbox, QueueDirected
<1> QED
  BY <1>2, <1>3, <1>4 DEF KeyInv

(* Every step keeps keys on their way to their shell.                         *)
LEMMA KeyStep == Base /\ KeyInv /\ [ClientsNext]_allVars => KeyInv'
<1> SUFFICES ASSUME Base, KeyInv, [ClientsNext]_allVars PROVE KeyInv'
  OBVIOUS
<1>1. CASE ProxyStep /\ UNCHANGED clientVars
  <2>1. ASSUME NEW c \in Conns, ProxyReceive(c) \/ ProxyClose(c) PROVE KeyInv'
    BY <1>1, <2>1, ReceiveKeys, CloseKeys
  <2>2. ASSUME NEW s \in DOMAIN sockets,
               \/ SocketOpens(s) \/ SocketRefused(s) \/ SocketOutput(s) \/ SocketMimics(s)
               \/ SocketResult(s) \/ SocketCloses(s) \/ TerminatedCloses(s)
        PROVE KeyInv'
    BY <1>1, <2>2, SocketStepKeys
  <2> QED
    BY <1>1, <2>1, <2>2 DEF ProxyStep
<1>2. CASE ConnectionLost
  BY <1>2, CutKeys DEF ConnectionLost
<1>3. CASE UNCHANGED allVars
  BY <1>3, KeysKept DEF allVars, proxyVars, clientVars
<1> QED
  BY <1>1, <1>2, <1>3, ConnectKeys, PageStepKeys, DownloadKeys DEF ClientsNext
------------------------------------------------------------------------------
(* What the shell page shows *)

(* No reply r after the n-th.                                                 *)
NoneAfter(q, n, r) == \A i \in 1..Len(q) : i > n => q[i] # r
(* There is a reply r, and none of the other kind after it.                   *)
LastIs(q, r, other) == \E i \in 1..Len(q) : q[i] = r /\ NoneAfter(q, i, other)

(* The page knows the state of its socket when the replies q have come.       *)
LossKnown(q, socket, p) ==
  /\ socket.state = "closed" =>
       \/ LastIs(q, "closed", "output")
       \/ NoneAfter(q, 0, "output") /\ (p.isConnectionClosed \/ ~p.isConnectionEstablished)
  /\ socket.state = "open" /\ socket.emitted > 0 =>
       \/ LastIs(q, "output", "closed")
       \/ NoneAfter(q, 0, "closed") /\ ~p.isConnectionClosed

SilentAtFirst ==
  \A s \in DOMAIN sockets : sockets[s].state = "connecting" => sockets[s].emitted = 0

(* What the page shows is right, or will be by what is on its way.            *)
ShownInv ==
  /\ SilentAtFirst
  /\ kind = "shell" =>
       /\ page.isConnectionEstablished => ~page.isChangingSocket
       /\ openSocket[conn] # NoSocket =>
            \A q \in {toClient[conn]} : \A socket \in {sockets[openSocket[conn]]} : LossKnown(q, socket, page)

(* The replies that are sent at once.                                          *)
LEMMA ShortReplies ==
  /\ \A x \in Reply : Len(<<x>>) = 1 /\ <<x>>[1] = x
  /\ Len(<<"error", "closed">>) = 2 /\ <<"error", "closed">>[1] = "error"
  /\ <<"error", "closed">>[2] = "closed"
OBVIOUS

(* Replies that come later.                                                    *)
LEMMA LaterReplies ==
  ASSUME NEW q \in Seq(Reply), NEW r \in Seq(Reply), NEW x, NEW y
  PROVE  /\ (\A i \in 1..Len(r) : r[i] # y) /\ LastIs(q, x, y) => LastIs(q \o r, x, y)
         /\ (\A i \in 1..Len(r) : r[i] # y) /\ NoneAfter(q, 0, y) => NoneAfter(q \o r, 0, y)
         /\ Len(r) > 0 /\ r[Len(r)] = x => LastIs(q \o r, x, y)
<1> DEFINE z == q \o r
<1>1. /\ Len(z) = Len(q) + Len(r) /\ Len(q) \in Nat /\ Len(r) \in Nat
      /\ \A i \in 1..Len(q) : z[i] = q[i]
      /\ \A i \in 1..Len(z) : i \notin 1..Len(q) => i - Len(q) \in 1..Len(r) /\ z[i] = r[i - Len(q)]
  BY ConcatProperties
<1> HIDE DEF z
<1>2. ASSUME \A i \in 1..Len(r) : r[i] # y, NEW i \in 1..Len(q), q[i] = x, NoneAfter(q, i, y)
      PROVE  LastIs(z, x, y)
  <2>1. i \in 1..Len(z) /\ z[i] = x
    BY <1>1, <1>2
  <2> QED
    BY <1>1, <1>2, <2>1 DEF LastIs, NoneAfter
<1>3. ASSUME \A i \in 1..Len(r) : r[i] # y, NoneAfter(q, 0, y)
      PROVE  NoneAfter(z, 0, y)
  BY <1>1, <1>3 DEF NoneAfter
<1>4. ASSUME Len(r) > 0, r[Len(r)] = x PROVE LastIs(z, x, y)
  <2>1. Len(z) \in 1..Len(z) /\ Len(z) \notin 1..Len(q) /\ Len(z) - Len(q) = Len(r)
    BY <1>1, <1>4
  <2>2. z[Len(z)] = x
    BY <1>1, <1>4, <2>1
  <2>3. NoneAfter(z, Len(z), y)
    BY <1>1 DEF NoneAfter
  <2> QED
    BY <2>1, <2>2, <2>3 DEF LastIs
<1> QED
  BY <1>2, <1>3, <1>4 DEF LastIs, z

(* The reply at the head is taken off.                                         *)
LEMMA FirstReply ==
  ASSUME NEW q, NEW r, Len(q) \in Nat \ {0}, Len(r) = Len(q) - 1,
         \A i \in 1..Len(r) : r[i] = q[i + 1], NEW x, NEW y
  PROVE  /\ NoneAfter(q, 0, y) => q[1] # y /\ NoneAfter(r, 0, y)
         /\ LastIs(q, x, y) => LastIs(r, x, y) \/ (q[1] = x /\ NoneAfter(r, 0, y))
<1>1. \A i \in 1..Len(r) : i + 1 \in 1..Len(q) /\ r[i] = q[i + 1]
  OBVIOUS
<1>2. 1 \in 1..Len(q)
  OBVIOUS
<1>3. NoneAfter(q, 0, y) => q[1] # y /\ NoneAfter(r, 0, y)
  BY <1>1, <1>2 DEF NoneAfter
<1>4. ASSUME NEW i \in 1..Len(q), q[i] = x, NoneAfter(q, i, y)
      PROVE  LastIs(r, x, y) \/ (q[1] = x /\ NoneAfter(r, 0, y))
  <2>1. CASE i = 1
    BY <1>1, <1>4, <2>1 DEF NoneAfter
  <2>2. CASE i # 1
    <3>1. PICK k \in 1..Len(r) : i = k + 1
      BY <2>2
    <3>2. r[k] = x /\ NoneAfter(r, k, y)
      BY <1>1, <1>4, <3>1 DEF NoneAfter
    <3> QED
      BY <3>2 DEF LastIs
  <2> QED
    BY <2>1, <2>2
<1> QED
  BY <1>3, <1>4 DEF LastIs

(* A socket that is connecting has put out nothing.                           *)
LEMMA SilentStep == Base /\ SilentAtFirst /\ [ClientsNext]_allVars => SilentAtFirst'
<1> SUFFICES ASSUME Base, SilentAtFirst, [ClientsNext]_allVars PROVE SilentAtFirst'
  OBVIOUS
<1> USE DEF Base
<1>1. CASE UNCHANGED sockets
  BY <1>1 DEF SilentAtFirst
<1>2. ASSUME NEW s \in DOMAIN sockets,
             \/ SocketOpens(s) \/ SocketRefused(s) \/ SocketOutput(s) \/ SocketMimics(s)
             \/ SocketResult(s) \/ SocketCloses(s) \/ TerminatedCloses(s)
      PROVE  SilentAtFirst'
  <2>1. Changed(s)
    BY <1>2, SocketStepEffect
  <2>2. sockets'[s].state # "connecting"
    <3>1. CASE SocketOpens(s)
      BY <3>1, StateEffect DEF SocketOpens, SetState, States
    <3>2. CASE SocketOutput(s)
      BY <3>2, OutputEffect DEF SocketOutput
    <3>3. CASE SocketRefused(s) \/ SocketResult(s) \/ SocketCloses(s) \/ TerminatedCloses(s)
      BY <3>3, SocketMoves
    <3>4. CASE SocketMimics(s)
      BY <3>4, MimicEffect DEF SocketMimics
    <3> QED
      BY <1>2, <3>1, <3>2, <3>3, <3>4
  <2> QED
    BY <2>1, <2>2 DEF SilentAtFirst, Changed
<1>3. ASSUME NEW c \in Conns, ProxyReceive(c) PROVE SilentAtFirst'
  <2>1. PICK m : m = Head(toProxy[c])
    OBVIOUS
  <2>2. m \in Request
    BY <1>3, <2>1, ReceiveCases, HeadOfQueue
  <2>3. openSocket[c] \in {NoSocket} \cup DOMAIN sockets
    BY DEF CurrentOwned
  <2>4. CASE m # Ping /\ IsForOpenSocket(c, m) /\ SendOn(c, m)
    BY <2>2, <2>3, <2>4, SendOnEffect DEF SilentAtFirst, Changed
  <2>5. CASE m # Ping /\ OpenSocket(c, m)
    <3>1. PICK n : n = Len(sockets) + 1
      OBVIOUS
    <3>2. /\ DOMAIN sockets' = DOMAIN sockets \cup {n}
          /\ sockets'[n] = [conn |-> c, url |-> m.url, cert |-> m.type = "open",
                            state |-> "connecting", emitted |-> 0, plain |-> TRUE, got |-> {}]
          /\ \A t \in DOMAIN sockets :
               /\ t # openSocket[c] => sockets'[t] = sockets[t]
               /\ t = openSocket[c] => sockets'[t].state = TerminatedState(sockets[t].state)
      BY <2>2, <2>3, <2>5, <3>1, OpenSocketEffect
    <3>3. ASSUME NEW t \in DOMAIN sockets', sockets'[t].state = "connecting" PROVE sockets'[t].emitted = 0
      <4>1. t \in DOMAIN sockets /\ t = openSocket[c] => TerminatedState(sockets[t].state) # "connecting"
        BY SocketTypes DEF TerminatedState, States
      <4> QED
        BY <3>2, <3>3, <4>1 DEF SilentAtFirst
    <3> QED
      BY <3>3 DEF SilentAtFirst
  <2> QED
    BY <1>1, <1>3, <2>1, <2>4, <2>5, ReceiveCases
<1>4. ASSUME NEW c \in Conns, ProxyClose(c) PROVE SilentAtFirst'
  <2>1. openSocket[c] \in {NoSocket} \cup DOMAIN sockets /\ sockets' = Terminated(c)
    BY <1>4 DEF CurrentOwned, ProxyClose, SocketsAfterClose
  <2>2. /\ DOMAIN sockets' = DOMAIN sockets
        /\ \A t \in DOMAIN sockets :
             /\ t # openSocket[c] => sockets'[t] = sockets[t]
             /\ t = openSocket[c] => sockets'[t].state = TerminatedState(sockets[t].state)
    BY <2>1, TerminatedEffect
  <2>3. ASSUME NEW t \in DOMAIN sockets', sockets'[t].state = "connecting" PROVE sockets'[t].emitted = 0
    <3>1. t = openSocket[c] => TerminatedState(sockets[t].state) # "connecting"
      BY <2>2, SocketTypes DEF TerminatedState, States
    <3> QED
      BY <2>2, <2>3, <3>1 DEF SilentAtFirst
  <2> QED
    BY <2>3 DEF SilentAtFirst
<1>5. CASE ~ProxyStep
  BY <1>1, <1>5 DEF ClientsNext, Connect, ConnectionLost, StatusArrives, SelectService, SelectLease, Key,
                    SendPing, PageReceive, DownloadReceive, LogsAreIdle, DownloadEnds, proxyVars, allVars
<1> QED
  BY <1>2, <1>3, <1>4, <1>5 DEF ProxyStep

(* More replies than none do not hide a loss, nor does a page that is less     *)
(* sure of its connection.                                                    *)
LEMMA KnownLater ==
  ASSUME NEW q \in Seq(Reply), NEW r \in Seq(Reply), NEW socket, NEW p, LossKnown(q, socket, p),
         \A i \in 1..Len(r) : r[i] \notin {"output", "closed"}
  PROVE  LossKnown(q \o r, socket, p)
BY LaterReplies DEF LossKnown

(* The current socket is what it was, and at most more replies have come.      *)
LEMMA ShownKept ==
  ASSUME Base, ShownInv, SilentAtFirst', UNCHANGED <<kind, conn>>, conn \in Conns, kind = "shell",
         openSocket'[conn] = openSocket[conn],
         openSocket[conn] # NoSocket =>
           /\ sockets'[openSocket[conn]].state = sockets[openSocket[conn]].state
           /\ sockets'[openSocket[conn]].emitted = sockets[openSocket[conn]].emitted,
         toClient'[conn] = toClient[conn]
           \/ \E r \in Seq(Reply) : /\ toClient'[conn] = toClient[conn] \o r
                                    /\ \A i \in 1..Len(r) : r[i] \notin {"output", "closed"},
         page'.isConnectionClosed = page.isConnectionClosed,
         page'.isConnectionEstablished => page.isConnectionEstablished /\ ~page'.isChangingSocket
  PROVE  ShownInv'
<1>1. ASSUME openSocket[conn] # NoSocket, NEW z, z = toClient'[conn],
             NEW new, new = sockets'[openSocket[conn]]
      PROVE  LossKnown(z, new, page')
  <2>1. PICK q : q = toClient[conn]
    OBVIOUS
  <2>2. PICK socket : socket = sockets[openSocket[conn]]
    OBVIOUS
  <2>3. LossKnown(q, socket, page) /\ q \in Seq(Reply)
    BY <1>1, <2>1, <2>2, ClientTypes DEF ShownInv, Base
  <2>4. LossKnown(z, socket, page)
    BY <1>1, <2>1, <2>3, KnownLater
  <2>5. new.state = socket.state /\ new.emitted = socket.emitted
    BY <1>1, <2>2
  <2> QED
    BY <2>4, <2>5 DEF LossKnown
<1> QED
  BY <1>1 DEF ShownInv, LossKnown

(* What a socket puts out, and its end, are told to the page.                 *)
LEMMA SocketStepShown ==
  ASSUME Base, ShownInv, SilentAtFirst', UNCHANGED clientVars, NEW s \in DOMAIN sockets,
         \/ SocketOpens(s) \/ SocketRefused(s) \/ SocketOutput(s) \/ SocketMimics(s)
         \/ SocketResult(s) \/ SocketCloses(s) \/ TerminatedCloses(s)
  PROVE  ShownInv'
<1> USE DEF Base
<1>1. UNCHANGED <<link, openSocket>> /\ Changed(s) /\ UNCHANGED <<kind, conn, page>>
  BY SocketStepEffect DEF clientVars
<1>2. conn \in Conns /\ sockets[s].conn \in Conns /\ s # NoSocket
  BY SocketTypes DEF NoSocket
<1>3. page.isConnectionEstablished /\ kind = "shell" => ~page.isChangingSocket
  BY DEF ShownInv
<1>4. CASE kind # "shell"
  BY <1>1, <1>4 DEF ShownInv
<1>5. CASE kind = "shell" /\ sockets[s].conn # conn
  <2>1. s # openSocket[conn]
    BY <1>2, <1>5 DEF CurrentOwned
  <2>2. toClient'[conn] = toClient[conn]
    <3>1. CASE SocketOpens(s)
      BY <3>1 DEF SocketOpens
    <3>2. CASE SocketOutput(s)
      BY <1>2, <1>5, <3>2, ForwardEffect, Replies DEF SocketOutput
    <3>3. CASE SocketRefused(s) \/ SocketResult(s) \/ SocketCloses(s) \/ TerminatedCloses(s)
      <4>1. PICK replies \in Seq(Reply) : Forward(sockets[s].conn, replies)
        BY <3>3, SocketMoves
      <4> QED
        BY <1>2, <1>5, <4>1, ForwardEffect
    <3>4. CASE SocketMimics(s)
      BY <1>2, <1>5, <3>4, ForwardEffect, Replies DEF SocketMimics
    <3> QED
      BY <3>1, <3>2, <3>3, <3>4
  <2>3. openSocket[conn] # NoSocket => sockets'[openSocket[conn]] = sockets[openSocket[conn]]
    BY <1>1, <1>2, <2>1 DEF Changed, CurrentOwned
  <2> QED
    BY <1>1, <1>2, <1>3, <1>5, <2>2, <2>3, ShownKept
<1>6. CASE kind = "shell" /\ sockets[s].conn = conn
  <2>1. link[conn] = "up" /\ openSocket[conn] # NoSocket
    <3>1. link[conn] # "unused" /\ link[conn] \in {"unused", "up"} /\ s <= openSocket[conn]
      BY <1>6 DEF SocketsOwned, LinksInOrder, Streams
    <3> QED
      BY <1>2, <3>1, SocketTypes DEF NoSocket
  <2>2. CASE s # openSocket[conn]
    <3>1. sockets[s].state \notin Live
      BY <1>6, <2>2 DEF SocketsOwned
    <3>2. Pending(s)
      BY <3>1 DEF SocketOpens, SocketRefused, SocketOutput, SocketMimics, SocketResult,
                  SocketCloses, TerminatedCloses, Live, Pending
    <3>3. sockets'[openSocket[conn]] = sockets[openSocket[conn]] /\ sockets[openSocket[conn]].state = "connecting"
      BY <1>1, <1>2, <1>6, <2>1, <2>2, <3>2 DEF Changed, CurrentOwned, SocketsOwned
    <3> QED
      BY <1>1, <1>3, <1>6, <3>3 DEF ShownInv, LossKnown
  <2>3. CASE s = openSocket[conn]
    <3>0. ~Pending(s)
      BY <1>6, <2>3 DEF SocketsOwned
    <3>1. ASSUME LossKnown(toClient[conn], sockets[s], page) => LossKnown(toClient'[conn], sockets'[s], page)
          PROVE  ShownInv'
      <4>1. LossKnown(toClient[conn], sockets[s], page)
        BY <1>6, <2>1, <2>3 DEF ShownInv
      <4>2. ASSUME NEW q, q = toClient'[conn], NEW new, new = sockets'[s] PROVE LossKnown(q, new, page)
        BY <3>1, <4>1, <4>2
      <4> QED
        BY <1>1, <1>3, <1>6, <2>3, <4>2 DEF ShownInv, LossKnown
    <3>2. CASE SocketOpens(s)
      <4>1. sockets'[s].state = "open" /\ sockets'[s].emitted = 0
        BY ZenonT(60), <3>2, StateEffect DEF SocketOpens, SetState, States, ShownInv, SilentAtFirst
      <4> QED
        BY <3>1, <4>1 DEF LossKnown
    <3>3. CASE SocketOutput(s)
      <4>1. sockets'[s].state = "open"
        BY <3>0, <3>3, OutputEffect DEF SocketOutput, Pending
      <4>2. toClient'[conn] = toClient[conn] \o <<"output">> /\ toClient[conn] \in Seq(Reply)
        BY <1>2, <1>6, <2>1, <3>3, ForwardEffect, Replies, ClientTypes DEF SocketOutput
      <4>3. LastIs(toClient'[conn], "output", "closed")
        <5>1. PICK r : r = <<"output">>
          OBVIOUS
        <5>2. r \in Seq(Reply) /\ Len(r) = 1 /\ r[1] = "output"
          BY <5>1, ShortReplies, Replies DEF Reply
        <5>3. PICK q : q = toClient[conn]
          OBVIOUS
        <5>4. q \in Seq(Reply) /\ Len(r) > 0 /\ r[Len(r)] = "output"
          BY <4>2, <5>2, <5>3
        <5>5. \A y : LastIs(q \o r, "output", y)
          BY ONLY <5>2, <5>4, LaterReplies
        <5> QED
          BY <4>2, <5>1, <5>3, <5>5
      <4> QED
        BY <3>1, <4>1, <4>3 DEF LossKnown
    <3>4. CASE SocketResult(s)
      <4>1. sockets'[s].state = "done"
        BY <3>4, SocketMoves
      <4> QED
        BY <3>1, <4>1 DEF LossKnown
    <3>5. CASE ~SocketResult(s) /\ (SocketRefused(s) \/ SocketCloses(s) \/ TerminatedCloses(s))
      <4>1. PICK replies \in {<<"closed">>, <<"error", "closed">>} :
              sockets'[s].state = "closed" /\ Forward(sockets[s].conn, replies)
        BY <3>5, SocketMoves
      <4>2. replies \in Seq(Reply) /\ Len(replies) > 0 /\ replies[Len(replies)] = "closed"
        <5>1. CASE replies = <<"closed">>
          <6>1. Len(replies) = 1 /\ replies[1] = "closed"
            BY <5>1, ShortReplies DEF Reply
          <6> QED
            BY <5>1, <6>1, Replies
        <5>2. CASE replies = <<"error", "closed">>
          <6>1. Len(replies) = 2 /\ replies[2] = "closed"
            BY <5>2, ShortReplies
          <6> QED
            BY <5>2, <6>1, Replies
        <5> QED
          BY <4>1, <5>1, <5>2
      <4>3. sockets'[s].state = "closed" /\ toClient'[conn] = toClient[conn] \o replies
        BY <1>2, <1>6, <2>1, <4>1, <4>2, ForwardEffect
      <4>4. LastIs(toClient'[conn], "closed", "output")
        BY <4>2, <4>3, LaterReplies, ClientTypes, <1>2
      <4> QED
        BY <3>1, <4>3, <4>4 DEF LossKnown
    <3>6. CASE SocketMimics(s)
      <4>1. PICK r : r = <<"result">>
        OBVIOUS
      <4>2. r \in Seq(Reply) /\ Len(r) = 1 /\ r[1] = "result"
        BY <4>1, ShortReplies, Replies DEF Reply
      <4>3. \A i \in 1..Len(r) : r[i] \notin {"output", "closed"}
        BY <4>2
      <4>4. toClient'[conn] = toClient[conn] \o r
        BY <1>2, <1>6, <2>1, <3>6, <4>1, ForwardEffect, Replies DEF SocketMimics
      <4>5. sockets'[s].state = sockets[s].state /\ sockets'[s].emitted = sockets[s].emitted
        BY <3>6, MimicEffect
      <4>6. UNCHANGED <<kind, conn, page>> /\ openSocket' = openSocket /\ kind = "shell"
        BY <1>1, <1>6
      <4> QED
        BY <1>2, <1>3, <2>3, <4>2, <4>3, <4>4, <4>5, <4>6, ShownKept
    <3> QED
      BY <3>2, <3>3, <3>4, <3>5, <3>6
  <2> QED
    BY <2>2, <2>3
<1> QED
  BY <1>4, <1>5, <1>6

(* A message leaves what the page knows, or the shell is a new one.           *)
LEMMA ReceiveShown ==
  ASSUME Base, ShownInv, SilentAtFirst', UNCHANGED clientVars, NEW c \in Conns, ProxyReceive(c)
  PROVE  ShownInv'
<1> USE DEF Base
<1>1. UNCHANGED <<kind, conn, page>> /\ conn \in Conns
  BY SocketTypes DEF clientVars
<1>2. page.isConnectionEstablished /\ kind = "shell" => ~page.isChangingSocket
  BY DEF ShownInv
<1>3. CASE kind # "shell"
  BY <1>1, <1>3 DEF ShownInv
<1>4. PICK m : m = Head(toProxy[c])
  OBVIOUS
<1>5. m \in Request
  BY <1>4, ReceiveCases, HeadOfQueue
<1>6. openSocket[c] \in {NoSocket} \cup DOMAIN sockets /\ openSocket \in [Conns -> 0..MaxSockets]
  BY SocketTypes DEF CurrentOwned
<1>7. ASSUME NEW r \in {<<"pong">>, <<"error">>}, Forward(c, r)
      PROVE  toClient'[conn] = toClient[conn]
               \/ \E x \in Seq(Reply) : /\ toClient'[conn] = toClient[conn] \o x
                                        /\ \A i \in 1..Len(x) : x[i] \notin {"output", "closed"}
  <2>1. r \in Seq(Reply) /\ \A i \in 1..Len(r) : r[i] \notin {"output", "closed"}
    <3>1. CASE r = <<"pong">>
      <4>1. Len(r) = 1 /\ r[1] = "pong"
        BY <3>1, ShortReplies DEF Reply
      <4> QED
        BY <3>1, <4>1, Replies
    <3>2. CASE r = <<"error">>
      <4>1. Len(r) = 1 /\ r[1] = "error"
        BY <3>2, ShortReplies DEF Reply
      <4> QED
        BY <3>2, <4>1, Replies
    <3> QED
      BY <1>7, <3>1, <3>2
  <2> QED
    BY <1>1, <1>7, <2>1, ForwardEffect
<1>8. CASE kind = "shell" /\ m = Ping /\ Forward(c, <<"pong">>) /\ UNCHANGED <<openSocket, sockets>>
  BY <1>1, <1>2, <1>7, <1>8, ShownKept
<1>9. CASE kind = "shell" /\ m # Ping /\ IsForOpenSocket(c, m) /\ SendOn(c, m) /\ UNCHANGED openSocket
  <2> DEFINE s == openSocket[c]
  <2>1. /\ s \in DOMAIN sockets /\ Changed(s) /\ sockets'[s].state = sockets[s].state
        /\ sockets'[s].emitted = sockets[s].emitted
        /\ toClient' = toClient \/ Forward(c, <<"error">>)
    BY <1>5, <1>6, <1>9, SendOnEffect
  <2>2. openSocket[conn] # NoSocket =>
          /\ sockets'[openSocket[conn]].state = sockets[openSocket[conn]].state
          /\ sockets'[openSocket[conn]].emitted = sockets[openSocket[conn]].emitted
    BY <1>1, <2>1 DEF CurrentOwned, Changed
  <2> QED
    BY <1>1, <1>2, <1>7, <1>9, <2>1, <2>2, ShownKept
<1>10. CASE kind = "shell" /\ m # Ping /\ ~IsForOpenSocket(c, m) /\ OpenSocket(c, m)
  <2>1. PICK n : n = Len(sockets) + 1
    OBVIOUS
  <2>2. /\ sockets'[n] = [conn |-> c, url |-> m.url, cert |-> m.type = "open",
                          state |-> "connecting", emitted |-> 0, plain |-> TRUE, got |-> {}]
        /\ \A t \in DOMAIN sockets : t # openSocket[c] => sockets'[t] = sockets[t]
        /\ openSocket' = [openSocket EXCEPT ![c] = n] /\ toClient' = toClient
    BY <1>5, <1>6, <1>10, <2>1, OpenSocketEffect
  <2>3. CASE c = conn
    <3>1. sockets'[n].state = "connecting" /\ openSocket'[conn] = n
      BY <1>6, <2>2, <2>3
    <3> QED
      BY <1>1, <1>2, <1>10, <3>1 DEF ShownInv, LossKnown
  <2>4. CASE c # conn
    <3>1. openSocket'[conn] = openSocket[conn]
      BY <1>6, <2>2, <2>4
    <3>2. openSocket[conn] # NoSocket => sockets'[openSocket[conn]] = sockets[openSocket[conn]]
      BY <1>1, <2>2, <2>4 DEF CurrentOwned
    <3> QED
      BY <1>1, <1>2, <1>10, <2>2, <3>1, <3>2, ShownKept
  <2> QED
    BY <2>3, <2>4
<1> QED
  BY <1>3, <1>4, <1>8, <1>9, <1>10, ReceiveCases

(* The end of another connection does not matter to the page.                 *)
LEMMA CloseShown ==
  ASSUME Base, ShownInv, SilentAtFirst', UNCHANGED clientVars, NEW c \in Conns, ProxyClose(c)
  PROVE  ShownInv'
<1> USE DEF Base
<1>1. UNCHANGED <<kind, conn, page>> /\ conn \in Conns
  BY SocketTypes DEF clientVars
<1>2. page.isConnectionEstablished /\ kind = "shell" => ~page.isChangingSocket
  BY DEF ShownInv
<1>3. CASE kind # "shell"
  BY <1>1, <1>3 DEF ShownInv
<1>4. CASE kind = "shell"
  <2>1. c # conn
    BY <1>4 DEF ProxyClose, LinksInOrder, Streams
  <2>2. /\ openSocket[c] \in {NoSocket} \cup DOMAIN sockets /\ sockets' = Terminated(c) /\ toClient' = toClient
        /\ openSocket' = [openSocket EXCEPT ![c] = NoSocket]
    BY DEF CurrentOwned, ProxyClose, SocketsAfterClose
  <2>3. \A t \in DOMAIN sockets : t # openSocket[c] => sockets'[t] = sockets[t]
    BY <2>2, TerminatedEffect
  <2>4. openSocket'[conn] = openSocket[conn]
    BY <1>1, <2>1, <2>2, SocketTypes
  <2>5. openSocket[conn] # NoSocket => sockets'[openSocket[conn]] = sockets[openSocket[conn]]
    BY <1>1, <2>1, <2>3 DEF CurrentOwned
  <2> QED
    BY <1>1, <1>2, <1>4, <2>2, <2>4, <2>5, ShownKept
<1> QED
  BY <1>3, <1>4

(* A selection makes the page less sure of its connection.                    *)
LEMMA PageStepShown ==
  ASSUME Base, ShownInv, SilentAtFirst',
         StatusArrives \/ SelectService \/ SelectLease \/ Key \/ SendPing
  PROVE  ShownInv'
<1>1. page \in Page /\ conn \in Conns
  BY ClientTypes DEF Base
<1>2. UNCHANGED <<toClient, openSocket, sockets, kind, conn>>
  BY DEF StatusArrives, SelectService, SelectLease, Key, SendPing, proxyVars
<1>3. CASE kind # "shell"
  BY <1>2, <1>3 DEF ShownInv
<1>4. CASE kind = "shell"
  <2>1. page.isConnectionEstablished => ~page.isChangingSocket
    BY <1>4 DEF ShownInv
  <2>2. \/ page'.isConnectionEstablished = page.isConnectionEstablished
             /\ page'.isChangingSocket = page.isChangingSocket
             /\ page'.isConnectionClosed = page.isConnectionClosed
        \/ ~page'.isConnectionEstablished /\ page'.isConnectionClosed = page.isConnectionClosed
    <3>1. CASE StatusArrives
      BY <1>1, <3>1 DEF StatusArrives, Ask, Page
    <3>2. CASE SelectService
      <4>1. PICK v \in Services :
              Ask([page EXCEPT !.service = v, !.isConnectionEstablished = FALSE,
                               !.isChangingSocket = kind = "shell"])
        BY <3>2 DEF SelectService
      <4> QED
        BY <1>1, <4>1 DEF Ask, Page
    <3>3. CASE SelectLease
      BY <1>1, <3>3 DEF SelectLease, Page
    <3>4. CASE Key \/ SendPing
      BY <3>4 DEF Key, SendPing
    <3> QED
      BY <3>1, <3>2, <3>3, <3>4
  <2>3. /\ page'.isConnectionClosed = page.isConnectionClosed
        /\ page'.isConnectionEstablished => page.isConnectionEstablished /\ ~page'.isChangingSocket
    BY <2>1, <2>2
  <2> QED
    BY <1>1, <1>2, <1>4, <2>3, ShownKept
<1> QED
  BY <1>3, <1>4

(* The page learns what the reply at the head says.                           *)
LEMMA PageReceiveShown == ASSUME Base, ShownInv, SilentAtFirst', PageReceive PROVE ShownInv'
<1>1. /\ page \in Page /\ conn \in Conns /\ toClient[conn] # <<>>
      /\ toClient' = [toClient EXCEPT ![conn] = Tail(@)]
      /\ page' = IF kind = "shell" THEN ShellReceived(Head(toClient[conn])) ELSE LogReceived
      /\ UNCHANGED <<openSocket, sockets, kind, conn>>
  BY ClientTypes DEF Base, PageReceive
<1>2. CASE kind # "shell"
  BY <1>1, <1>2 DEF ShownInv
<1>3. CASE kind = "shell"
  <2>1. PICK q : q = toClient[conn]
    OBVIOUS
  <2>2. PICK r : r = toClient'[conn]
    OBVIOUS
  <2>3. PICK m : m = Head(toClient[conn])
    OBVIOUS
  <2>4. /\ m = q[1] /\ Len(q) \in Nat \ {0} /\ Len(r) = Len(q) - 1
        /\ \A i \in 1..Len(r) : r[i] = q[i + 1]
    BY <1>1, <2>1, <2>2, <2>3, HeadOfReplies DEF Base
  <2>5. \A x, y : /\ NoneAfter(q, 0, y) => m # y /\ NoneAfter(r, 0, y)
                  /\ LastIs(q, x, y) => LastIs(r, x, y) \/ (m = x /\ NoneAfter(r, 0, y))
    BY <2>4, FirstReply
  <2>6. page' = ShellReceived(m)
    BY <1>1, <1>3, <2>3
  <2>7. page.isConnectionEstablished => ~page.isChangingSocket
    BY <1>3 DEF ShownInv
  <2>8. /\ m = "output" =>
             /\ page'.isConnectionEstablished /\ ~page'.isConnectionClosed /\ ~page'.isChangingSocket
        /\ m # "output" =>
             /\ page'.isConnectionEstablished = page.isConnectionEstablished
             /\ page'.isChangingSocket = page.isChangingSocket
             /\ page.isConnectionClosed => page'.isConnectionClosed
        /\ m = "closed" => page'.isConnectionClosed \/ page.isChangingSocket
        /\ m \notin {"output", "closed"} => page'.isConnectionClosed = page.isConnectionClosed
    <3>1. CASE m = "output"
      BY <1>1, <2>6, <3>1 DEF ShellReceived, Page
    <3>2. CASE m = "closed"
      BY <1>1, <2>6, <3>2 DEF ShellReceived, Page
    <3>3. CASE m \notin {"output", "closed"}
      BY <2>6, <3>3 DEF ShellReceived
    <3> QED
      BY <3>1, <3>2, <3>3
  <2>9. page'.isConnectionEstablished => ~page'.isChangingSocket
    BY <2>7, <2>8
  <2>10. ASSUME openSocket[conn] # NoSocket, NEW socket, socket = sockets[openSocket[conn]]
         PROVE  LossKnown(r, socket, page')
    <3>1. LossKnown(q, socket, page)
      BY <1>3, <2>1, <2>10 DEF ShownInv
    <3>2. CASE m = "output"
      BY <2>5, <2>8, <3>1, <3>2 DEF LossKnown
    <3>3. CASE m = "closed"
      BY <2>5, <2>7, <2>8, <3>1, <3>3 DEF LossKnown
    <3>4. CASE m \notin {"output", "closed"}
      BY <2>5, <2>8, <3>1, <3>4 DEF LossKnown
    <3> QED
      BY <3>2, <3>3, <3>4
  <2> QED
    BY <1>1, <1>3, <2>2, <2>9, <2>10 DEF ShownInv, LossKnown
<1> QED
  BY <1>2, <1>3

(* A connection that is not open yet has no socket.                            *)
LEMMA ConnectShown ==
  ASSUME Base, ShownInv, SilentAtFirst', Connect \/ ConnectionLost PROVE ShownInv'
<1>1. /\ UNCHANGED <<openSocket, sockets, kind, page>> /\ conn \in Conns
      /\ conn' = conn \/ (conn' = conn + 1 /\ conn < MaxConns)
  BY SocketTypes DEF Base, Connect, ConnectionLost
<1>2. page.isConnectionEstablished /\ kind = "shell" => ~page.isChangingSocket
  BY DEF ShownInv
<1>3. openSocket[conn'] = NoSocket
  <2>1. link[conn'] = "unused" /\ conn' \in Conns
    <3>1. CASE Connect
      BY <1>1, <3>1 DEF Connect
    <3>2. CASE ConnectionLost
      BY <1>1, <3>2, SocketTypes DEF Base, ConnectionLost, LinksInOrder
    <3> QED
      BY <3>1, <3>2
  <2> QED
    BY <2>1 DEF Base, CurrentOwned
<1> QED
  BY <1>1, <1>2, <1>3 DEF ShownInv

(* Nothing is known at first.                                                 *)
LEMMA ShownInit == ClientsInit => ShownInv
<1> SUFFICES ASSUME ClientsInit PROVE ShownInv
  OBVIOUS
<1>1. conn \in Conns
  BY ProviderProxyAssumption DEF ClientsInit, Conns
<1>2. openSocket[conn] = NoSocket /\ DOMAIN sockets = {} /\ ~page.isConnectionEstablished
  BY <1>1 DEF ClientsInit, ProxyInit
<1> QED
  BY <1>2 DEF ShownInv, SilentAtFirst

(* Every step keeps losses known, or on their way.                            *)
LEMMA ShownStep == Base /\ ShownInv /\ [ClientsNext]_allVars => ShownInv'
<1> SUFFICES ASSUME Base, ShownInv, [ClientsNext]_allVars PROVE ShownInv'
  OBVIOUS
<1>0. SilentAtFirst'
  BY SilentStep DEF ShownInv
<1>1. CASE ProxyStep /\ UNCHANGED clientVars
  <2>1. ASSUME NEW c \in Conns, ProxyReceive(c) \/ ProxyClose(c) PROVE ShownInv'
    BY <1>0, <1>1, <2>1, ReceiveShown, CloseShown
  <2>2. ASSUME NEW s \in DOMAIN sockets,
               \/ SocketOpens(s) \/ SocketRefused(s) \/ SocketOutput(s) \/ SocketMimics(s)
               \/ SocketResult(s) \/ SocketCloses(s) \/ TerminatedCloses(s)
        PROVE ShownInv'
    BY <1>0, <1>1, <2>2, SocketStepShown
  <2> QED
    BY <1>1, <2>1, <2>2 DEF ProxyStep
<1>2. CASE DownloadReceive \/ LogsAreIdle \/ DownloadEnds
  <2>1. kind # "shell" /\ kind' = kind
    BY <1>2 DEF DownloadReceive, LogsAreIdle, DownloadEnds, Downloads
  <2> QED
    BY <1>0, <2>1 DEF ShownInv
<1>3. CASE UNCHANGED allVars
  BY <1>0, <1>3 DEF allVars, proxyVars, clientVars, ShownInv, LossKnown
<1> QED
  BY <1>0, <1>1, <1>2, <1>3, ConnectShown, PageStepShown, PageReceiveShown DEF ClientsNext

(* Nothing is on its way at rest: what is known of a loss is shown.            *)
LEMMA ShownAtRest == Base /\ ShownInv => LossIsShown
<1> SUFFICES ASSUME Base, ShownInv, AtRest, kind = "shell", page.isConnectionEstablished,
                    openSocket[conn] # NoSocket
             PROVE  /\ sockets[openSocket[conn]].state = "closed" => page.isConnectionClosed
                    /\ sockets[openSocket[conn]].state = "open" /\ sockets[openSocket[conn]].emitted > 0
                         => ~page.isConnectionClosed
  BY DEF LossIsShown
<1>1. PICK q : q = toClient[conn]
  OBVIOUS
<1>2. PICK socket : socket = sockets[openSocket[conn]]
  OBVIOUS
<1>3. LossKnown(q, socket, page)
  BY <1>1, <1>2 DEF ShownInv
<1>4. q = <<>> /\ Len(<<>>) = 0 /\ 1..0 = {}
  BY <1>1 DEF AtRest
<1>5. \A x, y : ~LastIs(q, x, y)
  BY <1>4 DEF LastIs
<1> QED
  BY <1>2, <1>3, <1>5 DEF LossKnown
------------------------------------------------------------------------------
(* What a download has of its file *)

(* The first k of the replies q are output, and the rest are not.              *)
Arriving(q, k) ==
  /\ k \in 0..Len(q)
  /\ \A i \in 1..Len(q) : q[i] = "output" <=> i <= k
  /\ Len(sockets) = 0 => download.content = 0 /\ Len(q) = 0
  /\ Len(sockets) # 0 =>
       /\ download.content + k = sockets[1].emitted
       /\ sockets[1].state \in {"connecting", "open"} => k = Len(q)
       /\ (\E i \in 1..Len(q) : q[i] = "result") => sockets[1].emitted = MaxOutput

(* One message is sent, once, and opens one socket.                            *)
FileAsked ==
  kind = "file" =>
    /\ Len(sockets) <= 1
    /\ \A c \in Conns : \A q \in {toProxy[c]} :
         q # <<>> => c = 1 /\ Len(q) = 1 /\ q[1] # Ping /\ Len(sockets) = 0
    /\ link[1] = "unused" => Len(outbox) = 1 /\ outbox[1] # Ping

(* All sockets are plain: nothing was taken for what it is not.                *)
AllPlain == \A s \in DOMAIN sockets : sockets[s].plain

(* What has come of the file, and what is coming, are what the socket has put *)
(* out, as long as it is plain.                                               *)
FileArrives ==
  kind = "file" /\ download.outcome = "none" /\ AllPlain =>
    \A q \in {toClient[1]} : \E k \in 0..Len(q) : Arriving(q, k)

FileInv == SavedFileIsWhole /\ FileAsked /\ FileArrives

(* The download has one message to send.                                      *)
LEMMA FileInit == ClientsInit => FileInv
<1> SUFFICES ASSUME ClientsInit PROVE FileInv
  OBVIOUS
<1>1. 1 \in Conns
  BY ProviderProxyAssumption DEF Conns
<1>2. /\ Len(<<>>) = 0 /\ sockets = <<>> /\ toClient[1] = <<>> /\ download.content = 0
      /\ download.outcome = "none"
      /\ \A c \in Conns : toProxy[c] = <<>>
  BY <1>1 DEF ClientsInit, ProxyInit
<1>3. kind = "file" => Len(outbox) = 1 /\ outbox[1] # Ping
  <2>1. PICK m : m = [type |-> "open", url |-> <<FirstLease, FirstService>>]
    OBVIOUS
  <2>2. m # Ping
    <3>1. m.type = "open" /\ Ping.type = "ping"
      BY <2>1 DEF Ping
    <3> QED
      BY <3>1
  <2>3. kind = "file" => outbox = <<m>>
    BY <2>1 DEF ClientsInit, Streams
  <2>4. Len(<<m>>) = 1 /\ <<m>>[1] = m
    OBVIOUS
  <2> QED
    BY <2>2, <2>3, <2>4
<1>4. FileAsked
  BY <1>2, <1>3 DEF FileAsked
<1>5. FileArrives
  <2>1. ASSUME NEW q, q = toClient[1] PROVE Arriving(q, 0)
    BY <1>2, <2>1 DEF Arriving
  <2>2. ASSUME NEW q, q = toClient[1] PROVE 0 \in 0..Len(q)
    BY <1>2, <2>2
  <2> QED
    BY <2>1, <2>2 DEF FileArrives
<1> QED
  BY <1>2, <1>4, <1>5 DEF FileInv, SavedFileIsWhole

(* A socket of a file download is the only one, and its connection's current.  *)
LEMMA FileSocket ==
  ASSUME Base, FileInv, kind = "file", NEW s \in DOMAIN sockets
  PROVE  /\ s = 1 /\ Len(sockets) = 1 /\ sockets[s].conn = 1 /\ link[1] # "unused"
         /\ link[1] = "up" => ~Pending(s)
         /\ \A c \in Conns : toProxy[c] = <<>>
<1> USE DEF Base
<1>1. s = 1 /\ Len(sockets) = 1 /\ \A c \in Conns : toProxy[c] = <<>>
  BY SocketTypes DEF FileInv, FileAsked
<1>2. conn = 1 /\ \A c \in Conns : c > 1 => link[c] = "unused"
  BY DEF LinksInOrder, Downloads
<1>3. sockets[s].conn \in Conns /\ link[sockets[s].conn] # "unused"
  BY SocketTypes DEF SocketsOwned
<1>4. sockets[s].conn = 1
  BY <1>2, <1>3, ProviderProxyAssumption DEF Conns
<1>5. link[1] = "up" => openSocket[1] >= s /\ openSocket[1] \in Nat
  BY <1>4, SocketTypes DEF SocketsOwned
<1>6. link[1] = "up" => openSocket[1] = s
  BY <1>1, <1>5, SocketTypes DEF CurrentOwned, NoSocket
<1>7. link[1] = "up" => ~Pending(s)
  BY <1>4, <1>6 DEF SocketsOwned
<1> QED
  BY <1>1, <1>3, <1>4, <1>7

(* Replies other than output come after the output.                            *)
LEMMA ArrivingMore ==
  ASSUME Base, NEW q \in Seq(Reply), NEW k, Arriving(q, k), NEW r \in Seq(Reply),
         \A i \in 1..Len(r) : r[i] # "output",
         (\E i \in 1..Len(r) : r[i] = "result") => sockets[1].emitted = MaxOutput,
         Len(sockets) = 1, Len(sockets') = 1, sockets'[1].emitted = sockets[1].emitted,
         UNCHANGED download, sockets'[1].state \notin {"connecting", "open"}
  PROVE  Arriving(q \o r, k)' /\ k \in 0..Len(q \o r)
<1> DEFINE z == q \o r
<1>1. /\ Len(z) = Len(q) + Len(r) /\ Len(q) \in Nat /\ Len(r) \in Nat
      /\ \A i \in 1..Len(q) : z[i] = q[i]
      /\ \A i \in 1..Len(z) : i \notin 1..Len(q) => i - Len(q) \in 1..Len(r) /\ z[i] = r[i - Len(q)]
  BY ConcatProperties
<1>2. k \in 0..Len(q) /\ \A i \in 1..Len(q) : q[i] = "output" <=> i <= k
  BY DEF Arriving
<1> HIDE DEF z
<1>3. k \in 0..Len(z)
  BY <1>1, <1>2
<1>4. \A i \in 1..Len(z) : z[i] = "output" <=> i <= k
  BY <1>1, <1>2
<1>5. (\E i \in 1..Len(z) : z[i] = "result") => sockets[1].emitted = MaxOutput
  BY <1>1 DEF Arriving
<1>6. download.content + k = sockets[1].emitted
  BY DEF Arriving
<1>7. Arriving(z, k)'
  BY <1>3, <1>4, <1>5, <1>6 DEF Arriving
<1> QED
  BY <1>3, <1>7 DEF z

(* The output of the socket is on its way, before its result and its end.     *)
LEMMA SocketStepFile ==
  ASSUME Base, FileInv, UNCHANGED clientVars, NEW s \in DOMAIN sockets,
         \/ SocketOpens(s) \/ SocketRefused(s) \/ SocketOutput(s) \/ SocketMimics(s)
         \/ SocketResult(s) \/ SocketCloses(s) \/ TerminatedCloses(s)
  PROVE  FileInv'
<1> USE DEF Base
<1>1. UNCHANGED <<kind, conn, outbox, download>> /\ UNCHANGED <<link, toProxy>> /\ Changed(s)
  BY SocketStepEffect DEF clientVars
<1>2. SavedFileIsWhole'
  BY <1>1 DEF FileInv, SavedFileIsWhole, Changed
<1>3. FileAsked'
  BY <1>1 DEF FileInv, FileAsked, Changed
<1>4. CASE ~(kind = "file" /\ download.outcome = "none" /\ AllPlain')
  BY <1>1, <1>2, <1>3, <1>4 DEF FileInv, FileArrives
<1>5. CASE kind = "file" /\ download.outcome = "none" /\ AllPlain'
  <2>0. AllPlain /\ sockets'[s].plain
    BY <1>1, <1>5 DEF AllPlain, Changed
  <2>1. /\ s = 1 /\ Len(sockets) = 1 /\ Len(sockets') = 1 /\ sockets[1].conn = 1
        /\ link[1] = "up" /\ ~Pending(1) /\ 1 \in Conns
    BY <1>1, <1>5, FileSocket, SocketTypes DEF LinksInOrder, Downloads, Changed
  <2>2. PICK q : q = toClient[1]
    OBVIOUS
  <2>3. PICK k \in 0..Len(q) : Arriving(q, k)
    BY <1>5, <2>0, <2>2 DEF FileInv, FileArrives
  <2>4. q \in Seq(Reply) /\ Len(q) \in Nat /\ download \in Download
    BY <2>1, <2>2, ClientTypes
  <2>5. CASE SocketOpens(s)
    <3>1. sockets'[1].state = "open" /\ sockets[1].state = "connecting" /\ sockets'[1].emitted = sockets[1].emitted
      BY <2>1, <2>5, StateEffect DEF SocketOpens, SetState, States
    <3>2. toClient'[1] = q
      BY <2>2, <2>5 DEF SocketOpens
    <3>3. Arriving(q, k)'
      BY <1>1, <2>1, <2>3, <3>1 DEF Arriving
    <3>4. FileArrives'
      BY <2>3, <3>2, <3>3 DEF FileArrives
    <3> QED
      BY <1>2, <1>3, <3>4 DEF FileInv
  <2>6. CASE SocketOutput(s)
    <3>1. sockets[1].state = "open" /\ sockets'[1].state = "open" /\ sockets'[1].emitted = sockets[1].emitted + 1
      BY <2>1, <2>6, OutputEffect DEF SocketOutput, Pending
    <3>2. PICK r : r = <<"output">>
      OBVIOUS
    <3>3. r \in Seq(Reply) /\ Len(r) = 1 /\ r[1] = "output"
      BY <3>2, ShortReplies, Replies DEF Reply
    <3>4. PICK z : z = q \o r
      OBVIOUS
    <3>5. toClient'[1] = z
      BY <2>1, <2>2, <2>6, <3>2, <3>4, ForwardEffect, Replies DEF SocketOutput
    <3>6. /\ Len(z) = Len(q) + 1 /\ \A i \in 1..Len(q) : z[i] = q[i]
          /\ z[Len(q) + 1] = "output" /\ \A i \in 1..Len(z) : i \in 1..Len(q) \/ i = Len(q) + 1
      <4>0. /\ Len(q \o r) = Len(q) + Len(r)
            /\ \A i \in 1..(Len(q) + Len(r)) :
                 (q \o r)[i] = IF i <= Len(q) THEN q[i] ELSE r[i - Len(q)]
        BY ONLY <2>4, <3>3, ConcatProperties
      <4>1. /\ Len(z) = Len(q) + Len(r) /\ Len(q) \in Nat
            /\ \A i \in 1..Len(q) : z[i] = q[i]
            /\ \A i \in 1..Len(z) : i \notin 1..Len(q) => z[i] = r[i - Len(q)]
        BY <2>4, <3>3, <3>4, <4>0
      <4>2. Len(q) + 1 \in 1..Len(z) /\ Len(q) + 1 \notin 1..Len(q) /\ Len(q) + 1 - Len(q) = 1
        BY <3>3, <4>1
      <4>3. z[Len(q) + 1] = r[1]
        BY <4>1, <4>2
      <4> QED
        BY <3>3, <4>1, <4>3
    <3>7. k = Len(q) /\ \A i \in 1..Len(q) : q[i] = "output"
      BY <2>1, <2>3, <3>1 DEF Arriving
    <3>8. \A i \in 1..Len(z) : z[i] = "output" /\ i <= Len(z)
      BY <2>4, <3>6, <3>7
    <3>9. download.content + Len(z) = sockets'[1].emitted
      <4>1. download.content + k = sockets[1].emitted /\ download.content \in Nat
        BY <2>1, <2>3, <2>4 DEF Arriving, Download
      <4> QED
        BY <2>4, <3>1, <3>6, <3>7, <4>1
    <3>10. Arriving(z, Len(z))' /\ Len(z) \in 0..Len(z)
      BY <1>1, <2>1, <2>4, <3>1, <3>6, <3>8, <3>9 DEF Arriving
    <3>11. FileArrives'
      BY <3>5, <3>10 DEF FileArrives
    <3> QED
      BY <1>2, <1>3, <3>11 DEF FileInv
  <2>7. CASE SocketRefused(s) \/ SocketResult(s) \/ SocketCloses(s) \/ TerminatedCloses(s)
    <3>1. PICK r \in Seq(Reply) :
            /\ \A i \in 1..Len(r) : r[i] # "output"
            /\ sockets'[s].state \in {"done", "closed"} /\ sockets'[s].emitted = sockets[s].emitted
            /\ Forward(sockets[s].conn, r)
            /\ r = <<"result">> => sockets[s].emitted = MaxOutput
            /\ r \in {<<"result">>, <<"failure">>, <<"closed">>, <<"error", "closed">>}
      <4>1. PICK r \in Seq(Reply) :
              /\ \A i \in 1..Len(r) : r[i] # "output"
              /\ sockets'[s].state \in {"done", "closed"} /\ sockets'[s].emitted = sockets[s].emitted
              /\ Forward(sockets[s].conn, r)
              /\ \/ r = <<"result">> /\ (sockets'[s].plain => sockets[s].emitted = MaxOutput)
                 \/ r \in {<<"failure">>, <<"closed">>, <<"error", "closed">>}
        BY <2>7, SocketMoves
      <4>2. ASSUME NEW x, x # "result" PROVE <<x>> # <<"result">> /\ <<"error", "closed">> # <<"result">>
        BY <4>2
      <4>3. r = <<"result">> => sockets[s].emitted = MaxOutput
        BY <2>0, <4>1, <4>2
      <4> QED
        BY <4>1, <4>3
    <3>2. /\ sockets'[1].state \in {"done", "closed"} /\ sockets'[1].emitted = sockets[1].emitted
          /\ toClient'[1] = q \o r
      BY <2>1, <2>2, <3>1, ForwardEffect
    <3>3. (\E i \in 1..Len(r) : r[i] = "result") => sockets[1].emitted = MaxOutput
      <4>1. CASE r = <<"result">>
        BY <2>1, <3>1, <4>1
      <4>2. CASE r = <<"failure">>
        BY <4>2
      <4>3. CASE r = <<"closed">>
        BY <4>3
      <4>4. CASE r = <<"error", "closed">>
        BY <4>4
      <4> QED
        BY <3>1, <4>1, <4>2, <4>3, <4>4
    <3>4. Arriving(q \o r, k)' /\ k \in 0..Len(q \o r)
      BY <1>1, <2>1, <2>3, <2>4, <3>1, <3>2, <3>3, ArrivingMore
    <3>5. FileArrives'
      BY <3>2, <3>4 DEF FileArrives
    <3> QED
      BY <1>2, <1>3, <3>5 DEF FileInv
  <2>8. ~SocketMimics(s)
    BY <2>0, MimicEffect
  <2> QED
    BY <2>5, <2>6, <2>7, <2>8
<1> QED
  BY <1>4, <1>5

(* The one message opens the one socket.                                      *)
LEMMA ReceiveFile ==
  ASSUME Base, FileInv, UNCHANGED clientVars, NEW c \in Conns, ProxyReceive(c)
  PROVE  FileInv'
<1> USE DEF Base
<1>1. UNCHANGED <<kind, conn, outbox, download>>
  BY DEF clientVars
<1>3. CASE kind # "file"
  BY <1>1, <1>3 DEF FileInv, FileAsked, FileArrives, SavedFileIsWhole
<1>4. CASE kind = "file"
  <2>1. PICK m : m = Head(toProxy[c])
    OBVIOUS
  <2>2. /\ toProxy[c] # <<>> /\ link' = link /\ toProxy' = [toProxy EXCEPT ![c] = Tail(@)]
        /\ \/ m = Ping /\ Forward(c, <<"pong">>) /\ UNCHANGED <<openSocket, sockets>>
           \/ m # Ping /\ IsForOpenSocket(c, m) /\ SendOn(c, m) /\ UNCHANGED openSocket
           \/ m # Ping /\ ~IsForOpenSocket(c, m) /\ OpenSocket(c, m)
    BY <2>1, ReceiveCases
  <2>3. /\ m \in Request /\ m = toProxy[c][1] /\ toProxy' \in [Conns -> Seq(Request)]
        /\ Len(toProxy'[c]) = Len(toProxy[c]) - 1 /\ \A d \in Conns : d # c => toProxy'[d] = toProxy[d]
    BY <2>1, <2>2, HeadOfQueue
  <2>4. c = 1 /\ Len(toProxy[c]) = 1 /\ m # Ping /\ Len(sockets) = 0
    BY <1>4, <2>2, <2>3 DEF FileInv, FileAsked
  <2>5. openSocket[c] = NoSocket
    BY <2>4, SocketTypes DEF CurrentOwned
  <2>6. OpenSocket(c, m)
    BY <2>2, <2>4, <2>5 DEF IsForOpenSocket
  <2>7. PICK n : n = Len(sockets) + 1
    OBVIOUS
  <2>8. /\ n = 1 /\ Len(sockets') = 1 /\ toClient' = toClient
        /\ sockets'[1] = [conn |-> c, url |-> m.url, cert |-> m.type = "open",
                          state |-> "connecting", emitted |-> 0, plain |-> TRUE, got |-> {}]
    BY <2>3, <2>4, <2>5, <2>6, <2>7, OpenSocketEffect
  <2>9. \A d \in Conns : toProxy'[d] = <<>>
    <3>1. toProxy'[c] = <<>>
      BY <2>3, <2>4, EmptySeq
    <3>2. ASSUME NEW d \in Conns, d # c PROVE toProxy'[d] = <<>>
      BY <1>4, <2>3, <2>4, <3>2 DEF FileInv, FileAsked
    <3> QED
      BY <3>1, <3>2
  <2>10. FileAsked'
    BY <1>1, <2>2, <2>8, <2>9 DEF FileInv, FileAsked
  <2>11. DOMAIN sockets = {} /\ AllPlain
    BY <2>4, SocketTypes DEF AllPlain
  <2>12. SavedFileIsWhole'
    BY <1>1, <2>11 DEF FileInv, SavedFileIsWhole
  <2>13. FileArrives'
    <3>1. ASSUME download.outcome = "none", NEW q, q = toClient[1] PROVE Arriving(q, 0)' /\ 0 \in 0..Len(q)
      <4>1. PICK k \in 0..Len(q) : Arriving(q, k)
        BY <1>4, <2>11, <3>1 DEF FileInv, FileArrives
      <4>2. download.content = 0 /\ Len(q) = 0
        BY <2>4, <4>1 DEF Arriving
      <4> QED
        BY <1>1, <2>8, <4>2 DEF Arriving
    <3> QED
      BY <1>1, <2>8, <3>1 DEF FileArrives
  <2> QED
    BY <2>10, <2>12, <2>13 DEF FileInv
<1> QED
  BY <1>3, <1>4

(* The connection ends after the download.                                    *)
LEMMA CloseFile ==
  ASSUME Base, FileInv, UNCHANGED clientVars, NEW c \in Conns, ProxyClose(c)
  PROVE  FileInv'
<1> USE DEF Base
<1>1. UNCHANGED <<kind, conn, outbox, download>>
  BY DEF clientVars
<1>2. CASE kind # "file"
  BY <1>1, <1>2 DEF FileInv, FileAsked, FileArrives, SavedFileIsWhole
<1>3. CASE kind = "file"
  <2>1. /\ link[c] = "cut" /\ link' = [link EXCEPT ![c] = "gone"]
        /\ toProxy' = [toProxy EXCEPT ![c] = <<>>] /\ sockets' = Terminated(c)
    BY DEF ProxyClose, SocketsAfterClose
  <2>2. openSocket[c] \in {NoSocket} \cup DOMAIN sockets
    BY DEF CurrentOwned
  <2>3. /\ Len(sockets') = Len(sockets) /\ DOMAIN sockets' = DOMAIN sockets
        /\ \A t \in DOMAIN sockets : sockets'[t].plain = sockets[t].plain
    BY <2>1, <2>2, TerminatedEffect
  <2>4. \A d \in Conns : toProxy'[d] = toProxy[d] \/ toProxy'[d] = <<>>
    BY <2>1, ClientTypes
  <2>5. link'[1] = "unused" => link[1] = "unused"
    BY <2>1, ClientTypes, SocketTypes
  <2>6. FileAsked'
    BY <1>1, <1>3, <2>3, <2>4, <2>5 DEF FileInv, FileAsked
  <2>7. download.outcome # "none"
    BY <1>3, <2>1, SocketTypes DEF LinksInOrder, Downloads
  <2>8. FileArrives'
    BY <1>1, <2>7 DEF FileArrives
  <2>9. SavedFileIsWhole'
    BY <1>1, <2>3 DEF FileInv, SavedFileIsWhole
  <2> QED
    BY <2>6, <2>8, <2>9 DEF FileInv
<1> QED
  BY <1>2, <1>3

(* The one message is sent.                                                   *)
LEMMA ConnectFile == ASSUME Base, FileInv, Connect PROVE FileInv'
<1> USE DEF Base
<1>1. /\ link[conn] = "unused" /\ link' = [link EXCEPT ![conn] = "up"]
      /\ toProxy' = [toProxy EXCEPT ![conn] = outbox]
      /\ UNCHANGED <<toClient, openSocket, sockets, kind, conn, download>>
  BY DEF Connect
<1>2. SavedFileIsWhole'
  BY <1>1 DEF FileInv, SavedFileIsWhole
<1>3. CASE kind # "file"
  BY <1>1, <1>2, <1>3 DEF FileInv, FileAsked, FileArrives
<1>4. CASE kind = "file"
  <2>1. conn = 1 /\ 1 \in Conns
    BY <1>4, SocketTypes DEF LinksInOrder, Downloads
  <2>2. Len(sockets) = 0
    <3>1. \A s \in DOMAIN sockets : FALSE
      BY <1>1, <1>4, <2>1, FileSocket
    <3> QED
      BY <3>1, SocketTypes
  <2>3. Len(outbox) = 1 /\ outbox[1] # Ping
    BY <1>1, <1>4, <2>1 DEF FileInv, FileAsked
  <2>4. link'[1] = "up" /\ toProxy'[1] = outbox /\ \A c \in Conns : c # 1 => toProxy'[c] = toProxy[c]
    BY <1>1, <2>1, ClientTypes
  <2>5. FileAsked'
    BY <1>1, <1>4, <2>2, <2>3, <2>4 DEF FileInv, FileAsked
  <2>6. FileArrives'
    BY <1>1 DEF FileInv, FileArrives, Arriving, AllPlain
  <2> QED
    BY <1>2, <2>5, <2>6 DEF FileInv
<1> QED
  BY <1>3, <1>4

(* A frame is counted, or the download ends with all frames or none.          *)
LEMMA DownloadReceiveFile == ASSUME Base, FileInv, DownloadReceive PROVE FileInv'
<1> USE DEF Base
<1>1. PICK m : m = Head(toClient[conn])
  OBVIOUS
<1>2. /\ kind \in Downloads /\ conn = 1 /\ link[conn] = "up" /\ toClient[conn] # <<>>
      /\ download.outcome = "none"
      /\ UNCHANGED <<toProxy, openSocket, sockets, kind, conn, outbox, page, sent, selections>>
      /\ \/ /\ download'.outcome = "none" /\ UNCHANGED link
            /\ toClient' = [toClient EXCEPT ![conn] = Tail(@)]
            /\ \/ m = "output" /\ download'.content = download.content + 1
               \/ kind = "logFile" /\ m # "output" /\ download'.content = download.content
         \/ /\ kind = "file" /\ Cut /\ download'.content = download.content
            /\ download'.outcome = "failed"
                 \/ (download'.outcome = "saved" /\ m = "result")
  BY <1>1, DownloadReceiveIs, Zenon
<1>3. CASE kind # "file"
  BY <1>2, <1>3 DEF FileInv, FileAsked, FileArrives, SavedFileIsWhole
<1>4. CASE kind = "file" /\ ~AllPlain
  <2>1. link'[1] = link[1] \/ link'[1] = "cut"
    BY <1>2, ClientTypes DEF Cut
  <2>2. FileAsked'
    BY <1>2, <1>4, <2>1 DEF FileInv, FileAsked
  <2>3. ~AllPlain'
    BY <1>2, <1>4 DEF AllPlain
  <2> QED
    BY <2>2, <2>3 DEF FileInv, FileArrives, SavedFileIsWhole, AllPlain
<1>5. CASE kind = "file" /\ AllPlain
  <2>1. PICK q : q = toClient[1]
    OBVIOUS
  <2>2. PICK k \in 0..Len(q) : Arriving(q, k)
    BY <1>2, <1>5, <2>1 DEF FileInv, FileArrives
  <2>3. q \in Seq(Reply) /\ Len(q) \in Nat \ {0} /\ m = q[1] /\ download \in Download
    BY <1>1, <1>2, <2>1, ClientTypes, EmptySeq
  <2>4. 1 \in 1..Len(q)
    BY <2>3
  <2>5. Len(sockets) # 0
    BY <2>2, <2>3 DEF Arriving
  <2>6. link'[1] = link[1] \/ link'[1] = "cut"
    BY <1>2, ClientTypes DEF Cut
  <2>7. FileAsked'
    BY <1>2, <1>5, <2>6 DEF FileInv, FileAsked
  <2>8. CASE download'.outcome = "none"
    <3>1. m = "output" /\ download'.content = download.content + 1 /\ toClient' = [toClient EXCEPT ![conn] = Tail(@)]
      BY <1>2, <1>5, <2>8
    <3>2. PICK r : r = toClient'[1]
      OBVIOUS
    <3>3. Len(r) = Len(q) - 1 /\ \A i \in 1..Len(r) : r[i] = q[i + 1]
      BY <1>2, <2>1, <3>1, <3>2, HeadOfReplies
    <3>4. k >= 1 /\ k - 1 \in 0..Len(r)
      <4>1. k \in 0..Len(q) /\ (q[1] = "output" <=> 1 <= k)
        BY <2>2, <2>4 DEF Arriving
      <4> QED
        BY <2>3, <3>1, <3>3, <4>1
    <3>5. \A i \in 1..Len(r) : i + 1 \in 1..Len(q) /\ (i + 1 <= k <=> i <= k - 1)
      BY <2>3, <3>3, <3>4
    <3>6. \A i \in 1..Len(r) : r[i] = "output" <=> i <= k - 1
      BY <2>2, <3>3, <3>5 DEF Arriving
    <3>7. download'.content + (k - 1) = sockets[1].emitted
      <4>1. download.content + k = sockets[1].emitted /\ download.content \in Nat
        BY <2>2, <2>3, <2>5 DEF Arriving, Download
      <4> QED
        BY <3>1, <3>4, <4>1
    <3>8. Arriving(r, k - 1)'
      BY <1>2, <2>2, <2>3, <2>5, <3>3, <3>4, <3>5, <3>6, <3>7 DEF Arriving
    <3>9. FileArrives'
      BY <3>2, <3>4, <3>8 DEF FileArrives
    <3>10. SavedFileIsWhole'
      BY <2>8 DEF SavedFileIsWhole
    <3> QED
      BY <2>7, <3>9, <3>10 DEF FileInv
  <2>9. CASE download'.outcome # "none"
    <3>1. FileArrives'
      BY <2>9 DEF FileArrives
    <3>2. ASSUME download'.outcome = "saved" PROVE download'.content = MaxOutput
      <4>1. m = "result" /\ download'.content = download.content
        BY <1>2, <2>9, <3>2
      <4>2. k = 0
        <5>1. k \in 0..Len(q) /\ (q[1] = "output" <=> 1 <= k)
          BY <2>2, <2>4 DEF Arriving
        <5> QED
          BY <2>3, <4>1, <5>1
      <4>3. download.content + k = sockets[1].emitted /\ sockets[1].emitted = MaxOutput
        BY <2>2, <2>3, <2>4, <2>5, <4>1 DEF Arriving
      <4> QED
        BY <2>3, <4>1, <4>2, <4>3 DEF Download
    <3> QED
      BY <2>7, <3>1, <3>2 DEF FileInv, SavedFileIsWhole
  <2> QED
    BY <2>8, <2>9
<1> QED
  BY <1>3, <1>4, <1>5

(* Every step keeps the collected and the coming frames together.             *)
LEMMA FileStep == Base /\ FileInv /\ [ClientsNext]_allVars => FileInv'
<1> SUFFICES ASSUME Base, FileInv, [ClientsNext]_allVars PROVE FileInv'
  OBVIOUS
<1>1. CASE ProxyStep /\ UNCHANGED clientVars
  <2>1. ASSUME NEW c \in Conns, ProxyReceive(c) \/ ProxyClose(c) PROVE FileInv'
    BY <1>1, <2>1, ReceiveFile, CloseFile
  <2>2. ASSUME NEW s \in DOMAIN sockets,
               \/ SocketOpens(s) \/ SocketRefused(s) \/ SocketOutput(s) \/ SocketMimics(s)
               \/ SocketResult(s) \/ SocketCloses(s) \/ TerminatedCloses(s)
        PROVE FileInv'
    BY <1>1, <2>2, SocketStepFile
  <2> QED
    BY <1>1, <2>1, <2>2 DEF ProxyStep
<1>2. CASE kind # "file" /\ kind' = kind
  BY <1>2 DEF FileInv, FileAsked, FileArrives, SavedFileIsWhole
<1>3. CASE ConnectionLost \/ StatusArrives \/ SelectService \/ SelectLease \/ Key \/ SendPing \/ PageReceive
                \/ LogsAreIdle
  <2>1. kind # "file" /\ kind' = kind
    BY <1>3 DEF ConnectionLost, StatusArrives, SelectService, SelectLease, Key, SendPing, PageReceive,
                LogsAreIdle, Streams
  <2> QED
    BY <1>2, <2>1
<1>4. CASE kind = "file" /\ DownloadEnds
  <2>1. /\ UNCHANGED <<toProxy, sockets, kind, outbox>>
        /\ \E o \in {"cancelled", "failed"} : Ended(o)
    BY <1>4 DEF DownloadEnds
  <2>2. download'.outcome \in {"cancelled", "failed"} /\ Cut
    BY <2>1, ClientTypes DEF Base, Ended, Download
  <2>3. link'[1] = "unused" => link[1] = "unused"
    BY <2>2, ClientTypes DEF Base, Cut, LinksInOrder
  <2> QED
    BY <1>4, <2>1, <2>2, <2>3 DEF FileInv, FileAsked, FileArrives, SavedFileIsWhole
<1>5. CASE UNCHANGED allVars
  BY <1>5 DEF allVars, proxyVars, clientVars, FileInv, FileAsked, FileArrives, SavedFileIsWhole, Arriving, AllPlain
<1>6. CASE kind # "file" /\ DownloadEnds
  BY <1>2, <1>6 DEF DownloadEnds
<1> QED
  BY <1>1, <1>3, <1>4, <1>5, <1>6, ConnectFile, DownloadReceiveFile DEF ClientsNext
------------------------------------------------------------------------------
(* The theorems *)

(* The invariant of clients and proxy.                                        *)
ClientsInv == Base /\ KeyInv /\ ShownInv /\ FileInv

(* What the clients and the proxy keep true together.                          *)
THEOREM ClientsInvariant == ClientsSpec => []ClientsInv
<1>1. ClientsInit => ClientsInv
  BY BaseInit, KeyInit, ShownInit, FileInit DEF ClientsInv
<1>2. ClientsInv /\ [ClientsNext]_allVars => ClientsInv'
  BY BaseStep, KeyStep, ShownStep, FileStep DEF ClientsInv
<1> QED
  BY <1>1, <1>2, PTL DEF ClientsSpec

(* Types of the proxy's and the client's state.                                *)
THEOREM ClientsTypes == ClientsSpec => []ClientsTypeOK
<1>1. ClientsInv => ClientsTypeOK
  BY DEF ClientsInv, Base
<1> QED
  BY <1>1, ClientsInvariant, PTL

(* A socket that is connecting or open is the current socket of a connection   *)
(* the proxy still has (openSocket and ws.on("close") of main.ts).             *)
THEOREM NoSocketIsOrphaned == ClientsSpec => []NoOrphanSockets
<1>1. ClientsInv => NoOrphanSockets
  <2> SUFFICES ASSUME Base, NEW s \in DOMAIN sockets, sockets[s].state \in {"connecting", "open", "done"}
               PROVE  /\ openSocket[sockets[s].conn] = s
                      /\ link[sockets[s].conn] \in {"up", "cut"}
    BY DEF ClientsInv, NoOrphanSockets
  <2>1. sockets[s].conn \in Conns /\ s # NoSocket
    BY SocketTypes DEF Base, NoSocket
  <2>2. openSocket[sockets[s].conn] = s
    BY DEF Base, SocketsOwned, Live
  <2> QED
    BY <2>1, <2>2 DEF Base, CurrentOwned
<1> QED
  BY <1>1, ClientsInvariant, PTL

(* What is typed reaches the shell it was typed for, and a key opens a shell   *)
(* only on a connection that was opened again (useCustomWebSocket).            *)
THEOREM KeysAreDelivered == ClientsSpec => []KeysReachTheirShell
<1>1. ClientsInv => KeysReachTheirShell
  BY DEF ClientsInv, KeyInv
<1> QED
  BY <1>1, ClientsInvariant, PTL

(* At rest the shell page shows a shell that was closed, and only that         *)
(* (onCommandResponseReceived of DeploymentLeaseShell.tsx).                    *)
THEOREM LossesAreShown == ClientsSpec => []LossIsShown
<1>1. ClientsInv => LossIsShown
  BY ShownAtRest DEF ClientsInv
<1> QED
  BY <1>1, ClientsInvariant, PTL

(* A file that is saved is whole, unless the command failed, wrote to its      *)
(* standard error or printed what reads as an exit code                        *)
(* (downloadFileFromShell of BackgroundTaskProvider.tsx).                      *)
THEOREM SavedFilesAreWhole == ClientsSpec => []SavedFileIsWhole
<1>1. ClientsInv => SavedFileIsWhole
  BY DEF ClientsInv, FileInv
<1> QED
  BY <1>1, ClientsInvariant, PTL
===============================================================================
