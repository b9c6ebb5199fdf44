--------------------------- MODULE DeploymentsProofs ---------------------------
(***************************************************************************)
(* For any manifests, providers and groups and any number of operations and *)
(* failures: what the browser stores, what the page shows and what the      *)
(* providers run, against what the chain has. And for any number of edits   *)
(* of the services on the SDL builder's form: what its document keeps.      *)
(***************************************************************************)
EXTENDS Deployments, SdlBuilder, SumTheorems, SequenceTheorems, TLAPS

\* The types, by what a step changes together; an operation that sends, or is
\* about to, has a manifest to send.
ChainOK ==
  /\ state \in {"none", "active", "closed"} /\ version \in AnyManifest
  /\ leases \in [Groups -> Lease] /\ deployed \subseteq Manifests
  /\ \A g \in Groups : leases[g].active => leases[g].provider \in Providers
RunsOK == runs \in [Providers -> AnyManifest]
StorageOK == stored \in [Wallets -> AnyManifest] /\ wallet \in Wallets
ViewOK ==
  /\ page \in {"edit", "wizard", "detail", "away"} /\ loaded \in Loaded
  /\ deploymentQuery \in DeploymentQuery /\ leaseQuery \in LeaseQuery /\ outdated \in BOOLEAN
OpsOK ==
  /\ ops \in [Kinds -> Op]
  /\ \A k \in Kinds : ops[k].at \in {"tokenizing", "sending"} => ops[k].manifest \in Manifests
  /\ \A k \in {"create", "update"} : Busy(k) => ops[k].manifest \in Manifests
MishapsOK == mishaps \subseteq {"unconfirmed", "left", "switched", "stale", "overlap"}
BoundsOK == faults \in 0..MaxFaults /\ starts \in 0..MaxStarts

Typed == ChainOK /\ RunsOK /\ StorageOK /\ ViewOK /\ OpsOK /\ MishapsOK /\ told \in BOOLEAN /\ BoundsOK

\* The groups of types together are the type invariant.
LEMMA TypedIsTypeOK == Typed => TypeOK
BY DEF Typed, ChainOK, RunsOK, StorageOK, ViewOK, OpsOK, MishapsOK, BoundsOK, TypeOK

------------------------------------------------------------------------------
\* The records that stand for nothing are of their types.
LEMMA Values ==
  /\ NoLeases \in [Groups -> Lease] /\ NoOp \in Op /\ Unloaded \in Loaded /\ NoOp.at = "idle"
  /\ NoQuery \in DeploymentQuery /\ NoLeaseQuery \in LeaseQuery
  /\ NoQuery.at = "idle" /\ NoQuery.version = NoManifest
BY DEF NoLeases, NoOp, Unloaded, Loaded, Lease, Op, AnyManifest, BidChoices,
       NoQuery, NoLeaseQuery, DeploymentQuery, LeaseQuery, RequestAt

\* A request that is repeated keeps its answer if there is one.
LEMMA AskedIs ==
  /\ \A q \in DeploymentQuery : /\ Asked(q) \in DeploymentQuery /\ Asked(q).version = q.version
                                /\ Asked(q).at # "idle" /\ (q.at # "idle" => Asked(q) = q)
                                /\ (q.at = "idle" => Asked(q).at = "asked")
  /\ \A q \in LeaseQuery : Asked(q) \in LeaseQuery
BY DEF Asked, DeploymentQuery, LeaseQuery, RequestAt

\* Initially.
LEMMA InitTyped == Init => Typed
<1> SUFFICES ASSUME Init PROVE Typed
  OBVIOUS
<1>1. ops \in [Kinds -> Op] /\ \A k \in Kinds : ops[k].at = "idle"
  BY Values DEF Init
<1>2. OpsOK
  BY <1>1 DEF OpsOK, Busy, Kinds
<1>3. ChainOK
  BY Values DEF Init, ChainOK, AnyManifest, NoLeases
<1>6. RunsOK /\ StorageOK
  BY DEF Init, RunsOK, StorageOK, AnyManifest, Wallets
<1>4. ViewOK /\ MishapsOK /\ told \in BOOLEAN
  BY Values DEF Init, ViewOK, MishapsOK
<1>5. BoundsOK
  BY ConstantsAssumption DEF Init, BoundsOK
<1> QED BY <1>2, <1>3, <1>4, <1>5, <1>6 DEF Typed

\* Starting, ending and going on with an operation.
LEMMA OpsTyped ==
  ASSUME OpsOK, NEW k \in Kinds, NEW op \in Op, ops' = [ops EXCEPT ![k] = op],
         op.at \in {"tokenizing", "sending"} => op.manifest \in Manifests,
         k \in {"create", "update"} => op.at = "idle" \/ op.manifest \in Manifests
  PROVE  OpsOK'
BY DEF OpsOK, Busy, Kinds

\* An operation that begins has a manifest if it will send one.
LEMMA StartTyped ==
  ASSUME Typed, NEW k \in Kinds, NEW op \in Op, NEW stale \in BOOLEAN, Start(k, op, stale),
         op.at \in {"tokenizing", "sending"} => op.manifest \in Manifests,
         k \in {"create", "update"} => op.manifest \in Manifests
  PROVE  OpsOK' /\ MishapsOK' /\ BoundsOK'
<1>1. ops' = [ops EXCEPT ![k] = op]
  BY DEF Start
<1>2. MishapsOK'
  BY DEF Start, Typed, MishapsOK
<1>3. BoundsOK'
  BY ConstantsAssumption DEF Start, Typed, BoundsOK
<1> QED BY <1>1, <1>2, <1>3, OpsTyped DEF Typed

\* The end of an operation leaves nothing of it.
LEMMA EndTyped ==
  ASSUME OpsOK, NEW k \in Kinds, End(k)
  PROVE  OpsOK'
BY Values, OpsTyped DEF End

\* What is stored is a manifest.
LEMMA SaveTyped ==
  ASSUME StorageOK, NEW m \in Manifests, SaveManifest(m)
  PROVE  StorageOK'
BY DEF StorageOK, SaveManifest, AnyManifest

\* Opening the detail page.
LEMMA ShowTyped ==
  ASSUME ViewOK, ShowDetail
  PROVE  ViewOK'
BY AskedIs DEF ViewOK, ShowDetail, AskDeployment, AskLeases, view, queries

\* And the wizard.
LEMMA WizardTyped ==
  ASSUME ViewOK, ShowWizard
  PROVE  page' \in {"edit", "wizard", "detail", "away"} /\ deploymentQuery' \in DeploymentQuery /\ outdated' \in BOOLEAN
BY AskedIs DEF ViewOK, ShowWizard, AskDeployment

\* Loading again.
LEMMA ReloadTyped ==
  ASSUME ViewOK, NEW k, Reload(k)
  PROVE  deploymentQuery' \in DeploymentQuery /\ outdated' \in BOOLEAN
BY AskedIs DEF ViewOK, Reload, Missed

\* A failure is taken off the bound.
LEMMA FaultTyped ==
  ASSUME BoundsOK, Fault, starts' = starts
  PROVE  BoundsOK'
BY ConstantsAssumption DEF BoundsOK, Fault

\* A provider runs what it was sent.
LEMMA TakesTyped ==
  ASSUME RunsOK, NEW p \in Providers, NEW m \in Manifests, Takes(p, m)
  PROVE  RunsOK'
BY DEF RunsOK, Takes, AnyManifest

\* Every start of an operation keeps the types.
LEMMA StartsTyped == Typed /\ UserStarts => Typed'
<1> SUFFICES ASSUME Typed, UserStarts PROVE Typed'
  OBVIOUS
<1>1. ASSUME NEW m \in Manifests, Create(m) PROVE Typed'
  <2> DEFINE op == [NoOp EXCEPT !.at = "signing", !.manifest = m]
  <2>1. op \in Op /\ op.at = "signing" /\ op.manifest = m
    BY Values DEF Op, AnyManifest
  <2>2. Start("create", op, FALSE) /\ UNCHANGED <<chain, runs, storage, view, told>>
    BY <1>1 DEF Create
  <2> HIDE DEF op
  <2>3. OpsOK' /\ MishapsOK' /\ BoundsOK'
    BY <2>1, <2>2, StartTyped DEF Kinds
  <2> QED BY <2>2, <2>3 DEF Typed, ChainOK, RunsOK, StorageOK, ViewOK, chain, storage, view
<1>2. ASSUME NEW m \in Manifests, Update(m) PROVE Typed'
  <2> DEFINE sends == m = loaded.version
             op == [[NoOp EXCEPT !.manifest = m, !.to = AllProviders(loaded.leases), !.reload = LaterReload]
                      EXCEPT !.at = IF sends THEN "sending" ELSE "signing"]
  <2>1. AllProviders(loaded.leases) \subseteq Providers
    BY DEF Typed, ViewOK, Loaded, AllProviders, Lease
  <2>2. op \in Op /\ op.manifest = m
    BY <2>1, Values DEF Op, AnyManifest, LaterReload
  <2>3. Start("update", op, Outdated) /\ UNCHANGED <<chain, runs, view, told>>
    BY <1>2 DEF Update
  <2>4. SaveManifest(m) \/ UNCHANGED storage
    BY <1>2 DEF Update
  <2>5. Outdated \in BOOLEAN
    BY DEF Outdated
  <2> HIDE DEF op
  <2>6. OpsOK' /\ MishapsOK' /\ BoundsOK'
    BY <2>2, <2>3, <2>5, StartTyped DEF Kinds
  <2>7. StorageOK'
    BY <2>4, SaveTyped DEF Typed, StorageOK, storage
  <2> QED BY <2>3, <2>6, <2>7 DEF Typed, ChainOK, RunsOK, ViewOK, chain, view
<1>3. ASSUME NEW choice \in BidChoices, Accept(choice) PROVE Typed'
  <2> DEFINE op == [NoOp EXCEPT !.at = "signing", !.choice = choice]
  <2>1. op \in Op /\ op.at = "signing"
    BY Values DEF Op
  <2>2. Start("lease", op, FALSE) /\ UNCHANGED <<chain, runs, storage, view, told>>
    BY <1>3 DEF Accept
  <2> HIDE DEF op
  <2>3. OpsOK' /\ MishapsOK' /\ BoundsOK'
    BY <2>1, <2>2, StartTyped DEF Kinds
  <2> QED BY <2>2, <2>3 DEF Typed, ChainOK, RunsOK, StorageOK, ViewOK, chain, storage, view
<1>4. ASSUME Cancel \/ Close PROVE Typed'
  <2>1. PICK k \in {"cancel", "close"}, op \in Op :
          /\ op.at = "signing" /\ Start(k, op, FALSE)
          /\ UNCHANGED <<chain, runs, storage, view, told>>
    <3>1. ASSUME NEW r \in {"on", "skipped"}
          PROVE  /\ [NoOp EXCEPT !.at = "signing"] \in Op /\ [NoOp EXCEPT !.at = "signing"].at = "signing"
                 /\ [NoOp EXCEPT !.at = "signing", !.reload = r] \in Op
                 /\ [NoOp EXCEPT !.at = "signing", !.reload = r].at = "signing"
      BY Values DEF Op
    <3>2. LaterReload \in {"on", "skipped"}
      BY DEF LaterReload
    <3> QED BY <1>4, <3>1, <3>2 DEF Cancel, Close
  <2>2. Start(k, op, FALSE) /\ UNCHANGED <<chain, runs, storage, view, told>>
    BY <2>1
  <2>3. OpsOK' /\ MishapsOK' /\ BoundsOK'
    BY <2>1, <2>2, StartTyped DEF Kinds
  <2> QED BY <2>2, <2>3 DEF Typed, ChainOK, RunsOK, StorageOK, ViewOK, chain, storage, view
<1> QED BY <1>1, <1>2, <1>3, <1>4 DEF UserStarts

\* An operation that goes on with the same manifest.
LEMMA GoesOnTyped ==
  ASSUME OpsOK, NEW k \in Kinds, NEW at \in {"committed", "sending"}, Busy(k),
         at = "sending" => ops[k].manifest \in Manifests,
         ops' = [ops EXCEPT ![k].at = at]
  PROVE  OpsOK'
<1> DEFINE op == [ops[k] EXCEPT !.at = at]
<1>1. op \in Op /\ op.at = at /\ op.manifest = ops[k].manifest
  BY DEF OpsOK, Op
<1>2. ops' = [ops EXCEPT ![k] = op] /\ (k \in {"create", "update"} => op.manifest \in Manifests)
  BY <1>1 DEF OpsOK
<1> HIDE DEF op
<1> QED BY <1>1, <1>2, OpsTyped

\* So does every transaction when it is committed,
LEMMA TxCommitsTyped ==
  ASSUME Typed, NEW k \in Kinds, TxCommits(k)
  PROVE  Typed'
<1>1. OpsOK'
  BY GoesOnTyped DEF Typed, TxCommits, Busy
<1>2. UNCHANGED <<storage, view, mishaps, bounds>>
  BY DEF TxCommits
<1>3. ChainOK' /\ RunsOK' /\ told' \in BOOLEAN
  <2>1. CASE k = "create"
    <3>1. CreateCommits(ops[k]) /\ ops[k].manifest \in Manifests
      BY <2>1 DEF TxCommits, Typed, OpsOK, Busy
    <3> QED BY <3>1 DEF CreateCommits, Typed, ChainOK, RunsOK, AnyManifest
  <2>2. CASE k = "update"
    <3>1. UpdateCommits(ops[k]) /\ ops[k].manifest \in Manifests
      BY <2>2 DEF TxCommits, Typed, OpsOK, Busy
    <3> QED BY <3>1 DEF UpdateCommits, Typed, ChainOK, RunsOK, AnyManifest
  <2>3. CASE k = "lease"
    <3>1. LeaseCommits(ops[k]) /\ ops[k].choice \in BidChoices
      BY <2>3 DEF TxCommits, Typed, OpsOK, Op
    <3> QED BY <3>1 DEF LeaseCommits, Typed, ChainOK, RunsOK, Lease, BidChoices
  <2>4. CASE k \notin {"create", "update", "lease"}
    <3>1. CloseCommits
      BY <2>4 DEF TxCommits
    <3> QED BY <3>1 DEF CloseCommits, Typed, ChainOK, RunsOK, Lease, AnyManifest
  <2> QED BY <2>1, <2>2, <2>3, <2>4
<1> QED BY <1>1, <1>2, <1>3 DEF Typed, StorageOK, ViewOK, MishapsOK, BoundsOK, storage, view, bounds

\* when it returns to the page that sent it,
LEMMA TxReturnsTyped == Typed /\ TxReturns => Typed'
<1> SUFFICES ASSUME Typed, TxReturns PROVE Typed'
  OBVIOUS
<1>1. CASE CreateReturns
  <2>1. ops["create"].manifest \in Manifests /\ "create" \in Kinds
    BY <1>1 DEF CreateReturns, Typed, OpsOK, Busy, Kinds
  <2>2. OpsOK' /\ StorageOK'
    BY <1>1, <2>1, EndTyped, SaveTyped DEF CreateReturns, Typed
  <2>3. ViewOK'
    BY <1>1, WizardTyped DEF CreateReturns, Typed, ViewOK
  <2> QED BY <1>1, <2>2, <2>3
          DEF CreateReturns, Typed, ChainOK, RunsOK, MishapsOK, BoundsOK, chain, bounds
<1>2. CASE LeaseReturns
  <2>1. CASE stored[wallet] = NoManifest
    <3>1. OpsOK' /\ ViewOK'
      BY <1>2, <2>1, EndTyped, ShowTyped DEF LeaseReturns, Typed, Kinds
    <3> QED BY <1>2, <3>1
            DEF LeaseReturns, Typed, ChainOK, RunsOK, StorageOK, MishapsOK, BoundsOK, chain, storage, bounds
  <2>2. CASE stored[wallet] # NoManifest
    <3> DEFINE op == [ops["lease"] EXCEPT !.at = "tokenizing", !.manifest = stored[wallet],
                                          !.to = Range(ops["lease"].choice) \ {NoProvider}]
    <3>1. stored[wallet] \in Manifests
      BY <2>2 DEF Typed, StorageOK, AnyManifest
    <3>2. Range(ops["lease"].choice) \ {NoProvider} \subseteq Providers
      BY DEF Typed, OpsOK, Op, BidChoices, Range, Kinds
    <3>3. op \in Op /\ op.manifest \in Manifests
      BY <3>1, <3>2 DEF Typed, OpsOK, Op, Kinds, AnyManifest
    <3>4. ops' = [ops EXCEPT !["lease"] = op] /\ UNCHANGED view
      BY <1>2, <2>2 DEF LeaseReturns
    <3> HIDE DEF op
    <3>5. OpsOK'
      BY <3>3, <3>4, OpsTyped DEF Typed, Kinds
    <3> QED BY <1>2, <3>4, <3>5
            DEF LeaseReturns, Typed, ChainOK, RunsOK, StorageOK, ViewOK, MishapsOK, BoundsOK,
                chain, storage, view, bounds
  <2> QED BY <2>1, <2>2
<1>3. CASE UpdateReturns
  <2>1. ops["update"].manifest \in Manifests /\ Busy("update") /\ "update" \in Kinds
    BY <1>3 DEF UpdateReturns, Typed, OpsOK, Busy, Kinds
  <2>2. OpsOK' /\ StorageOK'
    BY <1>3, <2>1, GoesOnTyped, SaveTyped DEF UpdateReturns, Typed
  <2> QED BY <1>3, <2>2
          DEF UpdateReturns, Typed, ChainOK, RunsOK, ViewOK, MishapsOK, BoundsOK, chain, view, bounds
<1>4. CASE CancelReturns
  <2>1. OpsOK'
    BY <1>4, EndTyped DEF CancelReturns, Typed, Kinds
  <2> QED BY <1>4, <2>1
          DEF CancelReturns, Missed, Typed, ChainOK, RunsOK, StorageOK, ViewOK, MishapsOK, BoundsOK,
              chain, storage, queries, bounds
<1>5. CASE CloseReturns
  <2>1. OpsOK'
    BY <1>5, EndTyped DEF CloseReturns, Typed, Kinds
  <2>3. deploymentQuery' \in DeploymentQuery /\ outdated' \in BOOLEAN
    BY <1>5, ReloadTyped DEF CloseReturns, Typed
  <2>4. loaded' \in Loaded /\ leaseQuery' \in LeaseQuery
    <3>1. CASE UNCHANGED <<loaded, leaseQuery>>
      BY <3>1 DEF Typed, ViewOK
    <3>2. CASE /\ loaded' = [loaded EXCEPT !.leases = NoLeases, !.listed = FALSE]
               /\ leaseQuery' \in {Asked(NoLeaseQuery), NoLeaseQuery}
      <4>1. loaded' \in Loaded
        BY <3>2, Values DEF Typed, ViewOK, Loaded
      <4> QED BY <3>2, <4>1, Values, AskedIs
    <3> QED BY <1>5, <3>1, <3>2 DEF CloseReturns
  <2>2. ViewOK'
    BY <1>5, <2>3, <2>4 DEF CloseReturns, Typed, ViewOK
  <2> QED BY <1>5, <2>1, <2>2
          DEF CloseReturns, Typed, ChainOK, RunsOK, StorageOK, MishapsOK, BoundsOK,
              chain, storage, bounds
<1> QED BY <1>1, <1>2, <1>3, <1>4, <1>5 DEF TxReturns

\* Transactions that end otherwise, and manifests on their way.
LEMMA OpStepTyped ==
  ASSUME Typed, NEW k \in Kinds,
         TxFails(k) \/ TxUnconfirmed(k) \/ Sent(k)
           \/ \E p \in Providers : Send(k, p) \/ SendFails(k, p)
  PROVE  Typed'
<1>1. CASE TxFails(k)
  <2>1. OpsOK'
    BY <1>1, EndTyped DEF TxFails, Typed
  <2> QED BY <1>1, <2>1
          DEF TxFails, Typed, ChainOK, RunsOK, StorageOK, ViewOK, MishapsOK, BoundsOK,
              chain, storage, view, bounds
<1>2. CASE TxUnconfirmed(k)
  <2>1. OpsOK' /\ BoundsOK'
    BY <1>2, EndTyped, FaultTyped DEF TxUnconfirmed, Typed
  <2> QED BY <1>2, <2>1
          DEF TxUnconfirmed, Missed, Typed, ChainOK, RunsOK, StorageOK, ViewOK, MishapsOK,
              chain, storage, queries
<1>3. CASE Sent(k)
  <2>1. OpsOK' /\ ViewOK'
    <3>1. OpsOK'
      BY <1>3, EndTyped DEF Sent, Typed
    <3>2. CASE k = "lease"
      BY <1>3, <3>1, <3>2, ShowTyped DEF Sent, Typed
    <3>3. CASE k # "lease"
      <4>1. /\ Reload(k) /\ UNCHANGED <<page, loaded>>
            /\ leaseQuery' \in {leaseQuery, Asked(leaseQuery)}
        BY <1>3, <3>3 DEF Sent, AskLeases
      <4> QED BY <3>1, <4>1, ReloadTyped, AskedIs DEF Typed, ViewOK
    <3> QED BY <3>2, <3>3
  <2> QED BY <1>3, <2>1
          DEF Sent, Typed, ChainOK, RunsOK, StorageOK, MishapsOK, BoundsOK, chain, storage, bounds
<1>4. ASSUME NEW p \in Providers, Send(k, p) PROVE Typed'
  <2> DEFINE op == [ops[k] EXCEPT !.to = @ \ {p}]
  <2>1. op \in Op /\ op.at = "sending" /\ op.manifest = ops[k].manifest /\ ops[k].manifest \in Manifests
    BY <1>4 DEF Send, Typed, OpsOK, Op
  <2>2. ops' = [ops EXCEPT ![k] = op]
    BY <1>4 DEF Send, Typed, OpsOK
  <2> HIDE DEF op
  <2>3. OpsOK' /\ RunsOK'
    BY <1>4, <2>1, <2>2, OpsTyped, TakesTyped DEF Send, Typed
  <2> QED BY <1>4, <2>3
          DEF Send, Typed, ChainOK, StorageOK, ViewOK, MishapsOK, BoundsOK, chain, storage, view, bounds
<1>5. ASSUME NEW p \in Providers, SendFails(k, p) PROVE Typed'
  <2>1. ops[k].manifest \in Manifests
    BY <1>5 DEF SendFails, Typed, OpsOK
  <2>2. OpsOK'
    BY <1>5, EndTyped DEF SendFails, Typed
  <2>3. RunsOK' /\ BoundsOK'
    <3>1. CASE UNCHANGED <<runs, faults>>
      BY <1>5, <3>1 DEF SendFails, Typed, RunsOK, BoundsOK
    <3>2. CASE Fault /\ (UNCHANGED runs \/ Takes(p, ops[k].manifest))
      BY <1>5, <2>1, <3>2, FaultTyped, TakesTyped DEF SendFails, Typed, RunsOK
    <3> QED BY <1>5, <3>1, <3>2 DEF SendFails
  <2>4. ViewOK'
    BY <1>5, ShowTyped DEF SendFails, Missed, Typed, ViewOK, queries
  <2> QED BY <1>5, <2>2, <2>3, <2>4
          DEF SendFails, Typed, ChainOK, StorageOK, MishapsOK, chain, storage
<1> QED BY <1>1, <1>2, <1>3, <1>4, <1>5

\* Pages, wallets, providers.
Loads == Refresh \/ ReadDeployment \/ ReadLeases \/ LoadDeployment \/ LoadLeases \/ LoadFails
Elsewhere == Tokenize \/ Open \/ Loads \/ Navigate \/ Leave \/ SwitchWallet
             \/ \E g \in Groups : LeaseEnds(g)

\* Requests, answers and their loss keep the types,
LEMMA LoadsTyped == Typed /\ Loads => Typed'
<1> SUFFICES ASSUME Typed, Loads PROVE Typed'
  OBVIOUS
<1> USE DEF chain, storage, bounds
<1>1. CASE Refresh
  <2>1. ViewOK'
    BY <1>1, AskedIs DEF Refresh, AskDeployment, AskLeases, Typed, ViewOK
  <2> QED BY <1>1, <2>1 DEF Refresh, Typed, ChainOK, RunsOK, StorageOK, OpsOK, Busy, MishapsOK, BoundsOK
<1>2. CASE ReadDeployment
  <2>1. ViewOK'
    BY <1>2 DEF ReadDeployment, Typed, ViewOK, ChainOK, DeploymentQuery, RequestAt
  <2> QED BY <1>2, <2>1 DEF ReadDeployment, Typed, ChainOK, RunsOK, StorageOK, OpsOK, Busy, MishapsOK, BoundsOK
<1>3. CASE ReadLeases
  <2>1. ViewOK'
    BY <1>3 DEF ReadLeases, Typed, ViewOK, ChainOK, LeaseQuery, RequestAt
  <2> QED BY <1>3, <2>1 DEF ReadLeases, Typed, ChainOK, RunsOK, StorageOK, OpsOK, Busy, MishapsOK, BoundsOK
<1>4. CASE LoadDeployment
  <2>1. loaded' \in Loaded /\ deploymentQuery' \in DeploymentQuery
    BY <1>4, Values DEF LoadDeployment, Typed, ViewOK, Loaded, DeploymentQuery
  <2>2. ViewOK'
    BY <1>4, <2>1, AskedIs DEF LoadDeployment, Typed, ViewOK
  <2> QED BY <1>4, <2>2 DEF LoadDeployment, Typed, ChainOK, RunsOK, StorageOK, OpsOK, Busy, MishapsOK, BoundsOK
<1>5. CASE LoadLeases
  <2>1. loaded' \in Loaded /\ leaseQuery' \in LeaseQuery
    BY <1>5, Values DEF LoadLeases, Typed, ViewOK, Loaded, LeaseQuery
  <2>2. ShowWizard \/ UNCHANGED <<page, deploymentQuery, outdated>>
    BY <1>5 DEF LoadLeases
  <2>3. ViewOK'
    BY <2>1, <2>2, WizardTyped DEF Typed, ViewOK
  <2> QED BY <1>5, <2>3 DEF LoadLeases, Typed, ChainOK, RunsOK, StorageOK, OpsOK, Busy, MishapsOK, BoundsOK
<1>6. CASE LoadFails
  <2>1. ViewOK' /\ BoundsOK'
    BY <1>6, Values, FaultTyped DEF LoadFails, Typed, ViewOK
  <2> QED BY <1>6, <2>1 DEF LoadFails, Typed, ChainOK, RunsOK, StorageOK, OpsOK, Busy, MishapsOK
<1> QED BY <1>1, <1>2, <1>3, <1>4, <1>5, <1>6 DEF Loads

\* A switch of wallets changes at most what operations do to the page.
LEMMA SwitchKeeps ==
  ASSUME OpsOK, SwitchWallet
  PROVE  /\ ops' \in [Kinds -> Op]
         /\ \A k \in Kinds : ops'[k].at = ops[k].at /\ ops'[k].manifest = ops[k].manifest /\ ops'[k].to = ops[k].to
<1>1. PICK S : ops' = [k \in Kinds |-> IF k \in S THEN [ops[k] EXCEPT !.reload = "elsewhere"] ELSE ops[k]]
  BY DEF SwitchWallet
<1>2. \A op \in Op : LET moved == [op EXCEPT !.reload = "elsewhere"]
                     IN moved \in Op /\ moved.at = op.at /\ moved.manifest = op.manifest /\ moved.to = op.to
  BY DEF Op
<1> QED BY <1>1, <1>2 DEF OpsOK

\* and what happens besides: tokenizing, navigating, leaving, switching, leases
\* ending.
LEMMA ElsewhereTyped == Typed /\ Elsewhere => Typed'
<1> SUFFICES ASSUME Typed, Elsewhere PROVE Typed'
  OBVIOUS
<1> USE DEF chain, storage, bounds
<1>1. CASE Tokenize
  <2>1. OpsOK' /\ ViewOK'
    <3>1. CASE ops' = [ops EXCEPT !["lease"].at = "sending"] /\ UNCHANGED view
      BY <1>1, <3>1, GoesOnTyped DEF Tokenize, Typed, OpsOK, Busy, Kinds, ViewOK, view
    <3>2. CASE End("lease") /\ ShowDetail
      BY <3>2, EndTyped, ShowTyped DEF Typed, Kinds
    <3> QED BY <1>1, <3>1, <3>2 DEF Tokenize
  <2> QED BY <1>1, <2>1 DEF Tokenize, Typed, ChainOK, RunsOK, StorageOK, MishapsOK, BoundsOK
<1>2. CASE Open
  <2>1. ViewOK'
    BY <1>2, ShowTyped DEF Open, Typed
  <2> QED BY <1>2, <2>1 DEF Open, Typed, ChainOK, RunsOK, StorageOK, OpsOK, Busy, MishapsOK, BoundsOK
<1>3. CASE Loads
  BY <1>3, LoadsTyped
<1>5. CASE Navigate
  BY <1>5 DEF Navigate, queries, Typed, ChainOK, RunsOK, StorageOK, ViewOK, OpsOK, Busy, MishapsOK, BoundsOK
<1>6. CASE Leave
  <2>1. ops' \in [Kinds -> Op] /\ \A k \in Kinds : ops'[k].at = "idle"
    BY <1>6, Values DEF Leave
  <2>2. OpsOK'
    BY <2>1 DEF OpsOK, Busy, Kinds
  <2>3. ViewOK' /\ BoundsOK' /\ MishapsOK'
    BY <1>6, Values, FaultTyped DEF Leave, Typed, ViewOK, MishapsOK
  <2> QED BY <1>6, <2>2, <2>3 DEF Leave, Typed, ChainOK, RunsOK, StorageOK
<1>7. CASE SwitchWallet
  <2>1. BoundsOK'
    BY <1>7, FaultTyped DEF SwitchWallet, Typed, BoundsOK
  <2>2. StorageOK'
    BY <1>7 DEF SwitchWallet, Typed, StorageOK, Wallets
  <2>3. OpsOK'
    <3>1. \A k \in Kinds : ops'[k].at = ops[k].at /\ ops'[k].manifest = ops[k].manifest /\ ops'[k].to = ops[k].to
      BY <1>7, SwitchKeeps DEF Typed
    <3>2. ops' \in [Kinds -> Op]
      BY <1>7, SwitchKeeps DEF Typed
    <3> QED BY <3>1, <3>2 DEF Typed, OpsOK, Busy, Kinds
  <2> QED BY <1>7, <2>1, <2>2, <2>3
          DEF SwitchWallet, queries, Typed, ChainOK, RunsOK, ViewOK, MishapsOK
<1>8. ASSUME NEW g \in Groups, LeaseEnds(g) PROVE Typed'
  <2>1. BoundsOK'
    BY <1>8, FaultTyped DEF LeaseEnds, Typed
  <2>2. ChainOK' /\ RunsOK'
    BY <1>8 DEF LeaseEnds, Typed, ChainOK, RunsOK, Lease, AnyManifest
  <2> QED BY <1>8, <2>1, <2>2
          DEF LeaseEnds, Typed, StorageOK, ViewOK, view, OpsOK, Busy, MishapsOK
<1> QED BY <1>1, <1>2, <1>3, <1>5, <1>6, <1>7, <1>8 DEF Elsewhere

\* Every step, or none, keeps the types.
LEMMA NextTyped == Typed /\ [Next]_vars => Typed'
<1> SUFFICES ASSUME Typed, [Next]_vars PROVE Typed'
  OBVIOUS
<1>1. CASE UNCHANGED vars
  BY <1>1 DEF vars, chain, storage, view, bounds, Typed, ChainOK, RunsOK, StorageOK, ViewOK,
              OpsOK, Busy, MishapsOK, BoundsOK
<1>2. CASE Next
  BY <1>2, StartsTyped, TxCommitsTyped, OpStepTyped, TxReturnsTyped, ElsewhereTyped DEF Next, Elsewhere, Loads
<1> QED BY <1>1, <1>2
------------------------------------------------------------------------------
\* Manifests are stored, loaded and sent after their transaction: everything
\* but an operation that is being signed holds manifests the chain has known.
Known == deployed \cup {NoManifest}
AllKnown ==
  /\ state = "none" => deployed = {}
  /\ version \in Known /\ loaded.version \in Known /\ deploymentQuery.version \in Known
  /\ \A w \in Wallets : stored[w] \in Known
  /\ \A p \in Providers : runs[p] \in Known
  /\ \A k \in Kinds : ops[k].at \in {"tokenizing", "sending"} => ops[k].manifest \in Known
  /\ \A k \in {"create", "update"} : ops[k].at = "committed" => ops[k].manifest \in Known

\* Nothing is stored, loaded or sent at first.
LEMMA InitKnown == Init => AllKnown
BY DEF Init, AllKnown, Known, Unloaded, NoQuery, NoOp, Kinds

\* An operation that ends takes its manifest along.
LEMMA EndKnown ==
  ASSUME Typed, AllKnown, NEW k \in Kinds, End(k), UNCHANGED deployed
  PROVE  /\ \A j \in Kinds : ops'[j].at \in {"tokenizing", "sending"} => ops'[j].manifest \in Known'
         /\ \A j \in {"create", "update"} : ops'[j].at = "committed" => ops'[j].manifest \in Known'
BY Values DEF Typed, OpsOK, AllKnown, Known, End, Kinds

\* Nor does a request, before it is answered, bring an unknown version.
LEMMA AskKnown ==
  ASSUME Typed, AllKnown
  PROVE  /\ Asked(deploymentQuery).version \in Known /\ deploymentQuery.version \in Known
         /\ AskDeployment => deploymentQuery'.version \in Known
<1>1. Asked(deploymentQuery).version = deploymentQuery.version
  BY AskedIs DEF Typed, ViewOK
<1> QED BY <1>1 DEF AllKnown, AskDeployment

\* An operation starts with a manifest that will be signed or that the page knows
\* from the chain.
LEMMA StartsKnown == Typed /\ AllKnown /\ UserStarts => AllKnown'
<1> SUFFICES ASSUME Typed, AllKnown, UserStarts PROVE AllKnown'
  OBVIOUS
<1> USE DEF chain, storage, view, Typed, OpsOK, AllKnown, Known, Start, Kinds
<1>1. ASSUME NEW m \in Manifests, Create(m) PROVE AllKnown'
  BY <1>1 DEF Create, NoOp
<1>2. ASSUME NEW m \in Manifests, Update(m) PROVE AllKnown'
  BY <1>2 DEF Update, NoOp, SaveManifest, StorageOK
<1>3. ASSUME NEW choice \in BidChoices, Accept(choice) PROVE AllKnown'
  BY <1>3 DEF Accept, NoOp
<1>4. CASE Cancel \/ Close
  <2>1. PICK k \in Kinds, op \in Op : ops' = [ops EXCEPT ![k] = op] /\ op.at = "signing"
    <3>1. ASSUME NEW r \in {"on", "skipped"}
          PROVE  /\ [NoOp EXCEPT !.at = "signing"] \in Op /\ [NoOp EXCEPT !.at = "signing"].at = "signing"
                 /\ [NoOp EXCEPT !.at = "signing", !.reload = r] \in Op
                 /\ [NoOp EXCEPT !.at = "signing", !.reload = r].at = "signing"
      BY Values DEF Op
    <3>2. LaterReload \in {"on", "skipped"}
      BY DEF LaterReload
    <3> QED BY <1>4, <3>1, <3>2 DEF Cancel, Close
  <2>2. UNCHANGED <<chain, runs, storage, view>>
    BY <1>4 DEF Cancel, Close
  <2> QED BY <2>1, <2>2
<1> QED BY <1>1, <1>2, <1>3, <1>4 DEF UserStarts

\* A committed transaction makes its manifest known to the chain before anything is
\* sent.
LEMMA TxCommitsKnown ==
  ASSUME Typed, AllKnown, NEW k \in Kinds, TxCommits(k)
  PROVE  AllKnown'
<1> USE DEF chain, storage, view, Typed, OpsOK, AllKnown, Known, Kinds, TxCommits
<1>1. CASE k = "create"
  BY <1>1 DEF CreateCommits, Busy
<1>2. CASE k = "update"
  BY <1>2 DEF UpdateCommits, Busy
<1>3. CASE k = "lease"
  BY <1>3 DEF LeaseCommits
<1>4. CASE k \notin {"create", "update", "lease"}
  BY <1>4 DEF CloseCommits
<1> QED BY <1>1, <1>2, <1>3, <1>4

\* What is sent after a transaction is what it deployed, or what is stored, which
\* was deployed.
LEMMA TxReturnsKnown == Typed /\ AllKnown /\ TxReturns => AllKnown'
<1> SUFFICES ASSUME Typed, AllKnown, TxReturns PROVE AllKnown'
  OBVIOUS
<1> USE DEF chain, storage, view, Typed, OpsOK, StorageOK, AllKnown, Known, Kinds
<1>1. CASE CreateReturns
  <2>1. deploymentQuery'.version \in Known
    BY <1>1, AskKnown DEF CreateReturns, ShowWizard
  <2> QED BY <1>1, <2>1, Values DEF CreateReturns, End, SaveManifest
<1>2. CASE LeaseReturns
  <2>1. CASE stored[wallet] = NoManifest
    <3>1. loaded' = loaded /\ deploymentQuery'.version \in Known
      BY <1>2, <2>1, AskKnown DEF LeaseReturns, ShowDetail, queries
    <3> QED BY <1>2, <2>1, <3>1, EndKnown DEF LeaseReturns
  <2>2. CASE stored[wallet] # NoManifest
    <3> DEFINE op == [ops["lease"] EXCEPT !.at = "tokenizing", !.manifest = stored[wallet],
                                          !.to = Range(ops["lease"].choice) \ {NoProvider}]
    <3>1. op.at = "tokenizing" /\ op.manifest = stored[wallet]
      BY DEF Op
    <3>2. ops' = [ops EXCEPT !["lease"] = op]
      BY <1>2, <2>2 DEF LeaseReturns
    <3> HIDE DEF op
    <3>3. UNCHANGED <<chain, runs, storage, view>>
      BY <1>2, <2>2 DEF LeaseReturns
    <3> QED BY <3>1, <3>2, <3>3
  <2> QED BY <2>1, <2>2
<1>3. CASE UpdateReturns
  BY <1>3 DEF UpdateReturns, SaveManifest
<1>4. CASE CancelReturns
  BY <1>4, Values DEF CancelReturns, End, queries
<1>5. CASE CloseReturns
  <2>1. loaded'.version = loaded.version /\ deploymentQuery'.version \in Known
    BY <1>5, AskKnown DEF CloseReturns, Reload, ViewOK, Loaded
  <2> QED BY <1>5, <2>1, Values DEF CloseReturns, End
<1> QED BY <1>1, <1>2, <1>3, <1>4, <1>5 DEF TxReturns

\* Failures and sends spread no other manifest.
LEMMA OpStepKnown ==
  ASSUME Typed, AllKnown, NEW k \in Kinds,
         TxFails(k) \/ TxUnconfirmed(k) \/ Sent(k)
           \/ \E p \in Providers : Send(k, p) \/ SendFails(k, p)
  PROVE  AllKnown'
<1> USE DEF chain, storage, view, Typed, OpsOK, RunsOK, ViewOK, Loaded, AllKnown, Known
<1>1. CASE TxFails(k)
  BY <1>1, EndKnown DEF TxFails
<1>2. CASE TxUnconfirmed(k)
  BY <1>2, EndKnown DEF TxUnconfirmed, queries
<1>3. CASE Sent(k)
  <2>1. loaded' = loaded /\ deploymentQuery'.version \in Known
    BY <1>3, AskKnown DEF Sent, ShowDetail, Reload, queries
  <2> QED BY <1>3, <2>1, EndKnown DEF Sent
<1>4. ASSUME NEW p \in Providers, Send(k, p) PROVE AllKnown'
  BY <1>4 DEF Send, Takes, Kinds
<1>5. ASSUME NEW p \in Providers, SendFails(k, p) PROVE AllKnown'
  <2>1. loaded' = loaded /\ deploymentQuery'.version \in Known
    BY <1>5, AskKnown DEF SendFails, ShowDetail, queries
  <2> QED BY <1>5, <2>1, EndKnown DEF SendFails, Takes
<1> QED BY <1>1, <1>2, <1>3, <1>4, <1>5

\* What happens besides stores and sends nothing new.
LEMMA ElsewhereKnown == Typed /\ AllKnown /\ Elsewhere => AllKnown'
<1> SUFFICES ASSUME Typed, AllKnown, Elsewhere PROVE AllKnown'
  OBVIOUS
<1> USE DEF chain, storage, view, Typed, OpsOK, StorageOK, RunsOK, ViewOK, Loaded, AllKnown, Known
<1>1. CASE Tokenize
  <2>1. CASE End("lease") /\ ShowDetail
    <3>1. loaded' = loaded /\ deploymentQuery'.version \in Known
      BY <2>1, AskKnown DEF ShowDetail, queries
    <3> QED BY <1>1, <2>1, <3>1, EndKnown DEF Tokenize, Kinds
  <2>2. CASE ops' = [ops EXCEPT !["lease"].at = "sending"] /\ UNCHANGED view
    BY <1>1, <2>2 DEF Tokenize, Kinds
  <2> QED BY <1>1, <2>1, <2>2 DEF Tokenize
<1>2. CASE Open
  BY <1>2, AskKnown DEF Open, ShowDetail, queries
<1>3. CASE Loads
  <2>1. loaded'.version \in Known /\ deploymentQuery'.version \in Known
    <3>1. CASE Refresh \/ ReadDeployment \/ ReadLeases
      BY <3>1, AskKnown DEF Refresh, ReadDeployment, ReadLeases
    <3>2. CASE LoadDeployment \/ LoadFails
      BY <3>2, Values DEF LoadDeployment, LoadFails
    <3>3. CASE LoadLeases
      BY <3>3, AskKnown DEF LoadLeases, ShowWizard
    <3> QED BY <1>3, <3>1, <3>2, <3>3 DEF Loads
  <2> QED BY <1>3, <2>1
          DEF Loads, Refresh, ReadDeployment, ReadLeases, LoadDeployment, LoadLeases, LoadFails
<1>5. CASE Navigate
  BY <1>5 DEF Navigate, queries
<1>6. CASE Leave
  BY <1>6, Values DEF Leave, Unloaded, NoQuery, Kinds
<1>7. CASE SwitchWallet
  BY <1>7, SwitchKeeps DEF SwitchWallet, queries, Kinds
<1>8. ASSUME NEW g \in Groups, LeaseEnds(g) PROVE AllKnown'
  BY <1>8 DEF LeaseEnds
<1> QED BY <1>1, <1>2, <1>3, <1>5, <1>6, <1>7, <1>8 DEF Elsewhere

\* Every step, or none, keeps stored, loaded and running manifests known to the
\* chain.
LEMMA NextKnown == Typed /\ AllKnown /\ [Next]_vars => AllKnown'
<1> SUFFICES ASSUME Typed, AllKnown, [Next]_vars PROVE AllKnown'
  OBVIOUS
<1>1. CASE UNCHANGED vars
  BY <1>1 DEF vars, chain, storage, view, AllKnown, Known
<1>2. CASE Next
  BY <1>2, StartsKnown, TxCommitsKnown, OpStepKnown, TxReturnsKnown, ElsewhereKnown DEF Next, Elsewhere, Loads
<1> QED BY <1>1, <1>2
------------------------------------------------------------------------------
\* No operation that changed the deployment is still to ask for it, and none has
\* ended without.
OpsSettled ==
  /\ \A k \in {"cancel", "update", "close"} : ops[k].at # "committed"
  /\ ops["update"].at # "sending"
AnswerIsCurrent ==
  deploymentQuery.at = "read" =>
    deploymentQuery.version = version /\ deploymentQuery.active = (state = "active")
LoadedIsCurrent ==
  deploymentQuery.at = "idle" /\ page = "detail" /\ wallet = "own" =>
    loaded.version = version /\ loaded.active = (state = "active")

\* Then an answer on its way, and a page that waits for none, show the chain; a
\* request that is still to be answered will.  Before a deployment is created
\* nothing is asked for.
PageInv ==
  /\ deploymentQuery.at = "asked" => ~outdated
  /\ \A k \in Kinds : ops[k].at \in {"committed", "tokenizing", "sending"} => state # "none"
  /\ state = "none" => page \in {"edit", "away"} /\ deploymentQuery.at = "idle"
  /\ ~outdated /\ OpsSettled => AnswerIsCurrent /\ LoadedIsCurrent

\* No page is shown at first.
LEMMA InitPage == Init => PageInv
BY DEF Init, PageInv, OpsSettled, AnswerIsCurrent, LoadedIsCurrent, NoOp, NoQuery

\* What the browser shows or asks for does not make its data older,
LEMMA AsksPage ==
  ASSUME Typed, PageInv, UNCHANGED <<state, version>>, OpsSettled' => OpsSettled,
         \A k \in Kinds : ops'[k].at \in {"idle", "signing", ops[k].at} \/ state # "none",
         \/ state # "none"
         \/ UNCHANGED deploymentQuery /\ (UNCHANGED page \/ page' = "away"),
         loaded'.version = loaded.version /\ loaded'.active = loaded.active,
         \/ /\ UNCHANGED <<deploymentQuery, outdated>>
            /\ (UNCHANGED <<page, wallet>> \/ page' # "detail" \/ wallet' # "own")
         \/ AskDeployment
  PROVE  PageInv'
<1>1. (\A k \in Kinds : ops[k].at \in {"committed", "tokenizing", "sending"} => state # "none")'
  BY DEF PageInv
<1>2. CASE UNCHANGED <<deploymentQuery, outdated>> /\ (UNCHANGED <<page, wallet>> \/ page' # "detail" \/ wallet' # "own")
  <2>1. (state = "none" => page \in {"edit", "away"} /\ deploymentQuery.at = "idle")'
    BY <1>2 DEF PageInv
  <2>2. (~outdated /\ OpsSettled => AnswerIsCurrent /\ LoadedIsCurrent)'
    BY <1>2 DEF PageInv, AnswerIsCurrent, LoadedIsCurrent
  <2> QED BY <1>1, <1>2, <2>1, <2>2 DEF PageInv
<1>3. CASE AskDeployment
  <2>1. /\ deploymentQuery'.at # "idle" /\ outdated' = (outdated /\ deploymentQuery.at # "idle")
        /\ deploymentQuery.at # "idle" => deploymentQuery' = deploymentQuery
        /\ deploymentQuery.at = "idle" => deploymentQuery'.at = "asked"
    BY <1>3, AskedIs DEF AskDeployment, Typed, ViewOK
  <2>2. state # "none"
    BY <2>1 DEF PageInv
  <2>3. (~outdated /\ OpsSettled => AnswerIsCurrent /\ LoadedIsCurrent)'
    BY <2>1 DEF PageInv, AnswerIsCurrent, LoadedIsCurrent
  <2>4. (deploymentQuery.at = "asked" => ~outdated)'
    BY <2>1 DEF PageInv
  <2> QED BY <1>1, <2>2, <2>3, <2>4 DEF PageInv
<1> QED BY <1>2, <1>3

\* and the end of an operation asks for it anew, or says that it does not.
LEMMA EndsPage ==
  ASSUME Typed, PageInv, UNCHANGED <<state, version>>, state # "none",
         (Missed /\ UNCHANGED deploymentQuery) \/ \E k \in Kinds : Reload(k)
  PROVE  PageInv'
<1>1. \/ UNCHANGED deploymentQuery /\ outdated' = (deploymentQuery.at # "asked")
      \/ deploymentQuery' = Asked(deploymentQuery) /\ outdated' = (deploymentQuery.at = "read")
  BY DEF Missed, Reload
<1>2. /\ (deploymentQuery.at = "asked" => ~outdated)'
      /\ (~outdated => deploymentQuery.at = "asked")'
  <2>1. deploymentQuery.at \in RequestAt
    BY DEF Typed, ViewOK, DeploymentQuery
  <2> QED BY <1>1, <2>1, AskedIs DEF Typed, ViewOK, RequestAt
<1> QED BY <1>2 DEF PageInv, AnswerIsCurrent, LoadedIsCurrent

\* What an operation that ends or goes on leaves of the others.
LEMMA EndIs ==
  ASSUME Typed, NEW k \in Kinds, End(k)
  PROVE  /\ \A j \in Kinds : ops'[j].at \in {"idle", ops[j].at}
         /\ k \notin {"cancel", "update", "close"} \/ ops[k].at \notin {"committed", "sending"} =>
              (OpsSettled' => OpsSettled)
<1>1. ops'[k].at = "idle" /\ \A j \in Kinds \ {k} : ops'[j] = ops[j]
  BY Values DEF Typed, OpsOK, End
<1> QED BY <1>1 DEF OpsSettled, Kinds

\* Starting an operation leaves the page as it is.
LEMMA StartsPage == Typed /\ PageInv /\ UserStarts => PageInv'
<1> SUFFICES ASSUME Typed, PageInv, UserStarts PROVE PageInv'
  OBVIOUS
<1>1. UNCHANGED <<state, version, view, wallet>>
  BY DEF UserStarts, Create, Update, Accept, Cancel, Close, Start, SaveManifest, chain, storage
<1>2. ASSUME NEW k \in Kinds, NEW op \in Op, NEW stale, Start(k, op, stale), op.at = "signing" \/ state # "none"
      PROVE  PageInv'
  <2>1. ops'[k] = op /\ ops[k].at = "idle" /\ \A j \in Kinds \ {k} : ops'[j] = ops[j]
    BY <1>2 DEF Start, Busy, Typed, OpsOK
  <2>2. \A j \in Kinds : ops'[j].at \in {"idle", "signing", ops[j].at} \/ state # "none"
    BY <1>2, <2>1
  <2>3. OpsSettled' => OpsSettled
    BY <2>1 DEF OpsSettled, Kinds
  <2> QED BY <1>1, <2>2, <2>3, AsksPage DEF view
<1> USE DEF Kinds
<1>3. ASSUME NEW m \in Manifests, Create(m) PROVE PageInv'
  <2>1. [NoOp EXCEPT !.at = "signing", !.manifest = m] \in Op /\ [NoOp EXCEPT !.at = "signing", !.manifest = m].at = "signing"
    BY Values DEF Op, AnyManifest
  <2> QED BY <1>2, <1>3, <2>1, Zenon DEF Create
<1>4. ASSUME NEW m \in Manifests, Update(m) PROVE PageInv'
  <2> DEFINE at == IF m = loaded.version THEN "sending" ELSE "signing"
             op == [[NoOp EXCEPT !.manifest = m, !.to = AllProviders(loaded.leases), !.reload = LaterReload]
                      EXCEPT !.at = at]
  <2>1. AllProviders(loaded.leases) \subseteq Providers
    BY DEF Typed, ViewOK, Loaded, AllProviders, Lease
  <2>2. op \in Op
    BY <2>1, Values DEF Op, AnyManifest, LaterReload
  <2>3. Start("update", op, Outdated) /\ state # "none"
    BY <1>4 DEF Update, PageInv
  <2> HIDE DEF op
  <2> QED BY <1>2, <2>2, <2>3
<1>5. ASSUME NEW choice \in BidChoices, Accept(choice) PROVE PageInv'
  <2>1. [NoOp EXCEPT !.at = "signing", !.choice = choice] \in Op /\ [NoOp EXCEPT !.at = "signing", !.choice = choice].at = "signing"
    BY Values DEF Op
  <2> QED BY <1>2, <1>5, <2>1, Zenon DEF Accept
<1>6. CASE Cancel \/ Close
  <2>1. [NoOp EXCEPT !.at = "signing"] \in Op /\ [NoOp EXCEPT !.at = "signing"].at = "signing"
    BY Values DEF Op
  <2>2. /\ [NoOp EXCEPT !.at = "signing", !.reload = LaterReload] \in Op
        /\ [NoOp EXCEPT !.at = "signing", !.reload = LaterReload].at = "signing"
    BY Values DEF Op, LaterReload
  <2> QED BY <1>2, <1>6, <2>1, <2>2, Zenon DEF Cancel, Close
<1> QED BY <1>3, <1>4, <1>5, <1>6 DEF UserStarts

\* Only an operation under way can make the page outdated,
LEMMA TxCommitsPage ==
  ASSUME Typed, PageInv, NEW k \in Kinds, TxCommits(k)
  PROVE  PageInv'
<1>1. /\ ops'[k].at = "committed" /\ \A j \in Kinds \ {k} : ops'[j] = ops[j]
      /\ ops[k].at = "signing" /\ UNCHANGED <<view, wallet>> /\ state' # "none"
  BY DEF TxCommits, CreateCommits, LeaseCommits, UpdateCommits, CloseCommits, storage, Typed, OpsOK
<1>2. CASE k \in {"cancel", "update", "close"}
  BY <1>1, <1>2 DEF PageInv, OpsSettled, view
<1>3. CASE k = "create"
  <2>1. page' # "detail" /\ deploymentQuery'.at = "idle"
    BY <1>1, <1>3 DEF TxCommits, CreateCommits, PageInv, view
  <2> QED BY <1>1, <2>1 DEF PageInv, AnswerIsCurrent, LoadedIsCurrent, view
<1>4. CASE k = "lease"
  <2>1. UNCHANGED <<state, version>>
    BY <1>4 DEF TxCommits, LeaseCommits
  <2>2. OpsSettled' => OpsSettled
    BY <1>1, <1>4 DEF OpsSettled, Kinds
  <2>3. \A j \in Kinds : ops'[j].at \in {"idle", "signing", ops[j].at} \/ state # "none"
    BY <1>1, <2>1
  <2> QED BY <1>1, <2>1, <2>2, <2>3, AsksPage DEF view
<1> QED BY <1>2, <1>3, <1>4 DEF Kinds

\* Opening a page asks, or the page is another wallet's.
LEMMA ShowPage ==
  ASSUME Typed, PageInv, UNCHANGED <<state, version, wallet>>, OpsSettled' => OpsSettled, state # "none",
         ShowDetail \/ (ShowWizard /\ UNCHANGED loaded) \/ UNCHANGED view
  PROVE  PageInv'
<1>1. /\ UNCHANGED loaded
      /\ \/ /\ UNCHANGED <<deploymentQuery, outdated>>
            /\ (UNCHANGED page \/ page' # "detail" \/ wallet # "own")
         \/ AskDeployment
  BY DEF ShowDetail, ShowWizard, view, queries
<1> QED BY <1>1, AsksPage

\* and it asks for it when it returns, or has more to do, or ends without,
LEMMA TxReturnsPage == Typed /\ PageInv /\ TxReturns => PageInv'
<1> SUFFICES ASSUME Typed, PageInv, TxReturns PROVE PageInv'
  OBVIOUS
<1>1. UNCHANGED <<state, version, wallet>> /\ state # "none"
  BY DEF TxReturns, CreateReturns, LeaseReturns, UpdateReturns, CancelReturns, CloseReturns,
         SaveManifest, chain, storage, PageInv, Kinds
<1>2. CASE CreateReturns
  <2>1. End("create") /\ ShowWizard /\ UNCHANGED loaded
    BY <1>2 DEF CreateReturns
  <2>2. OpsSettled' => OpsSettled
    BY <2>1, EndIs DEF Kinds
  <2> QED BY <1>1, <2>1, <2>2, ShowPage
<1>3. CASE LeaseReturns
  <2>1. \A j \in Kinds \ {"lease"} : ops'[j] = ops[j]
    BY <1>3 DEF LeaseReturns, End, Typed, OpsOK
  <2>2. OpsSettled' => OpsSettled
    BY <2>1 DEF OpsSettled, Kinds
  <2>3. ShowDetail \/ UNCHANGED view
    BY <1>3 DEF LeaseReturns
  <2> QED BY <1>1, <2>2, <2>3, ShowPage
<1>4. CASE UpdateReturns
  <2>1. ops'["update"].at = "sending" /\ UNCHANGED view
    BY <1>4 DEF UpdateReturns, Typed, OpsOK, Kinds
  <2>2. ~OpsSettled'
    BY <2>1 DEF OpsSettled
  <2> QED BY <1>1, <2>1, <2>2 DEF PageInv, view
<1>5. CASE CancelReturns
  <2>1. Missed /\ UNCHANGED deploymentQuery
    BY <1>5 DEF CancelReturns, queries
  <2> QED BY <1>1, <2>1, EndsPage
<1>6. CASE CloseReturns
  BY <1>1, <1>6, EndsPage DEF CloseReturns, Kinds
<1> QED BY <1>2, <1>3, <1>4, <1>5, <1>6 DEF TxReturns

\* also when it fails.
LEMMA OpStepPage ==
  ASSUME Typed, PageInv, NEW k \in Kinds,
         TxFails(k) \/ TxUnconfirmed(k) \/ Sent(k)
           \/ \E p \in Providers : Send(k, p) \/ SendFails(k, p)
  PROVE  PageInv'
<1>1. UNCHANGED <<state, version, wallet>>
  BY DEF TxFails, TxUnconfirmed, Sent, Send, SendFails, chain, storage
<1>2. CASE TxFails(k)
  <2>1. OpsSettled' => OpsSettled
    BY <1>2, EndIs DEF TxFails
  <2>2. \A j \in Kinds : ops'[j].at \in {"idle", "signing", ops[j].at}
    BY <1>2, EndIs DEF TxFails
  <2>3. UNCHANGED view
    BY <1>2 DEF TxFails
  <2> QED BY <1>1, <2>1, <2>2, <2>3, AsksPage DEF view
<1>3. CASE TxUnconfirmed(k)
  <2>1. /\ ops[k].at = "committed" /\ state # "none" /\ End(k)
        /\ UNCHANGED <<page, loaded, deploymentQuery>>
    BY <1>3 DEF TxUnconfirmed, queries, PageInv
  <2>2. CASE k \in {"create", "lease"}
    <3>1. UNCHANGED outdated /\ (OpsSettled' => OpsSettled)
      BY <1>3, <2>1, <2>2, EndIs DEF TxUnconfirmed
    <3> QED BY <1>1, <2>1, <3>1, AsksPage
  <2>3. CASE k \notin {"create", "lease"}
    BY <1>1, <1>3, <2>1, <2>3, EndsPage DEF TxUnconfirmed
  <2> QED BY <2>2, <2>3
<1>4. CASE Sent(k) /\ k # "lease"
  BY <1>1, <1>4, EndsPage DEF Sent, PageInv
<1>5. ASSUME NEW p \in Providers, SendFails(k, p), k # "lease" PROVE PageInv'
  BY <1>1, <1>5, EndsPage DEF SendFails, queries, PageInv
<1>6. ASSUME k = "lease", Sent(k) \/ \E p \in Providers : SendFails(k, p) PROVE PageInv'
  <2>1. End(k) /\ ShowDetail /\ state # "none"
    BY <1>6 DEF Sent, SendFails, PageInv
  <2>2. OpsSettled' => OpsSettled
    BY <1>6, <2>1, EndIs
  <2> QED BY <1>1, <2>1, <2>2, ShowPage
<1>7. ASSUME NEW p \in Providers, Send(k, p) PROVE PageInv'
  <2>1. \A j \in Kinds : ops'[j].at = ops[j].at
    BY <1>7 DEF Send, Typed, OpsOK, Op
  <2>2. OpsSettled' = OpsSettled
    BY <2>1 DEF OpsSettled, Kinds
  <2>3. UNCHANGED view
    BY <1>7 DEF Send
  <2> QED BY <1>1, <2>1, <2>2, <2>3, AsksPage DEF view
<1> QED BY <1>2, <1>3, <1>4, <1>5, <1>6, <1>7

\* An answer shows the chain when it is read; a load that fails is noted.
LEMMA LoadsPage == Typed /\ PageInv /\ Loads => PageInv'
<1> SUFFICES ASSUME Typed, PageInv, Loads PROVE PageInv'
  OBVIOUS
<1>1. UNCHANGED <<state, version, wallet, ops>>
  BY DEF Loads, Refresh, ReadDeployment, ReadLeases, LoadDeployment, LoadLeases, LoadFails, chain, storage
<1>2. OpsSettled' = OpsSettled
  BY <1>1 DEF OpsSettled
<1>3. CASE Refresh
  BY <1>1, <1>2, <1>3, AsksPage DEF Refresh, PageInv
<1>4. CASE ReadDeployment
  BY <1>1, <1>2, <1>4 DEF ReadDeployment, PageInv, AnswerIsCurrent, LoadedIsCurrent
<1>5. CASE ReadLeases
  BY <1>1, <1>2, <1>5, AsksPage DEF ReadLeases
<1>6. CASE LoadDeployment
  <2>1. /\ loaded'.version = deploymentQuery.version /\ loaded'.active = deploymentQuery.active
        /\ deploymentQuery'.at = "idle" /\ deploymentQuery.at = "read" /\ UNCHANGED <<page, outdated>>
    BY <1>6, Values DEF LoadDeployment, Typed, ViewOK, Loaded
  <2>2. (~outdated /\ OpsSettled => AnswerIsCurrent /\ LoadedIsCurrent)'
    BY <1>1, <1>2, <2>1 DEF PageInv, AnswerIsCurrent, LoadedIsCurrent
  <2> QED BY <1>1, <2>1, <2>2 DEF PageInv
<1>7. CASE LoadLeases
  <2>1. loaded'.version = loaded.version /\ loaded'.active = loaded.active
    BY <1>7 DEF LoadLeases, Typed, ViewOK, Loaded
  <2>2. CASE UNCHANGED <<page, deploymentQuery, outdated>>
    BY <1>1, <1>2, <2>1, <2>2, AsksPage
  <2>3. CASE ShowWizard /\ state # "none"
    <3>1. \/ UNCHANGED <<deploymentQuery, outdated>> /\ page' # "detail"
          \/ AskDeployment
      BY <2>3 DEF ShowWizard
    <3> QED BY <1>1, <1>2, <2>1, <2>3, <3>1, AsksPage
  <2> QED BY <1>7, <2>2, <2>3 DEF LoadLeases, PageInv
<1>8. CASE LoadFails
  <2>1. CASE UNCHANGED <<deploymentQuery, outdated>>
    BY <1>1, <1>2, <1>8, <2>1, AsksPage DEF LoadFails
  <2>2. CASE deploymentQuery' = NoQuery /\ outdated'
    BY <1>1, <1>8, <2>2, Values DEF LoadFails, PageInv
  <2> QED BY <1>8, <2>1, <2>2 DEF LoadFails
<1> QED BY <1>3, <1>4, <1>5, <1>6, <1>7, <1>8 DEF Loads

\* Whatever else happens shows no page without asking.
LEMMA ElsewherePage == Typed /\ PageInv /\ Elsewhere => PageInv'
<1> SUFFICES ASSUME Typed, PageInv, Elsewhere PROVE PageInv'
  OBVIOUS
<1>1. CASE Tokenize
  <2>1. /\ UNCHANGED <<state, version, wallet>> /\ state # "none" /\ (ShowDetail \/ UNCHANGED view)
        /\ \A j \in Kinds \ {"lease"} : ops'[j] = ops[j]
    BY <1>1 DEF Tokenize, End, chain, storage, PageInv, Kinds, Typed, OpsOK
  <2>2. OpsSettled' => OpsSettled
    BY <2>1 DEF OpsSettled, Kinds
  <2> QED BY <2>1, <2>2, ShowPage
<1>2. CASE Open
  <2>1. UNCHANGED <<state, version, wallet, ops>> /\ ShowDetail /\ state # "none"
    BY <1>2 DEF Open, chain, storage
  <2>2. OpsSettled' => OpsSettled
    BY <2>1 DEF OpsSettled
  <2> QED BY <2>1, <2>2, ShowPage
<1>3. CASE Loads
  BY <1>3, LoadsPage
<1>5. CASE Navigate
  <2>1. UNCHANGED <<state, version, wallet, ops, loaded, deploymentQuery, outdated>> /\ page' = "away"
    BY <1>5 DEF Navigate, chain, storage, queries
  <2>2. OpsSettled' => OpsSettled
    BY <2>1 DEF OpsSettled
  <2> QED BY <2>1, <2>2, AsksPage
<1>6. CASE Leave
  <2>1. /\ \A j \in Kinds : ops'[j].at = "idle"
        /\ UNCHANGED <<state, version>> /\ page' = "away" /\ deploymentQuery'.at = "idle" /\ ~outdated'
    BY <1>6, Values DEF Leave, chain
  <2> QED BY <2>1 DEF PageInv, AnswerIsCurrent, LoadedIsCurrent
<1>7. CASE SwitchWallet
  <2>1. /\ UNCHANGED <<state, version, loaded, deploymentQuery, outdated>>
        /\ page' # "detail" /\ (UNCHANGED page \/ page' = "away")
    BY <1>7 DEF SwitchWallet, chain, queries
  <2>2. \A j \in Kinds : ops'[j].at = ops[j].at
    BY <1>7, SwitchKeeps DEF Typed
  <2>3. OpsSettled' => OpsSettled
    BY <2>2 DEF OpsSettled, Kinds
  <2> QED BY <2>1, <2>2, <2>3, AsksPage
<1>8. ASSUME NEW g \in Groups, LeaseEnds(g) PROVE PageInv'
  <2>1. UNCHANGED <<state, version, wallet, ops, view>>
    BY <1>8 DEF LeaseEnds, storage
  <2>2. OpsSettled' => OpsSettled
    BY <2>1 DEF OpsSettled
  <2> QED BY <2>1, <2>2, AsksPage DEF view
<1> QED BY <1>1, <1>2, <1>3, <1>5, <1>6, <1>7, <1>8 DEF Elsewhere

\* Every step, or none, keeps the page's part of the invariant.
LEMMA NextPage == Typed /\ PageInv /\ [Next]_vars => PageInv'
<1> SUFFICES ASSUME Typed, PageInv, [Next]_vars PROVE PageInv'
  OBVIOUS
<1>1. CASE UNCHANGED vars
  BY <1>1 DEF vars, chain, storage, view, PageInv, OpsSettled, AnswerIsCurrent, LoadedIsCurrent
<1>2. CASE Next
  BY <1>2, StartsPage, TxCommitsPage, OpStepPage, TxReturnsPage, ElsewherePage DEF Next, Elsewhere, Loads
<1> QED BY <1>1, <1>2

------------------------------------------------------------------------------
\* A provider without an active lease runs nothing, and before its creation a
\* deployment has no lease.
RunsEnd ==
  /\ \A p \in Providers \ ActiveProviders(leases) : runs[p] = NoManifest
  /\ state = "none" => leases = NoLeases

\* As long as nothing goes wrong: operations come one after the other, of the
\* wallet that is selected; what they send is the version; the storage lags
\* behind it only between a commit and the return of its transaction; and a
\* provider that runs something older is one the update under way will reach.
Current ==
  /\ \A j, k \in Kinds : Busy(j) /\ Busy(k) => j = k
  /\ \A k \in Kinds : Busy(k) => wallet = "own"
  /\ ops["create"].at # "committed" /\ ops["update"].at # "committed" => stored["own"] = version
  /\ \A k \in {"create", "update"} : ops[k].at = "committed" => ops[k].manifest = version
  /\ \A k \in Kinds : ops[k].at \in {"tokenizing", "sending"} => ops[k].manifest = version
  /\ ops["update"].at \in {"signing", "committed"} => ActiveProviders(leases) \subseteq ops["update"].to
  /\ ~told /\ ops["update"].at # "committed" =>
       \A p \in ActiveProviders(leases) :
         \/ runs[p] \in {version, NoManifest}
         \/ ops["update"].at = "sending" /\ p \in ops["update"].to

CurrentInv == mishaps = {} => Current

\* Nothing is deployed, and nothing runs, at first.
LEMMA InitCurrent == Init => RunsEnd /\ CurrentInv
BY DEF Init, RunsEnd, CurrentInv, Current, ActiveProviders, NoLeases, NoOp, Busy, Kinds, Wallets

\* The start of an operation tells nobody yet.
LEMMA StartsKeep == UserStarts => UNCHANGED <<chain, runs>> /\ mishaps \subseteq mishaps'
<1> SUFFICES ASSUME UserStarts PROVE UNCHANGED <<chain, runs>> /\ mishaps \subseteq mishaps'
  OBVIOUS
<1>1. ASSUME NEW k, NEW op, NEW stale, Start(k, op, stale) PROVE mishaps \subseteq mishaps'
  BY <1>1 DEF Start
<1>2. ASSUME NEW m \in Manifests, Create(m) \/ Update(m)
      PROVE  UNCHANGED <<chain, runs>> /\ mishaps \subseteq mishaps'
  BY <1>1, <1>2, Zenon DEF Create, Update
<1>3. ASSUME NEW choice \in BidChoices, Accept(choice)
      PROVE  UNCHANGED <<chain, runs>> /\ mishaps \subseteq mishaps'
  BY <1>1, <1>3, Zenon DEF Accept
<1>4. CASE Cancel \/ Close
  BY <1>1, <1>4, Zenon DEF Cancel, Close
<1> QED BY <1>2, <1>3, <1>4 DEF UserStarts

\* A provider without an active lease runs nothing, whatever happens.
LEMMA NextRunsEnd == Typed /\ RunsEnd /\ [Next]_vars => RunsEnd'
<1> SUFFICES ASSUME Typed, RunsEnd, [Next]_vars PROVE RunsEnd'
  OBVIOUS
<1> USE DEF chain, Typed, ChainOK, RunsOK, RunsEnd, ActiveProviders
<1>1. CASE UNCHANGED <<chain, runs>>
  BY <1>1
<1>2. ASSUME NEW k \in Kinds, TxCommits(k) PROVE RunsEnd'
  <2>1. CASE CreateCommits(ops[k]) \/ UpdateCommits(ops[k])
    <3>1. UNCHANGED <<leases, runs>> /\ state' # "none"
      BY <2>1 DEF CreateCommits, UpdateCommits
    <3> QED BY <3>1
  <2>2. CASE LeaseCommits(ops[k])
    <3>1. UNCHANGED <<runs, state>> /\ state = "active"
      BY <2>2 DEF LeaseCommits
    <3>2. \A g \in Groups : leases[g].active => leases'[g] = leases[g]
      BY <2>2 DEF LeaseCommits, NoLeases
    <3>3. ActiveProviders(leases) \subseteq ActiveProviders(leases')
      BY <3>2
    <3> QED BY <3>1, <3>3
  <2>3. CASE CloseCommits
    BY <2>3 DEF CloseCommits
  <2> QED BY <1>2, <2>1, <2>2, <2>3 DEF TxCommits
<1>3. ASSUME NEW k \in Kinds, NEW p \in Providers, Send(k, p) \/ SendFails(k, p) PROVE RunsEnd'
  BY <1>3 DEF Send, SendFails, Takes
<1>4. ASSUME NEW g \in Groups, LeaseEnds(g) PROVE RunsEnd'
  <2>1. state # "none" /\ state' = state
    BY <1>4 DEF LeaseEnds, NoLeases
  <2>2. \A p \in Providers \ ActiveProviders(leases') : runs'[p] = NoManifest
    BY <1>4 DEF LeaseEnds
  <2> QED BY <2>1, <2>2
<1>5. CASE UserStarts \/ TxReturns \/ \E k \in Kinds : TxFails(k) \/ TxUnconfirmed(k) \/ Sent(k)
  <2>1. CASE UserStarts
    BY <1>1, <2>1, StartsKeep
  <2>2. CASE TxReturns
    BY <1>1, <2>2
       DEF TxReturns, CreateReturns, LeaseReturns, UpdateReturns, CancelReturns, CloseReturns
  <2>3. ASSUME NEW k \in Kinds, TxFails(k) \/ TxUnconfirmed(k) \/ Sent(k) PROVE RunsEnd'
    BY <1>1, <2>3 DEF TxFails, TxUnconfirmed, Sent
  <2> QED BY <1>5, <2>1, <2>2, <2>3
<1>6. CASE Elsewhere /\ ~\E g \in Groups : LeaseEnds(g)
  BY <1>1, <1>6
     DEF Elsewhere, Tokenize, Open, Loads, Refresh, ReadDeployment, ReadLeases, LoadDeployment, LoadLeases, LoadFails,
         Navigate, Leave, SwitchWallet
<1> QED BY <1>1, <1>2, <1>3, <1>4, <1>5, <1>6 DEF Next, Elsewhere, Loads, vars

\* An operation starts when no other is under way.
LEMMA StartCurrent ==
  ASSUME Typed, Current, NEW k \in Kinds \ {"update"}, NEW op \in Op,
         ops' = [ops EXCEPT ![k] = op], wallet = "own",
         \A j \in Kinds : ops[j].at = "idle",
         UNCHANGED <<version, leases, runs, stored, wallet, told>>,
         op.at = "signing" \/ (op.at = "sending" /\ op.manifest = version)
  PROVE  Current'
<1>1. ActiveProviders(leases)' = ActiveProviders(leases)
  BY DEF ActiveProviders
<1>2. /\ ops'[k] = op /\ \A j \in Kinds \ {k} : ops'[j].at = "idle"
  BY DEF Typed, OpsOK
<1> QED BY <1>1, <1>2 DEF Current, Busy, Kinds

\* As long as nothing goes wrong, an operation starts from the deployed manifest,
LEMMA StartsCurrent ==
  ASSUME Typed, Current, UserStarts, mishaps' = {}
  PROVE  Current'
<1> USE DEF chain, storage, Kinds
<1>1. ASSUME NEW m \in Manifests, Create(m) PROVE Current'
  <2> DEFINE op == [NoOp EXCEPT !.at = "signing", !.manifest = m]
  <2>1. op \in Op /\ op.at = "signing"
    BY Values DEF Op, AnyManifest
  <2>2. Start("create", op, FALSE) /\ UNCHANGED <<chain, runs, storage, told>>
    BY <1>1 DEF Create
  <2>3. wallet = "own" /\ ops' = [ops EXCEPT !["create"] = op] /\ \A j \in Kinds : ops[j].at = "idle"
    BY <2>2 DEF Start, Idle, Busy
  <2>4. UNCHANGED <<version, leases, runs, stored, wallet, told>>
    BY <2>2
  <2> HIDE DEF op
  <2> QED BY <2>1, <2>3, <2>4, StartCurrent
<1>2. ASSUME NEW m \in Manifests, Update(m) PROVE Current'
  <2> DEFINE sends == m = loaded.version
             op == [[NoOp EXCEPT !.manifest = m, !.to = AllProviders(loaded.leases), !.reload = LaterReload]
                      EXCEPT !.at = IF sends THEN "sending" ELSE "signing"]
  <2>1. AllProviders(loaded.leases) \subseteq Providers
    BY DEF Typed, ViewOK, Loaded, AllProviders, Lease
  <2>2. /\ op \in Op /\ op.manifest = m /\ op.to = AllProviders(loaded.leases)
        /\ op.at = IF sends THEN "sending" ELSE "signing"
    BY <2>1, Values DEF Op, AnyManifest, LaterReload
  <2>3. Start("update", op, Outdated) /\ UNCHANGED <<chain, runs, told>>
    BY <1>2 DEF Update
  <2>4. IF sends THEN SaveManifest(m) ELSE UNCHANGED storage
    BY <1>2 DEF Update
  <2>6. /\ ~Outdated /\ wallet = "own" /\ ops' = [ops EXCEPT !["update"] = op]
        /\ \A j \in Kinds : ops[j].at = "idle"
    BY <2>3 DEF Start, Idle, Busy
  <2> HIDE DEF op
  <2>7. ActiveProviders(leases) \subseteq op.to /\ loaded.version = version
    BY <2>2, <2>6 DEF Outdated
  <2>8. stored'["own"] = version /\ wallet' = "own"
    <3>1. CASE sends
      BY <2>4, <2>6, <2>7, <3>1 DEF SaveManifest, Typed, StorageOK, Wallets
    <3>2. CASE ~sends
      BY <2>4, <2>6, <3>2 DEF Current
    <3> QED BY <3>1, <3>2
  <2>9. ActiveProviders(leases)' = ActiveProviders(leases)
    BY <2>3 DEF ActiveProviders
  <2> QED BY <2>2, <2>3, <2>6, <2>7, <2>8, <2>9 DEF Typed, OpsOK, Current, Busy
<1>3. ASSUME NEW choice \in BidChoices, Accept(choice) PROVE Current'
  <2> DEFINE op == [NoOp EXCEPT !.at = "signing", !.choice = choice]
  <2>1. op \in Op /\ op.at = "signing"
    BY Values DEF Op
  <2>2. Start("lease", op, FALSE) /\ UNCHANGED <<chain, runs, storage, told>>
    BY <1>3 DEF Accept
  <2>3. wallet = "own" /\ ops' = [ops EXCEPT !["lease"] = op] /\ \A j \in Kinds : ops[j].at = "idle"
    BY <2>2 DEF Start, Idle, Busy
  <2>4. UNCHANGED <<version, leases, runs, stored, wallet, told>>
    BY <2>2
  <2> HIDE DEF op
  <2> QED BY <2>1, <2>3, <2>4, StartCurrent
<1>4. CASE Cancel \/ Close
  <2>1. PICK k \in {"cancel", "close"}, op \in Op :
          /\ op.at = "signing" /\ Start(k, op, FALSE)
          /\ UNCHANGED <<chain, runs, storage, told>>
    <3>1. ASSUME NEW w \in {"on", "skipped"}
          PROVE  /\ [NoOp EXCEPT !.at = "signing"] \in Op /\ [NoOp EXCEPT !.at = "signing"].at = "signing"
                 /\ [NoOp EXCEPT !.at = "signing", !.reload = w] \in Op
                 /\ [NoOp EXCEPT !.at = "signing", !.reload = w].at = "signing"
      BY Values DEF Op
    <3>2. LaterReload \in {"on", "skipped"}
      BY DEF LaterReload
    <3> QED BY <1>4, <3>1, <3>2 DEF Cancel, Close
  <2>2. Start(k, op, FALSE) /\ UNCHANGED <<chain, runs, storage, told>>
    BY <2>1
  <2>3. wallet = "own" /\ ops' = [ops EXCEPT ![k] = op] /\ \A j \in Kinds : ops[j].at = "idle"
    BY <2>2 DEF Start, Idle, Busy
  <2>4. UNCHANGED <<version, leases, runs, stored, wallet, told>>
    BY <2>2
  <2> QED BY <2>1, <2>3, <2>4, StartCurrent
<1> QED BY <1>1, <1>2, <1>3, <1>4 DEF UserStarts

\* no other operation is under way when its transaction is committed,
LEMMA TxCommitsCurrent ==
  ASSUME Typed, RunsEnd, Current, NEW k \in Kinds, TxCommits(k)
  PROVE  Current'
<1>1. /\ \A j \in Kinds : j # k => ops[j].at = "idle" /\ ops'[j] = ops[j]
      /\ ops'[k] = [ops[k] EXCEPT !.at = "committed"] /\ ops[k].at = "signing"
  BY DEF TxCommits, Current, Busy, Typed, OpsOK
<1>2. /\ ops'[k].at = "committed" /\ ops'[k].manifest = ops[k].manifest /\ ops'[k].to = ops[k].to
  BY <1>1 DEF Typed, OpsOK, Op
<1>3. UNCHANGED storage /\ wallet = "own"
  <2>1. UNCHANGED storage
    BY DEF TxCommits
  <2>2. ops[k].at # "idle"
    BY <1>1
  <2> QED BY <2>1, <2>2 DEF Current, Busy
<1>4. SUFFICES ASSUME NEW to, to = ActiveProviders(leases')
               PROVE  /\ k \notin {"create", "update"} => version' = version
                      /\ k = "update" => version' = ops[k].manifest /\ to \subseteq ops[k].to
                      /\ k = "create" => version' = ops[k].manifest /\ to = {}
                      /\ ~told' /\ k # "update" => ~told /\ \A p \in to : runs'[p] \in {version, NoManifest}
  <2> DEFINE to == ActiveProviders(leases')
  <2>1. ASSUME /\ k \notin {"create", "update"} => version' = version
               /\ k = "update" => version' = ops[k].manifest /\ to \subseteq ops[k].to
               /\ k = "create" => version' = ops[k].manifest /\ to = {}
               /\ ~told' /\ k # "update" => ~told /\ \A p \in to : runs'[p] \in {version, NoManifest}
        PROVE  Current'
    <3>1. to = ActiveProviders(leases)'
      BY DEF ActiveProviders
    <3> HIDE DEF to
    <3>2. (\A j \in Kinds : Busy(j) => j = k /\ wallet = "own")'
      BY <1>1, <1>3 DEF Busy, storage
    <3>3. k \notin {"create", "update"} => stored'["own"] = version'
      BY <1>1, <1>3, <2>1 DEF Current, storage, Kinds
    <3>4. (\A j \in Kinds : ops[j].at \notin {"signing", "tokenizing", "sending"})'
      BY <1>1, <1>2
    <3>5. (\A j \in Kinds : ops[j].at = "committed" => j = k)'
      BY <1>1
    <3>6. k \in {"create", "update"} => ops'[k].manifest = version'
      BY <1>2, <2>1
    <3>7. k = "update" => to \subseteq ops'[k].to
      BY <1>2, <2>1
    <3>8. k # "update" /\ ~told' => \A p \in to : runs'[p] \in {version', NoManifest}
      BY <2>1
    <3> QED BY <1>2, <3>1, <3>2, <3>3, <3>4, <3>5, <3>6, <3>7, <3>8 DEF Current, Kinds
  <2> QED BY <2>1
<1> USE DEF chain
<1>9. k # "update" => ops["update"].at = "idle"
  BY <1>1 DEF Kinds
<1>10. ~told /\ k # "update" => \A p \in ActiveProviders(leases) : runs[p] \in {version, NoManifest}
  BY <1>9 DEF Current
<1>5. CASE k = "create"
  BY <1>4, <1>5 DEF TxCommits, CreateCommits, RunsEnd, NoLeases, ActiveProviders
<1>6. CASE k = "update"
  BY <1>1, <1>4, <1>6 DEF TxCommits, UpdateCommits, Current, ActiveProviders
<1>7. CASE k = "lease"
  <2>1. UNCHANGED <<version, runs, told>> /\ LeaseCommits(ops[k])
    BY <1>7 DEF TxCommits, LeaseCommits
  <2>2. \A p \in to : p \in ActiveProviders(leases) \/ p \in Providers
    BY SMTT(30), <2>1, <1>4 DEF LeaseCommits, ActiveProviders, Typed, OpsOK, Op, BidChoices
  <2>3. \A p \in to \ ActiveProviders(leases) : runs[p] = NoManifest
    BY <2>2 DEF RunsEnd
  <2> QED BY <1>7, <1>10, <2>1, <2>3
<1>8. CASE k \notin {"create", "update", "lease"}
  <2>1. to = {} /\ UNCHANGED <<version, told>>
    BY <1>4, <1>8 DEF TxCommits, CloseCommits, ActiveProviders, Typed, ChainOK, Lease
  <2> QED BY <1>8, <2>1
<1> QED BY <1>5, <1>6, <1>7, <1>8

\* An operation that was alone has ended.
LEMMA EndCurrent ==
  ASSUME Typed, Current, NEW k \in Kinds, End(k), Busy(k), UNCHANGED <<version, leases>>,
         stored'["own"] = version,
         told' \/ \A p \in ActiveProviders(leases) : runs'[p] \in {version, NoManifest}
  PROVE  Current'
<1>1. \A j \in Kinds : ops'[j].at = "idle"
  BY Values DEF Typed, OpsOK, Current, End, Busy
<1>2. ActiveProviders(leases)' = ActiveProviders(leases)
  BY DEF ActiveProviders
<1> QED BY <1>1, <1>2 DEF Current, Busy, Kinds

\* its manifest is stored when the transaction returns,
LEMMA TxReturnsCurrent ==
  ASSUME Typed, Current, TxReturns
  PROVE  Current'
<1> USE DEF chain, storage, Typed, StorageOK, Kinds
<1>1. CASE CreateReturns
  <2>1. /\ End("create") /\ Busy("create") /\ UNCHANGED <<version, leases, runs, told>>
        /\ ops["create"].at = "committed" /\ SaveManifest(ops["create"].manifest)
    BY <1>1 DEF CreateReturns, Busy
  <2>2. wallet = "own" /\ ops["create"].manifest = version /\ ops["update"].at = "idle"
    BY <2>1 DEF Current, Busy
  <2>3. stored'["own"] = version
    BY <2>1, <2>2 DEF SaveManifest, Wallets
  <2>4. told' \/ \A p \in ActiveProviders(leases) : runs'[p] \in {version, NoManifest}
    BY <2>1, <2>2 DEF Current
  <2> QED BY <2>1, <2>3, <2>4, EndCurrent
<1>2. CASE LeaseReturns
  <2>1. /\ ops["lease"].at = "committed" /\ UNCHANGED <<version, leases, runs, stored, wallet, told>>
    BY <1>2 DEF LeaseReturns
  <2>2. stored["own"] = version /\ wallet = "own" /\ \A j \in Kinds : j # "lease" => ops[j].at = "idle"
    BY <2>1 DEF Current, Busy
  <2>3. CASE End("lease")
    <3>1. told' \/ \A p \in ActiveProviders(leases) : runs'[p] \in {version, NoManifest}
      BY <2>1, <2>2 DEF Current
    <3>2. Busy("lease") /\ UNCHANGED <<version, leases>> /\ stored'["own"] = version
      BY <2>1, <2>2 DEF Busy
    <3> QED BY <2>3, <3>1, <3>2, EndCurrent
  <2>4. CASE ~End("lease")
    <3>1. /\ ops'["lease"].at = "tokenizing" /\ ops'["lease"].manifest = version
          /\ \A j \in Kinds \ {"lease"} : ops'[j] = ops[j]
      <4> DEFINE next == [ops["lease"] EXCEPT !.at = "tokenizing", !.manifest = stored[wallet],
                            !.to = Range(ops["lease"].choice) \ {NoProvider}]
      <4>1. ops' = [ops EXCEPT !["lease"] = next]
        BY <1>2, <2>4 DEF LeaseReturns
      <4>2. next.at = "tokenizing" /\ next.manifest = stored[wallet]
        BY DEF OpsOK, Op
      <4> HIDE DEF next
      <4> QED BY <2>2, <4>1, <4>2 DEF OpsOK
    <3>2. ActiveProviders(leases)' = ActiveProviders(leases)
      BY <2>1 DEF ActiveProviders
    <3> QED BY <2>1, <2>2, <3>1, <3>2 DEF Current, Busy
  <2> QED BY <2>3, <2>4
<1>3. CASE UpdateReturns
  <2>1. /\ ops["update"].at = "committed" /\ UNCHANGED <<version, leases, runs, wallet, told>>
        /\ SaveManifest(ops["update"].manifest)
    BY <1>3 DEF UpdateReturns, SaveManifest
  <2>2. /\ wallet = "own" /\ ops["update"].manifest = version
        /\ \A j \in Kinds : j # "update" => ops[j].at = "idle"
        /\ ActiveProviders(leases) \subseteq ops["update"].to
    BY <2>1 DEF Current, Busy
  <2>3. stored'["own"] = version
    BY <2>1, <2>2 DEF SaveManifest, Wallets
  <2>4. /\ ops'["update"].at = "sending" /\ ops'["update"].manifest = version
        /\ ops'["update"].to = ops["update"].to
        /\ \A j \in Kinds \ {"update"} : ops'[j] = ops[j]
    BY <1>3, <2>2 DEF UpdateReturns, OpsOK, Op
  <2>5. ActiveProviders(leases)' = ActiveProviders(leases)
    BY <2>1 DEF ActiveProviders
  <2> QED BY <2>1, <2>2, <2>3, <2>4, <2>5 DEF Current, Busy
<1>4. ASSUME NEW k \in {"cancel", "close"}, CancelReturns \/ CloseReturns,
             End(k), ops[k].at = "committed" PROVE Current'
  <2>1. Busy(k) /\ UNCHANGED <<version, leases, runs, stored, told>>
    BY <1>4 DEF CancelReturns, CloseReturns, Busy
  <2>2. stored["own"] = version /\ ops["update"].at = "idle"
    BY <1>4 DEF Current, Busy
  <2>3. told' \/ \A p \in ActiveProviders(leases) : runs'[p] \in {version, NoManifest}
    BY <2>1, <2>2 DEF Current
  <2> QED BY <1>4, <2>1, <2>2, <2>3, EndCurrent
<1> QED BY <1>1, <1>2, <1>3, <1>4 DEF TxReturns, CancelReturns, CloseReturns

\* every provider is sent it, unless the user is told,
LEMMA OpStepCurrent ==
  ASSUME Typed, Current, NEW k \in Kinds, mishaps' = {},
         TxFails(k) \/ TxUnconfirmed(k) \/ Sent(k)
           \/ \E p \in Providers : Send(k, p) \/ SendFails(k, p)
  PROVE  Current'
<1> USE DEF chain, storage, Typed
<1>1. CASE TxFails(k)
  <2>1. /\ ops[k].at = "signing" /\ End(k) /\ Busy(k)
        /\ UNCHANGED <<version, leases, runs, stored, told>>
    BY <1>1 DEF TxFails, Busy
  <2>2. /\ ops["create"].at # "committed" /\ ops["update"].at # "committed"
        /\ ops["update"].at # "sending"
    BY <2>1 DEF Current, Busy, Kinds
  <2>3. told' \/ \A p \in ActiveProviders(leases) : runs'[p] \in {version, NoManifest}
    BY <2>1, <2>2 DEF Current
  <2>4. stored'["own"] = version
    BY <2>1, <2>2 DEF Current
  <2> QED BY <2>1, <2>3, <2>4, EndCurrent
<1>2. CASE TxUnconfirmed(k)
  BY <1>2 DEF TxUnconfirmed
<1>3. CASE Sent(k)
  <2>1. /\ ops[k].at = "sending" /\ ops[k].to = {} /\ End(k) /\ Busy(k)
        /\ UNCHANGED <<version, leases, runs, stored, told>>
    BY <1>3 DEF Sent, Busy
  <2>2. ops["create"].at # "committed" /\ ops["update"].at # "committed"
    BY <2>1 DEF Current, Busy, Kinds
  <2>3. ops["update"].at = "sending" => ops["update"].to = {}
    BY <2>1 DEF Current, Busy, Kinds
  <2>4. told' \/ \A p \in ActiveProviders(leases) : runs'[p] \in {version, NoManifest}
    BY <2>1, <2>2, <2>3 DEF Current
  <2>5. stored'["own"] = version
    BY <2>1, <2>2 DEF Current
  <2> QED BY <2>1, <2>4, <2>5, EndCurrent
<1>4. ASSUME NEW p \in Providers, Send(k, p) PROVE Current'
  <2>1. /\ ops[k].at = "sending" /\ UNCHANGED <<version, leases, stored, wallet, told>>
        /\ runs' = [runs EXCEPT ![p] = ops[k].manifest]
        /\ ops' = [ops EXCEPT ![k].to = @ \ {p}]
    BY <1>4 DEF Send, Takes
  <2>2. ops[k].manifest = version /\ \A j \in Kinds \ {k} : ops[j].at = "idle"
    BY <2>1 DEF Current, Busy
  <2>3. /\ ops'[k].at = "sending" /\ ops'[k].manifest = ops[k].manifest
        /\ ops'[k].to = ops[k].to \ {p} /\ \A j \in Kinds \ {k} : ops'[j] = ops[j]
    BY <2>1 DEF OpsOK, Op
  <2>4. runs'[p] = version /\ \A q \in Providers \ {p} : runs'[q] = runs[q]
    BY <2>1, <2>2 DEF RunsOK
  <2>5. ActiveProviders(leases)' = ActiveProviders(leases)
    BY <2>1 DEF ActiveProviders
  <2>6. \A q \in ActiveProviders(leases) : q = p \/ runs'[q] = runs[q]
    BY <2>1
  <2>7. ~told' /\ ops'["update"].at # "committed" =>
          \A q \in ActiveProviders(leases) :
            \/ runs'[q] \in {version, NoManifest}
            \/ ops'["update"].at = "sending" /\ q \in ops'["update"].to
    BY <2>1, <2>2, <2>3, <2>4, <2>6 DEF Current, Kinds
  <2> QED BY <2>1, <2>2, <2>3, <2>5, <2>7 DEF Current, Busy, Kinds
<1>5. ASSUME NEW p \in Providers, SendFails(k, p) PROVE Current'
  <2>1. /\ ops[k].at = "sending" /\ End(k) /\ Busy(k) /\ told'
        /\ UNCHANGED <<version, leases, stored>>
    BY <1>5 DEF SendFails, Busy
  <2>2. ops["create"].at # "committed" /\ ops["update"].at # "committed"
    BY <2>1 DEF Current, Busy, Kinds
  <2>3. stored'["own"] = version
    BY <2>1, <2>2 DEF Current
  <2> QED BY <2>1, <2>3, EndCurrent
<1> QED BY <1>1, <1>2, <1>3, <1>4, <1>5

\* and nothing else stores or sends a manifest.
LEMMA ElsewhereCurrent ==
  ASSUME Typed, Current, Elsewhere, mishaps' = {}
  PROVE  Current'
<1> USE DEF chain, storage, Typed, Kinds
<1>1. CASE Tokenize
  <2>1. ops["lease"].at = "tokenizing" /\ UNCHANGED <<version, leases, runs, stored, wallet, told>>
    BY <1>1 DEF Tokenize
  <2>2. \A j \in Kinds \ {"lease"} : ops[j].at = "idle"
    BY <2>1 DEF Current, Busy
  <2>3. CASE End("lease")
    <3>1. stored'["own"] = version /\ Busy("lease")
      BY <2>1, <2>2 DEF Current, Busy
    <3>2. told' \/ \A p \in ActiveProviders(leases) : runs'[p] \in {version, NoManifest}
      BY <2>1, <2>2 DEF Current
    <3> QED BY <2>1, <2>3, <3>1, <3>2, EndCurrent
  <2>4. CASE ops' = [ops EXCEPT !["lease"].at = "sending"]
    <3>1. /\ ops'["lease"].at = "sending" /\ ops'["lease"].manifest = ops["lease"].manifest
          /\ \A j \in Kinds \ {"lease"} : ops'[j] = ops[j]
      BY <2>4 DEF OpsOK, Op
    <3>2. ActiveProviders(leases)' = ActiveProviders(leases)
      BY <2>1 DEF ActiveProviders
    <3> QED BY <2>1, <2>2, <3>1, <3>2 DEF Current, Busy
  <2> QED BY <1>1, <2>3, <2>4 DEF Tokenize
<1>2. CASE UNCHANGED <<version, leases, runs, stored, wallet, ops, told>>
  BY <1>2 DEF Current, Busy, ActiveProviders
<1>3. CASE Open \/ Loads \/ Navigate
  BY <1>2, <1>3 DEF Open, Loads, Refresh, ReadDeployment, ReadLeases, LoadDeployment, LoadLeases, LoadFails, Navigate
<1>4. CASE Leave
  BY <1>4 DEF Leave
<1>5. CASE SwitchWallet
  <2>1. /\ UNCHANGED <<version, leases, runs, stored, told>>
        /\ {x \in {"switched"} : ~Idle} = {}
    BY <1>5 DEF SwitchWallet
  <2>2. \A j \in Kinds : ops[j].at = "idle" /\ ops'[j].at = "idle"
    BY <1>5, <2>1, SwitchKeeps DEF Idle, Busy
  <2> QED BY <2>1, <2>2 DEF Current, Busy, ActiveProviders
<1>6. ASSUME NEW g \in Groups, LeaseEnds(g) PROVE Current'
  <2>1. UNCHANGED <<version, stored, wallet, ops, told>>
    BY <1>6 DEF LeaseEnds
  <2>2. ActiveProviders(leases') \subseteq ActiveProviders(leases)
    BY <1>6 DEF LeaseEnds, ActiveProviders, ChainOK, Lease
  <2>3. \A p \in ActiveProviders(leases') : runs'[p] = runs[p]
    BY <1>6, <2>2 DEF LeaseEnds, ActiveProviders, ChainOK
  <2>4. ActiveProviders(leases)' = ActiveProviders(leases')
    BY DEF ActiveProviders
  <2> QED BY <2>1, <2>2, <2>3, <2>4 DEF Current, Busy
<1> QED BY <1>1, <1>3, <1>4, <1>5, <1>6 DEF Elsewhere

\* Every step, or none, keeps this as long as nothing goes wrong.
LEMMA NextCurrent == Typed /\ RunsEnd /\ CurrentInv /\ [Next]_vars => CurrentInv'
<1> SUFFICES ASSUME Typed, RunsEnd, CurrentInv, [Next]_vars, mishaps' = {} PROVE Current'
  BY DEF CurrentInv
<1>1. CASE UNCHANGED vars
  BY <1>1 DEF CurrentInv, vars, chain, storage, Current, Busy, ActiveProviders
<1>2. CASE Next
  <2>1. mishaps \subseteq mishaps'
    <3>1. CASE UserStarts
      BY <3>1, StartsKeep
    <3>2. CASE TxReturns
      BY <3>2 DEF TxReturns, CreateReturns, LeaseReturns, UpdateReturns, CancelReturns, CloseReturns
    <3>3. CASE \E k \in Kinds : \/ TxCommits(k) \/ TxFails(k) \/ TxUnconfirmed(k) \/ Sent(k)
                              \/ \E p \in Providers : Send(k, p) \/ SendFails(k, p)
      BY <3>3 DEF TxCommits, TxFails, TxUnconfirmed, Sent, Send, SendFails
    <3>4. CASE Elsewhere
      <4>1. CASE Tokenize \/ Open \/ Loads
        BY <4>1 DEF Tokenize, Open, Loads, Refresh, ReadDeployment, ReadLeases, LoadDeployment, LoadLeases, LoadFails
      <4>2. CASE Navigate \/ Leave \/ SwitchWallet \/ \E g \in Groups : LeaseEnds(g)
        BY <4>2 DEF Navigate, Leave, SwitchWallet, LeaseEnds
      <4> QED BY <3>4, <4>1, <4>2 DEF Elsewhere
    <3> QED BY <1>2, <3>1, <3>2, <3>3, <3>4 DEF Next, Elsewhere, Loads
  <2>2. Current
    BY <2>1 DEF CurrentInv
  <2> QED BY <1>2, <2>2, StartsCurrent, TxCommitsCurrent, OpStepCurrent, TxReturnsCurrent,
             ElsewhereCurrent DEF Next, Elsewhere, Loads
<1> QED BY <1>1, <1>2

------------------------------------------------------------------------------
IInv == Typed /\ AllKnown /\ PageInv /\ RunsEnd /\ CurrentInv

\* The invariant holds in every reachable state, for any manifests, providers,
\* groups and bounds.
LEMMA Invariance == Spec => []IInv
<1>1. Init => IInv
  BY InitTyped, InitKnown, InitPage, InitCurrent DEF IInv
<1>2. IInv /\ [Next]_vars => IInv'
  BY NextTyped, NextKnown, NextPage, NextRunsEnd, NextCurrent DEF IInv
<1> QED BY <1>1, <1>2, PTL DEF Spec

\* Deployment, storage, page and operations keep their types, and whatever is
\* being sent is a manifest.
THEOREM TypeCorrect == Spec => []TypeOK
<1>1. IInv => TypeOK
  BY TypedIsTypeOK DEF IInv
<1> QED BY <1>1, Invariance, PTL

\* Whatever fails, overlaps or is done with another wallet, a provider runs only
\* manifests the chain has had the version of.
THEOREM SentManifestsWereDeployed == Spec => []SentWasDeployed
<1>1. IInv => SentWasDeployed
  BY DEF IInv, AllKnown, Known, SentWasDeployed
<1> QED BY <1>1, Invariance, PTL

\* At rest, if nothing went wrong, the manifest the browser stores is the one
\* deployed.
THEOREM StorageIsDeployed == Spec => []StoredIsDeployed
<1>1. IInv => StoredIsDeployed
  BY DEF IInv, CurrentInv, Current, Idle, Busy, Kinds, StoredIsDeployed
<1> QED BY <1>1, Invariance, PTL

\* At rest, if nothing went wrong and no send failed since the last update, no
\* provider runs an older manifest.
THEOREM OldManifestsAreExplained == Spec => []OldManifestIsExplained
<1>1. IInv => OldManifestIsExplained
  BY DEF IInv, CurrentInv, Current, Idle, Busy, Kinds, OldManifestIsExplained
<1> QED BY <1>1, Invariance, PTL

\* A detail page with no request and no operation under way shows the version and
\* state the chain has, unless a load failed or an operation ended without asking
\* for them.
THEOREM PageShowsTheChain == Spec => []PageIsCurrent
<1>1. IInv => PageIsCurrent
  BY DEF IInv, PageInv, OpsSettled, LoadedIsCurrent, Idle, Busy, Kinds, PageIsCurrent
<1> QED BY <1>1, Invariance, PTL

------------------------------------------------------------------------------
(* Folds over a list, taken apart at its last element                         *)

\* Induction over the natural numbers, for a set.
LEMMA Counting ==
  ASSUME NEW Good, 0 \in Good, \A k \in Nat : k \in Good => k + 1 \in Good
  PROVE  \A k \in Nat : k \in Good
<1> DEFINE Bad == Nat \ Good
<1>1. ASSUME Bad # {} PROVE FALSE
  <2>1. PICK m \in Bad : \A x \in Bad : m <= x
    BY <1>1, MinIs
  <2>2. m \in Nat /\ m # 0 /\ m \notin Good
    BY <2>1
  <2>3. m - 1 \in Nat /\ (m - 1) + 1 = m
    BY <2>2
  <2>4. m - 1 \in Good
    BY <2>1, <2>3
  <2> QED
    BY <2>2, <2>3, <2>4
<1> QED
  BY <1>1

\* A list's last position is the greatest.
LEMMA LastIsMax ==
  ASSUME NEW k \in Nat
  PROVE  /\ Max(1..(k + 1)) = k + 1
         /\ \A s \in SUBSET (1..(k + 1)) : k + 1 \in s => Max(s) = k + 1
         /\ \A s \in SUBSET (1..k) : s # {} => Max(s) \in s
<1>1. ASSUME NEW n \in Nat, NEW s \in SUBSET (1..n), s # {}
      PROVE  Max(s) \in s /\ \A x \in s : x <= Max(s)
  <2>1. IsFiniteSet(1..n)
    BY FS_Interval
  <2>2. IsFiniteSet(s)
    BY <2>1, FS_Subset
  <2>3. s \subseteq Int
    OBVIOUS
  <2> QED
    BY ONLY <1>1, <2>2, <2>3, MaxIs
<1>2. ASSUME NEW s \in SUBSET (1..(k + 1)), k + 1 \in s PROVE Max(s) = k + 1
  <2>1. k + 1 \in Nat /\ s # {}
    BY <1>2
  <2>2. Max(s) \in s /\ \A x \in s : x <= Max(s)
    BY ONLY <1>1, <2>1, s \in SUBSET (1..(k + 1))
  <2>3. PICK m \in 1..(k + 1) : m = Max(s) /\ k + 1 <= m
    BY <1>2, <2>2
  <2> QED
    BY <2>3
<1>3. k + 1 \in 1..(k + 1)
  OBVIOUS
<1> QED
  BY <1>1, <1>2, <1>3

\* g is the recursive function by which GenerateSdl folds the services at the
\* positions in S.
IsBuild(form, S, g) ==
  g = [s \in SUBSET S |-> IF s = {} THEN NoSdl ELSE AddService(g[s \ {Max(s)}], form[Max(s)])]

\* generateSdl is computed by that function.
LEMMA BuildIs ==
  ASSUME NEW form
  PROVE  GenerateSdl(form) = (CHOOSE g : IsBuild(form, DOMAIN form, g))[DOMAIN form]
BY DEF GenerateSdl, FoldLeft, MapThenFoldSet, IsBuild

\* There is one for a list of any length.
LEMMA BuildExists ==
  ASSUME NEW form
  PROVE  \A n \in Nat : \E g : IsBuild(form, 1..n, g)
<1> DEFINE Good == {k \in Nat : \E g : IsBuild(form, 1..k, g)}
<1>1. 0 \in Good
  <2> DEFINE g == [s \in SUBSET (1..0) |-> NoSdl]
  <2>1. \A s \in SUBSET (1..0) : s = {}
    OBVIOUS
  <2>2. g = [s \in SUBSET (1..0) |->
               IF s = {} THEN NoSdl ELSE AddService(g[s \ {Max(s)}], form[Max(s)])]
    BY <2>1
  <2>3. IsBuild(form, 1..0, g)
    BY <2>2 DEF IsBuild
  <2> QED
    BY <2>3
<1>2. ASSUME NEW k \in Nat, k \in Good PROVE k + 1 \in Good
  <2>1. PICK g : IsBuild(form, 1..k, g)
    BY <1>2
  <2>2. \A s \in SUBSET (1..k) :
          g[s] = IF s = {} THEN NoSdl ELSE AddService(g[s \ {Max(s)}], form[Max(s)])
    <3>1. g = [s \in SUBSET (1..k) |->
                 IF s = {} THEN NoSdl ELSE AddService(g[s \ {Max(s)}], form[Max(s)])]
      BY <2>1 DEF IsBuild
    <3> QED
      BY <3>1
  <2> DEFINE w == [s \in SUBSET (1..(k + 1)) |->
                     IF k + 1 \notin s THEN g[s] ELSE AddService(g[s \ {k + 1}], form[k + 1])]
  <2>3. ASSUME NEW s \in SUBSET (1..(k + 1))
        PROVE  w[s] = IF s = {} THEN NoSdl ELSE AddService(w[s \ {Max(s)}], form[Max(s)])
    <3>1. CASE k + 1 \in s
      <4>1. Max(s) = k + 1
        BY <3>1, LastIsMax
      <4>2. s \ {k + 1} \in SUBSET (1..(k + 1)) /\ k + 1 \notin s \ {k + 1} /\ s # {}
        BY <3>1
      <4>3. w[s \ {k + 1}] = g[s \ {k + 1}] /\ w[s] = AddService(g[s \ {k + 1}], form[k + 1])
        BY <3>1, <4>2
      <4> HIDE DEF w
      <4> QED
        BY <4>1, <4>2, <4>3
    <3>2. CASE k + 1 \notin s
      <4>1. s \in SUBSET (1..k)
        BY <3>2
      <4>2. w[s] = g[s]
        BY <3>2
      <4>3. CASE s = {}
        BY <2>2, <4>1, <4>2, <4>3
      <4>4. CASE s # {}
        <5>1. s \ {Max(s)} \in SUBSET (1..(k + 1)) /\ k + 1 \notin s \ {Max(s)}
          BY <3>2
        <5>2. w[s \ {Max(s)}] = g[s \ {Max(s)}]
          BY <5>1
        <5> HIDE DEF w
        <5> QED
          BY <2>2, <4>1, <4>2, <4>4, <5>2
      <4> QED
        BY <4>3, <4>4
    <3> QED
      BY <3>1, <3>2
  <2>4. IsBuild(form, 1..(k + 1), w)
    <3>1. w = [s \in SUBSET (1..(k + 1)) |-> w[s]]
      OBVIOUS
    <3> HIDE DEF w
    <3> QED
      BY <2>3, <3>1 DEF IsBuild
  <2> QED
    BY <2>4
<1> HIDE DEF Good
<1>3. \A k \in Nat : k \in Good
  BY <1>1, <1>2, Counting
<1> QED
  BY <1>3 DEF Good

\* The documents after each of the services, the last of which is generateSdl's.
LEMMA Builds ==
  ASSUME NEW form, NEW n \in Nat, DOMAIN form = 1..n
  PROVE  \E h : /\ h[0] = NoSdl /\ h[n] = GenerateSdl(form)
                /\ \A k \in Nat : k < n => h[k + 1] = AddService(h[k], form[k + 1])
<1>1. PICK g : g = (CHOOSE f : IsBuild(form, 1..n, f))
  OBVIOUS
<1>2. IsBuild(form, 1..n, g) /\ GenerateSdl(form) = g[1..n]
  BY <1>1, BuildExists, BuildIs
<1>3. \A s \in SUBSET (1..n) :
        g[s] = IF s = {} THEN NoSdl ELSE AddService(g[s \ {Max(s)}], form[Max(s)])
  <2>1. g = [s \in SUBSET (1..n) |->
               IF s = {} THEN NoSdl ELSE AddService(g[s \ {Max(s)}], form[Max(s)])]
    BY <1>2 DEF IsBuild
  <2> QED
    BY <2>1
<1> DEFINE h == [k \in 0..n |-> g[1..k]]
<1>4. h[0] = NoSdl
  <2>1. 1..0 = {} /\ 0 \in 0..n
    OBVIOUS
  <2> QED
    BY <1>3, <2>1
<1>5. ASSUME NEW k \in Nat, k < n PROVE h[k + 1] = AddService(h[k], form[k + 1])
  <2>1. k \in 0..n /\ k + 1 \in 0..n /\ 1..(k + 1) \in SUBSET (1..n) /\ 1..(k + 1) # {}
    <3>1. k \in 0..n /\ k + 1 \in 0..n /\ k + 1 \in 1..(k + 1)
      BY <1>5
    <3>2. 1..(k + 1) \subseteq 1..n
      BY <1>5
    <3> QED
      BY <3>1, <3>2
  <2>2. Max(1..(k + 1)) = k + 1 /\ (1..(k + 1)) \ {k + 1} = 1..k
    BY LastIsMax
  <2>3. g[1..(k + 1)] = AddService(g[1..k], form[k + 1])
    BY <1>3, <2>1, <2>2
  <2> QED
    BY <2>1, <2>3
<1>6. h[n] = GenerateSdl(form)
  BY <1>2
<1> HIDE DEF h
<1> QED
  BY <1>4, <1>5, <1>6

\* The same of the names of GPU models that are kept.
IsNaming(models, S, g) ==
  g = [s \in SUBSET S |-> IF s = {} THEN <<>> ELSE AddNamed(g[s \ {Max(s)}], models[Max(s)])]

\* The fold of the names is computed by that function.
LEMMA NamingIs ==
  ASSUME NEW models
  PROVE  GeneratedGpu(models) = (CHOOSE g : IsNaming(models, DOMAIN models, g))[DOMAIN models]
BY DEF GeneratedGpu, FoldLeft, MapThenFoldSet, IsNaming

\* There is one, too.
LEMMA NamingExists ==
  ASSUME NEW models
  PROVE  \A n \in Nat : \E g : IsNaming(models, 1..n, g)
<1> DEFINE Good == {k \in Nat : \E g : IsNaming(models, 1..k, g)}
<1>1. 0 \in Good
  <2> DEFINE g == [s \in SUBSET (1..0) |-> <<>>]
  <2>1. \A s \in SUBSET (1..0) : s = {}
    OBVIOUS
  <2>2. g = [s \in SUBSET (1..0) |->
               IF s = {} THEN <<>> ELSE AddNamed(g[s \ {Max(s)}], models[Max(s)])]
    BY <2>1
  <2>3. IsNaming(models, 1..0, g)
    BY <2>2 DEF IsNaming
  <2> QED
    BY <2>3
<1>2. ASSUME NEW k \in Nat, k \in Good PROVE k + 1 \in Good
  <2>1. PICK g : IsNaming(models, 1..k, g)
    BY <1>2
  <2>2. \A s \in SUBSET (1..k) :
          g[s] = IF s = {} THEN <<>> ELSE AddNamed(g[s \ {Max(s)}], models[Max(s)])
    <3>1. g = [s \in SUBSET (1..k) |->
                 IF s = {} THEN <<>> ELSE AddNamed(g[s \ {Max(s)}], models[Max(s)])]
      BY <2>1 DEF IsNaming
    <3> QED
      BY <3>1
  <2> DEFINE w == [s \in SUBSET (1..(k + 1)) |->
                     IF k + 1 \notin s THEN g[s] ELSE AddNamed(g[s \ {k + 1}], models[k + 1])]
  <2>3. ASSUME NEW s \in SUBSET (1..(k + 1))
        PROVE  w[s] = IF s = {} THEN <<>> ELSE AddNamed(w[s \ {Max(s)}], models[Max(s)])
    <3>1. CASE k + 1 \in s
      <4>1. Max(s) = k + 1
        BY <3>1, LastIsMax
      <4>2. s \ {k + 1} \in SUBSET (1..(k + 1)) /\ k + 1 \notin s \ {k + 1} /\ s # {}
        BY <3>1
      <4>3. w[s \ {k + 1}] = g[s \ {k + 1}] /\ w[s] = AddNamed(g[s \ {k + 1}], models[k + 1])
        BY <3>1, <4>2
      <4> HIDE DEF w
      <4> QED
        BY <4>1, <4>2, <4>3
    <3>2. CASE k + 1 \notin s
      <4>1. s \in SUBSET (1..k)
        BY <3>2
      <4>2. w[s] = g[s]
        BY <3>2
      <4>3. CASE s = {}
        BY <2>2, <4>1, <4>2, <4>3
      <4>4. CASE s # {}
        <5>1. s \ {Max(s)} \in SUBSET (1..(k + 1)) /\ k + 1 \notin s \ {Max(s)}
          BY <3>2
        <5>2. w[s \ {Max(s)}] = g[s \ {Max(s)}]
          BY <5>1
        <5> HIDE DEF w
        <5> QED
          BY <2>2, <4>1, <4>2, <4>4, <5>2
      <4> QED
        BY <4>3, <4>4
    <3> QED
      BY <3>1, <3>2
  <2>4. IsNaming(models, 1..(k + 1), w)
    <3>1. w = [s \in SUBSET (1..(k + 1)) |-> w[s]]
      OBVIOUS
    <3> HIDE DEF w
    <3> QED
      BY <2>3, <3>1 DEF IsNaming
  <2> QED
    BY <2>4
<1> HIDE DEF Good
<1>3. \A k \in Nat : k \in Good
  BY <1>1, <1>2, Counting
<1> QED
  BY <1>3 DEF Good

\* The names kept after each position.
LEMMA Namings ==
  ASSUME NEW models, NEW n \in Nat, DOMAIN models = 1..n
  PROVE  \E h : /\ h[0] = <<>> /\ h[n] = GeneratedGpu(models)
                /\ \A k \in Nat : k < n => h[k + 1] = AddNamed(h[k], models[k + 1])
<1>1. PICK g : g = (CHOOSE f : IsNaming(models, 1..n, f))
  OBVIOUS
<1>2. IsNaming(models, 1..n, g) /\ GeneratedGpu(models) = g[1..n]
  BY <1>1, NamingExists, NamingIs
<1>3. \A s \in SUBSET (1..n) :
        g[s] = IF s = {} THEN <<>> ELSE AddNamed(g[s \ {Max(s)}], models[Max(s)])
  <2>1. g = [s \in SUBSET (1..n) |->
               IF s = {} THEN <<>> ELSE AddNamed(g[s \ {Max(s)}], models[Max(s)])]
    BY <1>2 DEF IsNaming
  <2> QED
    BY <2>1
<1> DEFINE h == [k \in 0..n |-> g[1..k]]
<1>4. h[0] = <<>>
  <2>1. 1..0 = {} /\ 0 \in 0..n
    OBVIOUS
  <2> QED
    BY <1>3, <2>1
<1>5. ASSUME NEW k \in Nat, k < n PROVE h[k + 1] = AddNamed(h[k], models[k + 1])
  <2>1. k \in 0..n /\ k + 1 \in 0..n /\ 1..(k + 1) \in SUBSET (1..n) /\ 1..(k + 1) # {}
    <3>1. k \in 0..n /\ k + 1 \in 0..n /\ k + 1 \in 1..(k + 1)
      BY <1>5
    <3>2. 1..(k + 1) \subseteq 1..n
      BY <1>5
    <3> QED
      BY <3>1, <3>2
  <2>2. Max(1..(k + 1)) = k + 1 /\ (1..(k + 1)) \ {k + 1} = 1..k
    BY LastIsMax
  <2>3. g[1..(k + 1)] = AddNamed(g[1..k], models[k + 1])
    BY <1>3, <2>1, <2>2
  <2> QED
    BY <2>1, <2>3
<1>6. h[n] = GeneratedGpu(models)
  BY <1>2
<1> HIDE DEF h
<1> QED
  BY <1>4, <1>5, <1>6


\* The texts that Service, Edited and generateSdl put in a form or a document.
Text == {"", "a", "b", "a100", "none", "dcloud", "other", "auditor", "host", "ip1", "ip2"}

\* generateSdl keeps the names of a list that are names, in their order.
LEMMA NamesAre ==
  ASSUME NEW models \in Seq(Text), NEW names, names = GeneratedGpu(models)
  PROVE  /\ names \in Seq(Text) /\ \A i \in DOMAIN names : names[i] # Unnamed
         /\ (\A i \in DOMAIN models : models[i] # Unnamed) => names = models
         /\ (\A i \in DOMAIN models : models[i] = Unnamed) => names = <<>>
<1>1. PICK n \in Nat : n = Len(models) /\ DOMAIN models = 1..n /\ \A i \in 1..n : models[i] \in Text
  OBVIOUS
<1>2. PICK h : /\ h[0] = <<>> /\ h[n] = names
               /\ \A k \in Nat : k < n => h[k + 1] = AddNamed(h[k], models[k + 1])
  <2>1. PICK w : w = GeneratedGpu(models)
    OBVIOUS
  <2>2. \E h : /\ h[0] = <<>> /\ h[n] = w
               /\ \A k \in Nat : k < n => h[k + 1] = AddNamed(h[k], models[k + 1])
    BY <1>1, <2>1, Namings
  <2>3. w = names
    BY <2>1
  <2> QED
    BY <2>2, <2>3
<1> DEFINE Good == {k \in Nat : k <= n =>
      /\ h[k] \in Seq(Text) /\ \A i \in 1..Len(h[k]) : h[k][i] # Unnamed
      /\ (\A i \in 1..n : models[i] # Unnamed) => Len(h[k]) = k /\ \A i \in 1..k : h[k][i] = models[i]
      /\ (\A i \in 1..n : models[i] = Unnamed) => h[k] = <<>>}
<1>3. 0 \in Good
  <2>1. h[0] \in Seq(Text) /\ Len(h[0]) = 0
    BY <1>2
  <2>2. 1..0 = {}
    OBVIOUS
  <2>3. PICK e : e = h[0]
    OBVIOUS
  <2>4. e \in Seq(Text) /\ Len(e) = 0 /\ e = <<>>
    BY <1>2, <2>1, <2>3
  <2>5. /\ e \in Seq(Text) /\ \A i \in 1..Len(e) : e[i] # Unnamed
        /\ (\A i \in 1..n : models[i] # Unnamed) => Len(e) = 0 /\ \A i \in 1..0 : e[i] = models[i]
        /\ (\A i \in 1..n : models[i] = Unnamed) => e = <<>>
    BY <2>2, <2>4
  <2> QED
    BY <2>3, <2>5
<1>4. ASSUME NEW k \in Nat, k \in Good PROVE k + 1 \in Good
  <2> SUFFICES ASSUME k + 1 <= n PROVE k + 1 \in Good
    OBVIOUS
  <2>1. k < n /\ k <= n /\ k + 1 \in 1..n
    BY <1>1
  <2>2. PICK q \in Seq(Text) : q = h[k]
    BY <1>4, <2>1
  <2>3. /\ \A i \in 1..Len(q) : q[i] # Unnamed
        /\ (\A i \in 1..n : models[i] # Unnamed) => Len(q) = k /\ \A i \in 1..k : q[i] = models[i]
        /\ (\A i \in 1..n : models[i] = Unnamed) => q = <<>>
    BY <1>4, <2>1, <2>2
  <2>4. h[k + 1] = IF models[k + 1] = Unnamed THEN q ELSE Append(q, models[k + 1])
    BY <1>2, <2>1, <2>2 DEF AddNamed
  <2>5. models[k + 1] \in Text
    BY <1>1, <2>1
  <2>6. CASE models[k + 1] = Unnamed
    BY <2>1, <2>2, <2>3, <2>4, <2>6
  <2>7. CASE models[k + 1] # Unnamed
    <3>1. PICK x, r : x \in Text /\ x = models[k + 1] /\ r = Append(q, x)
      BY <2>5
    <3>8. r \in Seq(Text)
      BY <2>2, <3>1, AppendProperties
    <3>2. Len(r) = Len(q) + 1 /\ (\A i \in 1..Len(q) : r[i] = q[i]) /\ r[Len(q) + 1] = models[k + 1]
      BY <2>2, <3>1
    <3>3. \A i \in 1..Len(r) : r[i] # Unnamed
      BY <2>3, <2>7, <3>2
    <3>4. ASSUME \A i \in 1..n : models[i] # Unnamed
          PROVE  Len(r) = k + 1 /\ \A i \in 1..(k + 1) : r[i] = models[i]
      BY <2>3, <3>2, <3>4
    <3>5. h[k + 1] = r
      BY <2>4, <2>7, <3>1
    <3>6. ~\A i \in 1..n : models[i] = Unnamed
      BY <2>1, <2>7
    <3> QED
      BY <3>8, <3>3, <3>4, <3>5, <3>6
  <2> QED
    BY <2>6, <2>7
<1> HIDE DEF Good
<1>5. n \in Good
  BY <1>3, <1>4, Counting
<1>6. /\ names \in Seq(Text) /\ \A i \in 1..Len(names) : names[i] # Unnamed
      /\ (\A i \in 1..n : models[i] # Unnamed) => Len(names) = n /\ \A i \in 1..n : names[i] = models[i]
      /\ (\A i \in 1..n : models[i] = Unnamed) => names = <<>>
  BY <1>2, <1>5 DEF Good
<1> QED
  BY <1>1, <1>6
------------------------------------------------------------------------------
(* The document that generateSdl builds                                       *)

\* The types of what a form and a document hold.
EnvEntry == [value : Seq(Text) \ {<<>>}, isSecret : BOOLEAN]
FormService ==
  [title : Nat, env : Seq(EnvEntry), command : BOOLEAN, arg : BOOLEAN, storage : Nat,
   gpuModels : Seq(Text), global : BOOLEAN, ipName : Text, placement : Text,
   anyOf : Text, allOf : Text, attributes : Text]
Placement == [pricing : SUBSET Nat, anyOf : Text, allOf : Text, attributes : Text]

\* An object with one more key.
LEMMA PutIs ==
  ASSUME NEW f, NEW k, NEW v
  PROVE  /\ DOMAIN Put(f, k, v) = DOMAIN f \cup {k}
         /\ Put(f, k, v)[k] = v
         /\ \A x \in DOMAIN f : x # k => Put(f, k, v)[x] = f[x]
BY DEF Put

\* What a service adds to its placement.
LEMMA PlacementStep ==
  ASSUME NEW p \in Placement, NEW s \in FormService, NEW q,
         q = Attributes(SignedBy(Priced(p, s), s), s)
  PROVE  /\ q \in Placement
         /\ q.pricing = p.pricing \cup {s.title}
         /\ q.anyOf = IF s.anyOf = None THEN p.anyOf ELSE s.anyOf
         /\ q.allOf = IF s.anyOf = None THEN p.allOf ELSE s.allOf
         /\ q.attributes = IF s.attributes = None THEN p.attributes ELSE s.attributes
<1>1. /\ s.title \in Nat /\ s.anyOf \in Text /\ s.allOf \in Text /\ s.attributes \in Text
  BY DEF FormService
<1>2. PICK a : a = Priced(p, s)
  OBVIOUS
<1>3. /\ a \in Placement /\ a.pricing = p.pricing \cup {s.title} /\ a.anyOf = p.anyOf
      /\ a.allOf = p.allOf /\ a.attributes = p.attributes
  BY <1>1, <1>2 DEF Priced, Placement
<1>4. PICK b : b = SignedBy(a, s)
  OBVIOUS
<1>5. /\ b \in Placement /\ b.pricing = a.pricing /\ b.attributes = a.attributes
      /\ b.anyOf = IF s.anyOf = None THEN a.anyOf ELSE s.anyOf
      /\ b.allOf = IF s.anyOf = None THEN a.allOf ELSE s.allOf
  BY <1>1, <1>3, <1>4 DEF SignedBy, Placement
<1>6. /\ q \in Placement /\ q.pricing = b.pricing /\ q.anyOf = b.anyOf /\ q.allOf = b.allOf
      /\ q.attributes = IF s.attributes = None THEN b.attributes ELSE s.attributes
  BY <1>1, <1>2, <1>4, <1>5 DEF Attributes, Placement
<1> QED
  BY <1>3, <1>5, <1>6

\* The document D made of the first k services of a form: each title has what
\* the last service of that title wrote, and each placement what its services
\* agree on.
ServicesWritten(form, D, k) ==
  /\ DOMAIN D.services = {form[i].title : i \in 1..k}
  /\ \A i \in 1..k : (\A j \in 1..k : j # i => form[j].title # form[i].title) =>
       /\ D.services[form[i].title] = GeneratedService(form[i])
       /\ D.deployment[form[i].title] = form[i].placement
  /\ \A t \in DOMAIN D.services : \E i \in 1..k :
       /\ form[i].title = t
       /\ D.services[t] = GeneratedService(form[i]) /\ D.deployment[t] = form[i].placement
  /\ DOMAIN D.deployment = DOMAIN D.services

PlacementsWritten(form, D, k) ==
  /\ DOMAIN D.placement = {form[i].placement : i \in 1..k}
  /\ \A name \in DOMAIN D.placement :
       /\ D.placement[name] \in Placement
       /\ D.placement[name].anyOf = None => D.placement[name].allOf = None
       /\ \A i \in 1..k : form[i].placement = name => form[i].title \in D.placement[name].pricing
       /\ \A a, b \in Text :
            /\ a = None => b = None
            /\ \A i \in 1..k : form[i].placement = name => form[i].anyOf = a /\ form[i].allOf = b
            => D.placement[name].anyOf = a /\ D.placement[name].allOf = b
       /\ \A c \in Text :
            (\A i \in 1..k : form[i].placement = name => form[i].attributes = c)
            => D.placement[name].attributes = c

EndpointsWritten(form, D, k) ==
  /\ \A e \in D.endpoints : e # None /\ \E i \in 1..k : form[i].ipName = e
  /\ \A i \in 1..k : form[i].ipName # None => D.endpoints # {}

\* One more service.
LEMMA ServiceWritten ==
  ASSUME NEW form, NEW D, NEW k \in Nat, ServicesWritten(form, D, k), NEW E,
         E = AddService(D, form[k + 1])
  PROVE  ServicesWritten(form, E, k + 1)
<1> DEFINE s == form[k + 1]
<1>1. /\ E.services = Put(D.services, s.title, GeneratedService(s))
      /\ E.deployment = Put(D.deployment, s.title, s.placement)
  BY DEF AddService
<1>2. 1..(k + 1) = (1..k) \cup {k + 1} /\ k + 1 \notin 1..k
  OBVIOUS
<1>3. /\ DOMAIN E.services = DOMAIN D.services \cup {s.title}
      /\ E.services[s.title] = GeneratedService(s)
      /\ \A t \in DOMAIN D.services : t # s.title => E.services[t] = D.services[t]
  <2>1. PICK f, x, v, e : f = D.services /\ x = s.title /\ v = GeneratedService(s) /\ e = E.services
    OBVIOUS
  <2>2. /\ DOMAIN e = DOMAIN f \cup {x} /\ e[x] = v
        /\ \A t \in DOMAIN f : t # x => e[t] = f[t]
    BY ONLY <1>1, <2>1 DEF Put
  <2> QED
    BY <2>1, <2>2
<1>4. /\ DOMAIN E.deployment = DOMAIN D.deployment \cup {s.title}
      /\ E.deployment[s.title] = s.placement
      /\ \A t \in DOMAIN D.deployment : t # s.title => E.deployment[t] = D.deployment[t]
  <2>1. PICK f, x, v, e : f = D.deployment /\ x = s.title /\ v = s.placement /\ e = E.deployment
    OBVIOUS
  <2>2. /\ DOMAIN e = DOMAIN f \cup {x} /\ e[x] = v
        /\ \A t \in DOMAIN f : t # x => e[t] = f[t]
    BY ONLY <1>1, <2>1 DEF Put
  <2> QED
    BY <2>1, <2>2
<1>5. DOMAIN D.deployment = DOMAIN D.services /\ DOMAIN D.services = {form[i].title : i \in 1..k}
  BY DEF ServicesWritten
<1> HIDE DEF s
<1>6. DOMAIN E.services = {form[i].title : i \in 1..(k + 1)} /\ DOMAIN E.deployment = DOMAIN E.services
  BY <1>2, <1>3, <1>4, <1>5 DEF s
<1>7. ASSUME NEW i \in 1..(k + 1), \A j \in 1..(k + 1) : j # i => form[j].title # form[i].title
      PROVE  /\ E.services[form[i].title] = GeneratedService(form[i])
             /\ E.deployment[form[i].title] = form[i].placement
  <2>1. CASE i = k + 1
    BY <1>3, <1>4, <2>1 DEF s
  <2>2. CASE i # k + 1
    <3>1. i \in 1..k /\ form[i].title # s.title /\ form[i].title \in DOMAIN D.services
      BY <1>2, <1>5, <1>7, <2>2 DEF s
    <3>2. /\ D.services[form[i].title] = GeneratedService(form[i])
          /\ D.deployment[form[i].title] = form[i].placement
      BY <1>2, <1>7, <3>1 DEF ServicesWritten
    <3> QED
      BY <1>3, <1>4, <1>5, <3>1, <3>2
  <2> QED
    BY <2>1, <2>2
<1>8. ASSUME NEW t \in DOMAIN E.services
      PROVE  \E i \in 1..(k + 1) :
               /\ form[i].title = t
               /\ E.services[t] = GeneratedService(form[i]) /\ E.deployment[t] = form[i].placement
  <2>1. CASE t = s.title
    BY <1>2, <1>3, <1>4, <2>1 DEF s
  <2>2. CASE t # s.title
    <3>1. t \in DOMAIN D.services
      BY <1>3, <2>2
    <3>2. PICK i \in 1..k : /\ form[i].title = t /\ D.services[t] = GeneratedService(form[i])
                            /\ D.deployment[t] = form[i].placement
      BY <3>1 DEF ServicesWritten
    <3> QED
      BY <1>2, <1>3, <1>4, <1>5, <2>2, <3>1, <3>2
  <2> QED
    BY <2>1, <2>2
<1> QED
  BY <1>6, <1>7, <1>8 DEF ServicesWritten

\* One more service in its placement.
LEMMA PlacementWritten ==
  ASSUME NEW form, NEW D, NEW k \in Nat, PlacementsWritten(form, D, k), NEW E,
         E = AddService(D, form[k + 1]), form[k + 1] \in FormService
  PROVE  PlacementsWritten(form, E, k + 1)
<1> DEFINE s == form[k + 1]
           p == PlacementIn(D, s.placement)
           q == Attributes(SignedBy(Priced(p, s), s), s)
<1>1. E.placement = Put(D.placement, s.placement, q)
  BY DEF AddService
<1>2. 1..(k + 1) = (1..k) \cup {k + 1} /\ k + 1 \notin 1..k
  OBVIOUS
<1>3. NoPlacement \in Placement /\ NoPlacement.anyOf = None /\ NoPlacement.allOf = None
      /\ NoPlacement.attributes = None
  <2>1. {} \in SUBSET Nat
    OBVIOUS
  <2>2. "none" \in Text
    BY DEF Text
  <2> QED
    BY <2>1, <2>2 DEF NoPlacement, Placement, None
<1>4. /\ s.placement \in DOMAIN D.placement => p = D.placement[s.placement]
      /\ s.placement \notin DOMAIN D.placement => p = NoPlacement
  BY DEF PlacementIn
<1>5. p \in Placement /\ (p.anyOf = None => p.allOf = None)
  BY <1>3, <1>4 DEF PlacementsWritten
<1>6. s \in FormService
  OBVIOUS
<1>7. PICK r : r = q
  OBVIOUS
<1>8. /\ r \in Placement
      /\ r.pricing = p.pricing \cup {s.title}
      /\ r.anyOf = IF s.anyOf = None THEN p.anyOf ELSE s.anyOf
      /\ r.allOf = IF s.anyOf = None THEN p.allOf ELSE s.allOf
      /\ r.attributes = IF s.attributes = None THEN p.attributes ELSE s.attributes
  BY <1>5, <1>6, <1>7, PlacementStep
<1>9. DOMAIN D.placement = {form[i].placement : i \in 1..k}
  BY DEF PlacementsWritten
<1>10. /\ DOMAIN E.placement = DOMAIN D.placement \cup {s.placement}
       /\ E.placement[s.placement] = r
       /\ \A name \in DOMAIN D.placement : name # s.placement => E.placement[name] = D.placement[name]
  <2>1. PICK f, x, e : f = D.placement /\ x = s.placement /\ e = E.placement
    OBVIOUS
  <2>2. /\ DOMAIN e = DOMAIN f \cup {x} /\ e[x] = r
        /\ \A t \in DOMAIN f : t # x => e[t] = f[t]
    BY ONLY <1>1, <1>7, <2>1 DEF Put
  <2> QED
    BY <2>1, <2>2
<1> HIDE DEF q, p
<1>11. DOMAIN E.placement = {form[i].placement : i \in 1..(k + 1)}
  BY <1>2, <1>9, <1>10
<1>12. ASSUME NEW name \in DOMAIN E.placement, name # s.placement
       PROVE  /\ E.placement[name] = D.placement[name] /\ name \in DOMAIN D.placement
              /\ \A i \in 1..(k + 1) : form[i].placement = name => i \in 1..k
  BY <1>2, <1>10, <1>12
<1>13. ASSUME NEW i \in 1..(k + 1), form[i].placement = s.placement
       PROVE  form[i].title \in r.pricing
  <2>1. CASE i = k + 1
    BY <1>8, <2>1
  <2>2. CASE i # k + 1
    <3>1. i \in 1..k /\ s.placement \in DOMAIN D.placement
      BY <1>2, <1>9, <1>13, <2>2
    <3>2. form[i].title \in D.placement[s.placement].pricing
      BY <1>13, <3>1 DEF PlacementsWritten
    <3> QED
      BY <1>4, <1>8, <3>1, <3>2
  <2> QED
    BY <2>1, <2>2
<1>14. ASSUME NEW a \in Text, NEW b \in Text, a = None => b = None,
              \A i \in 1..(k + 1) : form[i].placement = s.placement => form[i].anyOf = a /\ form[i].allOf = b
       PROVE  r.anyOf = a /\ r.allOf = b
  <2>1. s.anyOf = a /\ s.allOf = b
    BY <1>2, <1>14
  <2>2. CASE s.placement \in DOMAIN D.placement
    <3>1. \A i \in 1..k : form[i].placement = s.placement => form[i].anyOf = a /\ form[i].allOf = b
      BY <1>2, <1>14
    <3>2. p.anyOf = a /\ p.allOf = b
      BY <1>4, <1>14, <2>2, <3>1 DEF PlacementsWritten
    <3> QED
      BY <1>8, <2>1, <3>2
  <2>3. CASE s.placement \notin DOMAIN D.placement
    BY <1>3, <1>4, <1>8, <1>14, <2>1, <2>3
  <2> QED
    BY <2>2, <2>3
<1>15. ASSUME NEW c \in Text,
              \A i \in 1..(k + 1) : form[i].placement = s.placement => form[i].attributes = c
       PROVE  r.attributes = c
  <2>1. s.attributes = c
    BY <1>2, <1>15
  <2>2. CASE s.placement \in DOMAIN D.placement
    <3>1. \A i \in 1..k : form[i].placement = s.placement => form[i].attributes = c
      BY <1>2, <1>15
    <3>2. p.attributes = c
      BY <1>4, <2>2, <3>1 DEF PlacementsWritten
    <3> QED
      BY <1>8, <2>1, <3>2
  <2>3. CASE s.placement \notin DOMAIN D.placement
    BY <1>3, <1>4, <1>8, <2>1, <2>3
  <2> QED
    BY <2>2, <2>3
<1>16. r.anyOf = None => r.allOf = None
  BY <1>5, <1>8
<1>17. ASSUME NEW name \in DOMAIN E.placement
       PROVE  /\ E.placement[name] \in Placement
              /\ E.placement[name].anyOf = None => E.placement[name].allOf = None
              /\ \A i \in 1..(k + 1) : form[i].placement = name => form[i].title \in E.placement[name].pricing
              /\ \A a, b \in Text :
                   /\ a = None => b = None
                   /\ \A i \in 1..(k + 1) : form[i].placement = name => form[i].anyOf = a /\ form[i].allOf = b
                   => E.placement[name].anyOf = a /\ E.placement[name].allOf = b
              /\ \A c \in Text :
                   (\A i \in 1..(k + 1) : form[i].placement = name => form[i].attributes = c)
                   => E.placement[name].attributes = c
  <2>1. CASE name = s.placement
    BY <1>8, <1>10, <1>13, <1>14, <1>15, <1>16, <2>1
  <2>2. CASE name # s.placement
    BY <1>2, <1>12, <2>2 DEF PlacementsWritten
  <2> QED
    BY <2>1, <2>2
<1> QED
  BY <1>11, <1>17 DEF PlacementsWritten

\* generateSdl's document, whatever the order of the form's services.
LEMMA DocumentIs ==
  ASSUME NEW form \in Seq(FormService), NEW n \in Nat, n = Len(form)
  PROVE  /\ ServicesWritten(form, GenerateSdl(form), n)
         /\ PlacementsWritten(form, GenerateSdl(form), n)
         /\ EndpointsWritten(form, GenerateSdl(form), n)
<1>1. DOMAIN form = 1..n /\ \A i \in 1..n : form[i] \in FormService
  OBVIOUS
<1>2. PICK h : /\ h[0] = NoSdl /\ h[n] = GenerateSdl(form)
               /\ \A k \in Nat : k < n => h[k + 1] = AddService(h[k], form[k + 1])
  BY <1>1, Builds
<1> DEFINE Good == {k \in Nat : k <= n => /\ ServicesWritten(form, h[k], k)
                                          /\ PlacementsWritten(form, h[k], k)
                                          /\ EndpointsWritten(form, h[k], k)}
<1>3. 0 \in Good
  <2>1. ServicesWritten(form, NoSdl, 0)
    BY DEF ServicesWritten, NoSdl
  <2>2. PlacementsWritten(form, NoSdl, 0)
    BY DEF PlacementsWritten, NoSdl
  <2>3. EndpointsWritten(form, NoSdl, 0)
    BY DEF EndpointsWritten, NoSdl
  <2> QED
    BY <1>2, <2>1, <2>2, <2>3
<1>4. ASSUME NEW k \in Nat, k \in Good PROVE k + 1 \in Good
  <2> SUFFICES ASSUME k + 1 <= n PROVE k + 1 \in Good
    OBVIOUS
  <2>1. k < n /\ k <= n /\ form[k + 1] \in FormService
    BY <1>1
  <2>2. h[k + 1] = AddService(h[k], form[k + 1])
    BY <1>2, <2>1
  <2>3. ServicesWritten(form, h[k + 1], k + 1)
    BY <1>4, <2>1, <2>2, ServiceWritten
  <2>4. PlacementsWritten(form, h[k + 1], k + 1)
    BY <1>4, <2>1, <2>2, PlacementWritten
  <2>5. EndpointsWritten(form, h[k + 1], k + 1)
    <3>1. h[k + 1].endpoints = IF form[k + 1].ipName = None THEN h[k].endpoints ELSE {form[k + 1].ipName}
      BY <2>2 DEF AddService, Endpoints
    <3>2. EndpointsWritten(form, h[k], k)
      BY <1>4, <2>1
    <3>3. 1..(k + 1) = (1..k) \cup {k + 1}
      OBVIOUS
    <3> QED
      BY <3>1, <3>2, <3>3 DEF EndpointsWritten
  <2> QED
    BY <2>3, <2>4, <2>5
<1> HIDE DEF Good
<1>5. n \in Good
  BY <1>3, <1>4, Counting
<1> QED
  BY <1>2, <1>5 DEF Good
------------------------------------------------------------------------------
(* What validate and importSimpleSdl make of the document                     *)

\* A document of the builder is accepted when its titles are apart and it has
\* at most one IP endpoint, which is global.
LEMMA BuilderAccepted ==
  ASSUME NEW form \in Seq(FormService),
         IsInjective([i \in DOMAIN form |-> form[i].title]),
         \A i \in DOMAIN form : form[i].ipName # None => form[i].global,
         \A i, j \in DOMAIN form :
           form[i].ipName = None \/ form[j].ipName \in {None, form[i].ipName}
  PROVE  Validate(GenerateSdl(form))
<1>1. PICK n \in Nat : n = Len(form) /\ DOMAIN form = 1..n /\ \A i \in 1..n : form[i] \in FormService
  OBVIOUS
<1>2. PICK D : D = GenerateSdl(form)
  OBVIOUS
<1>3. ServicesWritten(form, D, n) /\ PlacementsWritten(form, D, n) /\ EndpointsWritten(form, D, n)
  BY <1>1, <1>2, DocumentIs
<1>4. \A i, j \in 1..n : form[i].title = form[j].title => i = j
  BY <1>1 DEF IsInjective
<1>5. ASSUME NEW t \in DOMAIN D.services
      PROVE  /\ t \in D.placement[D.deployment[t]].pricing
             /\ D.services[t].to.ip # None =>
                  D.services[t].to.global /\ D.services[t].to.ip \in D.endpoints
  <2>1. PICK i \in 1..n : /\ form[i].title = t /\ D.services[t] = GeneratedService(form[i])
                          /\ D.deployment[t] = form[i].placement
    BY <1>3 DEF ServicesWritten
  <2>2. form[i].placement \in DOMAIN D.placement
    BY <1>3 DEF PlacementsWritten
  <2>3. t \in D.placement[form[i].placement].pricing
    BY <1>3, <2>1, <2>2 DEF PlacementsWritten
  <2>4. D.services[t].to.ip = form[i].ipName /\ D.services[t].to.global = form[i].global
    BY <2>1 DEF GeneratedService
  <2>5. ASSUME form[i].ipName # None PROVE form[i].global /\ form[i].ipName \in D.endpoints
    <3>1. PICK e \in D.endpoints : TRUE
      BY <1>3, <2>5 DEF EndpointsWritten
    <3>2. PICK j \in 1..n : form[j].ipName = e /\ e # None
      BY <1>3 DEF EndpointsWritten
    <3> QED
      BY <1>1, <2>5, <3>2
  <2> QED
    BY <2>1, <2>3, <2>4, <2>5
<1>6. ASSUME NEW e \in D.endpoints PROVE e \in EndpointsUsed(D)
  <2>1. PICK j \in 1..n : form[j].ipName = e /\ e # None
    BY <1>3 DEF EndpointsWritten
  <2>2. form[j].title \in DOMAIN D.services /\ D.services[form[j].title] = GeneratedService(form[j])
    BY <1>3, <1>4 DEF ServicesWritten
  <2>3. D.services[form[j].title].to.ip = e
    BY <2>1, <2>2 DEF GeneratedService
  <2> QED
    BY <2>1, <2>2, <2>3 DEF EndpointsUsed
<1> QED
  BY <1>2, <1>5, <1>6 DEF Validate

\* The titles of a form are finitely many.
LEMMA TitlesAreFinite ==
  ASSUME NEW form \in Seq(FormService), NEW T, T = {form[i].title : i \in DOMAIN form}
  PROVE  IsFiniteSet(T) /\ T \subseteq Nat
<1>1. PICK n \in Nat : n = Len(form) /\ DOMAIN form = 1..n /\ \A i \in 1..n : form[i] \in FormService
  OBVIOUS
<1> DEFINE f == [i \in 1..n |-> form[i].title]
<1>2. f \in Surjection(1..n, T)
  BY <1>1 DEF Surjection
<1>3. IsFiniteSet(1..n)
  BY <1>1, FS_Interval
<1>4. IsFiniteSet(T)
  BY <1>2, <1>3, FS_Surjection
<1> QED
  BY <1>1, <1>4 DEF FormService

\* f lists the numbers of T in their order.
Sorts(f, T, n) ==
  /\ f \in [1..n -> T] /\ \A i, j \in 1..n : i < j => f[i] < f[j]
  /\ \A t \in T : \E i \in 1..n : f[i] = t

\* A finite set of numbers can be put in order.
LEMMA SortExists ==
  \A n \in Nat : \A T \in SUBSET Nat :
    IsFiniteSet(T) /\ Cardinality(T) = n => \E f : Sorts(f, T, n)
<1> DEFINE Good == {n \in Nat : \A T \in SUBSET Nat :
                      IsFiniteSet(T) /\ Cardinality(T) = n => \E f : Sorts(f, T, n)}
<1>1. 0 \in Good
  <2>1. ASSUME NEW T \in SUBSET Nat, IsFiniteSet(T), Cardinality(T) = 0 PROVE \E f : Sorts(f, T, 0)
    <3>1. T = {} /\ 1..0 = {}
      BY <2>1, FS_EmptySet
    <3>2. Sorts([i \in 1..0 |-> i], T, 0)
      BY <3>1 DEF Sorts
    <3> QED
      BY <3>2
  <2> QED
    BY <2>1
<1>2. ASSUME NEW k \in Nat, k \in Good PROVE k + 1 \in Good
  <2>1. ASSUME NEW T \in SUBSET Nat, IsFiniteSet(T), Cardinality(T) = k + 1
        PROVE  \E f : Sorts(f, T, k + 1)
    <3>1. T # {} /\ T \subseteq Int
      BY <2>1, FS_EmptySet
    <3>2. PICK m \in T : \A x \in T : x <= m
      BY <2>1, <3>1, MaxIs
    <3>3. IsFiniteSet(T \ {m}) /\ Cardinality(T \ {m}) = k /\ T \ {m} \in SUBSET Nat
      BY <2>1, FS_RemoveElement
    <3>4. PICK f : Sorts(f, T \ {m}, k)
      BY <1>2, <3>3
    <3>5. /\ f \in [1..k -> T \ {m}] /\ \A i, j \in 1..k : i < j => f[i] < f[j]
          /\ \A t \in T \ {m} : \E i \in 1..k : f[i] = t
      BY <3>4 DEF Sorts
    <3> DEFINE g == [i \in 1..(k + 1) |-> IF i = k + 1 THEN m ELSE f[i]]
    <3>6. /\ g[k + 1] = m /\ \A i \in 1..k : g[i] = f[i] /\ g[i] \in T /\ g[i] # m
          /\ \A i \in 1..(k + 1) : i = k + 1 \/ i \in 1..k
      BY <3>5
    <3>7. g \in [1..(k + 1) -> T]
      BY <3>5
    <3> HIDE DEF g
    <3>8. ASSUME NEW i \in 1..(k + 1), NEW j \in 1..(k + 1), i < j PROVE g[i] < g[j]
      <4>1. i \in 1..k
        BY <3>8
      <4>2. CASE j \in 1..k
        BY <3>5, <3>6, <3>8, <4>1, <4>2
      <4>3. CASE j = k + 1
        <5>1. g[i] \in T /\ g[i] # m /\ g[j] = m /\ m \in Nat /\ g[i] \in Nat
          BY <3>6, <4>1, <4>3
        <5>2. g[i] <= m
          BY <3>2, <5>1
        <5> QED
          BY <5>1, <5>2
      <4> QED
        BY <3>6, <4>2, <4>3
    <3>9. ASSUME NEW t \in T PROVE \E i \in 1..(k + 1) : g[i] = t
      <4>1. CASE t = m
        <5>1. k + 1 \in 1..(k + 1)
          OBVIOUS
        <5> QED
          BY <3>6, <4>1, <5>1
      <4>2. CASE t # m
        <5>1. PICK i \in 1..k : f[i] = t
          BY <3>5, <4>2
        <5>2. i \in 1..(k + 1) /\ g[i] = t
          BY <3>6, <5>1
        <5> QED
          BY <5>2
      <4> QED
        BY <4>1, <4>2
    <3>10. Sorts(g, T, k + 1)
      BY <3>7, <3>8, <3>9 DEF Sorts
    <3> QED
      BY <3>10
  <2> QED
    BY <2>1
<1> HIDE DEF Good
<1>3. \A k \in Nat : k \in Good
  BY <1>1, <1>2, Counting
<1> QED
  BY <1>3 DEF Good

\* The order in which importSimpleSdl reads the titles.
LEMMA InOrderIs ==
  ASSUME NEW T \in SUBSET Nat, IsFiniteSet(T), NEW n, n = Cardinality(T)
  PROVE  n \in Nat /\ Sorts(InOrder(T), T, n)
<1>1. n \in Nat
  BY FS_CardinalityType
<1>2. PICK f : Sorts(f, T, n)
  BY <1>1, SortExists
<1>3. /\ f \in [1..n -> T] /\ \A i, j \in 1..n : i < j => f[i] < f[j]
      /\ \A t \in T : \E i \in 1..n : f[i] = t
  BY <1>2 DEF Sorts
<1>4. DOMAIN f = 1..n
  BY <1>3
<1>5. ToSet(f) = T
  BY <1>3, <1>4 DEF ToSet
<1> DEFINE Ordered(titles) == /\ \A i, j \in DOMAIN titles : i < j => titles[i] < titles[j]
                              /\ ToSet(titles) = T
<1>6. f \in [1..Cardinality(T) -> T] /\ Ordered(f)
  BY <1>3, <1>4, <1>5
<1>7. PICK g : g = InOrder(T)
  OBVIOUS
<1>8. g \in [1..n -> T] /\ Ordered(g)
  BY <1>6, <1>7 DEF InOrder
<1>9. DOMAIN g = 1..n
  BY <1>8
<1>10. \A i, j \in 1..n : i < j => g[i] < g[j]
  BY <1>8, <1>9
<1>11. \A t \in T : \E i \in 1..n : g[i] = t
  BY <1>8, <1>9 DEF ToSet
<1> QED
  BY <1>1, <1>7, <1>8, <1>10, <1>11 DEF Sorts

\* A service that the two conversions keep comes back as it was.
LEMMA ServiceComesBack ==
  ASSUME NEW form \in Seq(FormService), NEW i \in DOMAIN form, Plain(form[i]),
         \A j \in DOMAIN form \ {i} : Apart(form[i], form[j])
  PROVE  /\ form[i].title \in DOMAIN GenerateSdl(form).services
         /\ ImportedService(GenerateSdl(form), form[i].title) = form[i]
<1>1. PICK n \in Nat : n = Len(form) /\ DOMAIN form = 1..n /\ \A j \in 1..n : form[j] \in FormService
  OBVIOUS
<1>2. PICK D : D = GenerateSdl(form)
  OBVIOUS
<1>3. ServicesWritten(form, D, n) /\ PlacementsWritten(form, D, n)
  BY <1>1, <1>2, DocumentIs
<1>4. PICK s : s = form[i] /\ s \in FormService /\ Plain(s)
  BY <1>1
<1>5. i \in 1..n /\ \A j \in 1..n : j # i => Apart(s, form[j])
  BY <1>1, <1>4
<1>6. \A j \in 1..n : j # i => form[j].title # form[i].title
  BY <1>4, <1>5 DEF Apart
<1>7. /\ s.title \in DOMAIN D.services /\ D.services[s.title] = GeneratedService(s)
      /\ D.deployment[s.title] = s.placement
  BY <1>3, <1>4, <1>5, <1>6 DEF ServicesWritten
<1>8. PICK g, p, m : g = GeneratedService(s) /\ p = D.placement[s.placement] /\ m = GeneratedGpu(s.gpuModels)
  OBVIOUS
<1>9. /\ g.env = [x \in DOMAIN s.env |-> GeneratedEnv(s.env[x])]
      /\ g.command = s.command /\ g.arg = (s.command /\ s.arg) /\ g.storage = s.storage
      /\ g.gpu = (s.gpuModels # <<>>) /\ g.models = m
      /\ g.to.global = s.global /\ g.to.ip = s.ipName
  BY <1>8 DEF GeneratedService
<1>10. /\ s.title \in Nat /\ s.env \in Seq(EnvEntry) /\ s.command \in BOOLEAN /\ s.arg \in BOOLEAN
       /\ s.storage \in Nat /\ s.gpuModels \in Seq(Text) /\ s.global \in BOOLEAN /\ s.ipName \in Text
       /\ s.placement \in Text /\ s.anyOf \in Text /\ s.allOf \in Text /\ s.attributes \in Text
       /\ s = [title |-> s.title, env |-> s.env, command |-> s.command, arg |-> s.arg,
               storage |-> s.storage, gpuModels |-> s.gpuModels, global |-> s.global,
               ipName |-> s.ipName, placement |-> s.placement, anyOf |-> s.anyOf,
               allOf |-> s.allOf, attributes |-> s.attributes]
  BY <1>4 DEF FormService
<1>11. p.anyOf = s.anyOf /\ p.allOf = s.allOf /\ p.attributes = s.attributes
  <2>1. s.placement \in DOMAIN D.placement
    BY <1>3, <1>4, <1>5 DEF PlacementsWritten
  <2>2. \A j \in 1..n : form[j].placement = s.placement =>
          form[j].anyOf = s.anyOf /\ form[j].allOf = s.allOf /\ form[j].attributes = s.attributes
    BY <1>4, <1>5 DEF Apart
  <2>3. s.anyOf = None => s.allOf = None
    BY <1>4 DEF Plain
  <2>4. p.anyOf = s.anyOf /\ p.allOf = s.allOf
    <3>1. PICK a \in Text, b \in Text : a = s.anyOf /\ b = s.allOf
      BY <1>10
    <3>2. a = None => b = None
      BY <2>3, <3>1
    <3>3. \A j \in 1..n : form[j].placement = s.placement => form[j].anyOf = a /\ form[j].allOf = b
      BY <2>2, <3>1
    <3>4. D.placement[s.placement].anyOf = a /\ D.placement[s.placement].allOf = b
      <4>1. PICK N, P : N = s.placement /\ P = D.placement[N]
        OBVIOUS
      <4>2. \A name \in DOMAIN D.placement : \A c, d \in Text :
              /\ c = None => d = None
              /\ \A j \in 1..n : form[j].placement = name => form[j].anyOf = c /\ form[j].allOf = d
              => D.placement[name].anyOf = c /\ D.placement[name].allOf = d
        BY ONLY <1>3, ZenonT(30) DEF PlacementsWritten
      <4>3. \A j \in 1..n : form[j].placement = N => form[j].anyOf = a /\ form[j].allOf = b
        BY ONLY <3>3, <4>1
      <4>4. N \in DOMAIN D.placement /\ a \in Text /\ b \in Text
        BY <2>1, <4>1
      <4>5. D.placement[N].anyOf = a /\ D.placement[N].allOf = b
        BY ONLY <3>2, <4>2, <4>3, <4>4
      <4> QED
        BY <4>1, <4>5
    <3> QED
      BY <1>8, <3>1, <3>4
  <2>5. p.attributes = s.attributes
    BY <1>3, <1>8, <1>10, <2>1, <2>2 DEF PlacementsWritten
  <2> QED
    BY <2>4, <2>5
<1>12. [x \in DOMAIN g.env |-> ImportedEnv(g.env[x])] = s.env
  <2>1. \A x \in DOMAIN s.env : s.env[x] \in EnvEntry
    BY <1>10
  <2>2. ASSUME NEW x \in DOMAIN s.env PROVE ImportedEnv(g.env[x]) = s.env[x]
    <3>1. PICK e : e = s.env[x] /\ e \in EnvEntry /\ ~e.isSecret /\ Len(e.value) = 1
      BY <1>4, <2>1 DEF Plain
    <3>2. g.env[x] = e.value
      BY <1>9, <3>1 DEF GeneratedEnv
    <3>3. PICK v \in Seq(Text) : v = e.value /\ Len(v) = 1
      BY <3>1 DEF EnvEntry
    <3>4. <<Head(v)>> = v
      BY <3>3
    <3>5. e = [value |-> v, isSecret |-> FALSE]
      BY <3>1, <3>3 DEF EnvEntry
    <3> QED
      BY <3>1, <3>2, <3>3, <3>4, <3>5 DEF ImportedEnv
  <2>3. DOMAIN g.env = DOMAIN s.env
    BY <1>9
  <2>4. s.env = [x \in DOMAIN s.env |-> s.env[x]]
    BY <1>10
  <2> QED
    BY <2>2, <2>3, <2>4
<1>13. ResourceDigit(g.storage) = s.storage
  <2>1. PICK x \in Nat : x = s.storage /\ x % 10 = 0
    BY <1>4, <1>10 DEF Plain
  <2>2. (x \div 10) * 10 = x
    BY <2>1
  <2> QED
    BY <1>9, <2>1, <2>2 DEF ResourceDigit
<1>14. GpuModels(g) = s.gpuModels
  <2>1. PICK q \in Seq(Text) : q = s.gpuModels /\ m = GeneratedGpu(q)
    BY <1>8, <1>10
  <2>2. /\ (\A x \in DOMAIN q : q[x] # Unnamed) => m = q
        /\ (\A x \in DOMAIN q : q[x] = Unnamed) => m = <<>>
    BY <2>1, NamesAre
  <2>3. (\E x \in DOMAIN q : q[x] = Unnamed) => q = <<Unnamed>>
    BY <1>4, <2>1 DEF Plain, ToSet
  <2>4. CASE \E x \in DOMAIN q : q[x] = Unnamed
    <3>1. q = <<Unnamed>> /\ DOMAIN q = {1} /\ q[1] = Unnamed /\ q # <<>>
      BY <2>3, <2>4
    <3>2. m = <<>>
      BY <2>2, <3>1
    <3> QED
      BY <1>9, <2>1, <3>1, <3>2 DEF GpuModels
  <2>5. CASE \A x \in DOMAIN q : q[x] # Unnamed
    BY <1>9, <2>1, <2>2, <2>5 DEF GpuModels
  <2> QED
    BY <2>4, <2>5
<1>15. (IF g.to.global THEN g.to.ip ELSE None) = s.ipName
  BY <1>4, <1>9, <1>10 DEF Plain
<1>16. g.arg = s.arg /\ g.command = s.command
  BY <1>4, <1>9, <1>10 DEF Plain
<1>17. ImportedService(D, s.title) =
         [title |-> s.title, env |-> [x \in DOMAIN g.env |-> ImportedEnv(g.env[x])],
          command |-> g.command, arg |-> g.arg, storage |-> ResourceDigit(g.storage),
          gpuModels |-> GpuModels(g), global |-> g.to.global,
          ipName |-> IF g.to.global THEN g.to.ip ELSE None,
          placement |-> s.placement, anyOf |-> p.anyOf, allOf |-> p.allOf,
          attributes |-> p.attributes]
  BY <1>7, <1>8 DEF ImportedService
<1>18. ImportedService(D, s.title) =
         [title |-> s.title, env |-> s.env, command |-> s.command, arg |-> s.arg,
          storage |-> s.storage, gpuModels |-> s.gpuModels, global |-> s.global,
          ipName |-> s.ipName, placement |-> s.placement, anyOf |-> s.anyOf,
          allOf |-> s.allOf, attributes |-> s.attributes]
  BY ONLY <1>9, <1>11, <1>12, <1>13, <1>14, <1>15, <1>16, <1>17
<1> QED
  BY <1>2, <1>4, <1>7, <1>10, <1>18

\* What importSimpleSdl makes of a service is a service of the form, and one
\* that the conversions keep.
LEMMA ImportedIsPlain ==
  ASSUME NEW form \in Seq(FormService), NEW D, D = GenerateSdl(form), NEW t \in DOMAIN D.services
  PROVE  /\ ImportedService(D, t) \in FormService /\ Plain(ImportedService(D, t))
         /\ ImportedService(D, t).title = t
<1>1. PICK n \in Nat : n = Len(form) /\ DOMAIN form = 1..n /\ \A j \in 1..n : form[j] \in FormService
  OBVIOUS
<1>2. ServicesWritten(form, D, n) /\ PlacementsWritten(form, D, n)
  BY <1>1, DocumentIs
<1>3. PICK i \in 1..n : /\ form[i].title = t /\ D.services[t] = GeneratedService(form[i])
                        /\ D.deployment[t] = form[i].placement
  BY <1>2 DEF ServicesWritten
<1>4. PICK s : s = form[i] /\ s \in FormService
  BY <1>1
<1>5. PICK g, p, m : g = GeneratedService(s) /\ p = D.placement[s.placement] /\ m = GeneratedGpu(s.gpuModels)
  OBVIOUS
<1>6. /\ g.env = [x \in DOMAIN s.env |-> GeneratedEnv(s.env[x])]
      /\ g.command = s.command /\ g.arg = (s.command /\ s.arg) /\ g.storage = s.storage
      /\ g.gpu = (s.gpuModels # <<>>) /\ g.models = m
      /\ g.to.global = s.global /\ g.to.ip = s.ipName
  BY <1>5 DEF GeneratedService
<1>7. /\ s.title \in Nat /\ s.env \in Seq(EnvEntry) /\ s.command \in BOOLEAN /\ s.arg \in BOOLEAN
      /\ s.storage \in Nat /\ s.gpuModels \in Seq(Text) /\ s.global \in BOOLEAN /\ s.ipName \in Text
      /\ s.placement \in Text
  BY <1>4 DEF FormService
<1>8. p \in Placement /\ (p.anyOf = None => p.allOf = None)
  <2>1. s.placement \in DOMAIN D.placement
    BY <1>2, <1>4 DEF PlacementsWritten
  <2> QED
    BY <1>2, <1>5, <2>1 DEF PlacementsWritten
<1>9. p.anyOf \in Text /\ p.allOf \in Text /\ p.attributes \in Text
  BY <1>8 DEF Placement
<1>10. PICK env : env = [x \in DOMAIN g.env |-> ImportedEnv(g.env[x])]
  OBVIOUS
<1>11. env \in Seq(EnvEntry) /\ \A x \in DOMAIN env : ~env[x].isSecret /\ Len(env[x].value) = 1
  <2>1. PICK k \in Nat : DOMAIN s.env = 1..k /\ \A x \in 1..k : s.env[x] \in EnvEntry
    BY <1>7
  <2>2. DOMAIN g.env = 1..k /\ DOMAIN env = 1..k
    BY <1>6, <1>10, <2>1
  <2>3. ASSUME NEW x \in 1..k
        PROVE  env[x] \in EnvEntry /\ ~env[x].isSecret /\ Len(env[x].value) = 1
    <3>1. PICK e : e = s.env[x] /\ e \in EnvEntry
      BY <2>1
    <3>2. PICK v : v = GeneratedEnv(e)
      OBVIOUS
    <3>3. v \in Seq(Text) /\ v # <<>>
      <4>1. "" \in Text
        BY DEF Text
      <4>2. <<"">> \in Seq(Text) /\ <<"">> # <<>>
        <5>1. PICK z \in Text : z = ""
          BY <4>1
        <5>2. <<z>> \in Seq(Text) /\ <<z>> # <<>>
          OBVIOUS
        <5> QED
          BY <5>1, <5>2
      <4>3. e.value \in Seq(Text) /\ e.value # <<>>
        BY <3>1 DEF EnvEntry
      <4> QED
        BY <3>2, <4>2, <4>3 DEF GeneratedEnv
    <3>4. PICK w : w = Head(v) /\ w \in Text
      BY <3>3, HeadTailProperties
    <3>5. env[x] = [value |-> <<w>>, isSecret |-> FALSE]
      BY <1>6, <1>10, <2>1, <2>2, <3>1, <3>2, <3>4 DEF ImportedEnv
    <3>6. <<w>> \in Seq(Text) /\ <<w>> # <<>> /\ Len(<<w>>) = 1
      BY <3>4
    <3> QED
      BY <3>5, <3>6 DEF EnvEntry
  <2>4. env = [x \in 1..k |-> env[x]]
    BY <1>10, <2>2
  <2> QED
    BY <2>2, <2>3, <2>4
<1>12. ResourceDigit(g.storage) \in Nat /\ ResourceDigit(g.storage) % 10 = 0
  BY <1>6, <1>7 DEF ResourceDigit
<1>13. GpuModels(g) \in Seq(Text) /\ (Unnamed \in ToSet(GpuModels(g)) => GpuModels(g) = <<Unnamed>>)
  <2>1. m \in Seq(Text) /\ \A x \in DOMAIN m : m[x] # Unnamed
    BY <1>5, <1>7, NamesAre
  <2>2. <<Unnamed>> \in Seq(Text) /\ <<>> \in Seq(Text) /\ DOMAIN <<>> = {}
    BY DEF Text, Unnamed
  <2>3. CASE GpuModels(g) = <<>>
    BY <2>2, <2>3 DEF ToSet
  <2>4. CASE GpuModels(g) = <<Unnamed>>
    BY <2>2, <2>4
  <2>5. CASE GpuModels(g) = m
    BY <2>1, <2>5 DEF ToSet
  <2> QED
    BY <1>6, <2>3, <2>4, <2>5 DEF GpuModels
<1>14. PICK ip : ip = IF g.to.global THEN g.to.ip ELSE None
  OBVIOUS
<1>15. ip \in Text /\ (ip # None => g.to.global)
  BY <1>6, <1>7, <1>14 DEF Text, None
<1>16. g.command \in BOOLEAN /\ g.arg \in BOOLEAN /\ (g.arg => g.command) /\ g.to.global \in BOOLEAN
  BY <1>6, <1>7
<1>17. PICK size, gpu : size = ResourceDigit(g.storage) /\ gpu = GpuModels(g)
  OBVIOUS
<1>18. PICK r : r = ImportedService(D, t)
  OBVIOUS
<1>19. r = [title |-> s.title, env |-> env, command |-> g.command, arg |-> g.arg, storage |-> size,
            gpuModels |-> gpu, global |-> g.to.global, ipName |-> ip,
            placement |-> s.placement, anyOf |-> p.anyOf, allOf |-> p.allOf,
            attributes |-> p.attributes]
  BY <1>3, <1>4, <1>5, <1>10, <1>14, <1>17, <1>18 DEF ImportedService
<1>20. r \in FormService
  BY <1>7, <1>9, <1>11, <1>12, <1>13, <1>15, <1>16, <1>17, <1>19 DEF FormService
<1>21. /\ r.env = env /\ r.arg = g.arg /\ r.command = g.command /\ r.storage = size /\ r.gpuModels = gpu
       /\ r.ipName = ip /\ r.global = g.to.global /\ r.anyOf = p.anyOf /\ r.allOf = p.allOf
       /\ r.title = t
  BY <1>3, <1>4, <1>19
<1>22. Plain(r)
  BY <1>8, <1>11, <1>12, <1>13, <1>15, <1>16, <1>17, <1>21 DEF Plain
<1> QED
  BY <1>18, <1>20, <1>21, <1>22

\* The services that importSimpleSdl makes of a document, in their order.
LEMMA ImportIs ==
  ASSUME NEW form \in Seq(FormService), NEW D, D = GenerateSdl(form)
  PROVE  /\ ImportSimpleSdl(D) \in Seq(FormService)
         /\ {ImportSimpleSdl(D)[i].title : i \in DOMAIN ImportSimpleSdl(D)} = DOMAIN D.services
         /\ \A i \in DOMAIN ImportSimpleSdl(D) :
              ImportSimpleSdl(D)[i] = ImportedService(D, ImportSimpleSdl(D)[i].title)
         /\ \A i, j \in DOMAIN ImportSimpleSdl(D) :
              i # j => ImportSimpleSdl(D)[i].title # ImportSimpleSdl(D)[j].title
         /\ \A t \in DOMAIN D.services : ImportedService(D, t) \in ToSet(ImportSimpleSdl(D))
<1>1. PICK n \in Nat : n = Len(form) /\ DOMAIN form = 1..n
  OBVIOUS
<1>2. PICK T : T = DOMAIN D.services
  OBVIOUS
<1>3. T = {form[i].title : i \in DOMAIN form}
  BY <1>1, <1>2, DocumentIs DEF ServicesWritten
<1>4. IsFiniteSet(T) /\ T \in SUBSET Nat
  BY <1>3, TitlesAreFinite
<1>5. PICK f, m : f = InOrder(T) /\ m = Cardinality(T)
  OBVIOUS
<1>6. m \in Nat /\ Sorts(f, T, m)
  BY <1>4, <1>5, InOrderIs
<1>7. /\ f \in [1..m -> T] /\ \A i, j \in 1..m : i < j => f[i] < f[j]
      /\ \A t \in T : \E i \in 1..m : f[i] = t
  BY <1>6 DEF Sorts
<1>8. PICK L : L = ImportSimpleSdl(D)
  OBVIOUS
<1>9. L = [i \in 1..m |-> ImportedService(D, f[i])]
  BY <1>2, <1>5, <1>7, <1>8 DEF ImportSimpleSdl
<1>10. DOMAIN L = 1..m /\ \A i \in 1..m : L[i] = ImportedService(D, f[i])
  BY <1>9
<1>11. \A i \in 1..m : f[i] \in T /\ L[i] \in FormService /\ L[i].title = f[i]
  BY <1>2, <1>7, <1>10, ImportedIsPlain
<1>12. L \in Seq(FormService)
  <2>1. L = [i \in 1..m |-> L[i]]
    BY <1>9, <1>10
  <2> QED
    BY <1>6, <1>11, <2>1
<1>13. {L[i].title : i \in DOMAIN L} = T
  BY <1>7, <1>10, <1>11
<1>14. \A i \in DOMAIN L : L[i] = ImportedService(D, L[i].title)
  BY <1>10, <1>11
<1>15. ASSUME NEW i \in DOMAIN L, NEW j \in DOMAIN L, i # j PROVE L[i].title # L[j].title
  <2>1. i \in 1..m /\ j \in 1..m /\ (i < j \/ j < i)
    BY <1>6, <1>10, <1>15
  <2>3. f[i] \in Nat /\ f[j] \in Nat
    BY <1>4, <1>11, <2>1
  <2>2. f[i] < f[j] \/ f[j] < f[i]
    BY <1>7, <2>1
  <2> QED
    BY <1>11, <2>1, <2>2, <2>3
<1>16. ASSUME NEW t \in T PROVE ImportedService(D, t) \in ToSet(L)
  <2>1. PICK i \in 1..m : f[i] = t
    BY <1>7
  <2>2. i \in DOMAIN L /\ L[i] = ImportedService(D, t)
    BY <1>10, <2>1
  <2> QED
    BY <2>2 DEF ToSet
<1> QED
  BY <1>2, <1>8, <1>12, <1>13, <1>14, <1>15, <1>16

\* A document that was loaded, saved and loaded again gives the same services.
LEMMA LoadedTwice ==
  ASSUME NEW form \in Seq(FormService), NEW D, D = GenerateSdl(form), NEW L, L = ImportSimpleSdl(D)
  PROVE  ImportSimpleSdl(GenerateSdl(L)) = L
<1>1. /\ L \in Seq(FormService) /\ {L[i].title : i \in DOMAIN L} = DOMAIN D.services
      /\ \A i \in DOMAIN L : L[i] = ImportedService(D, L[i].title)
      /\ \A i, j \in DOMAIN L : i # j => L[i].title # L[j].title
  BY ImportIs
<1>2. PICK m \in Nat : m = Len(L) /\ DOMAIN L = 1..m /\ \A i \in 1..m : L[i] \in FormService
  BY <1>1
<1>3. ASSUME NEW i \in DOMAIN L PROVE Plain(L[i]) /\ L[i].title \in DOMAIN D.services
  BY <1>1, ImportedIsPlain
<1>4. ASSUME NEW t
      PROVE  /\ ImportedService(D, t).placement = D.deployment[t]
             /\ ImportedService(D, t).anyOf = D.placement[D.deployment[t]].anyOf
             /\ ImportedService(D, t).allOf = D.placement[D.deployment[t]].allOf
             /\ ImportedService(D, t).attributes = D.placement[D.deployment[t]].attributes
  BY DEF ImportedService
<1>5. ASSUME NEW i \in DOMAIN L, NEW j \in DOMAIN L, i # j PROVE Apart(L[i], L[j])
  <2>1. PICK s, t : s = L[i].title /\ t = L[j].title
    OBVIOUS
  <2>2. L[i] = ImportedService(D, s) /\ L[j] = ImportedService(D, t) /\ s # t
    BY <1>1, <1>5, <2>1
  <2>3. /\ L[i].placement = D.deployment[s]
        /\ L[i].anyOf = D.placement[D.deployment[s]].anyOf
        /\ L[i].allOf = D.placement[D.deployment[s]].allOf
        /\ L[i].attributes = D.placement[D.deployment[s]].attributes
    BY <1>4, <2>2
  <2>4. /\ L[j].placement = D.deployment[t]
        /\ L[j].anyOf = D.placement[D.deployment[t]].anyOf
        /\ L[j].allOf = D.placement[D.deployment[t]].allOf
        /\ L[j].attributes = D.placement[D.deployment[t]].attributes
    BY <1>4, <2>2
  <2> QED
    BY ONLY <2>1, <2>2, <2>3, <2>4, SMTT(30) DEF Apart
<1>6. PICK E : E = GenerateSdl(L)
  OBVIOUS
<1>7. ASSUME NEW i \in DOMAIN L PROVE ImportedService(E, L[i].title) = L[i]
  BY <1>1, <1>3, <1>5, <1>6, ServiceComesBack
<1>8. DOMAIN E.services = DOMAIN D.services
  <2>1. DOMAIN E.services = {L[i].title : i \in 1..m}
    BY <1>1, <1>2, <1>6, DocumentIs DEF ServicesWritten
  <2> QED
    BY <1>1, <1>2, <2>1
<1>9. PICK f : f = InOrder(DOMAIN D.services)
  OBVIOUS
<1>10. L = [i \in DOMAIN f |-> ImportedService(D, f[i])]
  BY <1>9 DEF ImportSimpleSdl
<1>11. DOMAIN L = DOMAIN f /\ \A i \in DOMAIN f : L[i] = ImportedService(D, f[i])
  BY <1>10
<1>12. ASSUME NEW i \in DOMAIN f PROVE L[i].title = f[i]
  BY <1>11 DEF ImportedService
<1>13. PICK M : M = ImportSimpleSdl(E)
  OBVIOUS
<1>14. M = [i \in DOMAIN f |-> ImportedService(E, f[i])]
  BY <1>8, <1>9, <1>13 DEF ImportSimpleSdl
<1>15. \A i \in DOMAIN f : ImportedService(E, f[i]) = L[i]
  BY <1>7, <1>11, <1>12
<1>16. L = [i \in DOMAIN f |-> L[i]]
  BY <1>10, <1>11
<1> QED
  BY <1>6, <1>13, <1>14, <1>15, <1>16
------------------------------------------------------------------------------
(* The form                                                                   *)

\* The services of the form are services, and a template that was saved is the
\* document of such a form.
Written(D) == \E form \in Seq(FormService) : D = GenerateSdl(form)
SdlTypeInvariant ==
  services \in Seq(FormService) /\ (template # NoSdl => Written(template))

\* The service that a form starts with, or one that is added.
LEMMA NewServiceIs == \A n \in Nat : Service(n) \in FormService
<1>1. <<>> \in Seq(EnvEntry) /\ <<>> \in Seq(Text)
  OBVIOUS
<1>2. None \in Text /\ "dcloud" \in Text
  BY DEF None, Text
<1> QED
  BY <1>1, <1>2 DEF Service, FormService

\* What a service becomes when the user changes a field of it.
LEMMA EditedIs ==
  ASSUME NEW s \in FormService, NEW e \in Edited(s)
  PROVE  e \in FormService
<1>1. /\ s.title \in Nat /\ s.env \in Seq(EnvEntry) /\ s.command \in BOOLEAN /\ s.arg \in BOOLEAN
      /\ s.storage \in Nat /\ s.gpuModels \in Seq(Text) /\ s.global \in BOOLEAN /\ s.ipName \in Text
      /\ s.placement \in Text /\ s.anyOf \in Text /\ s.allOf \in Text /\ s.attributes \in Text
  BY DEF FormService
<1>2. /\ Unnamed \in Text /\ "a100" \in Text /\ None \in Text /\ "ip1" \in Text /\ "ip2" \in Text
      /\ "other" \in Text /\ "auditor" \in Text /\ "host" \in Text /\ "a" \in Text /\ "b" \in Text
  BY DEF Unnamed, None, Text
<1>3. CASE \E t \in 1..MaxTitle : e = [s EXCEPT !.title = t]
  <2>1. PICK t \in Nat : e = [s EXCEPT !.title = t]
    BY <1>3, SdlBuilderAssumption
  <2> QED
    BY <2>1 DEF FormService
<1>4. CASE \E x \in EnvVariables : e = [s EXCEPT !.env = Append(@, x)]
  <2>1. PICK x \in EnvVariables : e = [s EXCEPT !.env = Append(@, x)]
    BY <1>4
  <2>2. <<"a">> \in Seq(Text) /\ <<"a", "b">> \in Seq(Text) /\ <<"a">> # <<>> /\ <<"a", "b">> # <<>>
    BY <1>2
  <2>3. x \in EnvEntry
    BY <2>2 DEF EnvVariables, EnvEntry
  <2>4. PICK w : w = Append(s.env, x) /\ w \in Seq(EnvEntry)
    <3>1. Append(s.env, x) \in Seq(EnvEntry)
      BY <1>1, <2>3, AppendProperties
    <3> QED
      BY <3>1
  <2>5. e = [s EXCEPT !.env = w]
    BY <2>1, <2>4
  <2> QED
    BY <2>4, <2>5 DEF FormService
<1>5. CASE e \in {[s EXCEPT !.command = ~@], [s EXCEPT !.arg = ~@], [s EXCEPT !.global = ~@]}
  <2>1. CASE e = [s EXCEPT !.command = ~@]
    BY <1>1, <2>1 DEF FormService
  <2>2. CASE e = [s EXCEPT !.arg = ~@]
    BY <1>1, <2>2 DEF FormService
  <2>3. CASE e = [s EXCEPT !.global = ~@]
    BY <1>1, <2>3 DEF FormService
  <2> QED
    BY <1>5, <2>1, <2>2, <2>3
<1>6. CASE \E size \in {5, 15, 20} : e = [s EXCEPT !.storage = size]
  BY <1>6 DEF FormService
<1>7. CASE \E name \in {Unnamed, "a100"} : e = [s EXCEPT !.gpuModels = Append(@, name)]
  <2>1. PICK name \in Text : e = [s EXCEPT !.gpuModels = Append(@, name)]
    BY <1>2, <1>7
  <2>2. PICK w : w = Append(s.gpuModels, name) /\ w \in Seq(Text)
    <3>1. Append(s.gpuModels, name) \in Seq(Text)
      BY <1>1, AppendProperties
    <3> QED
      BY <3>1
  <2>3. e = [s EXCEPT !.gpuModels = w]
    BY <2>1, <2>2
  <2> QED
    BY <2>2, <2>3 DEF FormService
<1>8. CASE \E ip \in Text : e = [s EXCEPT !.ipName = ip]
  BY <1>8 DEF FormService
<1>9. CASE e = [s EXCEPT !.placement = "other"]
  BY <1>2, <1>9 DEF FormService
<1>10. CASE \E a \in Text : e = [s EXCEPT !.anyOf = a]
  BY <1>10 DEF FormService
<1>11. CASE \E a \in Text : e = [s EXCEPT !.allOf = a]
  BY <1>11 DEF FormService
<1>12. CASE \E a \in Text : e = [s EXCEPT !.attributes = a]
  BY <1>12 DEF FormService
<1>13. \/ \E t \in 1..MaxTitle : e = [s EXCEPT !.title = t]
       \/ \E x \in EnvVariables : e = [s EXCEPT !.env = Append(@, x)]
       \/ e \in {[s EXCEPT !.command = ~@], [s EXCEPT !.arg = ~@], [s EXCEPT !.global = ~@]}
       \/ \E size \in {5, 15, 20} : e = [s EXCEPT !.storage = size]
       \/ \E name \in {Unnamed, "a100"} : e = [s EXCEPT !.gpuModels = Append(@, name)]
       \/ \E ip \in {None, "ip1", "ip2"} : e = [s EXCEPT !.ipName = ip]
       \/ e = [s EXCEPT !.placement = "other"]
       \/ \E a \in {None, "auditor"} : e = [s EXCEPT !.anyOf = a]
       \/ \E a \in {None, "auditor"} : e = [s EXCEPT !.allOf = a]
       \/ \E a \in {None, "host"} : e = [s EXCEPT !.attributes = a]
  BY DEF Edited
<1> QED
  BY <1>2, <1>3, <1>4, <1>5, <1>6, <1>7, <1>8, <1>9, <1>10, <1>11, <1>12, <1>13

\* A list with one element removed.
LEMMA RemoveAtIs ==
  ASSUME NEW S, NEW s \in Seq(S), NEW i \in DOMAIN s
  PROVE  RemoveAt(s, i) \in Seq(S)
<1>1. PICK n \in Nat : n = Len(s) /\ DOMAIN s = 1..n /\ \A x \in 1..n : s[x] \in S
  OBVIOUS
<1>2. i \in Int /\ 1 <= i /\ i <= n /\ i - 1 \in Int /\ i + 1 \in Int /\ n \in Int /\ 1 \in Int
  BY <1>1
<1>3. SubSeq(s, 1, i - 1) \in Seq(S)
  <2>1. \A x \in 1..(i - 1) : s[x] \in S
    BY <1>1, <1>2
  <2> QED
    BY <1>2, <2>1, SubSeqProperties
<1>4. SubSeq(s, i + 1, n) \in Seq(S)
  <2>1. \A x \in (i + 1)..n : s[x] \in S
    BY <1>1, <1>2
  <2> QED
    BY <1>2, <2>1, SubSeqProperties
<1>5. PICK a, b : a = SubSeq(s, 1, i - 1) /\ b = SubSeq(s, i + 1, n)
  OBVIOUS
<1>6. a \in Seq(S) /\ b \in Seq(S)
  BY <1>3, <1>4, <1>5
<1>7. a \o b \in Seq(S)
  BY <1>6, ConcatProperties
<1> QED
  BY <1>1, <1>5, <1>7 DEF RemoveAt

\* The types are kept by every step.
LEMMA SdlTypeCorrect == SdlSpec => []SdlTypeInvariant
<1>1. SdlInit => SdlTypeInvariant
  <2>1. SUFFICES ASSUME SdlInit PROVE SdlTypeInvariant
    OBVIOUS
  <2>2. services = <<Service(1)>> /\ template = NoSdl
    BY <2>1 DEF SdlInit
  <2>3. PICK x : x = Service(1) /\ x \in FormService
    BY NewServiceIs
  <2>4. <<x>> \in Seq(FormService)
    BY <2>3
  <2> QED
    BY <2>2, <2>3, <2>4 DEF SdlTypeInvariant
<1>2. SdlTypeInvariant /\ [SdlNext]_sdlVars => SdlTypeInvariant'
  <2>1. SUFFICES ASSUME SdlTypeInvariant, [SdlNext]_sdlVars PROVE SdlTypeInvariant'
    OBVIOUS
  <2>2. services \in Seq(FormService) /\ (template # NoSdl => Written(template))
    BY <2>1 DEF SdlTypeInvariant
  <2>3. ASSUME services' \in Seq(FormService), UNCHANGED template PROVE SdlTypeInvariant'
    BY <2>2, <2>3 DEF SdlTypeInvariant
  <2>4. CASE OnAddService
    <3>1. PICK x : x = Service(Len(services) + 1) /\ x \in FormService
      BY <2>2, NewServiceIs
    <3>2. Append(services, x) \in Seq(FormService)
      BY <2>2, <3>1, AppendProperties
    <3> QED
      BY <2>3, <2>4, <3>1, <3>2 DEF OnAddService
  <2>5. CASE OnRemoveService
    <3>1. PICK i \in DOMAIN services : services' = RemoveAt(services, i)
      BY <2>5 DEF OnRemoveService
    <3>2. RemoveAt(services, i) \in Seq(FormService)
      BY <2>2, RemoveAtIs
    <3> QED
      BY <2>3, <2>5, <3>1, <3>2 DEF OnRemoveService
  <2>6. CASE EditService
    <3>1. PICK i \in DOMAIN services :
            \E s \in Edited(services[i]) : services' = [services EXCEPT ![i] = s]
      BY <2>6 DEF EditService
    <3>5. PICK s \in Edited(services[i]) : services' = [services EXCEPT ![i] = s]
      BY <3>1
    <3>2. services[i] \in FormService
      BY <2>2
    <3>3. s \in FormService
      BY <3>2, EditedIs
    <3>4. [services EXCEPT ![i] = s] \in Seq(FormService)
      BY <2>2, <3>3
    <3> QED
      BY <2>3, <2>6, <3>4, <3>5 DEF EditService
  <2>7. CASE SaveTemplate
    BY <2>2, <2>7 DEF SaveTemplate, SdlTypeInvariant, Written
  <2>8. CASE LoadTemplate
    <3>1. template # NoSdl /\ services' = ImportSimpleSdl(template) /\ UNCHANGED template
      BY <2>8 DEF LoadTemplate
    <3>2. PICK form \in Seq(FormService) : template = GenerateSdl(form)
      BY <2>2, <3>1 DEF Written
    <3>3. ImportSimpleSdl(template) \in Seq(FormService)
      BY <3>2, ImportIs
    <3> QED
      BY <2>3, <3>1, <3>3
  <2>9. CASE UNCHANGED sdlVars
    BY <2>2, <2>3, <2>9 DEF sdlVars
  <2> QED
    BY <2>1, <2>4, <2>5, <2>6, <2>7, <2>8, <2>9 DEF SdlNext
<1> QED
  BY <1>1, <1>2, PTL DEF SdlSpec

\* The builder's document is accepted for a deployment unless the form has an IP
\* endpoint that is not global, or two of them, or two services with one title
\* (generateSdl and validate).
THEOREM DocumentIsAccepted == SdlSpec => []AcceptedUnlessIpsClash
<1>1. SdlTypeInvariant => AcceptedUnlessIpsClash
  <2>1. SUFFICES ASSUME services \in Seq(FormService),
                        IsInjective([i \in DOMAIN services |-> services[i].title]),
                        \A i \in DOMAIN services : services[i].ipName # None => services[i].global,
                        \A i, j \in DOMAIN services :
                          services[i].ipName = None \/ services[j].ipName \in {None, services[i].ipName}
                 PROVE  Validate(GenerateSdl(services))
    BY DEF SdlTypeInvariant, AcceptedUnlessIpsClash
  <2> QED
    BY <2>1, BuilderAccepted
<1> QED
  BY <1>1, SdlTypeCorrect, PTL

\* A service of the form, saved and loaded again, comes back as it was, whatever
\* the other services are and however the form got there, unless it has one of
\* the losses named in Plain or another service is not Apart from it; loading
\* invents no service, and loses nothing more the second time (generateSdl and
\* importSimpleSdl).
THEOREM ServicesSurviveTheDocument == SdlSpec => []ServicesComeBack
<1>1. SdlTypeInvariant => ServicesComeBack
  <2>1. SUFFICES ASSUME services \in Seq(FormService), template # NoSdl => Written(template)
                 PROVE  ServicesComeBack
    BY DEF SdlTypeInvariant
  <2>2. PICK form, D, L : form = services /\ D = GenerateSdl(form) /\ L = ImportSimpleSdl(D)
    OBVIOUS
  <2>3. form \in Seq(FormService)
    BY <2>1, <2>2
  <2>4. PICK n \in Nat : n = Len(form) /\ DOMAIN form = 1..n
    BY <2>3
  <2>5. ASSUME NEW i \in DOMAIN form, Plain(form[i]), \A j \in DOMAIN form \ {i} : Apart(form[i], form[j])
        PROVE  form[i] \in ToSet(L)
    <3>1. form[i].title \in DOMAIN D.services /\ ImportedService(D, form[i].title) = form[i]
      BY <2>2, <2>3, <2>5, ServiceComesBack
    <3> QED
      BY <2>2, <2>3, <3>1, ImportIs
  <2>6. {L[i].title : i \in DOMAIN L} = {form[i].title : i \in DOMAIN form}
    <3>1. DOMAIN D.services = {form[i].title : i \in 1..n}
      BY <2>2, <2>3, <2>4, DocumentIs DEF ServicesWritten
    <3>2. {L[i].title : i \in DOMAIN L} = DOMAIN D.services
      BY <2>2, <2>3, ImportIs
    <3> QED
      BY <2>4, <3>1, <3>2
  <2>7. LoadedTemplateIsStable
    <3>1. ASSUME template # NoSdl
          PROVE  ImportSimpleSdl(GenerateSdl(ImportSimpleSdl(template))) = ImportSimpleSdl(template)
      <4>1. PICK saved \in Seq(FormService) : template = GenerateSdl(saved)
        BY <2>1, <3>1 DEF Written
      <4> QED
        BY <4>1, LoadedTwice
    <3> QED
      BY <3>1 DEF LoadedTemplateIsStable
  <2>8. \A i \in DOMAIN services :
          Plain(services[i]) /\ (\A j \in DOMAIN services \ {i} : Apart(services[i], services[j]))
            => services[i] \in ToSet(L)
    BY ONLY <2>2, <2>5
  <2>9. {L[i].title : i \in DOMAIN L} = {services[i].title : i \in DOMAIN services}
    BY ONLY <2>2, <2>6
  <2>10. L = ImportSimpleSdl(GenerateSdl(services))
    BY ONLY <2>2
  <2> QED
    BY ONLY <2>7, <2>8, <2>9, <2>10 DEF ServicesComeBack
<1> QED
  BY <1>1, SdlTypeCorrect, PTL
==============================================================================
