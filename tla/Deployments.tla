------------------------------ MODULE Deployments ------------------------------
(***************************************************************************)
(* One deployment between the chain, its providers and the pages that       *)
(* create it, accept bids on it, update it and close it (deploy-web:         *)
(* ManifestEdit, CreateLease, ManifestUpdate and pages/deployments/[dseq]). *)
(*                                                                         *)
(* The chain keeps the version (a hash of the manifest) and the leases; a   *)
(* provider runs the manifest it was last sent; the browser stores a        *)
(* manifest per wallet.  An operation outlives the page it was started on   *)
(* and keeps what the page had loaded then.                                 *)
(***************************************************************************)
EXTENDS Naturals, FiniteSets, Functions

CONSTANTS
  Manifests, NoManifest,
  Providers, NoProvider,
  Groups,      \* the deployment's groups, each in need of a lease
  MaxStarts,   \* bound: operations a user starts
  MaxFaults    \* bound: transactions in doubt, failed sends and loads, closed tabs, switched wallets, closed leases

ASSUME ConstantsAssumption ==
  /\ NoManifest \notin Manifests /\ NoProvider \notin Providers
  /\ MaxStarts \in Nat /\ MaxFaults \in Nat

VARIABLES
  state, version,  \* the deployment on the chain, with the manifest its version stands for
  leases,          \* and its leases
  runs,            \* what each provider runs for the deployment
  stored, wallet,  \* localStorage: a manifest per wallet, and the selected wallet
  page,            \* what the browser shows
  loaded,          \* what the browser has loaded of the deployment
  deploymentQuery, leaseQuery, \* the requests for more
  ops,             \* the operations under way, one of a kind
  mishaps,         \* history: what went wrong or out of order
  outdated,        \* history: an operation ended and the deployment was not asked for anew, or a load failed
  told,            \* history: a send failed, visibly, since the last update
  deployed,        \* history: the manifests whose version the chain has had
  faults, starts

chain == <<state, version, leases, deployed>>
storage == <<stored, wallet>>
queries == <<deploymentQuery, leaseQuery>>
view == <<page, loaded, deploymentQuery, leaseQuery, outdated>>
bounds == <<faults, starts>>
vars == <<chain, runs, storage, view, ops, mishaps, told, bounds>>

Kinds == {"create", "lease", "cancel", "update", "close"}
Wallets == {"own", "other"}
AnyManifest == Manifests \cup {NoManifest}
BidChoices == [Groups -> Providers \cup {NoProvider}]
Lease == [provider : Providers \cup {NoProvider}, active : BOOLEAN]
Op == [at : {"idle", "signing", "committed", "tokenizing", "sending"}, manifest : AnyManifest,
       to : SUBSET Providers, choice : BidChoices,
       reload : {"on", "skipped", "elsewhere"}]  \* what it does to the page when it ends
Loaded == [version : AnyManifest, active : BOOLEAN, leases : [Groups -> Lease], listed : BOOLEAN]
NoLeases == [g \in Groups |-> [provider |-> NoProvider, active |-> FALSE]]
RequestAt == {"idle", "asked", "read"}
DeploymentQuery == [at : RequestAt, version : AnyManifest, active : BOOLEAN]
LeaseQuery == [at : RequestAt, leases : [Groups -> Lease]]
NoQuery == [at |-> "idle", version |-> NoManifest, active |-> FALSE]
NoLeaseQuery == [at |-> "idle", leases |-> NoLeases]
Unloaded == [version |-> NoManifest, active |-> FALSE, leases |-> NoLeases, listed |-> FALSE]
NoOp == [at |-> "idle", manifest |-> NoManifest, to |-> {},
         choice |-> [g \in Groups |-> NoProvider], reload |-> "on"]

TypeOK ==
  /\ state \in {"none", "active", "closed"} /\ version \in AnyManifest
  /\ leases \in [Groups -> Lease] /\ runs \in [Providers -> AnyManifest]
  /\ stored \in [Wallets -> AnyManifest] /\ wallet \in Wallets
  /\ page \in {"edit", "wizard", "detail", "away"}
  /\ loaded \in Loaded
  /\ deploymentQuery \in DeploymentQuery /\ leaseQuery \in LeaseQuery
  /\ ops \in [Kinds -> Op]
  /\ \A k \in Kinds : ops[k].at = "sending" => ops[k].manifest \in Manifests
  /\ mishaps \subseteq {"unconfirmed", "left", "switched", "stale", "overlap"}
  /\ outdated \in BOOLEAN /\ told \in BOOLEAN /\ deployed \subseteq Manifests
  /\ faults \in 0..MaxFaults /\ starts \in 0..MaxStarts

Init ==
  /\ state = "none" /\ version = NoManifest /\ leases = NoLeases /\ deployed = {}
  /\ runs = [p \in Providers |-> NoManifest]
  /\ stored = [w \in Wallets |-> NoManifest] /\ wallet = "own"
  /\ page = "edit" /\ loaded = Unloaded /\ outdated = FALSE
  /\ deploymentQuery = NoQuery /\ leaseQuery = NoLeaseQuery
  /\ ops = [k \in Kinds |-> NoOp]
  /\ mishaps = {} /\ told = FALSE /\ faults = 0 /\ starts = 0

------------------------------------------------------------------------------
ActiveProviders(ls) == {ls[g].provider : g \in {h \in Groups : ls[h].active}}
AllProviders(ls) == {ls[g].provider : g \in Groups} \ {NoProvider}
Busy(k) == ops[k].at # "idle"
Idle == \A k \in Kinds : ~Busy(k)
Fault == faults < MaxFaults /\ faults' = faults + 1

\* The user starts an operation; stale is whether the page's data is.
Start(k, op, stale) ==
  /\ ~Busy(k) /\ wallet = "own"
  /\ starts < MaxStarts /\ starts' = starts + 1
  /\ ops' = [ops EXCEPT ![k] = op]
  /\ mishaps' = mishaps \cup {x \in {"stale"} : stale} \cup {x \in {"overlap"} : ~Idle}
  /\ UNCHANGED faults

End(k) == ops' = [ops EXCEPT ![k] = NoOp]

\* saveDeploymentManifest: the key names the wallet selected now.
SaveManifest(m) == stored' = [stored EXCEPT ![wallet] = m] /\ UNCHANGED wallet

\* refetch: it joins a request that is under way.
Asked(q) == IF q.at = "idle" THEN [q EXCEPT !.at = "asked"] ELSE q
AskDeployment ==
  /\ deploymentQuery' = Asked(deploymentQuery)
  /\ outdated' = (outdated /\ deploymentQuery.at # "idle")

\* The leases are asked for when a deployment has been loaded.
AskLeases == leaseQuery' = IF loaded.version = NoManifest THEN leaseQuery ELSE Asked(leaseQuery)

\* A page is mounted, with what was loaded before.  Another wallet's requests
\* do not find the deployment.
ShowDetail ==
  IF page = "detail" THEN UNCHANGED view
  ELSE /\ page' = "detail" /\ UNCHANGED loaded
       /\ IF wallet = "own" THEN AskDeployment /\ AskLeases ELSE UNCHANGED <<queries, outdated>>

ShowWizard ==
  /\ page' = "wizard"
  /\ IF wallet = "own" /\ page # "wizard" THEN AskDeployment ELSE UNCHANGED <<deploymentQuery, outdated>>

\* An operation that changed the deployment ends without asking for it.
Missed == outdated' = (deploymentQuery.at # "asked")

\* loadDeploymentDetail as it was when the page was rendered that k was
\* started on: it does nothing if that page was loading.
LaterReload == IF deploymentQuery.at = "idle" THEN "on" ELSE "skipped"
Reload(k) ==
  IF ops[k].reload = "on"
  THEN deploymentQuery' = Asked(deploymentQuery) /\ outdated' = (deploymentQuery.at = "read")
  ELSE Missed /\ UNCHANGED deploymentQuery

------------------------------------------------------------------------------
\* handleCreateClick, up to its transaction.
Create(m) ==
  /\ page = "edit" /\ state = "none"
  /\ Start("create", [NoOp EXCEPT !.at = "signing", !.manifest = m], FALSE)
  /\ UNCHANGED <<chain, runs, storage, view, told>>

\* handleNext: one transaction for the bids that were selected, at most one
\* for each group.  A group whose bids are not in yet is left without.
Accept(choice) ==
  /\ page = "wizard" /\ choice # NoOp.choice
  /\ Start("lease", [NoOp EXCEPT !.at = "signing", !.choice = choice], FALSE)
  /\ UNCHANGED <<chain, runs, storage, view, told>>

\* handleCloseDeployment of the wizard
Cancel ==
  /\ page = "wizard"
  /\ Start("cancel", [NoOp EXCEPT !.at = "signing"], FALSE)
  /\ UNCHANGED <<chain, runs, storage, view, told>>

\* onCloseDeployment of the detail page
Close ==
  /\ page = "detail" /\ loaded.active
  /\ Start("close", [NoOp EXCEPT !.at = "signing", !.reload = LaterReload], FALSE)
  /\ UNCHANGED <<chain, runs, storage, view, told>>

\* The page's version or leases are not the chain's.
Outdated == loaded.version # version \/ ~(ActiveProviders(leases) \subseteq AllProviders(loaded.leases))

\* handleUpdateClick: a transaction only if the version differs from the one
\* that was loaded.  The providers are those of all leases loaded, also closed.
Update(m) ==
  /\ page = "detail" /\ loaded.active /\ loaded.listed
  /\ LET op == [NoOp EXCEPT !.manifest = m, !.to = AllProviders(loaded.leases), !.reload = LaterReload]
         sends == m = loaded.version
     IN /\ Start("update", [op EXCEPT !.at = IF sends THEN "sending" ELSE "signing"],
                 Outdated)
        /\ IF sends THEN SaveManifest(m) ELSE UNCHANGED storage
  /\ UNCHANGED <<chain, runs, view, told>>

------------------------------------------------------------------------------
\* What a transaction does on the chain, and what providers do when leases end.
CreateCommits(op) ==
  /\ state = "none" /\ state' = "active"
  /\ version' = op.manifest /\ deployed' = {op.manifest}
  /\ UNCHANGED <<leases, runs, told>>

LeaseCommits(op) ==
  /\ state = "active"
  /\ \A g \in Groups : op.choice[g] # NoProvider => leases[g] = NoLeases[g]
  /\ leases' = [g \in Groups |-> IF op.choice[g] = NoProvider THEN leases[g]
                                 ELSE [provider |-> op.choice[g], active |-> TRUE]]
  /\ UNCHANGED <<state, version, deployed, runs, told>>

UpdateCommits(op) ==
  /\ state = "active"
  /\ version' = op.manifest /\ deployed' = deployed \cup {op.manifest}
  /\ told' = FALSE
  /\ UNCHANGED <<state, leases, runs>>

CloseCommits ==
  /\ state = "active" /\ state' = "closed"
  /\ leases' = [g \in Groups |-> [leases[g] EXCEPT !.active = FALSE]]
  /\ runs' = [p \in Providers |-> NoManifest]
  /\ UNCHANGED <<version, deployed, told>>

TxCommits(k) ==
  /\ ops[k].at = "signing"
  /\ CASE k = "create" -> CreateCommits(ops[k])
       [] k = "lease" -> LeaseCommits(ops[k])
       [] k = "update" -> UpdateCommits(ops[k])
       [] OTHER -> CloseCommits
  /\ ops' = [ops EXCEPT ![k].at = "committed"]
  /\ UNCHANGED <<storage, view, mishaps, bounds>>

\* Mutant of TxFails: handleUpdateClick does not look at the response.
TxFailsUnchecked(k) ==
  /\ ops[k].at = "signing"
  /\ IF k = "update"
     THEN SaveManifest(ops[k].manifest) /\ ops' = [ops EXCEPT ![k].at = "sending"]
     ELSE End(k) /\ UNCHANGED storage
  /\ UNCHANGED <<chain, runs, view, mishaps, told, bounds>>

\* signAndBroadcastTx returns false: rejected by the user or the chain.
TxFails(k) ==
  /\ ops[k].at = "signing"
  /\ End(k)
  /\ UNCHANGED <<chain, runs, storage, view, mishaps, told, bounds>>

\* It returns false although the transaction was committed: it was not found
\* in time, or the balances could not be read afterwards.
TxUnconfirmed(k) ==
  /\ ops[k].at = "committed" /\ Fault
  /\ End(k)
  /\ mishaps' = mishaps \cup {"unconfirmed"}
  /\ IF k \in {"create", "lease"} THEN UNCHANGED outdated ELSE Missed
  /\ UNCHANGED <<chain, runs, storage, page, loaded, queries, told, starts>>

\* It returns true.
CreateReturns ==
  /\ ops["create"].at = "committed" /\ End("create")
  /\ SaveManifest(ops["create"].manifest)
  /\ ShowWizard
  /\ UNCHANGED <<chain, runs, loaded, leaseQuery, mishaps, told, bounds>>

\* Without a stored manifest nothing is sent.
LeaseReturns ==
  /\ ops["lease"].at = "committed"
  /\ IF stored[wallet] = NoManifest THEN End("lease") /\ ShowDetail
     ELSE /\ ops' = [ops EXCEPT !["lease"] = [@ EXCEPT
               !.at = "tokenizing", !.manifest = stored[wallet],
               !.to = Range(ops["lease"].choice) \ {NoProvider}]]
          /\ UNCHANGED view
  /\ UNCHANGED <<chain, runs, storage, mishaps, told, bounds>>

UpdateReturns ==
  /\ ops["update"].at = "committed"
  /\ SaveManifest(ops["update"].manifest)
  /\ ops' = [ops EXCEPT !["update"].at = "sending"]
  /\ UNCHANGED <<chain, runs, view, mishaps, told, bounds>>

CancelReturns ==
  /\ ops["cancel"].at = "committed" /\ End("cancel")
  /\ page' = "away" /\ Missed
  /\ UNCHANGED <<chain, runs, storage, loaded, queries, mishaps, told, bounds>>

\* removeLeases, with a request for them; then loadDeploymentDetail.  The page
\* that is shown asks for them anew.
CloseReturns ==
  /\ ops["close"].at = "committed" /\ End("close") /\ Reload("close")
  /\ IF ops["close"].reload = "elsewhere" THEN UNCHANGED <<loaded, leaseQuery>>
     ELSE /\ loaded' = [loaded EXCEPT !.leases = NoLeases, !.listed = FALSE]
          /\ leaseQuery' = IF page = "detail" /\ wallet = "own" THEN Asked(NoLeaseQuery) ELSE NoLeaseQuery
  /\ UNCHANGED <<chain, runs, storage, page, mishaps, told, bounds>>

TxReturns == CreateReturns \/ LeaseReturns \/ UpdateReturns \/ CancelReturns \/ CloseReturns

------------------------------------------------------------------------------
\* The model is tokenized before its manifest is sent; a failure is logged only.
Tokenize ==
  /\ ops["lease"].at = "tokenizing"
  /\ \/ ops' = [ops EXCEPT !["lease"].at = "sending"] /\ UNCHANGED view
     \/ End("lease") /\ ShowDetail
  /\ UNCHANGED <<chain, runs, storage, mishaps, told, bounds>>

\* A provider takes a manifest for a lease it has.
Takes(p, m) == p \in ActiveProviders(leases) /\ runs' = [runs EXCEPT ![p] = m]

Send(k, p) ==
  /\ ops[k].at = "sending" /\ p \in ops[k].to
  /\ Takes(p, ops[k].manifest)
  /\ ops' = [ops EXCEPT ![k].to = @ \ {p}]
  /\ UNCHANGED <<chain, storage, view, mishaps, told, bounds>>

\* Mutant of SendFails: each provider's failure is caught, and not shown.
SendFailsSilently(k, p) ==
  /\ ops[k].at = "sending" /\ p \in ops[k].to
  /\ \/ p \notin ActiveProviders(leases) /\ UNCHANGED <<runs, faults>>
     \/ Fault /\ (UNCHANGED runs \/ Takes(p, ops[k].manifest))
  /\ ops' = [ops EXCEPT ![k].to = @ \ {p}]
  /\ UNCHANGED <<chain, storage, view, mishaps, told, starts>>

\* A provider refuses, or its answer is lost, before or after it has taken the
\* manifest: the error is shown, and no further provider is sent anything.
SendFails(k, p) ==
  /\ ops[k].at = "sending" /\ p \in ops[k].to
  /\ \/ p \notin ActiveProviders(leases) /\ UNCHANGED <<runs, faults>>
     \/ Fault /\ (UNCHANGED runs \/ Takes(p, ops[k].manifest))
  /\ End(k) /\ told' = TRUE
  /\ IF k = "lease" THEN ShowDetail
     ELSE Missed /\ UNCHANGED <<page, loaded, queries>>
  /\ UNCHANGED <<chain, storage, mishaps, starts>>

\* Mutant of Sent: only the wizard shows the page anew.
SentWithoutReload(k) ==
  /\ ops[k].at = "sending" /\ ops[k].to = {}
  /\ End(k)
  /\ IF k = "lease" THEN ShowDetail ELSE UNCHANGED view
  /\ UNCHANGED <<chain, runs, storage, mishaps, told, bounds>>

\* All providers have the manifest; the page is shown, or loaded again.
Sent(k) ==
  /\ ops[k].at = "sending" /\ ops[k].to = {}
  /\ End(k)
  /\ IF k = "lease" THEN ShowDetail
     ELSE /\ Reload(k)
          /\ IF ops[k].reload = "on" THEN AskLeases ELSE UNCHANGED leaseQuery
          /\ UNCHANGED <<page, loaded>>
  /\ UNCHANGED <<chain, runs, storage, mishaps, told, bounds>>

------------------------------------------------------------------------------
Open ==
  /\ page = "away" /\ state # "none" /\ ShowDetail
  /\ UNCHANGED <<chain, runs, storage, ops, mishaps, told, bounds>>

\* The refresh button: loadDeploymentDetail
Refresh ==
  /\ page = "detail" /\ wallet = "own" /\ deploymentQuery.at = "idle"
  /\ AskDeployment /\ AskLeases
  /\ UNCHANGED <<chain, runs, storage, page, loaded, ops, mishaps, told, bounds>>

\* An answer shows the chain as it is when the node reads it.
ReadDeployment ==
  /\ deploymentQuery.at = "asked"
  /\ deploymentQuery' = [at |-> "read", version |-> version, active |-> state = "active"]
  /\ UNCHANGED <<chain, runs, storage, page, loaded, leaseQuery, outdated, ops, mishaps, told, bounds>>

ReadLeases ==
  /\ leaseQuery.at = "asked"
  /\ leaseQuery' = [at |-> "read", leases |-> leases]
  /\ UNCHANGED <<chain, runs, storage, page, loaded, deploymentQuery, outdated, ops, mishaps, told, bounds>>

\* It is kept whatever page is shown when it arrives; the detail page then asks
\* for the leases.
LoadDeployment ==
  /\ deploymentQuery.at = "read" /\ deploymentQuery' = NoQuery
  /\ loaded' = [loaded EXCEPT !.version = deploymentQuery.version, !.active = deploymentQuery.active]
  /\ leaseQuery' = IF page = "detail" /\ wallet = "own" THEN Asked(leaseQuery) ELSE leaseQuery
  /\ UNCHANGED <<chain, runs, storage, page, outdated, ops, mishaps, told, bounds>>

\* A deployment without leases leads back to the wizard.
LoadLeases ==
  /\ leaseQuery.at = "read" /\ leaseQuery' = NoLeaseQuery
  /\ loaded' = [loaded EXCEPT !.leases = leaseQuery.leases, !.listed = TRUE]
  /\ IF page = "detail" /\ wallet = "own" /\ loaded.active /\ leaseQuery.leases = NoLeases
     THEN ShowWizard ELSE UNCHANGED <<page, deploymentQuery, outdated>>
  /\ UNCHANGED <<chain, runs, storage, ops, mishaps, told, bounds>>

\* A request fails, also when it is repeated: what was loaded before stays.
LoadFails ==
  /\ Fault
  /\ \/ deploymentQuery.at # "idle" /\ deploymentQuery' = NoQuery /\ outdated' = TRUE /\ UNCHANGED leaseQuery
     \/ leaseQuery.at # "idle" /\ leaseQuery' = NoLeaseQuery /\ UNCHANGED <<deploymentQuery, outdated>>
  /\ UNCHANGED <<chain, runs, storage, page, loaded, ops, mishaps, told, starts>>

\* The user looks at other pages; operations and requests go on.
Navigate ==
  /\ page # "away" /\ page' = "away"
  /\ UNCHANGED <<chain, runs, storage, loaded, queries, outdated, ops, mishaps, told, bounds>>

\* The tab is closed, with the operations it ran.
Leave ==
  /\ Fault /\ ~Idle
  /\ page' = "away" /\ loaded' = Unloaded /\ outdated' = FALSE
  /\ deploymentQuery' = NoQuery /\ leaseQuery' = NoLeaseQuery
  /\ ops' = [k \in Kinds |-> NoOp] /\ mishaps' = mishaps \cup {"left"}
  /\ UNCHANGED <<chain, runs, storage, told, starts>>

\* Another wallet is selected in the browser, or the first one again; the
\* detail page gives way to the list of deployments.  It is rendered with the
\* other address first: operations started on it will reload the other
\* wallet's deployment.  Those started before it was last mounted will not.
SwitchWallet ==
  /\ \/ wallet = "own" /\ wallet' = "other" /\ Fault
     \/ wallet = "other" /\ wallet' = "own" /\ UNCHANGED faults
  /\ page' = IF page = "detail" THEN "away" ELSE page
  /\ \E S \in SUBSET {k \in {"update", "close"} : Busy(k) /\ page = "detail" /\ wallet = "own"} :
       ops' = [k \in Kinds |-> IF k \in S THEN [ops[k] EXCEPT !.reload = "elsewhere"] ELSE ops[k]]
  /\ mishaps' = mishaps \cup {x \in {"switched"} : ~Idle}
  /\ UNCHANGED <<chain, runs, stored, loaded, queries, outdated, told, starts>>

\* A provider gives up a lease, and what it runs with its last one.
LeaseEnds(g) ==
  /\ Fault /\ leases[g].active
  /\ leases' = [leases EXCEPT ![g].active = FALSE]
  /\ runs' = [p \in Providers |-> IF p \in ActiveProviders(leases') THEN runs[p] ELSE NoManifest]
  /\ UNCHANGED <<state, version, deployed, storage, view, ops, mishaps, told, starts>>

UserStarts ==
  \/ \E m \in Manifests : Create(m) \/ Update(m)
  \/ \E choice \in BidChoices : Accept(choice)
  \/ Cancel \/ Close

Next ==
  \/ UserStarts
  \/ \E k \in Kinds : TxCommits(k) \/ TxFails(k) \/ TxUnconfirmed(k) \/ Sent(k)
  \/ \E k \in Kinds, p \in Providers : Send(k, p) \/ SendFails(k, p)
  \/ TxReturns \/ Tokenize
  \/ Open \/ Refresh \/ Navigate \/ Leave \/ SwitchWallet
  \/ ReadDeployment \/ ReadLeases \/ LoadDeployment \/ LoadLeases \/ LoadFails
  \/ \E g \in Groups : LeaseEnds(g)

Spec == Init /\ [][Next]_vars
------------------------------------------------------------------------------
\* Whatever fails, is repeated, overlaps or is done with another wallet, a
\* provider is only ever sent a manifest the chain has known: manifests are
\* stored, loaded and sent after the transaction that deploys them.
SentWasDeployed == \A p \in Providers : runs[p] \in deployed \cup {NoManifest}

\* When nothing is under way and nothing went wrong, the manifest the browser
\* stores, which later updates start from, is the one the chain has.  It is
\* not so after a transaction in doubt, a closed tab or a switch of wallets in
\* the middle, or an operation on outdated data or beside another one.
StoredIsDeployed ==
  Idle /\ mishaps = {} => stored["own"] = version

\* Under the same conditions no provider silently goes on with an old manifest:
\* it runs the deployed one, or nothing, or the user was shown that a send has
\* failed since the last update.
OldManifestIsExplained ==
  Idle /\ mishaps = {} /\ ~told =>
    \A p \in ActiveProviders(leases) : runs[p] \in {version, NoManifest}

\* What the detail page has loaded, with no request or operation under way, is
\* what the chain has, whatever answers were overtaken by operations meanwhile.
\* It is not so after a load that failed, and after an operation whose end did
\* not ask anew: one that failed when its transaction was committed or while it
\* sent, that was started while the page was loading, whose page was given to
\* another wallet, or whose request joined one the node had answered already.
PageIsCurrent ==
  Idle /\ page = "detail" /\ wallet = "own" /\ deploymentQuery.at = "idle" /\ ~outdated =>
    loaded.version = version /\ loaded.active = (state = "active")
==============================================================================
