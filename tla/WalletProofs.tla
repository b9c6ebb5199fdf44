----------------------------- MODULE WalletProofs -----------------------------
(* What the wallets of the web application's users sign: certificates for      *)
(* their deployments, and the transactions of a model's tokenization.  The two *)
(* parts do not depend on each other.                                          *)
EXTENDS Certificates, Tokenize, WellFoundedInduction, TLAPS

(* Certificates for any wallets, any number of certificates and any failures: *)
(* whose certificate the browser keeps for a wallet, and what a deployment    *)
(* sent without a new certificate relies on. Neither depends on what the page *)
(* shows, so the invariant says nothing of it: it ties the storage and the    *)
(* operation under way to the chain.                                          *)

(* The operation under way was started for one of the user's wallets.         *)
OpIsOwn == op # NoOp => op.by \in Wallets /\ op.kind # "none"

CertInv == CertTypeOK /\ OpIsOwn /\ StoredCertIsOwn /\ DeploysWithOwnCert

\* The records that stand for nothing are of their types.
LEMMA NoOpTypes == NoOp \in Op /\ NoLocalCert \in LocalCert
BY DEF Op, NoOp, NoLocalCert, LocalCert, AnyWallet

\* Nothing is stored or under way at first.
LEMMA CertInitInv == CertInit => CertInv
<1> SUFFICES ASSUME CertInit PROVE CertInv
  OBVIOUS
<1>1. chain \in [Certs -> ChainCert]
  BY DEF CertInit, ChainCert, AnyWallet
<1>2. faults \in 0..MaxFaults
  BY CertificatesAssumption DEF CertInit
<1>3. CertTypeOK
  BY <1>1, <1>2, NoOpTypes DEF CertInit, CertTypeOK, AnyWallet
<1>4. StoredCertIsOwn
  BY DEF CertInit, StoredCertIsOwn
<1>5. OpIsOwn /\ DeploysWithOwnCert
  BY DEF CertInit, OpIsOwn, DeploysWithOwnCert, NoOp
<1> QED BY <1>3, <1>4, <1>5 DEF CertInv

(* The certificate a transaction creates is one that was free.                *)
LEMMA NewCertIsFree ==
  ASSUME TxAccepted, op.createsCert
  PROVE  NewCert \in FreeCerts
<1>1. FreeCerts # {} /\ FreeCerts \subseteq Nat
  BY CertificatesAssumption DEF TxAccepted, FreeCerts, Certs
<1>2. \E c \in FreeCerts : \A d \in FreeCerts : c <= d
  <2> DEFINE Below == OpToRel(<, Nat)
  <2>1. PICK c \in FreeCerts : \A d \in FreeCerts : <<d, c>> \notin Below
    BY <1>1, NatLessThanWellFounded, WFMin
  <2>2. Below = {ss \in Nat \X Nat : ss[1] < ss[2]}
    BY Zenon DEF OpToRel
  <2> HIDE DEF Below
  <2>3. ASSUME NEW d \in FreeCerts PROVE c <= d
    <3>1. d \in Nat /\ c \in Nat /\ <<d, c>> \notin {ss \in Nat \X Nat : ss[1] < ss[2]}
      BY <1>1, <2>1, <2>2
    <3>2. ~(d < c)
      BY <3>1
    <3> QED BY <3>1, <3>2
  <2> QED BY <2>3
<1>3. Min(FreeCerts) \in FreeCerts
  BY <1>2 DEF Min
<1> QED BY <1>3 DEF NewCert

(* Whatever the page shows next, it stays within its types.                   *)
LEMMA ShowTypes ==
  ASSUME CertTypeOK, NEW v \in SUBSET Certs, NEW s \in Certs \cup {NoCert},
         NEW l \in LocalCert, Show(v, s, l)
  PROVE  /\ valid' \in SUBSET Certs /\ selection' \in Certs \cup {NoCert}
         /\ localCert' \in LocalCert
BY DEF Show, AutoSelected, LocalCert

\* What the storage gives the selected wallet is a certificate's key, or none.
LEMMA StoredLocalCertTypes ==
  ASSUME CertTypeOK
  PROVE  StoredLocalCert \in LocalCert
BY NoOpTypes DEF CertTypeOK, StoredLocalCert, LocalCert, AnyWallet

\* A failure is taken off the bound.
LEMMA FailTypes ==
  ASSUME CertTypeOK, Fail
  PROVE  faults' \in 0..MaxFaults
BY CertificatesAssumption DEF CertTypeOK, Fail

(* While chain, storage and operation stay, so does what ties them.           *)
LEMMA SamePromises ==
  ASSUME CertInv, UNCHANGED <<chain, stored, op>>
  PROVE  OpIsOwn' /\ StoredCertIsOwn' /\ DeploysWithOwnCert'
BY DEF CertInv, OpIsOwn, StoredCertIsOwn, DeploysWithOwnCert, ValidOf

(* Switching wallets, refreshing and the answers of requests in flight.       *)
LEMMA PageSteps ==
  ASSUME CertInv,
         \/ \E w \in AnyWallet : SwitchWallet(w)
         \/ Refresh
         \/ \E load \in loads : Loaded(load) \/ LoadFails(load)
  PROVE  CertInv'
<1>1. UNCHANGED <<chain, stored, op>>
  BY DEF SwitchWallet, Refresh, Loaded, LoadFails, storage
<1>2. CertTypeOK /\ \A w \in AnyWallet : ValidOf(w) \in SUBSET Certs
  BY DEF CertInv, ValidOf
<1>3. CertTypeOK'
  <2>1. CASE \E w \in AnyWallet : SwitchWallet(w)
    <3>1. PICK w \in AnyWallet : SwitchWallet(w)
      BY <2>1
    <3>2. LocalCertAfterSwitch(w) \in LocalCert
      BY <1>2, NoOpTypes, StoredLocalCertTypes DEF LocalCertAfterSwitch
    <3>3. /\ valid' \in SUBSET Certs /\ selection' \in Certs \cup {NoCert}
          /\ localCert' \in LocalCert
      BY <1>2, <3>1, <3>2, ShowTypes DEF SwitchWallet
    <3>4. loads' \subseteq Load /\ selected' \in AnyWallet
      <4>1. CASE w = NoWallet
        BY <1>2, <3>1, <4>1 DEF SwitchWallet, CertTypeOK
      <4>2. CASE w # NoWallet
        <5>1. [owner |-> w, answer |-> ValidOf(w)] \in Load
          BY <1>2, <4>2 DEF Load, AnyWallet
        <5> QED BY <1>2, <3>1, <4>2, <5>1 DEF SwitchWallet, CertTypeOK
      <4> QED BY <4>1, <4>2
    <3> QED BY <1>1, <1>2, <3>1, <3>3, <3>4 DEF SwitchWallet, CertTypeOK
  <2>2. CASE Refresh
    <3>1. [owner |-> address, answer |-> ValidOf(address)] \in Load
      BY <1>2, <2>2 DEF Refresh, Load, CertTypeOK, AnyWallet
    <3> QED BY <1>1, <1>2, <2>2, <3>1 DEF Refresh, CertTypeOK, page, storage
  <2>3. CASE \E load \in loads : Loaded(load)
    <3>1. PICK load \in loads : Loaded(load)
      BY <2>3
    <3>2. load \in Load
      BY <1>2 DEF CertTypeOK
    <3>3. PICK answer \in {load.answer, ValidOf(load.owner)} : Show(answer, selection, localCert)
      BY <3>1 DEF Loaded
    <3>4. answer \in SUBSET Certs
      BY <1>2, <3>2 DEF Load, AnyWallet
    <3>5. /\ valid' \in SUBSET Certs /\ selection' \in Certs \cup {NoCert}
          /\ localCert' \in LocalCert
      BY <1>2, <3>3, <3>4, ShowTypes DEF CertTypeOK
    <3> QED BY <1>1, <1>2, <3>1, <3>5 DEF Loaded, CertTypeOK, storage
  <2>4. CASE \E load \in loads : LoadFails(load)
    BY <1>1, <1>2, <2>4, FailTypes DEF LoadFails, CertTypeOK, page, storage
  <2> QED BY <2>1, <2>2, <2>3, <2>4
<1> QED BY <1>1, <1>3, SamePromises DEF CertInv

(* An operation starts; nobody but a deployment has promised anything, and    *)
(* that one only once it has its list.                                        *)
LEMMA StartInv ==
  ASSUME CertInv,
         NEW kind \in {"create", "regenerate", "revoke", "revokeAll", "deploy"},
         NEW at \in {"list", "tx"}, kind = "deploy" => at = "list",
         NEW revokes \in SUBSET Certs, Start(kind, at, revokes)
  PROVE  CertInv'
<1>1. CertTypeOK /\ address \in Wallets
  BY DEF CertInv, Start, CertTypeOK, AnyWallet
<1>2. op'.kind = kind /\ op'.at = at /\ op'.by = address
  BY DEF Start
<1>3. op' \in Op
  BY <1>1 DEF Start, Op, CertTypeOK, IsLocalCertMatching, AnyWallet
<1>4. CertTypeOK'
  BY <1>1, <1>3 DEF Start, CertTypeOK, page, storage
<1>5. OpIsOwn' /\ DeploysWithOwnCert'
  BY <1>1, <1>2 DEF OpIsOwn, DeploysWithOwnCert
<1>6. StoredCertIsOwn'
  BY DEF CertInv, StoredCertIsOwn, Start, storage
<1> QED BY <1>4, <1>5, <1>6 DEF CertInv

(* The transaction a deployment sends with its list.                          *)
LEMMA DeployWithOp ==
  ASSUME op \in Op, NEW answer \in SUBSET Certs, DeployWith(answer)
  PROVE  /\ op' \in Op
         /\ op'.kind = op.kind /\ op'.by = op.by /\ op'.revokes = op.revokes
         /\ op'.localCert = op.localCert /\ op'.matching = op.matching
         /\ op'.at = "tx" /\ op'.answer = answer /\ op'.createsCert = NeedsCert(answer)
<1> DEFINE sent == [op EXCEPT !.at = "tx", !.answer = answer]
           needs == NeedsCert(answer)
<1>1. needs \in BOOLEAN
  BY DEF NeedsCert
<1>2. /\ sent \in Op
      /\ sent.kind = op.kind /\ sent.by = op.by /\ sent.revokes = op.revokes
      /\ sent.localCert = op.localCert /\ sent.matching = op.matching
      /\ sent.at = "tx" /\ sent.answer = answer
  BY DEF Op
<1>3. op' = [sent EXCEPT !.createsCert = needs]
  BY DEF DeployWith
<1> HIDE DEF sent, needs
<1>4. /\ op' \in Op
      /\ op'.kind = sent.kind /\ op'.by = sent.by /\ op'.revokes = sent.revokes
      /\ op'.localCert = sent.localCert /\ op'.matching = sent.matching
      /\ op'.at = sent.at /\ op'.answer = sent.answer /\ op'.createsCert = needs
  BY <1>1, <1>2, <1>3 DEF Op
<1> QED BY <1>2, <1>4 DEF needs

(* A deployment without a new certificate: the list it has just loaded holds  *)
(* its local certificate, and that list is its wallet's.                      *)
LEMMA DeployListedInv ==
  ASSUME CertInv, DeployListed
  PROVE  CertInv'
<1>1. CertTypeOK /\ op # NoOp /\ op.by \in Wallets /\ op \in Op /\ op.kind = "deploy"
  BY DEF CertInv, DeployListed, OpIsOwn, NoOp, CertTypeOK
<1>2. UNCHANGED <<chain, stored, selected, address, loads>>
  BY DEF DeployListed, storage
<1>3. ValidOf(op.by) \in SUBSET Certs
  BY DEF ValidOf
<1>4. StoredCertIsOwn'
  BY <1>2 DEF CertInv, StoredCertIsOwn
<1>5. ASSUME NEW answer \in {ValidOf(op.by), {}}, DeployWith(answer)
      PROVE  op' \in Op /\ OpIsOwn' /\ DeploysWithOwnCert'
  <2>1. /\ op' \in Op /\ op'.kind = "deploy" /\ op'.by = op.by
        /\ op'.localCert = op.localCert /\ op'.createsCert = NeedsCert(answer)
    BY <1>1, <1>3, <1>5, DeployWithOp
  <2>2. ~NeedsCert(answer) => op.localCert.cert \in ValidOf(op.by)
    BY DEF NeedsCert
  <2>3. OpIsOwn'
    BY <1>1, <2>1 DEF OpIsOwn
  <2>4. DeploysWithOwnCert'
    BY <1>2, <2>1, <2>2 DEF DeploysWithOwnCert, ValidOf
  <2> QED BY <2>1, <2>3, <2>4
<1>6. CASE /\ Show(ValidOf(op.by), selection, localCert)
           /\ DeployWith(ValidOf(op.by))
           /\ UNCHANGED faults
  <2>1. /\ valid' \in SUBSET Certs /\ selection' \in Certs \cup {NoCert}
        /\ localCert' \in LocalCert
    BY <1>1, <1>3, <1>6, ShowTypes DEF CertTypeOK
  <2>2. op' \in Op /\ OpIsOwn' /\ DeploysWithOwnCert'
    BY <1>5, <1>6
  <2>3. CertTypeOK'
    BY <1>1, <1>2, <1>6, <2>1, <2>2 DEF CertTypeOK
  <2> QED BY <1>4, <2>2, <2>3 DEF CertInv
<1>7. CASE Fail /\ DeployWith({}) /\ UNCHANGED <<valid, selection, localCert>>
  <2>1. op' \in Op /\ OpIsOwn' /\ DeploysWithOwnCert'
    BY <1>5, <1>7
  <2>2. CertTypeOK'
    BY <1>1, <1>2, <1>7, <2>1, FailTypes DEF CertTypeOK
  <2> QED BY <1>4, <2>1, <2>2 DEF CertInv
<1>8. CASE op' = NoOp /\ UNCHANGED <<valid, selection, localCert, faults>>
  <2>1. OpIsOwn' /\ DeploysWithOwnCert'
    BY <1>8 DEF OpIsOwn, DeploysWithOwnCert, NoOp
  <2>2. CertTypeOK'
    BY <1>1, <1>2, <1>8, NoOpTypes DEF CertTypeOK
  <2> QED BY <1>4, <2>1, <2>2 DEF CertInv
<1> QED BY <1>6, <1>7, <1>8 DEF DeployListed

(* The chain takes a transaction: certificates keep their owners, what was    *)
(* created stays so, and a new certificate is the sender's.                   *)
LEMMA ChainAfterTxKeeps ==
  ASSUME CertInv, op # NoOp, TxAccepted
  PROVE  /\ ChainAfterTx \in [Certs -> ChainCert]
         /\ \A c \in Certs : chain[c].state # "none" =>
              /\ ChainAfterTx[c].owner = chain[c].owner
              /\ ChainAfterTx[c].state # "none"
         /\ NewCert \in Certs \cup {NoCert}
         /\ NewCert \in Certs => ChainAfterTx[NewCert] = [owner |-> op.by, state |-> "valid"]
<1>1. chain \in [Certs -> ChainCert] /\ op.by \in AnyWallet
  BY DEF CertInv, CertTypeOK, OpIsOwn, AnyWallet
<1>2. NewCert \in FreeCerts \cup {NoCert}
  BY NewCertIsFree DEF NewCert
<1>3. NewCert \in Certs \cup {NoCert}
  BY <1>2 DEF FreeCerts
<1>4. \A c \in Certs :
        ChainAfterTx[c] = IF c = NewCert THEN [owner |-> op.by, state |-> "valid"]
                          ELSE IF c \in op.revokes THEN [chain[c] EXCEPT !.state = "revoked"]
                          ELSE chain[c]
  BY Zenon DEF ChainAfterTx
<1>5. ASSUME NEW c \in Certs
      PROVE  /\ ChainAfterTx[c] \in ChainCert
             /\ chain[c].state # "none" =>
                  /\ ChainAfterTx[c].owner = chain[c].owner
                  /\ ChainAfterTx[c].state # "none"
  <2>1. CASE c = NewCert
    <3>1. chain[c].state = "none" \/ c = NoCert
      BY <1>2, <2>1 DEF FreeCerts
    <3>2. c # NoCert
      BY CertificatesAssumption DEF Certs, NoCert
    <3>3. ChainAfterTx[c] = [owner |-> op.by, state |-> "valid"]
      BY <1>4, <2>1
    <3>4. ChainAfterTx[c] \in ChainCert
      BY <1>1, <3>3 DEF ChainCert
    <3> QED BY <3>1, <3>2, <3>4
  <2>2. CASE c # NewCert
    BY <1>1, <1>4, <2>2 DEF ChainCert
  <2> QED BY <2>1, <2>2
<1>6. ChainAfterTx \in [Certs -> ChainCert]
  <2>1. ChainAfterTx = [c \in Certs |-> ChainAfterTx[c]]
    BY Zenon DEF ChainAfterTx
  <2> QED BY <1>5, <2>1
<1> QED BY <1>3, <1>4, <1>5, <1>6

\* A transaction that is confirmed: a new certificate's key is stored for the
\* wallet it was made for.
LEMMA TxSucceedsInv ==
  ASSUME CertInv, TxSucceeds, op # NoOp
  PROVE  CertInv'
<1>1. /\ CertTypeOK /\ op \in Op /\ op.by \in Wallets /\ TxAccepted
      /\ chain' = ChainAfterTx
      /\ UNCHANGED <<selected, address, valid, selection, localCert, loads, faults>>
  BY DEF CertInv, OpIsOwn, CertTypeOK, TxSucceeds, page
<1>2. /\ chain' \in [Certs -> ChainCert]
      /\ \A c \in Certs : chain[c].state # "none" =>
           chain'[c].owner = chain[c].owner /\ chain'[c].state # "none"
      /\ NewCert \in Certs \cup {NoCert}
      /\ NewCert \in Certs => chain'[NewCert] = [owner |-> op.by, state |-> "valid"]
  BY <1>1, ChainAfterTxKeeps
<1>3. stored' \in [Wallets -> Certs \cup {NoCert}] /\ StoredCertIsOwn'
  <2>1. \A w \in Wallets :
          stored'[w] = stored[w] \/ (w = op.by /\ stored'[w] = NewCert)
    BY <1>1 DEF TxSucceeds, StoreNewCert, CertTypeOK
  <2>2. stored' \in [Wallets -> Certs \cup {NoCert}]
    BY <1>1, <1>2 DEF TxSucceeds, StoreNewCert, CertTypeOK
  <2> SUFFICES ASSUME NEW w \in Wallets, stored'[w] # NoCert
               PROVE  chain'[stored'[w]].owner = w /\ chain'[stored'[w]].state # "none"
    BY <2>2 DEF StoredCertIsOwn
  <2>3. CASE stored'[w] = stored[w]
    <3>1. stored[w] \in Certs /\ chain[stored[w]].owner = w /\ chain[stored[w]].state # "none"
      BY <1>1, <2>3 DEF CertInv, StoredCertIsOwn, CertTypeOK
    <3> QED BY <1>2, <2>3, <3>1
  <2>4. CASE w = op.by /\ stored'[w] = NewCert
    BY <1>2, <2>4
  <2> QED BY <2>1, <2>3, <2>4
<1>4. op' \in Op /\ OpIsOwn' /\ DeploysWithOwnCert'
  <2>1. CASE op' = NoOp
    BY <2>1, NoOpTypes DEF OpIsOwn, DeploysWithOwnCert, NoOp
  <2>2. CASE op' = [op EXCEPT !.at = "reload", !.cert = NewCert]
    <3> DEFINE reloads == [op EXCEPT !.at = "reload"]
    <3>1. /\ reloads \in Op /\ reloads.by = op.by /\ reloads.at = "reload"
          /\ reloads.kind = op.kind
      BY <1>1 DEF Op
    <3>2. op' = [reloads EXCEPT !.cert = NewCert]
      BY <2>2
    <3> HIDE DEF reloads
    <3>3. op' \in Op /\ op'.by = op.by /\ op'.at = "reload" /\ op'.kind = op.kind
      BY <1>2, <3>1, <3>2 DEF Op
    <3> QED BY <1>1, <3>3 DEF CertInv, OpIsOwn, DeploysWithOwnCert
  <2> QED BY <2>1, <2>2 DEF TxSucceeds
<1> QED BY <1>1, <1>2, <1>3, <1>4 DEF CertInv, CertTypeOK

\* A transaction reported as failed although it was committed: the chain alone
\* changes.
LEMMA TxUnconfirmedInv ==
  ASSUME CertInv, TxUnconfirmed, op # NoOp
  PROVE  CertInv'
<1>1. /\ CertTypeOK /\ TxAccepted /\ chain' = ChainAfterTx /\ op' = NoOp /\ Fail
      /\ UNCHANGED <<stored, selected, address, valid, selection, localCert, loads>>
  BY DEF CertInv, CertTypeOK, TxUnconfirmed, page, storage
<1>2. /\ chain' \in [Certs -> ChainCert]
      /\ \A c \in Certs : chain[c].state # "none" =>
           chain'[c].owner = chain[c].owner /\ chain'[c].state # "none"
  BY <1>1, ChainAfterTxKeeps
<1>3. CertTypeOK'
  BY <1>1, <1>2, FailTypes, NoOpTypes DEF CertTypeOK
<1>4. StoredCertIsOwn'
  BY <1>1, <1>2 DEF CertInv, StoredCertIsOwn, CertTypeOK
<1>5. OpIsOwn' /\ DeploysWithOwnCert'
  BY <1>1 DEF OpIsOwn, DeploysWithOwnCert, NoOp
<1> QED BY <1>3, <1>4, <1>5 DEF CertInv

\* A transaction that fails leaves everything but the operation alone.
LEMMA TxFailsInv ==
  ASSUME CertInv, TxFails
  PROVE  CertInv'
<1>1. op' = NoOp /\ UNCHANGED <<chain, storage, page, loads, faults>>
  BY DEF TxFails
<1>2. CertTypeOK'
  BY <1>1, NoOpTypes DEF CertInv, CertTypeOK, page, storage
<1>3. StoredCertIsOwn'
  BY <1>1 DEF CertInv, StoredCertIsOwn, storage
<1>4. OpIsOwn' /\ DeploysWithOwnCert'
  BY <1>1 DEF OpIsOwn, DeploysWithOwnCert, NoOp
<1> QED BY <1>2, <1>3, <1>4 DEF CertInv

(* The list loaded again changes the page, and at most forgets a certificate. *)
LEMMA ReloadInv ==
  ASSUME CertInv, Reload, op # NoOp
  PROVE  CertInv'
<1>1. CertTypeOK /\ op \in Op /\ op.by \in Wallets
  BY DEF CertInv, OpIsOwn, CertTypeOK
<1>2. op' = NoOp /\ UNCHANGED <<chain, selected, address, loads>>
  BY DEF Reload
<1>3. PICK list \in SUBSET Certs, answer \in SUBSET Certs :
        Reloaded(list, answer) /\ (UNCHANGED faults \/ Fail)
  <2>1. ValidOf(op.by) \in SUBSET Certs /\ valid \in SUBSET Certs
    BY <1>1 DEF ValidOf, CertTypeOK
  <2> QED BY <2>1 DEF Reload
<1>4. faults' \in 0..MaxFaults
  BY <1>1, <1>3, FailTypes DEF CertTypeOK
<1>5. /\ valid' \in SUBSET Certs /\ selection' \in Certs \cup {NoCert}
      /\ localCert' \in LocalCert
      /\ stored' = stored \/ stored' = [stored EXCEPT ![op.by] = NoCert]
  <2>1. CASE op.kind \in {"create", "regenerate", "deploy"}
    <3>1. ReloadedCreate(list, answer)
      BY <1>3, <2>1 DEF Reloaded
    <3> DEFINE s == IF op.cert \in answer THEN op.cert ELSE NoCert
    <3>2. s \in Certs \cup {NoCert} /\ StoredLocalCert \in LocalCert
      BY <1>1, <1>3, StoredLocalCertTypes
    <3>3. Show(list, s, StoredLocalCert) /\ stored' = stored
      BY <3>1 DEF ReloadedCreate
    <3> QED BY <1>1, <3>2, <3>3, ShowTypes
  <2>2. CASE op.kind = "revoke"
    <3>1. ReloadedRevoke(list, answer)
      BY <1>3, <2>2 DEF Reloaded
    <3>2. PICK s \in Certs \cup {NoCert} : Show(list, s, localCert)
      BY <1>1, <3>1 DEF ReloadedRevoke, CertTypeOK
    <3>3. stored' = stored \/ stored' = [stored EXCEPT ![op.by] = NoCert]
      BY <3>1 DEF ReloadedRevoke
    <3> QED BY <1>1, <3>2, <3>3, ShowTypes DEF CertTypeOK
  <2>3. CASE op.kind = "revokeAll"
    <3>1. Show(list, NoCert, localCert) /\ stored' = [stored EXCEPT ![op.by] = NoCert]
      BY <1>3, <2>3 DEF Reloaded, ReloadedRevokeAll
    <3> QED BY <1>1, <3>1, ShowTypes DEF CertTypeOK
  <2>4. op.kind # "none"
    BY DEF CertInv, OpIsOwn
  <2> QED BY <1>1, <2>1, <2>2, <2>3, <2>4 DEF Op
<1>6. stored' \in [Wallets -> Certs \cup {NoCert}] /\ StoredCertIsOwn'
  BY <1>1, <1>2, <1>5 DEF CertInv, StoredCertIsOwn, CertTypeOK
<1>7. CertTypeOK'
  BY <1>1, <1>2, <1>4, <1>5, <1>6, NoOpTypes DEF CertTypeOK
<1>8. OpIsOwn' /\ DeploysWithOwnCert'
  BY <1>2 DEF OpIsOwn, DeploysWithOwnCert, NoOp
<1> QED BY <1>6, <1>7, <1>8 DEF CertInv

\* Every step keeps the invariant.
LEMMA StepInv ==
  ASSUME CertInv, CertNext
  PROVE  CertInv'
<1>1. op.at \in {"tx", "reload"} => op # NoOp
  BY DEF NoOp
<1>2. CASE CreateCertificate \/ RegenerateCertificate \/ RevokeCertificate
            \/ RevokeAllCertificates \/ CreateDeployment
  <2>1. valid \in SUBSET Certs /\ selection \in Certs \cup {NoCert}
    BY DEF CertInv, CertTypeOK
  <2>2. CASE CreateCertificate
    BY <2>2, StartInv DEF CreateCertificate
  <2>3. CASE RegenerateCertificate
    BY <2>1, <2>3, StartInv DEF RegenerateCertificate
  <2>4. CASE RevokeCertificate
    BY <2>1, <2>4, StartInv DEF RevokeCertificate
  <2>5. CASE RevokeAllCertificates
    BY <2>1, <2>5, StartInv DEF RevokeAllCertificates
  <2>6. CASE CreateDeployment
    BY <2>6, StartInv DEF CreateDeployment
  <2> QED BY <1>2, <2>2, <2>3, <2>4, <2>5, <2>6
<1>3. CASE DeployListed
  BY <1>3, DeployListedInv
<1>4. CASE TxSucceeds
  BY <1>1, <1>4, TxSucceedsInv DEF TxSucceeds
<1>5. CASE TxUnconfirmed
  BY <1>1, <1>5, TxUnconfirmedInv DEF TxUnconfirmed
<1>6. CASE TxFails
  BY <1>6, TxFailsInv
<1>7. CASE Reload
  BY <1>1, <1>7, ReloadInv DEF Reload
<1> QED BY <1>2, <1>3, <1>4, <1>5, <1>6, <1>7, PageSteps DEF CertNext

\* The invariant holds in every reachable state.
LEMMA CertSpecInv == CertSpec => []CertInv
<1>1. CertInv /\ [CertNext]_certVars => CertInv'
  <2> SUFFICES ASSUME CertInv, [CertNext]_certVars PROVE CertInv'
    OBVIOUS
  <2>1. CASE CertNext
    BY <2>1, StepInv
  <2>2. CASE UNCHANGED certVars
    BY <2>2 DEF certVars, page, storage, CertInv, CertTypeOK, OpIsOwn, StoredCertIsOwn,
                DeploysWithOwnCert, ValidOf
  <2> QED BY <2>1, <2>2
<1> QED BY <1>1, CertInitInv, PTL DEF CertSpec

(* Types of the chain, the browser's storage, the page, the requests and the  *)
(* operation (CertificateProviderContext.tsx:63-73).                          *)
THEOREM CertTypesHold == CertSpec => []CertTypeOK
<1>1. CertInv => CertTypeOK
  BY DEF CertInv
<1> QED BY <1>1, CertSpecInv, PTL

(* However often the user switches wallets while transactions and requests    *)
(* are under way, the browser keeps no wallet's certificate for another one   *)
(* (updateWallet(address, ...), CertificateProviderContext.tsx:186, 224).     *)
THEOREM StoredCertsAreOwn == CertSpec => []StoredCertIsOwn
<1>1. CertInv => StoredCertIsOwn
  BY DEF CertInv
<1> QED BY <1>1, CertSpecInv, PTL

(* A deployment sent without a new certificate has a valid one of its wallet, *)
(* whatever list and local certificate the page showed (ManifestEdit.tsx).    *)
THEOREM DeploymentsHaveCerts == CertSpec => []DeploysWithOwnCert
<1>1. CertInv => DeploysWithOwnCert
  BY DEF CertInv
<1> QED BY <1>1, CertSpecInv, PTL

(* What an operation keeps of the page it was started from: a certificate is  *)
(* asked for where the local one does not match, a deployment's own list is   *)
(* all there was unless it failed, and what a confirmed transaction revokes    *)
(* is revoked.                                                                 *)
OpRemembers ==
  /\ op.kind = "create" => ~op.matching
  /\ op.kind = "regenerate" => op.revokes = {op.localCert.cert}
  /\ op.kind \in {"revoke", "revokeAll"} => ~op.createsCert
  /\ op.kind = "deploy" /\ op.at = "tx" =>
       /\ op.createsCert = NeedsCert(op.answer)
       /\ op.answer \in {{}, ValidOf(op.by)}
  /\ op.at = "reload" => \A c \in op.revokes : chain[c].state = "revoked"

(* A local certificate is what the storage holds for its wallet, unless it     *)
(* holds nothing any more.                                                     *)
IsStored(local) ==
  local.address \in Wallets /\ stored[local.address] # NoCert
    => local.cert = stored[local.address]

(* Only a certificate stored a moment ago is not yet the page's local one.     *)
LocalIsStored ==
  \/ op.at = "reload" /\ op.createsCert
  \/ IsStored(localCert) /\ (op # NoOp => IsStored(op.localCert))

(* Nor is it another wallet's whose local certificate the page shows.          *)
OtherLocalIsStored == localCert.address # op.by => IsStored(localCert)

KeyInv == OpRemembers /\ LocalIsStored /\ OtherLocalIsStored

\* What the page reads from the storage is stored.
LEMMA StoredLocalCertIsStored ==
  IsStored(StoredLocalCert) /\ IsStored(NoLocalCert)
BY CertificatesAssumption DEF IsStored, StoredLocalCert, NoLocalCert

\* The operation that is reloading after a new certificate reads it.
LEMMA TxOp ==
  ASSUME CertInv, TxSucceeds
  PROVE  \/ op' = NoOp /\ op.kind = "deploy" /\ ~op.createsCert
         \/ /\ op'.at = "reload" /\ op'.kind = op.kind /\ op'.by = op.by
            /\ op'.revokes = op.revokes /\ op'.createsCert = op.createsCert
            /\ op'.localCert = op.localCert /\ op'.matching = op.matching
            /\ op' # NoOp
<1>1. CASE op' = [op EXCEPT !.at = "reload", !.cert = NewCert]
  BY <1>1 DEF CertInv, CertTypeOK, Op, NoOp
<1> QED BY <1>1 DEF TxSucceeds

\* A certificate of the chain is not the new one.
LEMMA KnownCerts ==
  ASSUME CertInv, TxAccepted, NEW c \in Certs, chain[c].state # "none"
  PROVE  /\ c \in op.revokes => ChainAfterTx[c].state = "revoked"
         /\ c \notin op.revokes => ChainAfterTx[c] = chain[c]
<1>1. NewCert \in FreeCerts \cup {NoCert}
  BY NewCertIsFree DEF NewCert
<1>2. c # NewCert
  BY <1>1, CertificatesAssumption DEF FreeCerts, Certs, NoCert
<1>3. ChainAfterTx[c] = IF c \in op.revokes THEN [chain[c] EXCEPT !.state = "revoked"]
                        ELSE chain[c]
  BY <1>2 DEF ChainAfterTx
<1>4. chain[c] \in ChainCert
  BY DEF CertInv, CertTypeOK
<1> QED BY <1>3, <1>4 DEF ChainCert

\* An operation goes on remembering the page it was started from.
LEMMA OpRemembersStep ==
  ASSUME CertInv, KeyInv, CertNext
  PROVE  OpRemembers'
<1>1. CASE TxSucceeds
  <2>1. CASE op' = NoOp
    BY <2>1 DEF OpRemembers, NoOp
  <2>2. CASE op' # NoOp
    <3>1. /\ op'.at = "reload" /\ op'.kind = op.kind /\ op'.revokes = op.revokes
          /\ op'.createsCert = op.createsCert /\ op'.localCert = op.localCert
          /\ op'.matching = op.matching
      BY <1>1, <2>2, TxOp
    <3>2. op.revokes \subseteq ValidOf(op.by) /\ chain' = ChainAfterTx /\ TxAccepted
      BY <1>1 DEF TxSucceeds, TxAccepted
    <3>3. ASSUME NEW c \in op.revokes PROVE chain'[c].state = "revoked"
      <4>1. c \in Certs /\ chain[c].state = "valid"
        BY <3>2 DEF ValidOf
      <4> QED BY <3>2, <3>3, <4>1, KnownCerts
    <3> QED BY <3>1, <3>3 DEF KeyInv, OpRemembers
  <2> QED BY <2>1, <2>2
<1>2. CASE \/ CreateCertificate \/ RegenerateCertificate \/ RevokeCertificate
           \/ RevokeAllCertificates \/ CreateDeployment
  <2>1. ASSUME NEW kind, NEW at, NEW revokes, Start(kind, at, revokes)
        PROVE  /\ op'.kind = kind /\ op'.at = at /\ op'.revokes = revokes
               /\ kind \notin {"create", "regenerate"} => ~op'.createsCert
               /\ op'.localCert = localCert /\ op'.matching = IsLocalCertMatching
    BY <2>1 DEF Start
  <2>2. CASE CreateCertificate
    <3>1. ~IsLocalCertMatching /\ Start("create", "tx", {})
      BY <2>2 DEF CreateCertificate
    <3> QED BY <2>1, <3>1 DEF OpRemembers
  <2>3. CASE RegenerateCertificate
    <3>1. selection = localCert.cert /\ Start("regenerate", "tx", {selection})
      BY <2>3 DEF RegenerateCertificate
    <3> QED BY <2>1, <3>1 DEF OpRemembers
  <2>4. CASE RevokeCertificate
    <3>1. PICK c \in valid \cup ({selection} \ {NoCert}) : Start("revoke", "tx", {c})
      BY <2>4 DEF RevokeCertificate
    <3>2. op'.kind = "revoke" /\ op'.at = "tx" /\ ~op'.createsCert
      BY <2>1, <3>1
    <3> QED BY <3>2 DEF OpRemembers
  <2>5. CASE RevokeAllCertificates
    <3>1. Start("revokeAll", "tx", valid)
      BY <2>5 DEF RevokeAllCertificates
    <3>2. op'.kind = "revokeAll" /\ op'.at = "tx" /\ ~op'.createsCert
      BY <2>1, <3>1
    <3> QED BY <3>2 DEF OpRemembers
  <2>6. CASE CreateDeployment
    <3>1. Start("deploy", "list", {})
      BY <2>6 DEF CreateDeployment
    <3> QED BY <2>1, <3>1 DEF OpRemembers
  <2> QED BY <1>2, <2>2, <2>3, <2>4, <2>5, <2>6
<1>3. CASE DeployListed
  <2>1. CASE op' = NoOp
    BY <2>1 DEF OpRemembers, NoOp
  <2>2. ASSUME NEW answer \in {{}, ValidOf(op.by)}, DeployWith(answer)
        PROVE  OpRemembers'
    <3>1. answer \in SUBSET Certs /\ op \in Op /\ op.kind = "deploy" /\ chain' = chain
      BY <1>3 DEF CertInv, CertTypeOK, ValidOf, DeployListed
    <3>2. /\ op'.kind = "deploy" /\ op'.by = op.by /\ op'.at = "tx"
          /\ op'.localCert = op.localCert /\ op'.matching = op.matching
          /\ op'.answer = answer /\ op'.createsCert = NeedsCert(answer)
      BY <2>2, <3>1, DeployWithOp
    <3> QED BY <3>1, <3>2 DEF OpRemembers, NeedsCert, ValidOf
  <2> QED BY <1>3, <2>1, <2>2 DEF DeployListed
<1>4. CASE TxUnconfirmed \/ TxFails \/ Reload
  <2>1. op' = NoOp
    BY <1>4 DEF TxUnconfirmed, TxFails, Reload
  <2> QED BY <2>1 DEF OpRemembers, NoOp
<1>5. CASE \/ \E w \in AnyWallet : SwitchWallet(w)
           \/ Refresh
           \/ \E load \in loads : Loaded(load) \/ LoadFails(load)
  <2>1. UNCHANGED <<op, chain>>
    BY <1>5 DEF SwitchWallet, Refresh, Loaded, LoadFails
  <2> QED BY <2>1 DEF KeyInv, OpRemembers, NeedsCert, ValidOf
<1> QED BY <1>1, <1>2, <1>3, <1>4, <1>5 DEF CertNext

\* The page's local certificate stays the stored one.
LEMMA LocalIsStoredStep ==
  ASSUME CertInv, KeyInv, CertNext
  PROVE  LocalIsStored' /\ OtherLocalIsStored'
<1>1. op.at \in {"list", "tx"} => IsStored(localCert) /\ (op # NoOp => IsStored(op.localCert))
  BY DEF KeyInv, LocalIsStored
<1>2. CASE \/ \E w \in AnyWallet : SwitchWallet(w)
           \/ Refresh
           \/ \E load \in loads : Loaded(load) \/ LoadFails(load)
  <2>1. UNCHANGED <<op, stored>>
    BY <1>2 DEF SwitchWallet, Refresh, Loaded, LoadFails, storage
  <2>2. \/ localCert' = localCert
        \/ IsStored(localCert)' 
    <3>1. ASSUME NEW w \in AnyWallet, SwitchWallet(w) PROVE IsStored(localCert)'
      <4>1. localCert' \in {NoLocalCert, StoredLocalCert}
        BY <3>1 DEF SwitchWallet, Show, LocalCertAfterSwitch
      <4>2. \A l \in {NoLocalCert, StoredLocalCert} : IsStored(l)
        BY StoredLocalCertIsStored
      <4> QED BY <2>1, <4>1, <4>2 DEF IsStored
    <3>2. ASSUME Refresh \/ \E load \in loads : Loaded(load) \/ LoadFails(load)
          PROVE  localCert' = localCert
      BY <3>2 DEF Refresh, Loaded, LoadFails, Show, page
    <3> QED BY <1>2, <3>1, <3>2
  <2> QED BY <2>1, <2>2 DEF KeyInv, LocalIsStored, OtherLocalIsStored, IsStored
<1>3. CASE \/ CreateCertificate \/ RegenerateCertificate \/ RevokeCertificate
           \/ RevokeAllCertificates \/ CreateDeployment
  <2>1. ASSUME NEW kind, NEW at, NEW revokes, Start(kind, at, revokes)
        PROVE  LocalIsStored' /\ OtherLocalIsStored'
    <3>1. /\ op = NoOp /\ op'.localCert = localCert
          /\ UNCHANGED <<stored, localCert>>
      BY <2>1 DEF Start, storage, page
    <3>2. IsStored(localCert)
      BY <1>1, <3>1 DEF NoOp
    <3> QED BY <3>1, <3>2 DEF LocalIsStored, OtherLocalIsStored, IsStored
  <2> QED BY <1>3, <2>1 DEF CreateCertificate, RegenerateCertificate,
             RevokeCertificate, RevokeAllCertificates, CreateDeployment
<1>4. CASE DeployListed
  <2>1. /\ op.at = "list" /\ op # NoOp /\ UNCHANGED <<stored, localCert>> /\ op \in Op
    BY <1>4 DEF DeployListed, storage, Show, NoOp, CertInv, CertTypeOK
  <2>2. op' = NoOp \/ op'.localCert = op.localCert
    <3>1. ASSUME NEW answer \in {{}, ValidOf(op.by)}, DeployWith(answer)
          PROVE  op'.localCert = op.localCert
      <4>1. answer \in SUBSET Certs
        BY DEF ValidOf
      <4> QED BY <2>1, <3>1, <4>1, DeployWithOp
    <3> QED BY <1>4, <3>1 DEF DeployListed
  <2> QED BY <1>1, <2>1, <2>2 DEF LocalIsStored, OtherLocalIsStored, IsStored
<1>5. CASE TxSucceeds
  <2>1. op.at = "tx" /\ op # NoOp /\ localCert' = localCert /\ stored \in [Wallets -> Certs \cup {NoCert}]
    BY <1>5 DEF TxSucceeds, NoOp, page, CertInv, CertTypeOK
  <2>2. CASE op.createsCert
    <3>1. op'.at = "reload" /\ op'.createsCert /\ op'.by = op.by
      BY <1>5, <2>2, TxOp
    <3>2. ASSUME localCert.address # op.by PROVE IsStored(localCert)'
      <4>1. localCert.address \in Wallets => stored'[localCert.address] = stored[localCert.address]
        BY <1>5, <2>1, <2>2, <3>2 DEF TxSucceeds, StoreNewCert
      <4> QED BY <1>1, <2>1, <4>1 DEF IsStored
    <3> QED BY <2>1, <3>1, <3>2 DEF LocalIsStored, OtherLocalIsStored
  <2>3. CASE ~op.createsCert
    <3>1. stored' = stored
      BY <1>5, <2>3 DEF TxSucceeds
    <3>2. op' = NoOp \/ op'.localCert = op.localCert
      BY <1>5, TxOp
    <3> QED BY <1>1, <2>1, <3>1, <3>2 DEF LocalIsStored, OtherLocalIsStored, IsStored
  <2> QED BY <2>2, <2>3
<1>6. CASE TxUnconfirmed \/ TxFails
  <2>1. op.at = "tx" /\ op' = NoOp /\ UNCHANGED <<stored, localCert>>
    BY <1>6 DEF TxUnconfirmed, TxFails, storage, page
  <2> QED BY <1>1, <2>1 DEF LocalIsStored, OtherLocalIsStored, IsStored
<1>7. CASE Reload
  <2>1. /\ op.at = "reload" /\ op' = NoOp /\ selected' = selected
        /\ \E list, answer : Reloaded(list, answer)
    BY <1>7 DEF Reload
  <2>2. PICK list, answer : Reloaded(list, answer)
    BY <2>1
  <2>3. op.kind \in {"create", "regenerate", "deploy", "revoke", "revokeAll"}
    BY <2>1 DEF CertInv, CertTypeOK, OpIsOwn, Op, NoOp
  <2>4. IsStored(localCert)'
    <3>1. CASE op.kind \in {"create", "regenerate", "deploy"}
      <4>1. localCert' = StoredLocalCert /\ stored' = stored
        BY <2>2, <3>1 DEF Reloaded, ReloadedCreate, Show
      <4> QED BY <4>1, StoredLocalCertIsStored DEF IsStored
    <3>2. CASE op.kind \in {"revoke", "revokeAll"}
      <4>1. localCert' = localCert
        BY <2>2, <3>2 DEF Reloaded, ReloadedRevoke, ReloadedRevokeAll, Show
      <4>2. stored' \in {stored, [stored EXCEPT ![op.by] = NoCert]}
        BY <2>2, <3>2 DEF Reloaded, ReloadedRevoke, ReloadedRevokeAll
      <4>3. IsStored(localCert)
        BY <3>2 DEF KeyInv, OpRemembers, LocalIsStored
      <4>4. stored \in [Wallets -> Certs \cup {NoCert}]
        BY DEF CertInv, CertTypeOK
      <4> QED BY <4>1, <4>2, <4>3, <4>4 DEF IsStored
    <3> QED BY <2>3, <3>1, <3>2
  <2> QED BY <2>1, <2>4 DEF LocalIsStored, OtherLocalIsStored
<1> QED BY <1>2, <1>3, <1>4, <1>5, <1>6, <1>7 DEF CertNext

\* A stored key that is emptied or replaced is of a revoked certificate, or of
\* one the operation had no reason to take for the wallet's key.
LEMMA KeyStep ==
  ASSUME CertInv, KeyInv, CertNext, NEW w \in Wallets,
         stored[w] # NoCert, stored'[w] # stored[w]
  PROVE  chain'[stored[w]].state = "revoked" \/ KeyGivenUp(w)
<1>1. /\ CertTypeOK /\ stored[w] \in Certs /\ chain[stored[w]] \in ChainCert
      /\ chain[stored[w]].owner = w /\ chain[stored[w]].state \in {"valid", "revoked"}
  BY DEF CertInv, CertTypeOK, StoredCertIsOwn, ChainCert
<1>2. stored[w] \notin ValidOf(w) => chain[stored[w]].state = "revoked"
  <2>1. ASSUME chain[stored[w]].state = "valid" PROVE chain[stored[w]] = [owner |-> w, state |-> "valid"]
    BY <1>1, <2>1 DEF ChainCert
  <2> QED BY <1>1, <2>1 DEF ValidOf
<1>3. op.kind \in {"none", "create", "regenerate", "revoke", "revokeAll", "deploy"}
  BY <1>1 DEF CertTypeOK, Op
<1>4. CASE TxSucceeds
  <2>1. op.createsCert /\ op.by = w /\ op # NoOp /\ op.at = "tx"
    BY <1>1, <1>4 DEF TxSucceeds, StoreNewCert, CertTypeOK, NoOp
  <2>2. TxAccepted /\ chain' = ChainAfterTx
    BY <1>4 DEF TxSucceeds
  <2>3. chain[stored[w]].state = "revoked" => chain'[stored[w]].state = "revoked"
    BY <1>1, <2>2, KnownCerts
  <2>4. ASSUME op.localCert.address = w PROVE op.localCert.cert = stored[w]
    BY <2>1, <2>4 DEF KeyInv, LocalIsStored, IsStored
  <2>5. CASE op.kind = "regenerate" /\ op.localCert.address = w
    <3>1. stored[w] \in op.revokes
      BY <2>4, <2>5 DEF KeyInv, OpRemembers
    <3> QED BY <1>1, <2>2, <3>1, KnownCerts
  <2>6. CASE op.kind = "deploy" /\ op.localCert.address = w
    <3>1. ~(op.localCert.cert \in op.answer /\ op.matching) /\ op.answer \in {{}, ValidOf(w)}
      BY <2>1, <2>6 DEF KeyInv, OpRemembers, NeedsCert
    <3>2. CASE op.matching /\ op.answer = ValidOf(w)
      BY <1>2, <2>3, <2>4, <2>6, <3>1, <3>2
    <3> QED BY <2>6, <3>1, <3>2 DEF KeyGivenUp
  <2>7. CASE op.kind = "create"
    BY <2>7 DEF KeyInv, OpRemembers, KeyGivenUp
  <2>8. op.kind \notin {"none", "revoke", "revokeAll"}
    BY <2>1 DEF KeyInv, OpRemembers, CertInv, OpIsOwn
  <2> QED BY <1>3, <2>5, <2>6, <2>7, <2>8 DEF KeyGivenUp
<1>5. CASE Reload
  <2>1. op.at = "reload" /\ chain' = chain /\ op # NoOp
    BY <1>5 DEF Reload, NoOp
  <2>2. PICK list, answer : /\ Reloaded(list, answer)
                           /\ (answer = ValidOf(op.by) \/ Fail)
    BY <1>5 DEF Reload
  <2>3. CASE op.kind \in {"create", "regenerate", "deploy"}
    BY <2>2, <2>3 DEF Reloaded, ReloadedCreate
  <2>4. CASE op.kind = "revoke" /\ op.localCert.address = w
    <3>1. stored' = [stored EXCEPT ![op.by] = NoCert] /\ op.localCert.cert \notin answer
      BY <2>2, <2>4 DEF Reloaded, ReloadedRevoke, RevokesOther
    <3>2. op.by = w
      BY <1>1, <3>1 DEF CertTypeOK
    <3>3. op.localCert.cert = stored[w]
      BY <2>1, <2>4 DEF KeyInv, OpRemembers, LocalIsStored, IsStored
    <3>4. CASE answer = ValidOf(op.by)
      BY <1>2, <2>1, <3>1, <3>2, <3>3, <3>4
    <3>5. CASE Fail
      BY <1>1, <2>4, <3>5 DEF Fail, CertTypeOK, KeyGivenUp
    <3> QED BY <2>2, <3>4, <3>5
  <2>5. CASE op.kind = "revokeAll"
    BY <2>1, <2>5 DEF KeyInv, OpRemembers, KeyGivenUp
  <2>6. op.kind # "none"
    BY <2>1 DEF CertInv, OpIsOwn
  <2> QED BY <1>3, <2>3, <2>4, <2>5, <2>6 DEF KeyGivenUp
<1>6. CASE ~TxSucceeds /\ ~Reload
  <2>1. UNCHANGED stored
    BY <1>6 DEF CertNext, SwitchWallet, Refresh, Loaded, LoadFails, CreateCertificate,
                RegenerateCertificate, RevokeCertificate, RevokeAllCertificates,
                CreateDeployment, Start, DeployListed, TxUnconfirmed, TxFails, storage
  <2> QED BY <2>1
<1> QED BY <1>4, <1>5, <1>6

(* No operation empties or replaces the stored key of a certificate that stays *)
(* valid, but in the cases KeyGivenUp names: the page of another wallet, a     *)
(* certificate asked for where the local one did not match, a list that failed *)
(* and a list that lacked it (CertificateProviderContext.tsx:150-260, and     *)
(* ManifestEdit.tsx:146-190).                                                 *)
THEOREM ValidKeysStay == CertSpec => ValidKeysAreKept
<1>1. CertInit => KeyInv
  BY CertificatesAssumption DEF CertInit, KeyInv, OpRemembers, LocalIsStored, OtherLocalIsStored,
     IsStored, NoOp, NoLocalCert
<1>2. CertInv /\ KeyInv /\ [CertNext]_certVars => KeyInv'
  <2>1. ASSUME KeyInv, UNCHANGED certVars PROVE KeyInv'
    BY <2>1 DEF certVars, page, storage, KeyInv, OpRemembers, LocalIsStored, OtherLocalIsStored,
                IsStored, NeedsCert, ValidOf
  <2> QED BY <2>1, OpRemembersStep, LocalIsStoredStep DEF KeyInv
<1>3. CertInv /\ KeyInv /\ [CertNext]_certVars
        => [\A w \in Wallets :
              stored[w] # NoCert /\ stored'[w] # stored[w]
                => chain'[stored[w]].state = "revoked" \/ KeyGivenUp(w)]_certVars
  BY KeyStep
<1> QED BY <1>1, <1>2, <1>3, CertSpecInv, PTL DEF CertSpec, ValidKeysAreKept

------------------------------------------------------------------------------
(* Tokenize for any users, any width of the model counter and any number of   *)
(* members: types, the base of a fork, and whose file a model is given.       *)
(*                                                                            *)
(* A file cannot end at another model because an update is accepted by the    *)
(* NFT of the newest model only in a transaction of that model's creator,     *)
(* unless Hexs has a token of it, and a creator who is in the middle of a     *)
(* tokenization has made no other model since that is no fork: Owned, Made    *)
(* and Latest say so. A token of Hexs stays with it (HexsTokensStay).         *)

(* A model's NFT minds its creator.                                           *)
Owned == \A m \in Models : nft[m].priviledgedOwner = idToModel[m].creator

(* A tokenization under way has made a model, and read no lower id than that. *)
Made ==
  \A u \in Users : flow[u].at # "idle" =>
    LET made == flow[u].made IN
    /\ made \in Models
    /\ ~idToModel[made].isForked /\ idToModel[made].creator = u
    /\ flow[u].at \in {"named", "uploaded"} => flow[u].newModelId \in made..modelId

(* That model is the newest one of its creator, forks apart.                  *)
Latest ==
  \A u \in Users, m \in Models :
    flow[u].at # "idle" /\ ~idToModel[m].isForked /\ idToModel[m].creator = u
      => m <= flow[u].made

IInv == TypeOK /\ BaseIsRoot /\ Owned /\ Made /\ Latest /\ StoredFileIsItsOwn

(* The record of a new model of u: no fork, or a fork of an existing model.   *)
NewModelOf(u) ==
  {model \in Model :
     /\ model.creator = u
     /\ \/ /\ ~model.isForked /\ model.baseModel = 0 /\ model.forkedFrom = 0
           /\ model.encryptedSDLURI = NoUri
        \/ /\ model.isForked
           /\ model.forkedFrom \in Models /\ model.baseModel = ForkBase(model.forkedFrom)}

(* Every model keeps its creator and ancestry, and its NFT the one it minds.  *)
Keeps ==
  /\ modelId' = modelId
  /\ \A m \in Models :
       /\ idToModel'[m].creator = idToModel[m].creator
       /\ idToModel'[m].isForked = idToModel[m].isForked
       /\ idToModel'[m].baseModel = idToModel[m].baseModel
       /\ idToModel'[m].forkedFrom = idToModel[m].forkedFrom
       /\ nft'[m].priviledgedOwner = nft[m].priviledgedOwner

\* There are no models at first.
LEMMA InitInv == Init => IInv
<1> SUFFICES ASSUME Init PROVE IInv
  OBVIOUS
<1> USE HexsAssumption
<1>1. Models = {}
  BY DEF Init, HexsInit, Models
<1>2. flow \in [Users -> Flow] /\ \A u \in Users : flow[u].at = "idle"
  BY DEF Init, Flow, Idle
<1>3. TypeOK
  BY <1>1, <1>2 DEF Init, HexsInit, TypeOK, HexsTypeOK
<1>4. BaseIsRoot /\ Owned /\ Latest /\ StoredFileIsItsOwn
  BY <1>1 DEF BaseIsRoot, Owned, Latest, StoredFileIsItsOwn
<1>5. Made
  BY <1>2 DEF Made
<1> QED BY <1>3, <1>4, <1>5 DEF IInv

(* What is known of a model's record and of its NFT.                          *)
LEMMA RecordTypes ==
  ASSUME IInv
  PROVE  /\ modelId \in Nat /\ modelId <= MaxModelId /\ Models \subseteq Ids
         /\ \A m \in Models : idToModel[m] \in Model /\ nft[m] \in Nft
         /\ \A m \in Models : BaseOf(m) \in 0..MaxModelId
<1>1. modelId \in 0..MaxModelId
  BY DEF IInv, TypeOK, HexsTypeOK
<1>2. \A m \in Models : idToModel[m] \in Model /\ nft[m] \in Nft
  BY DEF IInv, TypeOK, HexsTypeOK
<1>3. \A m \in Models : BaseOf(m) \in 0..MaxModelId
  BY <1>2 DEF BaseOf, Model
<1> QED BY <1>1, <1>2, <1>3, HexsAssumption DEF Models, Ids

(* The base of a fork to be is an older model and no fork.                    *)
LEMMA ForkBaseIsRoot ==
  ASSUME IInv, NEW m \in Models
  PROVE  /\ ForkBase(m) \in Models /\ ~idToModel[ForkBase(m)].isForked
         /\ ForkBase(m) = m \/ ForkBase(m) = idToModel[m].baseModel
<1>1. modelId \in Nat /\ m \in 1..modelId
  BY RecordTypes DEF Models
<1>2. CASE idToModel[m].isForked
  <2>1. idToModel[m].baseModel \in 1..(m - 1) /\ ~idToModel[idToModel[m].baseModel].isForked
    BY <1>2 DEF IInv, BaseIsRoot
  <2>2. ForkBase(m) = idToModel[m].baseModel
    BY <1>1, <2>1 DEF ForkBase, BaseOf
  <2> QED BY <1>1, <2>1, <2>2 DEF Models
<1>3. CASE ~idToModel[m].isForked
  <2>1. ForkBase(m) = m
    BY <1>3 DEF IInv, BaseIsRoot, ForkBase, BaseOf
  <2> QED BY <1>3, <2>1
<1> QED BY <1>2, <1>3

(* An NFT of which Hexs holds no token accepts nobody but its model's creator. *)
LEMMA OnlyCreatorAccepted ==
  ASSUME IInv, NEW u \in Users, NEW m \in Models, NftAccepts(u, m)
  PROVE  idToModel[m].creator = u \/ Holds(Self, m)
BY DEF NftAccepts, IInv, Owned

(* What a step does to the models: one more, an update of the newest model's  *)
(* URI by a flow its NFT accepts, or nothing the invariant looks at.          *)
Uploads(u) ==
  /\ flow[u].at = "uploaded" /\ flow'[u] = Idle
  /\ idToModel[modelId].creator = u \/ Holds(Self, modelId)
  /\ modelId \in Models
  /\ \A m \in Models : m # modelId => idToModel'[m] = idToModel[m]
  /\ idToModel'[modelId].encryptedSDLURI
       = [gate |-> flow[u].newModelId, of |-> flow[u].made]

SameFiles ==
  \A m \in Models : idToModel'[m].encryptedSDLURI = idToModel[m].encryptedSDLURI

(* What Hexs was handed stays with it: the contract transfers no token.       *)
HexsTokensStay == \A m \in Models : Holds(Self, m) => Holds(Self, m)'

\* createModel adds a model that is no fork, and the page waits to read its id.
LEMMA CreateAdds ==
  ASSUME IInv, NEW u \in Users, TokenizeCreate(u)
  PROVE  /\ \E model \in NewModelOf(u) : AddModel(u, model) /\ ~model.isForked
         /\ modelId < MaxModelId
         /\ flow' = [flow EXCEPT ![u] = [at |-> "created", made |-> modelId + 1,
                                         newModelId |-> 0]]
<1> DEFINE model == [creator |-> u, priviledgedOwner |-> u, encryptedSDLURI |-> NoUri,
                     isForked |-> FALSE, baseModel |-> 0, forkedFrom |-> 0,
                     lastSoldPrice |-> 0, onSale |-> FALSE]
<1>1. model \in NewModelOf(u) /\ ~model.isForked
  BY HexsAssumption DEF NewModelOf, Model, Uris, Prices
<1>2. AddModel(u, model) /\ modelId < MaxModelId
  BY DEF TokenizeCreate, CreateModel, CanCreateModel, CanCount
<1>3. flow' = [flow EXCEPT ![u] = [at |-> "created", made |-> modelId + 1,
                                   newModelId |-> 0]]
  BY <1>2 DEF TokenizeCreate, AddModel, NextModelId
<1> QED BY <1>1, <1>2, <1>3

\* forkModel adds a fork, and no page waits for it.
LEMMA ForkAdds ==
  ASSUME IInv, NEW u \in Users, Fork(u)
  PROVE  /\ \E model \in NewModelOf(u) : AddModel(u, model) /\ model.isForked
         /\ modelId < MaxModelId
         /\ flow' = flow
<1>1. PICK m \in Models : ForkModel(u, m)
  BY DEF Fork
<1> DEFINE model == [creator |-> u, priviledgedOwner |-> u,
                     encryptedSDLURI |-> idToModel[m].encryptedSDLURI,
                     isForked |-> TRUE, baseModel |-> ForkBase(m), forkedFrom |-> m,
                     lastSoldPrice |-> 0, onSale |-> FALSE]
<1>2. idToModel[m] \in Model /\ modelId \in Nat /\ modelId <= MaxModelId
  BY RecordTypes
<1>3. m \in 0..MaxModelId /\ ForkBase(m) \in 0..MaxModelId
  BY <1>2, ForkBaseIsRoot, HexsAssumption DEF Models
<1>4. model \in NewModelOf(u) /\ model.isForked
  BY <1>2, <1>3 DEF NewModelOf, Model, Prices
<1>5. AddModel(u, model) /\ modelId < MaxModelId /\ flow' = flow
  BY <1>1 DEF Fork, ForkModel, CanForkModel, CanCount
<1> QED BY <1>4, <1>5

(* A tokenization's update writes to its own model, or changes nothing.       *)
LEMMA UpdateUploads ==
  ASSUME IInv, NEW u \in Users, TokenizeUpdate(u)
  PROVE  /\ Keeps /\ HexsTokensStay /\ TypeOK'
         /\ flow' = [flow EXCEPT ![u] = Idle]
         /\ SameFiles \/ Uploads(u)
<1> DEFINE uri == [gate |-> flow[u].newModelId, of |-> flow[u].made]
<1>1. flow' = [flow EXCEPT ![u] = Idle] /\ flow[u].at = "uploaded" /\ flow \in [Users -> Flow]
  BY DEF TokenizeUpdate, IInv, TypeOK
<1>2. flow' \in [Users -> Flow] /\ flow'[u] = Idle
  BY <1>1, HexsAssumption DEF Flow, Idle
<1>3. CASE UNCHANGED hexsVars
  <2>1. Keeps /\ SameFiles /\ HexsTypeOK'
    BY <1>3 DEF hexsVars, Keeps, SameFiles, IInv, TypeOK, HexsTypeOK, Models
  <2>2. HexsTokensStay
    BY <1>3 DEF hexsVars, HexsTokensStay, Holds
  <2> QED BY <1>1, <1>2, <2>1, <2>2 DEF TypeOK
<1>4. CASE CanUpdateSDLURI(u, flow[u].newModelId) /\ UpdateSDLURI(uri)
  <2>1. modelId \in Models /\ modelId \in Nat
    BY <1>4, RecordTypes DEF CanUpdateSDLURI, Models
  <2>2. idToModel[modelId].creator = u \/ Holds(Self, modelId)
    BY <1>4, <2>1, OnlyCreatorAccepted DEF CanUpdateSDLURI, UpdatedModel
  <2>3. flow[u].newModelId \in Ids /\ flow[u].made \in Ids
    BY <1>1, <1>4, RecordTypes DEF CanUpdateSDLURI, IInv, Made
  <2>4. /\ idToModel' = [idToModel EXCEPT ![modelId].encryptedSDLURI = uri]
        /\ nft' = [nft EXCEPT ![modelId].tokenUri = idToModel[modelId].encryptedSDLURI]
        /\ modelId' = modelId /\ modelIdToMembers' = modelIdToMembers
    BY <1>4 DEF UpdateSDLURI, UpdatedModel
  <2>5. DOMAIN idToModel = Models /\ DOMAIN nft = Models
    BY DEF IInv, TypeOK, HexsTypeOK
  <2>6. \A m \in Models : idToModel[m] \in Model /\ nft[m] \in Nft
    BY RecordTypes
  <2>7. uri \in Uris
    BY <2>3 DEF Uris
  <2>8. \A m \in Models :
          /\ idToModel'[m] = IF m = modelId
                             THEN [idToModel[m] EXCEPT !.encryptedSDLURI = uri]
                             ELSE idToModel[m]
          /\ nft'[m] = IF m = modelId
                       THEN [nft[m] EXCEPT !.tokenUri = idToModel[m].encryptedSDLURI]
                       ELSE nft[m]
    BY <2>4, <2>5
  <2>9. \A m \in Models : idToModel'[m] \in Model /\ nft'[m] \in Nft
    <3> SUFFICES ASSUME NEW m \in Models PROVE idToModel'[m] \in Model /\ nft'[m] \in Nft
      OBVIOUS
    <3>1. idToModel[m] \in Model /\ nft[m] \in Nft /\ idToModel[m].encryptedSDLURI \in Uris
      BY <2>6 DEF Model
    <3>2. [idToModel[m] EXCEPT !.encryptedSDLURI = uri] \in Model
      BY <2>7, <3>1 DEF Model
    <3>3. [nft[m] EXCEPT !.tokenUri = idToModel[m].encryptedSDLURI] \in Nft
      BY <3>1 DEF Nft
    <3> QED BY <2>8, <3>1, <3>2, <3>3
  <2>10. DOMAIN idToModel' = Models' /\ DOMAIN nft' = Models' /\ Models' = Models
    BY <2>4, <2>5 DEF Models
  <2>11. HexsTypeOK'
    BY <2>4, <2>9, <2>10 DEF IInv, TypeOK, HexsTypeOK, Models
  <2>12. Keeps
    BY <2>4, <2>6, <2>8 DEF Keeps, Model, Nft
  <2>13. HexsTokensStay
    <3>1. \A m \in Models : nft'[m].owners = nft[m].owners
      BY <2>6, <2>8 DEF Nft
    <3> QED BY <3>1 DEF HexsTokensStay, Holds
  <2>14. Uploads(u)
    BY <1>1, <1>2, <2>1, <2>2, <2>6, <2>8 DEF Uploads, Model
  <2> QED BY <1>1, <1>2, <2>11, <2>12, <2>13, <2>14 DEF TypeOK
<1> QED BY <1>3, <1>4 DEF TokenizeUpdate

(* After an addition, the old models are as they were and the new one has its *)
(* record and a new NFT.                                                      *)
LEMMA AdditionGrows ==
  ASSUME IInv, NEW u \in Users, NEW model \in NewModelOf(u), AddModel(u, model),
         modelId < MaxModelId
  PROVE  /\ modelId' = modelId + 1 /\ Models' = Models \cup {modelId + 1}
         /\ modelId + 1 \notin Models /\ HexsTypeOK'
         /\ \A m \in Models : idToModel'[m] = idToModel[m] /\ nft'[m] = nft[m]
         /\ idToModel'[modelId + 1] = model
         /\ nft'[modelId + 1] = NewNft(u, model.encryptedSDLURI)
<1>1. modelId \in Nat
  BY RecordTypes
<1>2. modelId' = modelId + 1 /\ modelId + 1 \notin Models
  BY <1>1 DEF AddModel, NextModelId, Models
<1>3. Models' = Models \cup {modelId + 1}
  BY <1>1, <1>2 DEF Models
<1>4. \A m \in Models : /\ idToModel'[m] = idToModel[m] /\ nft'[m] = nft[m]
                        /\ modelIdToMembers'[m] = modelIdToMembers[m]
  BY <1>1, <1>2 DEF AddModel, NextModelId, Models
<1>5. /\ idToModel'[modelId + 1] = model
      /\ nft'[modelId + 1] = NewNft(u, model.encryptedSDLURI)
      /\ modelIdToMembers'[modelId + 1] = <<u>>
  BY DEF AddModel, NextModelId
<1>6. model \in Model
  BY DEF NewModelOf
<1>7. NewNft(u, model.encryptedSDLURI) \in Nft
  BY <1>6 DEF NewNft, Nft, Model
<1>8. /\ DOMAIN idToModel' = Models' /\ DOMAIN nft' = Models'
      /\ DOMAIN modelIdToMembers' = Models'
  BY <1>3 DEF AddModel, NextModelId
<1>9. HexsTypeOK'
  <2>1. modelId' \in 0..MaxModelId
    BY <1>1, <1>2, HexsAssumption
  <2>2. \A m \in Models' : /\ idToModel'[m] \in Model /\ nft'[m] \in Nft
                           /\ modelIdToMembers'[m] \in Seq(Users)
    <3>1. \A m \in Models : /\ idToModel[m] \in Model /\ nft[m] \in Nft
                            /\ modelIdToMembers[m] \in Seq(Users)
      BY DEF IInv, TypeOK, HexsTypeOK
    <3>2. <<u>> \in Seq(Users)
      OBVIOUS
    <3> SUFFICES ASSUME NEW m \in Models'
                 PROVE  /\ idToModel'[m] \in Model /\ nft'[m] \in Nft
                        /\ modelIdToMembers'[m] \in Seq(Users)
      OBVIOUS
    <3>3. CASE m \in Models
      BY <3>1, <3>3, <1>4
    <3>4. CASE m = modelId + 1
      BY <3>2, <3>4, <1>5, <1>6, <1>7
    <3> QED BY <3>3, <3>4, <1>3
  <2> QED BY <1>8, <2>1, <2>2 DEF HexsTypeOK
<1> QED BY <1>2, <1>3, <1>4, <1>5, <1>9

(* Nothing of the other steps changes what the invariant says of the models.  *)
LEMMA UnchangedKeeps ==
  ASSUME IInv, UNCHANGED hexsVars
  PROVE  Keeps /\ SameFiles /\ HexsTokensStay /\ HexsTypeOK'
<1>1. Keeps /\ SameFiles /\ HexsTypeOK'
  BY DEF hexsVars, Keeps, SameFiles, IInv, TypeOK, HexsTypeOK, Models
<1>2. HexsTokensStay
  BY DEF hexsVars, HexsTokensStay, Holds
<1> QED BY <1>1, <1>2

\* putModelOnSale changes no file, token or creator.
LEMMA SellKeeps ==
  ASSUME IInv, NEW u \in Users, Sell(u)
  PROVE  Keeps /\ SameFiles /\ HexsTokensStay /\ HexsTypeOK'
<1>1. PICK m \in Models : PutModelOnSale(m, 1)
  BY DEF Sell
<1>2. /\ DOMAIN idToModel = Models
      /\ \A i \in Models : idToModel[i] \in Model
  BY DEF IInv, TypeOK, HexsTypeOK
<1>3. \A i \in Models :
        idToModel'[i] = IF i = m THEN [idToModel[i] EXCEPT !.onSale = TRUE, !.lastSoldPrice = 1]
                        ELSE idToModel[i]
  BY <1>1, <1>2 DEF PutModelOnSale
<1>4. \A i \in Models : idToModel'[i] \in Model
  <2> SUFFICES ASSUME NEW i \in Models PROVE idToModel'[i] \in Model
    OBVIOUS
  <2>1. CASE i = m
    <3> DEFINE offered == [idToModel[i] EXCEPT !.onSale = TRUE]
    <3>1. idToModel'[i] = [offered EXCEPT !.lastSoldPrice = 1]
      BY <1>3, <2>1
    <3>2. offered \in Model
      BY <1>2 DEF Model
    <3> HIDE DEF offered
    <3> QED BY <3>1, <3>2 DEF Model, Prices
  <2>2. CASE i # m
    BY <1>2, <1>3, <2>2
  <2> QED BY <2>1, <2>2
<1>5. UNCHANGED <<modelId, modelIdToMembers, nft>> /\ DOMAIN idToModel' = Models
  BY <1>1, <1>2 DEF PutModelOnSale
<1>6. HexsTypeOK'
  BY <1>4, <1>5 DEF IInv, TypeOK, HexsTypeOK, Models
<1>7. Keeps /\ SameFiles
  BY <1>2, <1>3, <1>5 DEF Keeps, SameFiles, Model
<1>8. HexsTokensStay
  BY <1>5 DEF HexsTokensStay, Holds
<1> QED BY <1>6, <1>7, <1>8

(* The transfer at the end of buyModel reverts, and everything with it.       *)
LEMMA BuyKeeps ==
  ASSUME IInv, NEW u \in Users, Buy(u)
  PROVE  Keeps /\ SameFiles /\ HexsTokensStay /\ HexsTypeOK'
<1>1. UNCHANGED hexsVars
  BY DEF Buy, CanBuyModel, ReceivesNfts
<1> QED BY <1>1, UnchangedKeeps

(* Tokens change: one more of a model, or one with another owner.             *)
LEMMA OwnersKeep ==
  ASSUME IInv, NEW m \in Models, NEW owners \in Seq(Users \cup {Self}),
         Holds(Self, m) => \E t \in DOMAIN owners : owners[t] = Self,
         nft' = [nft EXCEPT ![m].owners = owners],
         UNCHANGED <<modelId, idToModel>>, DOMAIN modelIdToMembers' = Models,
         \A i \in Models : modelIdToMembers'[i] \in Seq(Users)
  PROVE  Keeps /\ SameFiles /\ HexsTokensStay /\ HexsTypeOK'
<1>1. /\ DOMAIN nft = Models
      /\ \A i \in Models : nft[i] \in Nft
  BY DEF IInv, TypeOK, HexsTypeOK
<1>2. \A i \in Models :
        nft'[i] = IF i = m THEN [nft[i] EXCEPT !.owners = owners] ELSE nft[i]
  BY <1>1
<1>4. \A i \in Models : nft'[i] \in Nft
  BY <1>1, <1>2 DEF Nft
<1>5. HexsTypeOK'
  BY <1>1, <1>4 DEF IInv, TypeOK, HexsTypeOK, Models
<1>6. Keeps /\ SameFiles
  BY <1>1, <1>2 DEF Keeps, SameFiles, Nft
<1>7. HexsTokensStay
  <2> SUFFICES ASSUME NEW i \in Models, Holds(Self, i) PROVE Holds(Self, i)'
    BY DEF HexsTokensStay
  <2>1. CASE i = m
    <3>1. nft'[m].owners = owners
      BY <1>1, <1>2 DEF Nft
    <3> QED BY <2>1, <3>1 DEF Holds
  <2>2. CASE i # m
    BY <1>2, <2>2 DEF Holds
  <2> QED BY <2>1, <2>2
<1> QED BY <1>5, <1>6, <1>7

\* addMemberToDao only adds a token.
LEMMA AddMemberKeeps ==
  ASSUME IInv, NEW u \in Users, AddMember(u)
  PROVE  Keeps /\ SameFiles /\ HexsTokensStay /\ HexsTypeOK'
<1>1. PICK m \in Models : \E v \in Users \cup {Self} : AddMemberToDao(u, m, v)
  BY DEF AddMember
<1>2. PICK v \in Users \cup {Self} : AddMemberToDao(u, m, v)
  BY <1>1
<1> DEFINE old == nft[m].owners
           owners == Append(old, v)
<1>3. old \in Seq(Users \cup {Self})
  BY DEF IInv, TypeOK, HexsTypeOK, Nft
<1>4. nft' = [nft EXCEPT ![m].owners = owners] /\ UNCHANGED <<modelId, idToModel>>
  BY <1>2 DEF AddMemberToDao
<1>5. /\ owners \in Seq(Users \cup {Self})
      /\ \A t \in DOMAIN old : t \in DOMAIN owners /\ owners[t] = old[t]
  BY <1>3
<1>6. Holds(Self, m) => \E t \in DOMAIN owners : owners[t] = Self
  BY <1>5 DEF Holds
<1>7. /\ DOMAIN modelIdToMembers = Models
      /\ \A i \in Models : modelIdToMembers[i] \in Seq(Users)
  BY DEF IInv, TypeOK, HexsTypeOK
<1>8. /\ DOMAIN modelIdToMembers' = Models
      /\ \A i \in Models : modelIdToMembers'[i] \in Seq(Users)
  BY <1>2, <1>7 DEF AddMemberToDao
<1> HIDE DEF owners, old
<1> QED BY <1>4, <1>5, <1>6, <1>8, OwnersKeep

\* A transfer by a user only changes the owner of a token of that user.
LEMMA GiveKeeps ==
  ASSUME IInv, NEW u \in Users, Give(u)
  PROVE  Keeps /\ SameFiles /\ HexsTokensStay /\ HexsTypeOK'
<1>1. PICK m \in Models, t \in 1..(MaxMembers + 1), v \in (Users \ {u}) \cup {Self} :
        CanTransferNft(u, m, t) /\ TransferNft(m, t, v)
  BY DEF Give
<1> DEFINE old == nft[m].owners
           owners == [old EXCEPT ![t] = v]
<1>2. old \in Seq(Users \cup {Self}) /\ t \in DOMAIN old /\ old[t] = u /\ u # Self
  BY <1>1, HexsAssumption DEF IInv, TypeOK, HexsTypeOK, Nft, CanTransferNft
<1>3. /\ owners \in Seq(Users \cup {Self}) /\ DOMAIN owners = DOMAIN old
      /\ \A s \in DOMAIN old : s # t => owners[s] = old[s]
  BY <1>2
<1>4. nft' = [nft EXCEPT ![m].owners = owners]
  BY <1>1 DEF TransferNft
<1>5. Holds(Self, m) => \E s \in DOMAIN owners : owners[s] = Self
  BY <1>2, <1>3 DEF Holds
<1>6. /\ UNCHANGED <<modelId, idToModel>>
      /\ DOMAIN modelIdToMembers' = Models
      /\ \A i \in Models : modelIdToMembers'[i] \in Seq(Users)
  BY <1>1 DEF TransferNft, IInv, TypeOK, HexsTypeOK
<1> HIDE DEF owners, old
<1> QED BY <1>3, <1>4, <1>5, <1>6, OwnersKeep

(* Bases and owners are as they were while no model is added.                 *)
LEMMA SameModels ==
  ASSUME IInv, Keeps
  PROVE  BaseIsRoot' /\ Owned'
<1>1. Models' = Models /\ modelId \in Nat
  BY RecordTypes DEF Keeps, Models
<1>2. BaseIsRoot'
  <2> SUFFICES ASSUME NEW m \in Models
               PROVE  LET model == idToModel'[m] IN
                      IF model.isForked
                      THEN /\ model.forkedFrom \in 1..(m - 1)
                           /\ model.baseModel \in 1..(m - 1)
                           /\ ~idToModel'[model.baseModel].isForked
                           /\ \/ model.baseModel = model.forkedFrom
                              \/ model.baseModel = idToModel'[model.forkedFrom].baseModel
                      ELSE model.baseModel = 0 /\ model.forkedFrom = 0
    BY <1>1 DEF BaseIsRoot
  <2>1. /\ idToModel'[m].isForked = idToModel[m].isForked
        /\ idToModel'[m].baseModel = idToModel[m].baseModel
        /\ idToModel'[m].forkedFrom = idToModel[m].forkedFrom
    BY DEF Keeps
  <2>2. CASE ~idToModel[m].isForked
    BY <2>1, <2>2 DEF IInv, BaseIsRoot
  <2>3. CASE idToModel[m].isForked
    <3>1. /\ idToModel[m].forkedFrom \in 1..(m - 1) /\ idToModel[m].baseModel \in 1..(m - 1)
          /\ ~idToModel[idToModel[m].baseModel].isForked
          /\ \/ idToModel[m].baseModel = idToModel[m].forkedFrom
             \/ idToModel[m].baseModel = idToModel[idToModel[m].forkedFrom].baseModel
      BY <2>3 DEF IInv, BaseIsRoot
    <3>2. m \in 1..modelId
      BY DEF Models
    <3>3. idToModel[m].forkedFrom \in Models /\ idToModel[m].baseModel \in Models
      BY <1>1, <3>1, <3>2 DEF Models
    <3>4. /\ idToModel'[idToModel[m].baseModel].isForked
               = idToModel[idToModel[m].baseModel].isForked
          /\ idToModel'[idToModel[m].forkedFrom].baseModel
               = idToModel[idToModel[m].forkedFrom].baseModel
      BY <3>3 DEF Keeps
    <3> QED BY <2>1, <2>3, <3>1, <3>4
  <2> QED BY <2>2, <2>3
<1>3. Owned'
  BY <1>1 DEF IInv, Owned, Keeps
<1> QED BY <1>2, <1>3

(* A new model: its base is no fork, its NFT minds its creator, and its file  *)
(* is none or that of the model it is forked from.                            *)
LEMMA MoreModels ==
  ASSUME IInv, NEW u \in Users, NEW model \in NewModelOf(u), AddModel(u, model),
         modelId < MaxModelId
  PROVE  BaseIsRoot' /\ Owned' /\ StoredFileIsItsOwn'
<1> DEFINE new == modelId + 1
<1>1. /\ Models' = Models \cup {new} /\ new \notin Models
      /\ \A m \in Models : idToModel'[m] = idToModel[m] /\ nft'[m] = nft[m]
      /\ idToModel'[new] = model /\ nft'[new] = NewNft(u, model.encryptedSDLURI)
  BY AdditionGrows
<1>2. modelId \in Nat /\ Models = 1..modelId
  BY RecordTypes DEF Models
<1>3. model.creator = u
  BY DEF NewModelOf
<1> HIDE DEF new
<1>4. BaseIsRoot'
  <2> SUFFICES ASSUME NEW m \in Models'
               PROVE  LET rec == idToModel'[m] IN
                      IF rec.isForked
                      THEN /\ rec.forkedFrom \in 1..(m - 1)
                           /\ rec.baseModel \in 1..(m - 1)
                           /\ ~idToModel'[rec.baseModel].isForked
                           /\ \/ rec.baseModel = rec.forkedFrom
                              \/ rec.baseModel = idToModel'[rec.forkedFrom].baseModel
                      ELSE rec.baseModel = 0 /\ rec.forkedFrom = 0
    BY DEF BaseIsRoot
  <2>1. CASE m \in Models
    <3>1. CASE ~idToModel[m].isForked
      BY <1>1, <2>1, <3>1 DEF IInv, BaseIsRoot
    <3>2. CASE idToModel[m].isForked
      <4>1. /\ idToModel[m].forkedFrom \in 1..(m - 1) /\ idToModel[m].baseModel \in 1..(m - 1)
            /\ ~idToModel[idToModel[m].baseModel].isForked
            /\ \/ idToModel[m].baseModel = idToModel[m].forkedFrom
               \/ idToModel[m].baseModel = idToModel[idToModel[m].forkedFrom].baseModel
        BY <2>1, <3>2 DEF IInv, BaseIsRoot
      <4>2. idToModel[m].forkedFrom \in Models /\ idToModel[m].baseModel \in Models
        BY <1>2, <2>1, <4>1
      <4> QED BY <1>1, <2>1, <3>2, <4>1, <4>2
    <3> QED BY <3>1, <3>2
  <2>2. CASE m = new
    <3>1. CASE ~model.isForked
      BY <1>1, <2>2, <3>1 DEF NewModelOf
    <3>2. CASE model.isForked
      <4>1. model.forkedFrom \in Models /\ model.baseModel = ForkBase(model.forkedFrom)
        BY <3>2 DEF NewModelOf
      <4>2. /\ model.baseModel \in Models /\ ~idToModel[model.baseModel].isForked
            /\ \/ model.baseModel = model.forkedFrom
               \/ model.baseModel = idToModel[model.forkedFrom].baseModel
        BY <4>1, ForkBaseIsRoot
      <4>3. model.forkedFrom \in 1..(m - 1) /\ model.baseModel \in 1..(m - 1)
        BY <1>2, <2>2, <4>1, <4>2 DEF new
      <4> QED BY <1>1, <2>2, <3>2, <4>1, <4>2, <4>3
    <3> QED BY <3>1, <3>2
  <2> QED BY <1>1, <2>1, <2>2
<1>5. Owned'
  <2>1. nft'[new].priviledgedOwner = u
    BY <1>1 DEF NewNft
  <2>2. \A m \in Models : nft'[m].priviledgedOwner = idToModel'[m].creator
    BY <1>1 DEF IInv, Owned
  <2> QED BY <1>1, <1>3, <2>1, <2>2 DEF Owned
<1>6. StoredFileIsItsOwn'
  <2>1. ~model.isForked => model.encryptedSDLURI = NoUri
    BY DEF NewModelOf
  <2>2. \A m \in Models : Holds(Self, m)' <=> Holds(Self, m)
    BY <1>1 DEF Holds
  <2> QED BY <1>1, <2>1, <2>2 DEF IInv, StoredFileIsItsOwn
<1> QED BY <1>4, <1>5, <1>6

(* The file of a model is kept, or comes from the last tokenization of its    *)
(* creator, which has made that model and read its id.                        *)
LEMMA FilesStayOwn ==
  ASSUME IInv, Keeps, HexsTokensStay, NEW u \in Users, SameFiles \/ Uploads(u)
  PROVE  StoredFileIsItsOwn'
<1>1. Models' = Models /\ modelId \in Nat
  BY RecordTypes DEF Keeps, Models
<1>2. CASE SameFiles
  BY <1>1, <1>2 DEF SameFiles, Keeps, HexsTokensStay, IInv, StoredFileIsItsOwn
<1>3. CASE Uploads(u)
  <2> SUFFICES ASSUME NEW m \in Models, ~idToModel[m].isForked,
                      idToModel'[m].encryptedSDLURI # NoUri, ~Holds(Self, m)
               PROVE  idToModel'[m].encryptedSDLURI = [gate |-> m, of |-> m]
    BY <1>1 DEF StoredFileIsItsOwn, Keeps, HexsTokensStay
  <2>1. CASE m # modelId
    BY <1>3, <2>1 DEF Uploads, IInv, StoredFileIsItsOwn
  <2>2. CASE m = modelId
    <3>1. modelId <= flow[u].made
      BY <1>3, <2>2 DEF Uploads, IInv, Latest
    <3>2. flow[u].made \in 1..modelId /\ flow[u].newModelId \in flow[u].made..modelId
      BY <1>3 DEF Uploads, IInv, Made, Models
    <3>3. flow[u].made = m /\ flow[u].newModelId = m
      BY <1>1, <2>2, <3>1, <3>2
    <3> QED BY <1>3, <2>2, <3>3 DEF Uploads
  <2> QED BY <2>1, <2>2
<1> QED BY <1>2, <1>3

(* A tokenization that starts no new model is over, or goes on with the model *)
(* it has made, and reads no id but the newest one.                           *)
GoesOn(v) ==
  flow'[v].at # "idle" =>
    /\ flow[v].at # "idle" /\ flow'[v].made = flow[v].made
    /\ flow'[v].at \in {"named", "uploaded"} =>
         \/ flow'[v].newModelId = modelId
         \/ flow[v].at \in {"named", "uploaded"} /\ flow'[v].newModelId = flow[v].newModelId

\* Flows that go on without a change of the models stay about models their users
\* made.
LEMMA FlowsGoOn ==
  ASSUME IInv, Keeps, \A v \in Users : GoesOn(v)
  PROVE  Made' /\ Latest'
<1>1. Models' = Models /\ modelId' = modelId /\ modelId \in Nat /\ Models = 1..modelId
  BY RecordTypes DEF Keeps, Models
<1>2. Made'
  <2> SUFFICES ASSUME NEW v \in Users, flow'[v].at # "idle"
               PROVE  LET made == flow'[v].made IN
                      /\ made \in Models
                      /\ ~idToModel'[made].isForked /\ idToModel'[made].creator = v
                      /\ flow'[v].at \in {"named", "uploaded"}
                           => flow'[v].newModelId \in made..modelId
    BY <1>1 DEF Made
  <2>1. flow[v].at # "idle" /\ flow'[v].made = flow[v].made
    BY DEF GoesOn
  <2>2. /\ flow[v].made \in Models
        /\ ~idToModel[flow[v].made].isForked /\ idToModel[flow[v].made].creator = v
        /\ flow[v].at \in {"named", "uploaded"}
             => flow[v].newModelId \in flow[v].made..modelId
    BY <2>1 DEF IInv, Made
  <2>3. /\ ~idToModel'[flow[v].made].isForked
        /\ idToModel'[flow[v].made].creator = v
    BY <2>2 DEF Keeps
  <2>4. modelId \in flow[v].made..modelId
    BY <1>1, <2>2
  <2>5. ASSUME flow'[v].at \in {"named", "uploaded"}
        PROVE  flow'[v].newModelId \in flow[v].made..modelId
    BY <2>2, <2>4, <2>5 DEF GoesOn
  <2> QED BY <2>1, <2>2, <2>3, <2>5
<1>3. Latest'
  <2> SUFFICES ASSUME NEW v \in Users, NEW m \in Models, flow'[v].at # "idle",
                      ~idToModel'[m].isForked, idToModel'[m].creator = v
               PROVE  m <= flow'[v].made
    BY <1>1 DEF Latest
  <2>1. ~idToModel[m].isForked /\ idToModel[m].creator = v
    BY DEF Keeps
  <2>2. flow[v].at # "idle" /\ flow'[v].made = flow[v].made
    BY DEF GoesOn
  <2> QED BY <2>1, <2>2 DEF IInv, Latest
<1> QED BY <1>2, <1>3

(* A step of u that keeps the models: the other flows stay as they are.       *)
LEMMA OthersGoOn ==
  ASSUME IInv, NEW u \in Users, NEW f, flow' = [flow EXCEPT ![u] = f], GoesOn(u)
  PROVE  \A v \in Users : GoesOn(v)
<1>1. flow \in [Users -> Flow]
  BY DEF IInv, TypeOK
<1>2. \A v \in Users \ {u} : flow'[v] = flow[v]
  BY <1>1
<1>3. \A v \in Users \ {u} : GoesOn(v)
  BY <1>2 DEF GoesOn
<1> QED BY <1>3

(* The model a tokenization creates is its own and the newest one; the model  *)
(* is of no account to the tokenizations of other users.                      *)
LEMMA CreationStarts ==
  ASSUME IInv, NEW u \in Users, TokenizeCreate(u)
  PROVE  IInv'
<1>1. PICK model \in NewModelOf(u) : AddModel(u, model) /\ ~model.isForked
  BY CreateAdds
<1>2. modelId < MaxModelId
  BY CreateAdds
<1>3. /\ modelId' = modelId + 1 /\ Models' = Models \cup {modelId + 1}
      /\ HexsTypeOK' /\ modelId \in Nat
      /\ \A m \in Models : idToModel'[m] = idToModel[m]
      /\ idToModel'[modelId + 1] = model
  BY <1>1, <1>2, AdditionGrows, RecordTypes
<1>4. Models = 1..modelId /\ model.creator = u
  BY DEF NewModelOf, Models
<1>5. BaseIsRoot' /\ Owned' /\ StoredFileIsItsOwn'
  BY <1>1, <1>2, MoreModels
<1> DEFINE created == [at |-> "created", made |-> modelId + 1, newModelId |-> 0]
<1>6. flow \in [Users -> Flow] /\ flow' = [flow EXCEPT ![u] = created]
  BY CreateAdds DEF IInv, TypeOK
<1>7. created \in Flow
  BY <1>2, <1>3, HexsAssumption DEF Flow
<1>8. TypeOK'
  BY <1>3, <1>6, <1>7 DEF TypeOK
<1>9. /\ flow'[u].at = "created" /\ flow'[u].made = modelId + 1
      /\ \A v \in Users \ {u} : flow'[v] = flow[v]
  BY <1>6
<1>10. Made'
  <2> SUFFICES ASSUME NEW v \in Users, flow'[v].at # "idle"
               PROVE  LET made == flow'[v].made IN
                      /\ made \in Models'
                      /\ ~idToModel'[made].isForked /\ idToModel'[made].creator = v
                      /\ flow'[v].at \in {"named", "uploaded"}
                           => flow'[v].newModelId \in made..modelId'
    BY DEF Made
  <2>1. CASE v = u
    BY <1>1, <1>3, <1>4, <1>9, <2>1
  <2>2. CASE v # u
    <3>1. /\ flow[v].made \in Models
          /\ ~idToModel[flow[v].made].isForked /\ idToModel[flow[v].made].creator = v
          /\ flow[v].at \in {"named", "uploaded"}
               => flow[v].newModelId \in flow[v].made..modelId
      BY <1>9, <2>2 DEF IInv, Made
    <3>2. flow[v].made..modelId \subseteq flow[v].made..(modelId + 1)
      BY <1>3, <1>4, <3>1
    <3> QED BY <1>3, <1>9, <2>2, <3>1, <3>2
  <2> QED BY <2>1, <2>2
<1>11. Latest'
  <2> SUFFICES ASSUME NEW v \in Users, NEW m \in Models', flow'[v].at # "idle",
                      ~idToModel'[m].isForked, idToModel'[m].creator = v
               PROVE  m <= flow'[v].made
    BY DEF Latest
  <2>1. CASE v = u
    BY <1>3, <1>4, <1>9, <2>1
  <2>2. CASE v # u
    <3>1. m \in Models /\ idToModel'[m] = idToModel[m]
      BY <1>3, <1>4, <2>2
    <3> QED BY <1>9, <2>2, <3>1 DEF IInv, Latest
  <2> QED BY <2>1, <2>2
<1> QED BY <1>5, <1>8, <1>10, <1>11 DEF IInv

\* A fork keeps the invariant.
LEMMA ForkStarts ==
  ASSUME IInv, NEW u \in Users, Fork(u)
  PROVE  IInv'
<1>1. PICK model \in NewModelOf(u) : AddModel(u, model) /\ model.isForked
  BY ForkAdds
<1>2. modelId < MaxModelId /\ flow' = flow
  BY ForkAdds
<1>3. /\ modelId' = modelId + 1 /\ Models' = Models \cup {modelId + 1}
      /\ HexsTypeOK' /\ modelId \in Nat
      /\ \A m \in Models : idToModel'[m] = idToModel[m]
      /\ idToModel'[modelId + 1] = model
  BY <1>1, <1>2, AdditionGrows, RecordTypes
<1>4. Models = 1..modelId
  BY DEF Models
<1>5. BaseIsRoot' /\ Owned' /\ StoredFileIsItsOwn'
  BY <1>1, <1>2, MoreModels
<1>6. TypeOK'
  BY <1>2, <1>3 DEF IInv, TypeOK
<1>7. Made'
  <2> SUFFICES ASSUME NEW v \in Users, flow[v].at # "idle"
               PROVE  LET made == flow[v].made IN
                      /\ made \in Models'
                      /\ ~idToModel'[made].isForked /\ idToModel'[made].creator = v
                      /\ flow[v].at \in {"named", "uploaded"}
                           => flow[v].newModelId \in made..modelId'
    BY <1>2 DEF Made
  <2>1. /\ flow[v].made \in Models
        /\ ~idToModel[flow[v].made].isForked /\ idToModel[flow[v].made].creator = v
        /\ flow[v].at \in {"named", "uploaded"}
             => flow[v].newModelId \in flow[v].made..modelId
    BY DEF IInv, Made
  <2>2. flow[v].made..modelId \subseteq flow[v].made..(modelId + 1)
    BY <1>3, <1>4, <2>1
  <2> QED BY <1>3, <2>1, <2>2
<1>8. Latest'
  BY <1>1, <1>2, <1>3 DEF IInv, Latest
<1> QED BY <1>5, <1>6, <1>7, <1>8 DEF IInv

(* The steps that add no model.                                               *)
LEMMA KeptInv ==
  ASSUME IInv, NEW u \in Users, Keeps, HexsTokensStay, TypeOK',
         SameFiles \/ Uploads(u), \A v \in Users : GoesOn(v)
  PROVE  IInv'
<1>1. BaseIsRoot' /\ Owned'
  BY SameModels
<1>2. StoredFileIsItsOwn'
  BY FilesStayOwn
<1>3. Made' /\ Latest'
  BY FlowsGoOn
<1> QED BY <1>1, <1>2, <1>3 DEF IInv

\* Every step of a user keeps the invariant.
LEMMA UserStepInv ==
  ASSUME IInv, NEW u \in Users, UserStep(u)
  PROVE  IInv'
<1>1. flow \in [Users -> Flow] /\ modelId \in 0..MaxModelId
  BY DEF IInv, TypeOK, HexsTypeOK
<1>2. ASSUME flow' = flow PROVE \A v \in Users : GoesOn(v)
  BY <1>2 DEF GoesOn
<1>3. ASSUME flow' = flow, HexsTypeOK' PROVE TypeOK'
  BY <1>1, <1>3 DEF TypeOK
<1>4. CASE TokenizeReadId(u)
  <2> DEFINE named == [flow[u] EXCEPT !.at = "named"]
             f == [named EXCEPT !.newModelId = modelId]
  <2>1. UNCHANGED hexsVars /\ flow[u].at = "created"
    BY <1>4 DEF TokenizeReadId
  <2>2. named \in Flow /\ named.made = flow[u].made
    BY <1>1 DEF Flow
  <2>3. flow' = [flow EXCEPT ![u] = f]
    BY <1>1, <1>4 DEF TokenizeReadId
  <2> HIDE DEF named
  <2>4. f \in Flow /\ f.newModelId = modelId /\ f.made = flow[u].made
    BY <1>1, <2>2 DEF Flow
  <2> HIDE DEF f
  <2>5. flow'[u] = f /\ flow' \in [Users -> Flow]
    BY <1>1, <2>3, <2>4
  <2>6. \A v \in Users : GoesOn(v)
    BY <2>1, <2>3, <2>4, <2>5, OthersGoOn DEF GoesOn
  <2>7. TypeOK'
    BY <2>1, <2>5, UnchangedKeeps DEF TypeOK
  <2> QED BY <2>1, <2>6, <2>7, UnchangedKeeps, KeptInv
<1>5. CASE TokenizeUpload(u)
  <2> DEFINE uploaded == [flow[u] EXCEPT !.at = "uploaded"]
  <2>1. UNCHANGED hexsVars /\ flow[u].at = "named"
    BY <1>5 DEF TokenizeUpload
  <2>2. PICK f \in {uploaded, Idle} : flow' = [flow EXCEPT ![u] = f]
    BY <1>1, <1>5 DEF TokenizeUpload
  <2>3. f \in Flow /\ (f.at = "idle" \/ (f.made = flow[u].made
                                          /\ f.newModelId = flow[u].newModelId))
    BY <1>1, <2>2, HexsAssumption DEF Flow, Idle
  <2>4. flow'[u] = f /\ flow' \in [Users -> Flow]
    BY <1>1, <2>2, <2>3
  <2>5. \A v \in Users : GoesOn(v)
    BY <2>1, <2>2, <2>3, <2>4, OthersGoOn DEF GoesOn
  <2>6. TypeOK'
    BY <2>1, <2>4, UnchangedKeeps DEF TypeOK
  <2> QED BY <2>1, <2>5, <2>6, UnchangedKeeps, KeptInv
<1>6. CASE TokenizeUpdate(u)
  <2>1. flow' = [flow EXCEPT ![u] = Idle] /\ flow'[u].at = "idle"
    BY <1>1, <1>6, UpdateUploads DEF Idle
  <2>2. \A v \in Users : GoesOn(v)
    BY <2>1, OthersGoOn DEF GoesOn
  <2> QED BY <1>6, <2>2, UpdateUploads, KeptInv
<1>7. CASE Sell(u)
  <2>1. flow' = flow
    BY <1>7 DEF Sell
  <2> QED BY <1>2, <1>3, <1>7, <2>1, SellKeeps, KeptInv
<1>8. CASE Buy(u)
  <2>1. flow' = flow
    BY <1>8 DEF Buy
  <2> QED BY <1>2, <1>3, <1>8, <2>1, BuyKeeps, KeptInv
<1>9. CASE AddMember(u)
  <2>1. flow' = flow
    BY <1>9 DEF AddMember
  <2> QED BY <1>2, <1>3, <1>9, <2>1, AddMemberKeeps, KeptInv
<1>10. CASE Give(u)
  <2>1. flow' = flow
    BY <1>10 DEF Give
  <2> QED BY <1>2, <1>3, <1>10, <2>1, GiveKeeps, KeptInv
<1> QED BY <1>4, <1>5, <1>6, <1>7, <1>8, <1>9, <1>10, CreationStarts, ForkStarts
        DEF UserStep

\* The invariant holds in every reachable state.
LEMMA SpecInv == Spec => []IInv
<1>1. IInv /\ [Next]_vars => IInv'
  <2> SUFFICES ASSUME IInv, [Next]_vars PROVE IInv'
    OBVIOUS
  <2>1. CASE Next
    BY <2>1, UserStepInv DEF Next
  <2>2. CASE UNCHANGED vars
    BY <2>2 DEF vars, IInv, TypeOK, HexsTypeOK, Models, BaseIsRoot, Owned, Made, Latest,
                StoredFileIsItsOwn, Holds
  <2> QED BY <2>1, <2>2
<1> QED BY <1>1, InitInv, PTL DEF Spec

(* The counter never passes the largest value of its type, and the contract's *)
(* storage and the flows stay within their types (Hexs_BNB.sol:46, 94).       *)
THEOREM TypesHold == Spec => []TypeOK
<1>1. IInv => TypeOK
  BY DEF IInv
<1> QED BY <1>1, SpecInv, PTL

(* Whatever is forked from whatever, bases are no forks themselves            *)
(* (forkModel, Hexs_BNB.sol:135-151).                                         *)
THEOREM ForksHaveRoots == Spec => []BaseIsRoot
<1>1. IInv => BaseIsRoot
  BY DEF IInv
<1> QED BY <1>1, SpecInv, PTL

(* However many users tokenize models at once, with an id each may have read  *)
(* of another's model, the file stored for a model is its own, unless Hexs    *)
(* was handed a token of it (tokenizeModel, evmContractInteraction.ts:47-76,  *)
(* and SDLNFT.sol:26).                                                        *)
THEOREM FilesAreOwn == Spec => []StoredFileIsItsOwn
<1>1. IInv => StoredFileIsItsOwn
  BY DEF IInv
<1> QED BY <1>1, SpecInv, PTL

(* Only its creator's tokenization changes the URI of a model, whichever      *)
(* users hold its tokens; when Hexs holds one, any user's tokenization may    *)
(* (updateSDLURI with SDLNFT.onlyModelOwner).                                 *)
THEOREM CreatorUpdates == Spec => OnlyTheCreatorUpdates
<1> DEFINE Step == \A m \in Models :
             idToModel'[m].encryptedSDLURI # idToModel[m].encryptedSDLURI
               => \E u \in Users :
                    /\ flow[u].at = "uploaded" /\ flow'[u] = Idle
                    /\ u = idToModel[m].creator \/ Holds(Self, m)
<1>1. ASSUME IInv, NEW u \in Users, UserStep(u) PROVE Step
  <2>1. CASE SameFiles
    BY <2>1 DEF SameFiles
  <2>2. CASE Uploads(u)
    BY <2>2 DEF Uploads
  <2>3. CASE TokenizeCreate(u) \/ Fork(u)
    <3>1. /\ \E model \in NewModelOf(u) : AddModel(u, model)
          /\ modelId < MaxModelId
      BY <1>1, <2>3, CreateAdds, ForkAdds
    <3> QED BY <1>1, <3>1, AdditionGrows
  <2>4. CASE TokenizeReadId(u) \/ TokenizeUpload(u)
    <3>1. UNCHANGED hexsVars
      BY <2>4 DEF TokenizeReadId, TokenizeUpload
    <3> QED BY <1>1, <2>1, <3>1, UnchangedKeeps
  <2> QED BY <1>1, <2>1, <2>2, <2>3, <2>4, UpdateUploads, SellKeeps, BuyKeeps,
             AddMemberKeeps, GiveKeeps DEF UserStep
<1>2. IInv /\ [Next]_vars => [Step]_vars
  BY <1>1 DEF Next
<1> QED BY <1>2, SpecInv, PTL DEF Spec, OnlyTheCreatorUpdates
==============================================================================
