---------------------------- MODULE Certificates ----------------------------
(* The certificates of the web application's wallets: on the chain, in the    *)
(* browser's storage (with their keys) and in the state of CertificateProvider *)
(* (deploy-web/src/context/CertificateProvider), which every page reads.      *)
(*                                                                            *)
(* An operation (create, regenerate, revoke, revoke all, or a deployment that  *)
(* creates the certificate it needs) keeps the wallet, the local certificate  *)
(* and the selection of the render it was started from; between its awaits    *)
(* (list of certificates, transaction, list again) the user may switch to     *)
(* another wallet and answers to earlier requests arrive. The page runs one   *)
(* operation at a time. openCert awaits nothing but its own promise, so       *)
(* loadLocalCert is one step; an effect runs in the step that changes what it  *)
(* depends on.                                                                *)
EXTENDS Naturals, FiniteSets, FiniteSetsExt

CONSTANTS
  Wallets,     \* addresses the user can connect
  NoWallet,    \* no wallet is connected
  MaxCerts,    \* bound of the model: certificates ever created
  MaxLoads,    \* bound of the model: background requests in flight
  MaxFaults    \* bound of the model: requests and transactions that fail

ASSUME CertificatesAssumption ==
  /\ NoWallet \notin Wallets
  /\ MaxCerts \in Nat /\ MaxLoads \in Nat /\ MaxFaults \in Nat

VARIABLES
  chain,       \* certificate -> its owner and state on the chain
  stored,      \* wallet -> the certificate kept for it in localStorage
  selected,    \* the wallet marked as selected in localStorage
  address,     \* the connected wallet
  valid,       \* validCertificates
  selection,   \* selectedCertificate
  localCert,   \* localCert, with the address it was opened for
  loads,       \* loadValidCertificates calls nobody awaits
  op,          \* the operation under way
  faults       \* failures so far

page == <<address, valid, selection, localCert>>
storage == <<stored, selected>>
certVars == <<chain, storage, page, loads, op, faults>>

Certs == 1..MaxCerts
NoCert == 0
AnyWallet == Wallets \cup {NoWallet}

ChainCert == [owner : AnyWallet, state : {"none", "valid", "revoked"}]
LocalCert == [address : AnyWallet, cert : Certs \cup {NoCert}]
Load == [owner : Wallets, answer : SUBSET Certs]
Op == [kind : {"none", "create", "regenerate", "revoke", "revokeAll", "deploy"},
       at : {"list", "tx", "reload"}, by : AnyWallet, revokes : SUBSET Certs,
       cert : Certs \cup {NoCert}, localCert : LocalCert,
       selection : Certs \cup {NoCert}, createsCert : BOOLEAN, matching : BOOLEAN,
       answer : SUBSET Certs]

NoLocalCert == [address |-> NoWallet, cert |-> NoCert]
NoOp == [kind |-> "none", at |-> "list", by |-> NoWallet, revokes |-> {},
         cert |-> NoCert, localCert |-> NoLocalCert, selection |-> NoCert,
         createsCert |-> FALSE, matching |-> FALSE, answer |-> {}]

ValidOf(w) == {c \in Certs : chain[c] = [owner |-> w, state |-> "valid"]}
FreeCerts == {c \in Certs : chain[c].state = "none"}

(* What loadLocalCert leaves in localCert, from what it finds in the storage. *)
StoredLocalCert ==
  IF selected = NoWallet THEN NoLocalCert
  ELSE [address |-> selected, cert |-> stored[selected]]

(* The effect on selection, localCert and validCertificates: a local          *)
(* certificate that is in the list is selected when nothing is.               *)
AutoSelected(v, s, l) == IF s = NoCert /\ l.cert \in v THEN l.cert ELSE s

IsLocalCertMatching == localCert.cert \in valid /\ selection = localCert.cert

(* The page's new state, the effect's change included.                        *)
Show(v, s, l) ==
  /\ valid' = v
  /\ localCert' = l
  /\ selection' = AutoSelected(v, s, l)

Fail == faults < MaxFaults /\ faults' = faults + 1

-----------------------------------------------------------------------------
(* Wallets *)

(* The effects on a new address. The certificates' effect runs before the one *)
(* of the wallet provider it is nested in, so loadLocalCert reads the storage *)
(* before loadWallet marks the new wallet as the selected one.                *)
LocalCertAfterSwitch(w) == IF w = NoWallet THEN NoLocalCert ELSE StoredLocalCert

SwitchWallet(w) ==
  /\ w # address
  /\ address' = w
  /\ Show({}, NoCert, LocalCertAfterSwitch(w))
  /\ IF w = NoWallet
     THEN UNCHANGED <<loads, selected>>
     ELSE /\ Cardinality(loads) < MaxLoads
          /\ loads' = loads \cup {[owner |-> w, answer |-> ValidOf(w)]}
          /\ selected' = w
  /\ UNCHANGED <<chain, stored, op, faults>>

(* The refresh button.                                                        *)
Refresh ==
  /\ address # NoWallet /\ Cardinality(loads) < MaxLoads
  /\ loads' = loads \cup {[owner |-> address, answer |-> ValidOf(address)]}
  /\ UNCHANGED <<chain, storage, page, op, faults>>

(* An answer replaces the list, whichever wallet is connected by now. It shows *)
(* the certificates as they were at the request or as they are now.           *)
Loaded(load) ==
  /\ loads' = loads \ {load}
  /\ \E answer \in {load.answer, ValidOf(load.owner)} :
       Show(answer, selection, localCert)
  /\ UNCHANGED <<chain, storage, address, op, faults>>

LoadFails(load) ==
  /\ Fail
  /\ loads' = loads \ {load}
  /\ UNCHANGED <<chain, storage, page, op>>

-----------------------------------------------------------------------------
(* Operations *)

Start(kind, at, revokes) ==
  /\ op = NoOp /\ address # NoWallet
  /\ op' = [kind |-> kind, at |-> at, by |-> address, revokes |-> revokes,
            cert |-> NoCert, localCert |-> localCert, selection |-> selection,
            createsCert |-> kind \in {"create", "regenerate"},
            matching |-> IsLocalCertMatching, answer |-> {}]
  /\ UNCHANGED <<chain, storage, page, loads, faults>>

(* Every page offers it only when the local certificate does not match.       *)
CreateCertificate == ~IsLocalCertMatching /\ Start("create", "tx", {})

RegenerateCertificate ==
  /\ selection # NoCert /\ selection = localCert.cert
  /\ Start("regenerate", "tx", {selection})

RevokeCertificate ==
  \E c \in valid \cup ({selection} \ {NoCert}) : Start("revoke", "tx", {c})

RevokeAllCertificates == valid # {} /\ Start("revokeAll", "tx", valid)

(* A deployment reads the list of the wallet first.                           *)
CreateDeployment == Start("deploy", "list", {})

\* Mutant of NeedsCert: what the page showed decides.
NeedsUnmatched(answer) == ~op.matching

(* A certificate is created along with the deployment unless the local one is *)
(* in the list just loaded and matched the selection when the user clicked.   *)
NeedsCert(answer) == ~(op.localCert.cert \in answer /\ op.matching)

DeployWith(answer) ==
  op' = [op EXCEPT !.at = "tx", !.answer = answer, !.createsCert = NeedsCert(answer)]

(* With the answer, or the empty list of a failed request.                    *)
DeployListed ==
  /\ op.kind = "deploy" /\ op.at = "list"
  /\ \/ /\ Show(ValidOf(op.by), selection, localCert)
        /\ DeployWith(ValidOf(op.by))
        /\ UNCHANGED faults
     \/ /\ Fail
        /\ DeployWith({})
        /\ UNCHANGED <<valid, selection, localCert>>
     \/ op' = NoOp /\ UNCHANGED <<valid, selection, localCert, faults>>  \* invalid SDL
  /\ UNCHANGED <<chain, storage, address, loads>>

(* The chain takes the messages together, when it takes them.                 *)
TxAccepted ==
  /\ op.revokes \subseteq ValidOf(op.by)
  /\ op.createsCert => FreeCerts # {}

NewCert == IF op.createsCert THEN Min(FreeCerts) ELSE NoCert

ChainAfterTx ==
  [c \in Certs |->
     IF c = NewCert THEN [owner |-> op.by, state |-> "valid"]
     ELSE IF c \in op.revokes THEN [chain[c] EXCEPT !.state = "revoked"]
     ELSE chain[c]]

\* Mutant of StoreNewCert: the wallet that is selected by then.
StoreForSelected == [stored EXCEPT ![selected] = NewCert]

(* updateWallet after the transaction: the wallet that started the operation. *)
StoreNewCert == [stored EXCEPT ![op.by] = NewCert]

(* The transaction succeeds: a new certificate is stored with its key, and    *)
(* unless nothing of the certificates changed the list is loaded again.       *)
TxSucceeds ==
  /\ op.at = "tx" /\ TxAccepted
  /\ chain' = ChainAfterTx
  /\ stored' = IF op.createsCert THEN StoreNewCert ELSE stored
  /\ op' = IF op.kind = "deploy" /\ ~op.createsCert THEN NoOp
           ELSE [op EXCEPT !.at = "reload", !.cert = NewCert]
  /\ UNCHANGED <<selected, page, loads, faults>>

(* signAndBroadcastTx returns false although the transaction was committed:   *)
(* it was not found in time, or the balances could not be read after it.      *)
TxUnconfirmed ==
  /\ op.at = "tx" /\ TxAccepted
  /\ Fail
  /\ chain' = ChainAfterTx
  /\ op' = NoOp
  /\ UNCHANGED <<storage, page, loads>>

(* Rejected by the user or by the chain.                                      *)
TxFails ==
  /\ op.at = "tx"
  /\ op' = NoOp
  /\ UNCHANGED <<chain, storage, page, loads, faults>>

(* What the operation does with the list it gets: answer, or {} with the list *)
(* on the page unchanged when the request fails.                              *)
ReloadedCreate(list, answer) ==
  /\ Show(list, IF op.cert \in answer THEN op.cert ELSE NoCert, StoredLocalCert)
  /\ UNCHANGED stored

\* Mutant of RevokesOther: the selected certificate is looked for.
KeepsSelected(answer) == op.selection \in answer

(* isRevokingOtherCert: the local certificate the operation started with.     *)
RevokesOther(answer) == op.localCert.cert \in answer

ReloadedRevoke(list, answer) ==
  /\ stored' = IF RevokesOther(answer) THEN stored
               ELSE [stored EXCEPT ![op.by] = NoCert]
  /\ IF answer = {} THEN Show(list, NoCert, localCert)
     ELSE IF op.selection \in op.revokes
     THEN \E first \in answer : Show(list, first, localCert)
     ELSE Show(list, selection, localCert)

ReloadedRevokeAll(list) ==
  /\ stored' = [stored EXCEPT ![op.by] = NoCert]
  /\ Show(list, NoCert, localCert)

Reloaded(list, answer) ==
  CASE op.kind \in {"create", "regenerate", "deploy"} -> ReloadedCreate(list, answer)
    [] op.kind = "revoke" -> ReloadedRevoke(list, answer)
    [] op.kind = "revokeAll" -> ReloadedRevokeAll(list)

Reload ==
  /\ op.at = "reload"
  /\ \/ Reloaded(ValidOf(op.by), ValidOf(op.by)) /\ UNCHANGED faults
     \/ Reloaded(valid, {}) /\ Fail
  /\ op' = NoOp
  /\ UNCHANGED <<chain, selected, address, loads>>

-----------------------------------------------------------------------------
CertInit ==
  /\ chain = [c \in Certs |-> [owner |-> NoWallet, state |-> "none"]]
  /\ stored = [w \in Wallets |-> NoCert]
  /\ selected = NoWallet
  /\ address = NoWallet
  /\ valid = {} /\ selection = NoCert /\ localCert = NoLocalCert
  /\ loads = {}
  /\ op = NoOp
  /\ faults = 0

CertNext ==
  \/ \E w \in AnyWallet : SwitchWallet(w)
  \/ Refresh
  \/ \E load \in loads : Loaded(load) \/ LoadFails(load)
  \/ CreateCertificate \/ RegenerateCertificate \/ RevokeCertificate
  \/ RevokeAllCertificates \/ CreateDeployment
  \/ DeployListed \/ TxSucceeds \/ TxUnconfirmed \/ TxFails \/ Reload

CertSpec == CertInit /\ [][CertNext]_certVars

-----------------------------------------------------------------------------
CertTypeOK ==
  /\ chain \in [Certs -> ChainCert]
  /\ stored \in [Wallets -> Certs \cup {NoCert}]
  /\ selected \in AnyWallet /\ address \in AnyWallet
  /\ valid \subseteq Certs /\ selection \in Certs \cup {NoCert}
  /\ localCert \in LocalCert
  /\ loads \subseteq Load
  /\ op \in Op
  /\ faults \in 0..MaxFaults

(* A deployment sent without a new certificate relies on a local one that is  *)
(* valid on the chain and belongs to the wallet that deploys, although the    *)
(* page's list and local certificate may be another wallet's by then: the     *)
(* list the wizard loads itself decides.                                      *)
DeploysWithOwnCert ==
  op.kind = "deploy" /\ op.at = "tx" /\ ~op.createsCert
    => op.localCert.cert \in ValidOf(op.by)

(* The storage never gives a wallet the certificate of another one, wherever  *)
(* the user has switched to while the transaction was under way.              *)
StoredCertIsOwn ==
  \A w \in Wallets :
    stored[w] # NoCert =>
      chain[stored[w]].owner = w /\ chain[stored[w]].state # "none"

(* The key of a certificate that stays valid leaves the storage, emptied or   *)
(* replaced by the key of a new one, only when the page showed another         *)
(* wallet's local certificate at the start of the operation (the switch of     *)
(* wallets leaves it there), when a certificate was asked for on a page on     *)
(* which the local one did not match (another is selected, or the list does    *)
(* not have it), when a list could not be loaded, or when the list that was    *)
(* revoked did not have it.                                                    *)
KeyGivenUp(w) ==
  \/ op.localCert.address # w
  \/ op.kind \in {"create", "deploy"} /\ ~op.matching
  \/ op.kind = "deploy" /\ op.answer = {}
  \/ op.kind = "revoke" /\ faults' # faults
  \/ op.kind = "revokeAll" /\ stored[w] \notin op.revokes

(* Nothing else loses the key of a certificate that the chain still takes.    *)
ValidKeysAreKept ==
  [][\A w \in Wallets :
       stored[w] # NoCert /\ stored'[w] # stored[w]
         => chain'[stored[w]].state = "revoked" \/ KeyGivenUp(w)]_certVars
==============================================================================
