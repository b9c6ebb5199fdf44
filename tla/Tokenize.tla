------------------------------ MODULE Tokenize ------------------------------
(* Users of the web application at work on the contract Hexs                  *)
(* (deploy-web/src/utils/evmContractInteraction.ts). Tokenizing a model takes *)
(* several transactions and calls with awaits between them, during which      *)
(* every other user goes on: createModel, a read of the contract's newest     *)
(* model id, the upload of the SDL encrypted for the holders of that id's     *)
(* NFT, and updateSDLURI. The other operations are one transaction each.      *)
(*                                                                            *)
(* A user tokenizes one model at a time (one open page that creates a lease). *)
(* The engagement server's answer is ignored by the flow (its errors are      *)
(* caught and logged), so that call changes nothing here.                     *)
EXTENDS Hexs

VARIABLES
  flow   \* user -> the tokenization under way

vars == <<modelId, idToModel, modelIdToMembers, nft, flow>>

Idle == [at |-> "idle", made |-> 0, newModelId |-> 0]

(* "made" is the model createModel has made for the flow: the page does not   *)
(* know it, the properties need it.                                           *)
Flow == [at : {"idle", "created", "named", "uploaded"},
         made : 0..MaxModelId, newModelId : 0..MaxModelId]

Init == HexsInit /\ flow = [u \in Users |-> Idle]

(* createModel(visibility, "") mined.                                         *)
TokenizeCreate(u) ==
  /\ flow[u].at = "idle"
  /\ CanCreateModel(u, u)
  /\ CreateModel(u, NoUri)
  /\ flow' = [flow EXCEPT ![u] = [at |-> "created", made |-> modelId',
                                  newModelId |-> 0]]

(* getNewModelId reads the contract's counter.                                *)
TokenizeReadId(u) ==
  /\ flow[u].at = "created"
  /\ flow' = [flow EXCEPT ![u].at = "named", ![u].newModelId = modelId]
  /\ UNCHANGED hexsVars

(* The SDL is uploaded and its access condition applied; when either fails the *)
(* error is caught, the URI is undefined, and the transaction that follows    *)
(* cannot be encoded: the flow ends.                                          *)
TokenizeUpload(u) ==
  /\ flow[u].at = "named"
  /\ \/ flow' = [flow EXCEPT ![u].at = "uploaded"]
     \/ flow' = [flow EXCEPT ![u] = Idle]
  /\ UNCHANGED hexsVars

(* updateSDLURI with the URI of the upload; a revert ends the flow as well.   *)
TokenizeUpdate(u) ==
  /\ flow[u].at = "uploaded"
  /\ IF CanUpdateSDLURI(u, flow[u].newModelId)
     THEN UpdateSDLURI([gate |-> flow[u].newModelId, of |-> flow[u].made])
     ELSE UNCHANGED hexsVars
  /\ flow' = [flow EXCEPT ![u] = Idle]

(* Discovery page: fork a model of the list.                                  *)
Fork(u) ==
  /\ CanForkModel
  /\ \E m \in Models : ForkModel(u, m)
  /\ UNCHANGED flow

(* My models: sell, add a member.                                             *)
Sell(u) ==
  /\ Cardinality(Offered) < MaxOffers
  /\ \E m \in Models : CanPutModelOnSale(u, m) /\ PutModelOnSale(m, 1)
  /\ UNCHANGED flow

(* Marketplace page: buy a model at the price shown, which may be an old one. *)
Buy(u) ==
  /\ \E m \in Models, value \in Prices :
       /\ idToModel[m].onSale
       /\ IF CanBuyModel(u, m, value) THEN BuyModel(u, m) ELSE UNCHANGED hexsVars
  /\ UNCHANGED flow

(* The member's address is what the user typed, the contract's own included.   *)
AddMember(u) ==
  /\ \E m \in Models, v \in Users \cup {Self} :
       /\ CanAddMemberToDao(u, m)
       /\ MemberTokens < MaxMembers
       /\ AddMemberToDao(u, m, v)
  /\ UNCHANGED flow

(* A holder hands a token to another user or to the contract Hexs, in a       *)
(* wallet of their own: transferFrom does not ask what the receiver is.       *)
Give(u) ==
  /\ \E m \in Models, t \in 1..(MaxMembers + 1), v \in (Users \ {u}) \cup {Self} :
       CanTransferNft(u, m, t) /\ TransferNft(m, t, v)
  /\ UNCHANGED flow

UserStep(u) ==
  \/ TokenizeCreate(u) \/ TokenizeReadId(u) \/ TokenizeUpload(u) \/ TokenizeUpdate(u)
  \/ Fork(u) \/ Sell(u) \/ Buy(u) \/ AddMember(u) \/ Give(u)

Next == \E u \in Users : UserStep(u)

Spec == Init /\ [][Next]_vars

-----------------------------------------------------------------------------
(* Types of the contract's storage and of the pages' flows.                   *)
TypeOK == HexsTypeOK /\ flow \in [Users -> Flow]

(* The models m was forked from, one after the other, end at its base: the    *)
(* parent is an older model, has the same base or is the base, and the base   *)
(* is no fork itself (forkModel, over any number of forks).                   *)
BaseIsRoot ==
  \A m \in Models :
    LET model == idToModel[m] IN
    IF model.isForked
    THEN /\ model.forkedFrom \in 1..(m - 1)
         /\ model.baseModel \in 1..(m - 1) /\ ~idToModel[model.baseModel].isForked
         /\ \/ model.baseModel = model.forkedFrom
            \/ model.baseModel = idToModel[model.forkedFrom].baseModel
    ELSE model.baseModel = 0 /\ model.forkedFrom = 0

(* Whatever other users create between the transactions of a tokenization,    *)
(* the file stored for a model that is no fork was made for it and opens with *)
(* its own NFT: an update that would hit another user's newer model reverts   *)
(* in that model's NFT contract. Only the model of which the contract Hexs    *)
(* itself was handed a token has no such protection: its NFT accepts Hexs for *)
(* whoever sends the transaction (SDLNFT.onlyModelOwner).                     *)
StoredFileIsItsOwn ==
  \A m \in Models :
    /\ ~idToModel[m].isForked /\ idToModel[m].encryptedSDLURI # NoUri
    /\ ~Holds(Self, m)
    => idToModel[m].encryptedSDLURI = [gate |-> m, of |-> m]

(* A model's URI is changed only by the end of a tokenization of the user who *)
(* created the model: not of a member, not of a later holder of its NFT. Once *)
(* the contract Hexs has a token of the model, any user's may change it.      *)
OnlyTheCreatorUpdates ==
  [][\A m \in Models :
       idToModel'[m].encryptedSDLURI # idToModel[m].encryptedSDLURI
         => \E u \in Users :
              /\ flow[u].at = "uploaded" /\ flow'[u] = Idle
              /\ u = idToModel[m].creator \/ Holds(Self, m)]_vars
==============================================================================
