-------------------------------- MODULE Hexs --------------------------------
(* The contract Hexs (contracts/contracts/Hexs_BNB.sol) with the NFT          *)
(* contracts (SDLNFT.sol) it deploys, one for each model: models are created, *)
(* forked, offered for sale, shared with members, and given the URI of their  *)
(* encrypted SDL.                                                             *)
(*                                                                            *)
(* A transaction is atomic: it happens as a whole or reverts. Can<Op> collects *)
(* what an operation and the contracts it calls require (checked arithmetic   *)
(* included); <Op> is its effect. Fields nothing in the contract reads        *)
(* (visibility, royaltyRate, the reviews, engagementScore) are left out.      *)
EXTENDS Naturals, Sequences, FiniteSets, FiniteSetsExt

CONSTANTS
  Users,        \* accounts (externally owned: msg.sender = tx.origin)
  MaxModelId,   \* the largest value of modelId's type (255 for uint8)
  MaxMembers,   \* bound of the model: members' tokens minted in all
  MaxOffers,    \* bound of the model: models offered for sale
  NoUri,        \* the empty string
  Self          \* the address of the contract Hexs

ASSUME HexsAssumption ==
  MaxModelId \in Nat /\ MaxMembers \in Nat /\ MaxOffers \in Nat
  /\ Self \notin Users

VARIABLES
  modelId,           \* number of models, the id of the newest one
  idToModel,         \* id -> the model's record
  modelIdToMembers,  \* id -> the addresses pushed for the model
  nft                \* id -> the model's NFT contract

hexsVars == <<modelId, idToModel, modelIdToMembers, nft>>

Ids == 1..MaxModelId
Models == 1..modelId

(* A URI names an encrypted file. "gate" is the model whose NFT opens it and  *)
(* "of" the model it was made for: what the properties tell apart.            *)
Uris == {NoUri} \cup [gate : Ids, of : Ids]
Prices == {0, 1}

Model == [creator : Users, priviledgedOwner : Users, encryptedSDLURI : Uris,
          isForked : BOOLEAN, baseModel : 0..MaxModelId,
          forkedFrom : 0..MaxModelId, lastSoldPrice : Prices, onSale : BOOLEAN]

(* The token with id i belongs to owners[i].                                  *)
Nft == [priviledgedOwner : Users, tokenUri : Uris, owners : Seq(Users \cup {Self})]

Holds(u, m) == \E t \in DOMAIN nft[m].owners : nft[m].owners[t] = u

\* Mutant of NftAccepts: every caller accepted.
AcceptsAll(u, m) == TRUE

\* Mutant of NftAccepts: the origin's token looked for instead of Hexs's own.
AcceptsHolders(u, m) == Holds(u, m) \/ nft[m].priviledgedOwner = u

(* SDLNFT.onlyModelOwner when Hexs is the caller in a transaction of u.       *)
NftAccepts(u, m) == Holds(Self, m) \/ nft[m].priviledgedOwner = u

(* idToModel[m] of an id that was never assigned is the zero record.          *)
BaseOf(m) == IF m \in Models THEN idToModel[m].baseModel ELSE 0

NewNft(u, uri) == [priviledgedOwner |-> u, tokenUri |-> uri, owners |-> <<u>>]

(* ++modelId reverts at the largest value of the type.                        *)
CanCount == modelId < MaxModelId

NextModelId == modelId + 1

AddModel(u, model) ==
  /\ modelId' = NextModelId
  /\ idToModel' = [i \in Models \cup {NextModelId} |->
                     IF i = NextModelId THEN model ELSE idToModel[i]]
  /\ modelIdToMembers' = [i \in Models \cup {NextModelId} |->
                            IF i = NextModelId THEN <<u>> ELSE modelIdToMembers[i]]
  /\ nft' = [i \in Models \cup {NextModelId} |->
               IF i = NextModelId THEN NewNft(u, model.encryptedSDLURI) ELSE nft[i]]

(* createModel(_to): the new NFT takes its URI and its first token from Hexs  *)
(* only in a transaction of _to itself.                                       *)
CanCreateModel(u, to) == CanCount /\ u = to

CreateModel(to, uri) ==
  AddModel(to, [creator |-> to, priviledgedOwner |-> to, encryptedSDLURI |-> uri,
                isForked |-> FALSE, baseModel |-> 0, forkedFrom |-> 0,
                lastSoldPrice |-> 0, onSale |-> FALSE])

\* Mutant of ForkBase: the parent, whatever its own base is.
ForkParent(m) == m

(* The base of a fork is the base of the model it is forked from, or that     *)
(* model itself when it has none.                                             *)
ForkBase(m) == IF BaseOf(m) = 0 THEN m ELSE BaseOf(m)

CanForkModel == CanCount

ForkModel(u, m) ==
  AddModel(u, [creator |-> u, priviledgedOwner |-> u,
               encryptedSDLURI |-> idToModel[m].encryptedSDLURI,
               isForked |-> TRUE, baseModel |-> ForkBase(m), forkedFrom |-> m,
               lastSoldPrice |-> 0, onSale |-> FALSE])

CanPutModelOnSale(u, m) == idToModel[m].priviledgedOwner = u

PutModelOnSale(m, price) ==
  /\ idToModel' = [idToModel EXCEPT ![m].onSale = TRUE, ![m].lastSoldPrice = price]
  /\ UNCHANGED <<modelId, modelIdToMembers, nft>>

Offered == {m \in Models : idToModel[m].onSale}
MemberTokens == MapThenSumSet(LAMBDA m : Len(nft[m].owners) - 1, Models)

(* userToModelToTokeId: written for the first token of a model only.          *)
RecordedToken(u, m) == IF idToModel[m].creator = u THEN 1 ELSE 0

(* Hexs has no onERC721Received, so safeTransferFrom to it reverts.           *)
ReceivesNfts == FALSE

(* The transfer buyModel ends with takes the buyer's recorded token to Hexs.  *)
CanBuyModel(u, m, value) ==
  /\ idToModel[m].onSale /\ idToModel[m].lastSoldPrice = value
  /\ RecordedToken(u, m) \in DOMAIN nft[m].owners
  /\ nft[m].owners[RecordedToken(u, m)] = u
  /\ ReceivesNfts

BuyModel(u, m) ==
  /\ idToModel' = [idToModel EXCEPT ![m].priviledgedOwner = u]
  /\ nft' = [nft EXCEPT ![m].owners[RecordedToken(u, m)] = Self]
  /\ UNCHANGED <<modelId, modelIdToMembers>>

(* The model updateSDLURI writes to is the newest one, whatever its argument. *)
UpdatedModel == modelId

CanUpdateSDLURI(u, m) == m \in Models /\ Holds(u, m) /\ NftAccepts(u, UpdatedModel)

(* The NFT takes over the URI the model had until then.                       *)
UpdateSDLURI(uri) ==
  /\ idToModel' = [idToModel EXCEPT ![UpdatedModel].encryptedSDLURI = uri]
  /\ nft' = [nft EXCEPT ![UpdatedModel].tokenUri =
                          idToModel[UpdatedModel].encryptedSDLURI]
  /\ UNCHANGED <<modelId, modelIdToMembers>>

CanAddMemberToDao(u, m) == Holds(u, m) /\ NftAccepts(u, m)

(* The new member gets a token; the list of members gets the sender.          *)
AddMemberToDao(u, m, newMember) ==
  /\ nft' = [nft EXCEPT ![m].owners = Append(@, newMember)]
  /\ modelIdToMembers' = [modelIdToMembers EXCEPT ![m] = Append(@, u)]
  /\ UNCHANGED <<modelId, idToModel>>

(* ERC721.transferFrom by a token's owner, at the NFT contract itself.        *)
CanTransferNft(u, m, t) == t \in DOMAIN nft[m].owners /\ nft[m].owners[t] = u

TransferNft(m, t, to) ==
  /\ nft' = [nft EXCEPT ![m].owners[t] = to]
  /\ UNCHANGED <<modelId, idToModel, modelIdToMembers>>

HexsInit ==
  /\ modelId = 0
  /\ idToModel = <<>>
  /\ modelIdToMembers = <<>>
  /\ nft = <<>>

HexsTypeOK ==
  /\ modelId \in 0..MaxModelId
  /\ DOMAIN idToModel = Models /\ \A m \in Models : idToModel[m] \in Model
  /\ DOMAIN nft = Models /\ \A m \in Models : nft[m] \in Nft
  /\ DOMAIN modelIdToMembers = Models
  /\ \A m \in Models : modelIdToMembers[m] \in Seq(Users)
==============================================================================
