----------------------------- MODULE AkashEscrow -----------------------------
(***************************************************************************)
(* A deployment's escrow account as the Akash stats indexer keeps it       *)
(* (indexer/src/indexers/akashStatsIndexer.ts and akashPaymentSettle.ts):  *)
(* the chain only stores that a message happened, and the indexer replays  *)
(* the chain's settlement arithmetic to know what is left, who was paid    *)
(* what, and at which height the money will run out.                       *)
(*                                                                         *)
(* The messages are those a block may hold: the chain has accepted them,   *)
(* since messages of failed transactions are not processed.  Two different *)
(* deployments share no row, so the module has one.                        *)
(***************************************************************************)
EXTENDS Integers, FiniteSets, Functions

CONSTANTS
  Leases,     \* the leases the deployment may get, one per accepted bid
  Price,      \* price per block of each of them
  Unit,       \* amounts are kept in 1/Unit of a token, see UnitAssumption
  Amounts,    \* deposits, in tokens
  MaxDeposit, \* bound: tokens deposited in total
  MaxHeight   \* bound: the last block

Heights == 1..MaxHeight
NoHeight == 0

ASSUME PriceAssumption == IsFiniteSet(Leases) /\ Price \in [Leases -> Nat \ {0}]

\* blockRate of a set of leases.
RateOf(L) == SumFunctionOnSet(Price, L)

\* The shares of an overdrawn account's last tokens are fractions, which the
\* database keeps as doubles: in 1/Unit they are whole numbers.
ASSUME UnitAssumption ==
  /\ Unit \in Nat \ {0}
  /\ \A S \in SUBSET Leases : \A l \in S : (Unit * Price[l]) % RateOf(S) = 0

ASSUME BoundsAssumption ==
  /\ Amounts \subseteq Nat \ {0} /\ MaxDeposit \in Nat /\ MaxHeight \in Nat \ {0}

VARIABLES
  height,      \* height of the block whose messages are processed
  deployment,  \* the deployment's row, created = NoHeight when there is none
  leases,      \* the leases' rows
  bids,        \* bids in the bid table
  halted,      \* a row was refused by the database: processing cannot go on
  misdated     \* history: the last prediction was made by handleCloseLease

escrowVars == <<height, deployment, leases, bids, halted, misdated>>

MaybeHeight == Heights \cup {NoHeight}

Deployment == [created : MaybeHeight, deposit : Nat, balance : Int, withdrawn : Nat,
               lastWithdraw : MaybeHeight, closed : MaybeHeight]
Lease == [created : MaybeHeight, closed : MaybeHeight, predicted : Nat, withdrawn : Nat]

NoDeployment == [created |-> NoHeight, deposit |-> 0, balance |-> 0, withdrawn |-> 0,
                 lastWithdraw |-> NoHeight, closed |-> NoHeight]
NoLease == [created |-> NoHeight, closed |-> NoHeight, predicted |-> 0, withdrawn |-> 0]

EscrowTypeOK ==
  /\ height \in Heights
  /\ deployment \in Deployment
  /\ leases \in [Leases -> Lease]
  /\ bids \subseteq Leases
  /\ halted \in BOOLEAN /\ misdated \in BOOLEAN

EscrowInit ==
  /\ height = 1
  /\ deployment = NoDeployment
  /\ leases = [l \in Leases |-> NoLease]
  /\ bids = {}
  /\ halted = FALSE /\ misdated = FALSE

------------------------------------------------------------------------------
Created(l) == leases[l].created # NoHeight
Active == {l \in Leases : Created(l) /\ leases[l].closed = NoHeight}
BlockRate == RateOf(Active)
Exists == deployment.created # NoHeight
Open == Exists /\ deployment.closed = NoHeight

CeilDiv(a, b) == (a + b - 1) \div b

\* The blocks since the last settlement; a lastWithdrawHeight of null counts as 0.
HeightDelta == height - deployment.lastWithdraw

\* Mutant of NumFullBlocks: a block the balance pays for in part counts as paid.
NumFullBlocksRounded ==
  LET affordable == CeilDiv(deployment.balance, BlockRate * Unit)
  IN IF affordable < HeightDelta THEN affordable ELSE HeightDelta

\* accountSettleFullBlocks: how many of them the balance pays for in full.
NumFullBlocks ==
  LET affordable == deployment.balance \div (BlockRate * Unit)
  IN IF affordable < HeightDelta THEN affordable ELSE HeightDelta

\* accountSettle does nothing twice at one height, nor without active leases.
Settles == height # deployment.lastWithdraw /\ Active # {}
Overdrawn == Settles /\ NumFullBlocks # HeightDelta

\* accountSettleDistributeWeighted: what is left after the full blocks.
Remaining == deployment.balance - BlockRate * Unit * NumFullBlocks
Share(l) == (Remaining * Price[l]) \div BlockRate

\* What a settlement pays a lease.
Payment(l) ==
  IF ~Settles \/ l \notin Active THEN 0
  ELSE Price[l] * Unit * NumFullBlocks + (IF Overdrawn THEN Share(l) ELSE 0)

Transferred == SumFunction([l \in Leases |-> Payment(l)])

\* The rows after accountSettle.  An overdrawn account is closed, its active
\* leases with it.
SettledDeployment ==
  [deployment EXCEPT
     !.lastWithdraw = height,
     !.balance = @ - Transferred,
     !.withdrawn = @ + Transferred,
     !.closed = IF Overdrawn THEN height ELSE @]

SettledLeases ==
  [l \in Leases |->
     [leases[l] EXCEPT
        !.withdrawn = @ + Payment(l),
        !.closed = IF Overdrawn /\ l \in Active THEN height ELSE @]]

\* The rows with leases L closed, and every prediction set to p.
Close(rows, L) == [l \in Leases |-> IF l \in L THEN [rows[l] EXCEPT !.closed = height] ELSE rows[l]]
Predict(rows, p) == [l \in Leases |->
  IF rows[l].created # NoHeight THEN [rows[l] EXCEPT !.predicted = p] ELSE rows[l]]
------------------------------------------------------------------------------
\* handleCreateDeployment and its later versions.
CreateDeployment(amount) ==
  /\ ~halted /\ ~Exists /\ amount <= MaxDeposit
  /\ deployment' = [NoDeployment EXCEPT !.created = height, !.deposit = amount * Unit,
                                        !.balance = amount * Unit]
  /\ UNCHANGED <<height, leases, bids, halted, misdated>>

\* handleCreateBid and its later versions.
CreateBid(l) ==
  /\ ~halted /\ Open /\ l \notin bids /\ ~Created(l)
  /\ bids' = bids \cup {l}
  /\ UNCHANGED <<height, deployment, leases, halted, misdated>>

\* handleDepositDeployment: no settlement, so the predictions count from the
\* last one.
Deposit(amount) ==
  /\ ~halted /\ Open /\ deployment.deposit + amount * Unit <= MaxDeposit * Unit
  /\ deployment' = [deployment EXCEPT !.deposit = @ + amount * Unit,
                                      !.balance = @ + amount * Unit]
  /\ leases' = [l \in Leases |->
       IF l \notin Active THEN leases[l]
       ELSE [leases[l] EXCEPT !.predicted =
               deployment.lastWithdraw + CeilDiv(deployment'.balance, BlockRate * Unit)]]
  /\ misdated' = FALSE
  /\ UNCHANGED <<height, bids, halted>>

\* Mutant of CreateLease: the other leases are not settled first.
CreateLeaseUnsettled(l) ==
  /\ ~halted /\ Open /\ l \in bids /\ ~Created(l) /\ ~Overdrawn
  /\ deployment' = [deployment EXCEPT !.lastWithdraw = height]
  /\ leases' = Predict([leases EXCEPT ![l] = [NoLease EXCEPT !.created = height]],
       height + CeilDiv(deployment.balance, (BlockRate + Price[l]) * Unit))
  /\ misdated' = FALSE
  /\ UNCHANGED <<height, bids, halted>>

\* Mutant of CreateLease: the prediction leaves the new lease's price out.
CreateLeaseAtOldRate(l) ==
  /\ ~halted /\ Open /\ l \in bids /\ ~Created(l) /\ ~Overdrawn
  /\ deployment' = SettledDeployment
  /\ leases' = Predict([SettledLeases EXCEPT ![l] = [NoLease EXCEPT !.created = height]],
       height + CeilDiv(SettledDeployment.balance,
                        (IF Active = {} THEN Price[l] ELSE BlockRate) * Unit))
  /\ misdated' = FALSE
  /\ UNCHANGED <<height, bids, halted>>

\* handleCreateLease.  The chain refuses a lease on an overdrawn account.
CreateLease(l) ==
  LET predicted == height + CeilDiv(SettledDeployment.balance, (BlockRate + Price[l]) * Unit)
  IN
  /\ ~halted /\ Open /\ l \in bids /\ ~Created(l) /\ ~Overdrawn
  /\ deployment' = SettledDeployment
  /\ leases' = Predict([SettledLeases EXCEPT ![l] = [NoLease EXCEPT !.created = height]],
                       predicted)
  /\ misdated' = FALSE
  /\ UNCHANGED <<height, bids, halted>>

\* handleWithdrawLease: a settlement and nothing else.
WithdrawLease(l) ==
  /\ ~halted /\ l \in Active
  /\ deployment' = SettledDeployment
  /\ leases' = SettledLeases
  /\ UNCHANGED <<height, bids, halted, misdated>>

\* The rows after a settlement and the closing of lease l, the deployment
\* closing with its last lease.
OthersActive(l) == ~Overdrawn /\ Active # {l}

\* Mutant of ClosedDeployment: the deployment not closed with its last lease.
ClosedDeploymentNever(l) == SettledDeployment

ClosedDeployment(l) ==
  IF OthersActive(l) THEN SettledDeployment ELSE [SettledDeployment EXCEPT !.closed = height]

\* handleCloseLease.  The new prediction for the other leases is a number of
\* blocks, not the height they lead to.  A fraction is refused by the BIGINT
\* column: the transaction is rolled back, again on every later run.
CloseLease(l) ==
  LET left == (BlockRate - Price[l]) * Unit
      closed == Close(SettledLeases, {l})
      fits == SettledDeployment.balance % left = 0
  IN
  /\ ~halted /\ l \in Active
  /\ IF ~OthersActive(l) \/ fits
     THEN /\ deployment' = ClosedDeployment(l)
          /\ leases' = IF OthersActive(l)
                       THEN Predict(closed, SettledDeployment.balance \div left)
                       ELSE closed
          /\ halted' = FALSE
     ELSE halted' = TRUE /\ UNCHANGED <<deployment, leases>>
  /\ misdated' = (misdated \/ OthersActive(l))
  /\ UNCHANGED <<height, bids>>

\* handleCloseBid: the bid's lease, if it has one, is closed too.
CloseBid(l) ==
  LET left == (BlockRate - Price[l]) * Unit
      closed == Close(SettledLeases, {l})
  IN
  /\ ~halted /\ l \in bids /\ (Created(l) => l \in Active)
  /\ bids' = bids \ {l}
  /\ IF ~Created(l) THEN UNCHANGED <<deployment, leases, misdated>>
     ELSE /\ deployment' = ClosedDeployment(l)
          /\ leases' = IF OthersActive(l)
                       THEN Predict(closed, height + CeilDiv(SettledDeployment.balance, left))
                       ELSE closed
          /\ misdated' = (misdated /\ ~OthersActive(l))
  /\ UNCHANGED <<height, halted>>

\* handleCloseDeployment.
CloseDeployment ==
  /\ ~halted /\ Open
  /\ deployment' = [SettledDeployment EXCEPT !.closed = height]
  /\ leases' = Close(SettledLeases, Active)
  /\ UNCHANGED <<height, bids, halted, misdated>>

NextBlock ==
  /\ ~halted /\ height < MaxHeight /\ height' = height + 1
  /\ UNCHANGED <<deployment, leases, bids, halted, misdated>>

Message ==
  \/ \E amount \in Amounts : CreateDeployment(amount) \/ Deposit(amount)
  \/ \E l \in Leases : \/ CreateBid(l) \/ CreateLease(l) \/ WithdrawLease(l)
                       \/ CloseLease(l) \/ CloseBid(l)
  \/ CloseDeployment

EscrowNext == Message \/ NextBlock

EscrowSpec == EscrowInit /\ [][EscrowNext]_escrowVars
------------------------------------------------------------------------------
\* No token appears or vanishes: what was deposited is in the balance or was
\* withdrawn, and what was withdrawn went to the leases.
Conserved ==
  /\ deployment.deposit = deployment.balance + deployment.withdrawn
  /\ deployment.withdrawn = SumFunction([l \in Leases |-> leases[l].withdrawn])
  /\ deployment.balance >= 0

\* A lease is paid for the blocks it lived and no more, in full except when the
\* account was overdrawn: each handler that starts or ends a lease has settled
\* the blocks before it at the old rate.  And no token is lost on the way.
PaidForLifetime ==
  /\ \A l \in Leases : Created(l) =>
       LET until == IF l \in Active THEN deployment.lastWithdraw ELSE leases[l].closed
           due == Price[l] * Unit * (until - leases[l].created)
       IN /\ leases[l].withdrawn <= due
          /\ leases[l].withdrawn < due => deployment.closed = until /\ deployment.balance = 0
  /\ Conserved

\* The deployment is closed exactly when it had leases and all of them ended,
\* or was closed before it had any.
ClosedWithLastLease ==
  /\ deployment.closed # NoHeight => Active = {}
  /\ (\E l \in Leases : Created(l)) /\ Active = {} => deployment.closed # NoHeight

\* The height at which the balance runs out: the first one at which a
\* settlement leaves nothing for the blocks after it.
Expiry == deployment.lastWithdraw + CeilDiv(deployment.balance, BlockRate * Unit)

PredictedIsExpiry == Open => \A l \in Active : leases[l].predicted = Expiry

\* predictedClosedHeight is the "height at which the lease should theoritically
\* expire" (README, Lease), whatever was deposited, withdrawn or closed since,
\* unless the last prediction is handleCloseLease's: an account is overdrawn by
\* no settlement before that height, and by every settlement after it.
OverdraftIsPredicted ==
  [][/\ ~misdated' => PredictedIsExpiry'
     /\ \A l \in Active : ~misdated /\ leases'[l].withdrawn # leases[l].withdrawn =>
          /\ Overdrawn => height >= leases[l].predicted
          /\ height > leases[l].predicted => Overdrawn]_escrowVars
------------------------------------------------------------------------------
\* The lifetimes and the deposits in the rows, without the balance, the
\* withdrawals, the last settlement and the predictions.
account == [opened |-> deployment.created, closed |-> deployment.closed,
            deposited |-> deployment.deposit]
terms == [l \in Leases |-> [from |-> leases[l].created, to |-> leases[l].closed]]

Meter == INSTANCE EscrowMeter

\* The replayed settlements are a meter: which leases run, whether the account
\* is open and at which message it closes follow from the deposits and the
\* lifetimes alone, whenever and however often accountSettle ran in between,
\* with all its divisions.
ImplementsMeter == Meter!Spec
==============================================================================
