----------------------------- MODULE EscrowMeter -----------------------------
(***************************************************************************)
(* What a deployment's escrow account promises its owner and its           *)
(* providers: a meter.  Every lease costs its price for each block between *)
(* its start and its end, and the account ends, its leases with it, at the *)
(* first message that needs the money once the deposits no longer cover    *)
(* what the leases cost.  Nothing else counts: not when the account was    *)
(* settled, how often, in which order the leases came and went, nor what   *)
(* was left at each settlement.  AkashEscrow, which settles in steps and   *)
(* keeps balances, is shown to implement it.                               *)
(***************************************************************************)
EXTENDS Integers, Functions

CONSTANTS
  Leases,   \* the leases the deployment may get
  Price,    \* price per block of each of them
  Unit,     \* amounts are kept in 1/Unit of a token
  Amounts,  \* deposits, in tokens
  NoHeight  \* not started, or not ended

VARIABLES
  height,   \* the current block
  account,  \* when the account was opened and closed, and all that was deposited
  terms     \* when each lease started and ended

meterVars == <<height, account, terms>>

NoTerm == [from |-> NoHeight, to |-> NoHeight]

Started(l) == terms[l].from # NoHeight
Running == {l \in Leases : Started(l) /\ terms[l].to = NoHeight}
Open == account.opened # NoHeight /\ account.closed = NoHeight

\* What a lease has cost until now.
Cost(l) ==
  IF ~Started(l) THEN 0
  ELSE Price[l] * Unit * ((IF l \in Running THEN height ELSE terms[l].to) - terms[l].from)

\* What the deposits leave when every lease is paid for its blocks.
Fund == account.deposited - SumFunction([l \in Leases |-> Cost(l)])

Init ==
  /\ height = 1
  /\ account = [opened |-> NoHeight, closed |-> NoHeight, deposited |-> 0]
  /\ terms = [l \in Leases |-> NoTerm]

OpenAccount(amount) ==
  /\ account.opened = NoHeight
  /\ account' = [opened |-> height, closed |-> NoHeight, deposited |-> amount * Unit]
  /\ UNCHANGED <<height, terms>>

Deposit(amount) ==
  /\ Open
  /\ account' = [account EXCEPT !.deposited = @ + amount * Unit]
  /\ UNCHANGED <<height, terms>>

Start(l) ==
  /\ Open /\ ~Started(l) /\ Fund >= 0
  /\ terms' = [terms EXCEPT ![l] = [from |-> height, to |-> NoHeight]]
  /\ UNCHANGED <<height, account>>

\* Leases L end now, and the account with them when it shuts.
End(L, shuts) ==
  /\ terms' = [l \in Leases |-> IF l \in L THEN [terms[l] EXCEPT !.to = height] ELSE terms[l]]
  /\ account' = IF shuts THEN [account EXCEPT !.closed = height] ELSE account
  /\ UNCHANGED height

\* A message that needs the money: payment for a running lease (asked is empty),
\* the end of one, or of the account (asked is all of them).
Demand(asked) ==
  LET ended == IF Running # {} /\ Fund < 0 THEN Running ELSE asked
  IN Open /\ End(ended, ended = Running)

Tick == height' = height + 1 /\ UNCHANGED <<account, terms>>

Next ==
  \/ \E amount \in Amounts : OpenAccount(amount) \/ Deposit(amount)
  \/ \E l \in Leases : Start(l) \/ (l \in Running /\ Demand({l}))
  \/ Running # {} /\ Demand({})
  \/ Demand(Running)
  \/ Tick

Spec == Init /\ [][Next]_meterVars
==============================================================================
