---------------------------- MODULE MCAkashEscrow ----------------------------
(* Two leases of different prices; their common rate is prime, so that the    *)
(* last tokens of an overdrawn account are often shared in fractions.         *)
EXTENDS AkashEscrow

CONSTANTS a, b

MCPrice == [l \in Leases |-> IF l = a THEN 2 ELSE 3]
MCAmounts == {4, 9}
==============================================================================
