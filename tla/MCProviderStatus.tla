--------------------------- MODULE MCProviderStatus ---------------------------
(* Days of four units; waits that grow from one unit to three.                 *)
EXTENDS ProviderStatus

MCBackoff == <<[below |-> 1, wait |-> 1], [below |-> 3, wait |-> 2]>>
==============================================================================
