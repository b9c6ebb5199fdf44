------------------------------ MODULE MCNodePool ------------------------------
(* One node: nodes share nothing but the choice of the least busy one.         *)
EXTENDS NodePool

CONSTANTS n1
==============================================================================
