----------------------------- MODULE MCTokenize -----------------------------
(* Two users, ids of two bits, so that the counter meets the end of its type. *)
EXTENDS Tokenize, TLC

UserSymmetry == Permutations(Users)
==============================================================================
