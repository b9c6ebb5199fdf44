------------------------------- MODULE IndexLog -------------------------------
(***************************************************************************)
(* What the indexer's block table promises to whoever reads it: rows are   *)
(* only ever added above the rows already there, a row never disappears,   *)
(* and rows are processed in height order, each exactly once, so that the  *)
(* processed rows are always the lower part of the table.  ChainSync is    *)
(* shown to implement it.                                                  *)
(***************************************************************************)
EXTENDS Integers

CONSTANT MaxHeight

VARIABLES
  rows,  \* heights in the table
  done   \* heights whose row is processed

logVars == <<rows, done>>

Heights == 1..MaxHeight

Init == rows = {} /\ done = {}

\* A run of consecutive heights goes on top of the table.
Append(lo, hi) ==
  /\ lo <= hi
  /\ \A g \in rows : g < lo
  /\ rows' = rows \cup (lo..hi)
  /\ done' = done

\* The rows up to a height become processed, none of them for the second time.
Advance(top) ==
  /\ done' = {h \in rows : h <= top}
  /\ done \subseteq done'
  /\ rows' = rows

Next ==
  \/ \E lo, hi \in Heights : Append(lo, hi)
  \/ \E top \in Heights : Advance(top)

Spec == Init /\ [][Next]_logVars
===============================================================================
