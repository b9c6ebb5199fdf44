----------------------------- MODULE MCChainSync -----------------------------
(* The chain of the model checker's runs: three blocks to the first day, the  *)
(* others to the second; the even heights hold transactions.                  *)
EXTENDS ChainSync

MCTxHeights == {h \in Heights : h % 2 = 0}
MCDayOf == [h \in Heights |-> IF h <= 3 THEN 1 ELSE 2]
==============================================================================
