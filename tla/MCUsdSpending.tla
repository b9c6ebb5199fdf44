----------------------------- MODULE MCUsdSpending -----------------------------
(* Two days; the first has two blocks.                                          *)
EXTENDS UsdSpending

MCDayOf == [h \in 1..3 |-> IF h < 3 THEN 1 ELSE 2]
================================================================================
