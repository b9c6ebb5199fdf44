---------------------------- MODULE MCAkashStats ----------------------------
(* Every chain of one lease that lives within the bound, and a second lease   *)
(* created at block 2 and left to run out; then, with a first lease that is   *)
(* closed, every life of one provider.                                        *)
EXTENDS AkashStats

CONSTANTS l1, l2, p1

MCLeaseScripts ==
  {s \in [created : Heights, predicted : 1..(MaxHeight + 1), changed : MaybeHeight,
          repredicted : 1..(MaxHeight + 1), closed : MaybeHeight] :
     /\ s.predicted >= s.created
     /\ IF s.changed = NoHeight THEN s.repredicted = 1
        ELSE s.changed > s.created /\ s.repredicted >= s.changed /\ s.predicted >= s.changed
     /\ s.closed # NoHeight => s.closed >= s.created /\ s.closed >= s.changed}

MCSecondLease == [created |-> 2, predicted |-> 4, changed |-> NoHeight, repredicted |-> 1,
                  closed |-> NoHeight]

MCChain(s, p) == [lease |-> [l \in {l1, l2} |-> IF l = l1 THEN s ELSE MCSecondLease],
                  provider |-> [q \in {p1} |-> p]]

MCFirstLease == [MCSecondLease EXCEPT !.created = 1, !.closed = 3]

MCChains ==
  {MCChain(s, [created |-> 1, deleted |-> NoHeight]) : s \in MCLeaseScripts}
    \cup {MCChain(MCFirstLease, p) : p \in ProviderScript}
=============================================================================
