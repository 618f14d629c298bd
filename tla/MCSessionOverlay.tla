-------------------------- MODULE MCSessionOverlay --------------------------
EXTENDS SessionOverlay, TLC

CONSTANTS p1, p2, c0, c1, h0, h1, h2

(* h1 follows h0 and changes file 1; h2 is on another branch.              *)
History == [h \in Commits |-> [q \in Paths |-> IF h = h1 /\ q = 1 THEN c1 ELSE c0]]
FastForwards == {<<h0, h1>>}

Alike == Permutations(Procs)
==============================================================================
