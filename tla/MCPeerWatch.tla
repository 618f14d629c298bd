---------------------------- MODULE MCPeerWatch ----------------------------
EXTENDS PeerWatch, TLC

CONSTANTS p1, p2, f1, f2, n1, n2, t1, t2

(* Every text declares both names.  From f2 the first seed reaches f1; from *)
(* f1 only the second, past the cap, reaches f2.                            *)
BothDecls == [t \in Texts |-> Names]
ReachNext ==
    [x \in Symbols |-> IF x = <<f2, n1>> THEN {x} \cup {<<f1, n1>>}
                       ELSE IF x = <<f1, n2>> THEN {x} \cup {<<f2, n1>>} ELSE {}]

(* A cap of one seed, in the order of paths and names.                      *)
Place(x) == (IF x[1] = f1 THEN 2 ELSE 0) + (IF x[2] = n1 THEN 0 ELSE 1)
FirstSeed == [S \in SUBSET Symbols |-> {x \in S : \A y \in S : Place(x) <= Place(y)}]

(* The graph answers in full, if it loads.                                  *)
Whole == {[S \in SUBSET Symbols |-> UNION {Reach[x] : x \in S}]}

(* One peer may have f2 in its overlay from the start.                      *)
HasF2 ==
    [p \in Peers |-> IF p = p1 THEN {[f \in Files |-> IF f = f2 THEN t1 ELSE NoEntry]} ELSE {}]

Interchangeable == Permutations({p1, p2})
==============================================================================
