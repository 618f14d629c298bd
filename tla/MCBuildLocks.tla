---------------------------- MODULE MCBuildLocks ----------------------------
EXTENDS BuildLocks

CONSTANTS p1, p2, s1, s2, s3, a, b

(* Two SHAs that share a stripe, and one with a stripe of its own.         *)
PairOnOne == [s \in Shas |-> IF s = s3 THEN b ELSE a]
CapOne == [p \in Procs |-> 1]
==============================================================================
