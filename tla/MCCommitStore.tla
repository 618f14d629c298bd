---------------------------- MODULE MCCommitStore ----------------------------
EXTENDS CommitStore

CONSTANTS p1, p2, a, s1

OneStripe == [s \in Shas |-> a]
TwoVersions == [p \in Procs |-> IF p = p1 THEN 2 ELSE 1]

(* The new binary builds and sweeps, the old one builds and forces.        *)
SharedJobs == [p \in Procs |->
    IF p = p1 THEN {"build"} \cup SweepKinds ELSE BuildKinds]
==============================================================================
