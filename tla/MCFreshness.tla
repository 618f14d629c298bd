----------------------------- MODULE MCFreshness -----------------------------
EXTENDS Freshness, TLC
CONSTANTS q1, q2
MCQueries == {q1, q2}
Symmetry == Permutations(MCQueries)
=============================================================================
