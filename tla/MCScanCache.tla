----------------------------- MODULE MCScanCache -----------------------------
EXTENDS ScanCache, TLC

CONSTANTS t1, t2

Interchangeable == Permutations(Threads)
==============================================================================
