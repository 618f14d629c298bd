---------------------------- MODULE MCRegistry ----------------------------
EXTENDS Registry

CONSTANTS i1, i2, r1, r2, g1
==============================================================================
