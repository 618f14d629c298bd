---------------------------- MODULE MCPeerInbox ----------------------------
EXTENDS PeerInbox, TLC

CONSTANTS s1, s2, h1, h2, m1, m2, m3

Interchangeable == Permutations({s1, s2}) \cup Permutations({h1, h2})
==============================================================================
