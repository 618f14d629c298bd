----------------------------- MODULE MCHeadCache -----------------------------
EXTENDS HeadCache
=============================================================================
