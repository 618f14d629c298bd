SPECIFICATION FairSpec
CONSTANTS
  Me = Me
  p1 = p1
  p2 = p2
  f1 = f1
  f2 = f2
  n1 = n1
  n2 = n2
  t1 = t1
  t2 = t2
  Peers = {p1, p2}
  OtherWorktree = {}
  Files = {f1, f2}
  Names = {n1, n2}
  Texts = {t1}
  Gone = NoEntry
  NoEntry = NoEntry
  NoSurface = NoSurface
  Decls <- BothDecls
  Reach <- ReachNext
  SeedsOf <- FirstSeed
  Graphs <- Whole
  NoGraph = NoGraph
  Earlier <- HasF2
  MaxWrites = 2
  MaxRepeats = 1
  MaxFaults = 1
INVARIANTS
  TypeOK
  OverlapsHeard
PROPERTY OverlapReported
CHECK_DEADLOCK FALSE
