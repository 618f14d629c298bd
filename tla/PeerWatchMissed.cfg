SPECIFICATION Spec
CONSTANTS
  Me = Me
  p1 = p1
  p2 = p2
  f1 = f1
  f2 = f2
  n1 = n1
  n2 = n2
  t1 = t1
  t2 = t2
  Peers = {p1, p2}
  OtherWorktree = {}
  Files = {f1}
  Names = {n1}
  Texts = {t1}
  Gone = Gone
  NoEntry = NoEntry
  NoSurface = NoSurface
  Decls <- BothDecls
  Reach <- ReachNext
  SeedsOf <- FirstSeed
  Graphs = {}
  NoGraph = NoGraph
  Earlier <- HasF2
  MaxWrites = 4
  MaxRepeats = 1
  MaxFaults = 0
INVARIANT PairsHeard
SYMMETRY Interchangeable
CHECK_DEADLOCK FALSE
