SPECIFICATION Spec
CONSTANTS
  p1 = p1
  p2 = p2
  c0 = c0
  c1 = c1
  h0 = h0
  h1 = h1
  h2 = h2
  Procs = {p1, p2}
  Paths = {1, 2}
  Contents = {c0, c1}
  Absent = Absent
  Commits = {h0, h1, h2}
  First = h0
  Tree <- History
  Forward <- FastForwards
  MaxEdits = 3
  FewEdits = 1
  Busy = {1}
  MaxMoves = 1
  MaxMishaps = 1
  MaxRuns = 3
  None = None
  Tombstone = Tombstone
INVARIANTS
  TypeOK
  SelfHeals
  ServedIsCurrent
  OwnRefreshServed
CHECK_DEADLOCK FALSE
SYMMETRY Alike
