SPECIFICATION Spec
CONSTANTS
  t1 = t1
  t2 = t2
  Threads = {t1, t2}
  MaxAge = 2
  Settle = 2
  Coarse = 1
  MaxSteps = 1
  MaxTime = 3
  MaxChanges = 2
  NoScan = NoScan
INVARIANTS
  TypeOK
  OwnPublishSeen
  FreshWithinMaxAge
  ExactWhileClockRuns
SYMMETRY Interchangeable
