SPECIFICATION FairSpec
CONSTANTS
  p1 = p1
  p2 = p2
  s1 = s1
  s2 = s2
  a = a
  b = b
  s3 = s3
  Procs = {p1, p2}
  Shas = {s1, s2, s3}
  Stripes = {a, b}
  Stripe <- PairOnOne
  Cap <- CapOne
  SlotWait = 2
  LockWait = 5
  BuildTime = 1
  MaxWedged = 1
  NoProc = NoProc
  NoSha = NoSha
INVARIANTS
  TypeOK
  TimeoutNamesHolder
  PatientWait
  Throttle
PROPERTIES
  NoHang
