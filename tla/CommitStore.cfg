SPECIFICATION Spec
CONSTANTS
  p1 = p1
  p2 = p2
  a = a
  s1 = s1
  Procs = {p1, p2}
  Stripes = {a}
  Stripe <- OneStripe
  NoProc = NoProc
  NoDir = NoDir
  Shas = {s1}
  Version <- TwoVersions
  Jobs <- SharedJobs
  MaxGen = 1
  MaxAttempts = 1
  TornReads = {p1}
  Atime = TRUE
INVARIANTS
  NeverLost
  OwnStagingKept
  TypeOK
  NameOutranks
  NoRepeatedBuild
  UsedBeforeLockKept
  IInv
PROPERTIES
  NamesUnique
  CurrentOnlyRises
  Implements
