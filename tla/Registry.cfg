SPECIFICATION FairSpec
CONSTANTS
  i1 = i1
  i2 = i2
  r1 = r1
  r2 = r2
  g1 = g1
  Indexers = {i1, i2}
  Admins = {i2}
  Repos = {r1, r2}
  Groups = {g1}
  Nobody = Nobody
  MaxCommands = 1
  MaxFaults = 1
INVARIANTS
  TypeOK
  Serial
  RecordsAgree
  Registered
PROPERTIES
  NoLostUpdate
  FoundAgain
CHECK_DEADLOCK FALSE
