SPECIFICATION FairSpec
CONSTANTS
  s1 = s1
  s2 = s2
  h1 = h1
  h2 = h2
  m1 = m1
  m2 = m2
  m3 = m3
  Senders = {s1}
  Hooks = {h1, h2}
  Messages = {m1, m2}
  Oversized = {}
  Torn = Torn
  Nothing = Nothing
  MaxDirs = 2
  MaxFaults = 1
INVARIANTS
  TypeOK
  NothingLost
  ShownOnce
PROPERTY Shown
CHECK_DEADLOCK FALSE
