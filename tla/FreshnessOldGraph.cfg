SPECIFICATION Spec
CONSTANTS
  Queries <- MCQueries
  q1 = q1
  q2 = q2
  Rebuilder = rebuilder
  Last = 2
  Edited = edited
  None = none
  Flock = TRUE
  MaxEvents = 2
SYMMETRY Symmetry
INVARIANT NoDriftedAnswers
