SPECIFICATION Spec
CONSTANTS
  Queries = {q1, q2}
  q1 = q1
  q2 = q2
  Rebuilder = rebuilder
  Last = 2
  Edited = edited
  None = none
  Flock = TRUE
  MaxEvents = 1
SYMMETRY Symmetry
INVARIANT GraphsArePure
