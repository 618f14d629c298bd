SPECIFICATION Spec
CONSTANTS
  Branches = {main, topic}
  Detached = detached
  MaxWrites = 5
INVARIANT HeadSeen
CHECK_DEADLOCK FALSE
