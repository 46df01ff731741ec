SPECIFICATION Spec
CONSTANTS
  MaxCommits = 4
  MaxParents = 2
INVARIANT EveryEdgeIsDrawn
CHECK_DEADLOCK FALSE
