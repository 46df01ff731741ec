SPECIFICATION TableSpec
CONSTANTS
  MaxCommits = 5
  MaxParents = 3
  Queries = {{1, 2, 3, 4, 5}, {1, 3, 4}, {2, 5}}
INVARIANTS
  TypeOK
  ParentsAreAwaited
  LinesMeet
  WidthIsTight
  TableShowsTheGraph
CHECK_DEADLOCK FALSE
