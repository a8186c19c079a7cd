CONSTANTS
  Kind = "conv:analyze"
  Ids = {c1, c2}
  Filters = {{c1, c2}}
  Requests = {r1, r2}
  Concurrency = 2
  SaveEvery = 2
  OnlyUnanalyzed = TRUE
  Counts = {0, 1, 2}
  MaxStarts = 2
  MaxFaults = 1
SPECIFICATION Spec
SYMMETRY Symmetry
INVARIANTS
  DoneIsComplete
  AnalyzedOnce
  StopReachesEveryPool
  SavedIsCurrent
CHECK_DEADLOCK FALSE
