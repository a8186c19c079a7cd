CONSTANTS
  Kind = "conv:sync"
  Ids = {c1, c2}
  Filters = {{c1}, {c1, c2}}
  Requests = {r1}
  Concurrency = 2
  SaveEvery = 2
  OnlyUnanalyzed = TRUE
  Counts = {0, 1, 2}
  MaxStarts = 2
  MaxFaults = 1
SPECIFICATION FairSpec
PROPERTY ShowsAPanel
CHECK_DEADLOCK FALSE
