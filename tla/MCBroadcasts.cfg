CONSTANTS
  Contacts = {c1, c2, c3, c4, c5}
  Requests = {r1}
  ChunkSize = 3
  MaxAudience = 4
  MaxChanges = 1
  MaxFaults = 3
SPECIFICATION Spec
SYMMETRY Symmetry
INVARIANTS
  TypeOK
  EveryoneIsAccountedFor
  LogIsTruthful
  BadIdSinksOnlyItself
  RepeatsAreExcused
  ErrorMeansNobodyReached
CHECK_DEADLOCK FALSE
