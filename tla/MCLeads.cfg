CONSTANTS
  Contacts = {c1}
  Owners = {o1, o2}
  Nobody = Nobody
  Passes = {board, quick}
  Board = board
  Readers = {r1}
  Desks = {d1}
  NoContact = NoContact
  HumanAt = 1
  BatchSize = 500
  Attempts = 2
  MaxMessages = 1
  MaxMoves = 1
  MaxStarts = 3
  MaxFaults = 1
SPECIFICATION Spec
SYMMETRY Symmetry
INVARIANTS
  ScoreFollowsFacts
  FirstContactStands
  RefreshIsComplete
  OwnerAgrees
  MovesAreOnRecord
PROPERTIES
  FactsAreKept
CHECK_DEADLOCK FALSE
