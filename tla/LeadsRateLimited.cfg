CONSTANTS
  Contacts = {c1}
  Owners = {}
  Nobody = Nobody
  Passes = {board}
  Board = board
  Readers = {r1}
  Desks = {}
  NoContact = NoContact
  HumanAt = 1
  BatchSize = 500
  Attempts = 2
  MaxMessages = 2
  MaxMoves = 0
  MaxStarts = 2
  MaxFaults = 1
SPECIFICATION Spec
PROPERTY
  FailedFetchKeepsMeta
CHECK_DEADLOCK FALSE
