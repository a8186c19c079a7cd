CONSTANTS
  Contacts = {c1, c2}
  Workers = {w1}
  Backlog = backlog
  Budget = 2
  Cost = 1
  Limit = 2
  MaxMessages = 2
  MaxStarts = 3
  MaxFaults = 1
  NoContact = NoContact
SPECIFICATION Spec
INVARIANT
  EvaluationIsStored
CHECK_DEADLOCK FALSE
