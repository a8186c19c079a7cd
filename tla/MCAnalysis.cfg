CONSTANTS
  Contacts = {c1, c2}
  Workers = {w1}
  Backlog = backlog
  Budget = 2
  Cost = 1
  Limit = 2
  MaxMessages = 2
  MaxStarts = 3
  MaxFaults = 1
  NoContact = NoContact
SPECIFICATION FairSpec
INVARIANTS
  SpendIsBounded
PROPERTIES
  NeverOlder
  BacklogEnds
CHECK_DEADLOCK FALSE
