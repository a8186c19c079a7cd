SPECIFICATION Spec
CONSTANTS
  Skippable = {meta}
  Db = db_step
  Databases = {d1, d2}
  Nowhere = nowhere
  Emails = {e1, e2}
  Localhost = e1
  NoOne = no_one
  Requests = {r1, r2}
  Boot = boot
  MaxStarts = 5
  MaxFaults = 2
SYMMETRY Symmetry
CHECK_DEADLOCK FALSE
INVARIANTS
  InstalledIsUsable
  CompletedStepsHold
  SomeoneAdministers
