\* One process, as deployed: runs repeated by cron and by the buttons, a failure
\* or a crash, a week boundary.  The model stops at LastDay.
SPECIFICATION FairSpec
CONSTANTS
  Instances = {s1}
  CampaignManagers = {}
  Agents = {ag}
  GeneralManagers = {gm}
  WeekLen = 2
  MonthLen = 2
  LastDay = 2
  MaxManual = 2
  MaxFaults = 1
  NoMail = NoMail
CHECK_DEADLOCK FALSE
INVARIANTS
  DuplicatesAreExcused
PROPERTIES
  CleanRunDeliversAll
  WeekIsCovered
  NextNightIsFree
