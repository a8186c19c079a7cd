\* Two processes on one database.  The model stops at LastDay.
SPECIFICATION Spec
CONSTANTS
  Instances = {s1, s2}
  CampaignManagers = {cm}
  Agents = {}
  GeneralManagers = {}
  WeekLen = 2
  MonthLen = 2
  LastDay = 2
  MaxManual = 1
  MaxFaults = 1
  NoMail = NoMail
CHECK_DEADLOCK FALSE
INVARIANTS
  GuardsTrackRuns
  CronRunsExclude
  LogIsTruthful
