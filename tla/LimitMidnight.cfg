\* One session that runs across midnight.
SPECIFICATION LimitSpec
CONSTANTS
  UserNames = {alice}
  Ids = {c1}
  Missing = Missing
  Overrides <- MCOverrides
  Configs <- MCConfigs
  DayLength = 3
  SaveMayFail = FALSE
  MaxTime = 5
  MaxSessions = 1
  MaxSegments = 2
  MaxStops = 0
  MaxOutages = 0
  MaxGrants = 1
SYMMETRY Symmetry
INVARIANT DailyLimitKept
\* The clock and the record bounds run out.
CHECK_DEADLOCK FALSE
