\* Two sessions of one user across midnight, one restart.
SPECIFICATION LimitSpec
CONSTANTS
  UserNames = {alice}
  Ids = {c1, c2}
  Missing = Missing
  Overrides <- MCOverrides
  Configs <- MCConfigs
  DayLength = 4
  SaveMayFail = FALSE
  MaxTime = 4
  MaxSessions = 2
  MaxSegments = 2
  MaxStops = 1
  MaxOutages = 0
  MaxGrants = 1
SYMMETRY Symmetry
INVARIANTS LimitTypeOK ChargedAsSpent
PROPERTIES RoundLocksLatest LimitKept
\* The clock and the record bounds run out.
CHECK_DEADLOCK FALSE
