\* A day of each configuration, two changes, rounds up to a tick late.
SPECIFICATION Spec
CONSTANTS
  MinuteLength = 2
  DayMinutes = 9
  WeekLength = 7
  DefaultWeekend = {0, 6}
  Missing = Missing
  Unlimited = 1000
  Configs <- MCConfigs
  Starts <- MCStarts
  Grants <- MCGrants
  MaxChanges = 2
  MaxFaults = 1
  Lag = 1
INVARIANTS EnforcementTypeOK CountdownAgrees LockedInTime PausedStaysLocked
PROPERTY WarnedOnce
\* The day ends.
CHECK_DEADLOCK FALSE
