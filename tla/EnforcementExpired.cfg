\* An override that expires during the day.
SPECIFICATION Spec
CONSTANTS
  MinuteLength = 2
  DayMinutes = 9
  WeekLength = 7
  DefaultWeekend = {0, 6}
  Missing = Missing
  Unlimited = 1000
  Configs <- MCConfigs
  Starts <- MCStarts
  Grants <- MCExpiring
  MaxChanges = 1
  MaxFaults = 0
  Lag = 0
INVARIANT ExpiredIgnored
\* The day ends.
CHECK_DEADLOCK FALSE
