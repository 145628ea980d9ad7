\* Two users, one session ID that comes back after the one outage.
SPECIFICATION TrackingSpec
CONSTANTS
  UserNames = {alice, bob}
  Ids = {c1}
  Missing = Missing
  Overrides = {}
  DayLength = 9
  SaveMayFail = FALSE
  MaxTime = 4
  MaxSessions = 2
  MaxSegments = 2
  MaxStops = 0
  MaxOutages = 1
  Capacity = 2
  MaxWaiting = 0
  PamGuards = TRUE
  Prompt = TRUE
  SleepWaits = TRUE
  QuietSleep = TRUE
  ReEmits = FALSE
SYMMETRY Symmetry
INVARIANTS TrackingTypeOK InSync LockedNotCharged NeverOvercharged EndedStopsCharging NoSessionOutlivesBoot
\* The clock and the record bounds run out.
CHECK_DEADLOCK FALSE
