\* Full channel, reordered, repeated and late signals, one daemon restart.
SPECIFICATION TrackingSpec
CONSTANTS
  UserNames = {alice}
  Ids = {c1, c2}
  Missing = Missing
  Overrides = {}
  DayLength = 9
  SaveMayFail = FALSE
  MaxTime = 1
  MaxSessions = 2
  MaxSegments = 2
  MaxStops = 1
  MaxOutages = 0
  Capacity = 1
  MaxWaiting = 2
  PamGuards = FALSE
  Prompt = FALSE
  SleepWaits = FALSE
  QuietSleep = FALSE
  ReEmits = TRUE
SYMMETRY Symmetry
INVARIANT InSync
\* The clock and the record bounds run out.
CHECK_DEADLOCK FALSE
