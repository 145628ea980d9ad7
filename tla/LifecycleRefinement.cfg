\* Two days, one stop, one outage, saves that may fail.
SPECIFICATION Spec
CONSTANTS
  UserNames = {alice}
  Ids = {c1}
  Missing = Missing
  Overrides = {}
  DayLength = 2
  SaveMayFail = TRUE
  MaxTime = 3
  MaxSessions = 2
  MaxSegments = 2
  MaxStops = 1
  MaxOutages = 1
SYMMETRY Symmetry
INVARIANTS TypeOK FileTimesBeforeMtime SegmentsChained OneActivePerId
PROPERTIES HistoryKept ImplementsLifecycle
\* The clock, the outages and the record bounds run out.
CHECK_DEADLOCK FALSE
