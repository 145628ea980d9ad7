\* Two users, one with a desktop; two notifications, one fault and one start.
SPECIFICATION Spec
CONSTANTS
  Users = {alice, bob}
  Graphical = {alice}
  Capacity = 1
  Burst = 2
  MaxNotes = 2
  MaxFaults = 1
  MaxStops = 1
INVARIANTS TypeOK ShownOnceToAddressee
PROPERTIES CrashesExplained ShutdownCompletes Recovers NotificationsShown
\* The service may be stopped for good.
CHECK_DEADLOCK FALSE
