\* A machine on which nothing else goes wrong.
SPECIFICATION Spec
CONSTANTS
  Users = {alice}
  Graphical = {}
  Capacity = 1
  Burst = 2
  MaxNotes = 1
  MaxFaults = 0
  MaxStops = 1
PROPERTY NeverCrashes
CHECK_DEADLOCK FALSE
