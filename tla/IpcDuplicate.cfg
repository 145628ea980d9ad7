\* Two additions, a removal and one more call.
SPECIFICATION Spec
CONSTANTS
  Callers = {a, b, c, d}
  Ids = {c1}
  Missing = Missing
  Ops = {"Pause", "Add", "Remove"}
  Events = {}
  SaveMayFail = FALSE
  MaxEvents = 0
SYMMETRY Symmetry
INVARIANT GrantedAtMostOnce
\* The calls are made and the signals received.
CHECK_DEADLOCK FALSE
