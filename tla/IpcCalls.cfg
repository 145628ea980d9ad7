\* Two calls and two signals, saves that fail, with fairness.  Resume is Pause
\* with the other flag and is left out, as is Lock, which for one session is Sleep.
SPECIFICATION Spec
CONSTANTS
  Callers = {a, b}
  Ids = {c1}
  Missing = Missing
  Ops = {"Pause", "Add", "Remove", "Status"}
  Events = {"Login", "Logout", "Unlock", "Sleep"}
  SaveMayFail = TRUE
  MaxEvents = 2
INVARIANTS TypeOK NoneRevived GrantedOnce DiskCurrent
PROPERTY CallsReturn
\* The calls are made and the signals received.
CHECK_DEADLOCK FALSE
