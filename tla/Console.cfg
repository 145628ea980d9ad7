\* Two administrators and the handlers, one user, two overrides; a restart.
SPECIFICATION Spec
CONSTANTS
  Admins = {x, y}
  UserNames = {alice}
  Keys = {k, l}
  Missing = Missing
  SaveMayFail = TRUE
  MaxStops = 1
SYMMETRY Symmetry
INVARIANTS ConsoleTypeOK AcknowledgedStands ListingStands
CONSTRAINT NotAllRaced
