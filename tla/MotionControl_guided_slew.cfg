\* A slew that is dispatched while a pulse the limit ended still counts as guiding.
CONSTANTS
  Modes = {sidereal}
  NONE = none
  Ops = {"guide", "slew"}
  Capacity = 2
  MaxGeneration = 1
  MayFail = TRUE
  PowerMayFail = FALSE
  PatientClient = TRUE
SPECIFICATION FairSpec
PROPERTY SlewEnds
CHECK_DEADLOCK FALSE
