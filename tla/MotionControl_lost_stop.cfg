\* A STOP meets the motion task while it applies a command.
CONSTANTS
  Modes = {sidereal}
  NONE = none
  Ops = {"stop", "slew"}
  Capacity = 2
  MaxGeneration = 1
  MayFail = FALSE
  PowerMayFail = FALSE
  PatientClient = FALSE
SPECIFICATION Spec
INVARIANT NoStaleMotion
CHECK_DEADLOCK FALSE
