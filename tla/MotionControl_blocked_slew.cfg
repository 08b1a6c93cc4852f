\* A goto is sent before the mount shows the tracking requested before it.
CONSTANTS
  Modes = {sidereal}
  NONE = none
  Ops = {"track", "slew"}
  Capacity = 2
  MaxGeneration = 1
  MayFail = FALSE
  PowerMayFail = FALSE
  PatientClient = FALSE
SPECIFICATION FairSpec
PROPERTY TrackingYieldsToSlew
CHECK_DEADLOCK FALSE
