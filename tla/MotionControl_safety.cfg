\* Every kind of request (home is a stop and a slew), power failures, limits met while tracking; two STOPs.
CONSTANTS
  Modes = {sidereal}
  NONE = none
  Ops = {"stop", "park", "unpark", "set_home", "slew", "manual", "track", "guide"}
  Capacity = 2
  MaxGeneration = 2
  MayFail = TRUE
  PowerMayFail = TRUE
  PatientClient = FALSE
SPECIFICATION Spec
INVARIANTS TypeOK QueueEpoch TrackingHasMode ParkedAcceptsNothing HwFaultLatched HomeExclusion
CHECK_DEADLOCK FALSE
