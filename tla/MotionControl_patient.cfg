\* A client that waits until the mount shows its last request, and does not guide; nothing fails.
CONSTANTS
  Modes = {sidereal, lunar}
  NONE = none
  Ops = {"stop", "park", "unpark", "home", "set_home", "set_limit", "slew", "manual", "track"}
  Capacity = 2
  MaxGeneration = 3
  MayFail = FALSE
  PowerMayFail = FALSE
  PatientClient = TRUE
SPECIFICATION FairSpec
INVARIANTS NoStaleMotion TrackingIsRunning
PROPERTIES SlewEnds TrackingYieldsToSlew TrackTakesEffect
CHECK_DEADLOCK FALSE
