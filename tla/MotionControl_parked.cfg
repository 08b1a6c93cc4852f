\* set_home and park, by a patient client.
CONSTANTS
  Modes = {sidereal}
  NONE = none
  Ops = {"park", "unpark", "set_home"}
  Capacity = 2
  MaxGeneration = 2
  MayFail = FALSE
  PowerMayFail = FALSE
  PatientClient = TRUE
SPECIFICATION Spec
PROPERTY ParkedOnlyByUnpark
CHECK_DEADLOCK FALSE
