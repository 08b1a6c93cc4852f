\* Two motions in a row, each of which may be stopped or fail anywhere.
CONSTANTS
  Home <- MCHome
  Lo <- MCLo
  Hi <- MCHi
  Goals <- MCGoals
  Directions <- MCDirections
  MaxBatch = 2
  MaxMotions = 2
  MayFail = TRUE
SPECIFICATION FairSpec
INVARIANTS SlewTypeOK PlanFits StepsAccounted RefillsFreeBuffer NeverOvershoots EndsAtTarget
PROPERTIES TraverseSpec MotionEnds
CHECK_DEADLOCK FALSE
