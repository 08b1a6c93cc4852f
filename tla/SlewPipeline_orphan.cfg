\* A stop is between its two stores while the motion task leaves its loop.
CONSTANTS
  Home <- MCHome
  Lo <- MCLo
  Hi <- MCHi
  Goals <- MCGoals
  Directions <- MCDirections
  MaxBatch = 2
  MaxMotions = 1
  MayFail = FALSE
SPECIFICATION Spec
INVARIANT NothingLeftQueued
CHECK_DEADLOCK FALSE
