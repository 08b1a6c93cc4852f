\* The smallest client that leaves a handler behind.
CONSTANTS
  RingSize = 2
  Ids <- MCIds
  Results <- MCResults
  Blank <- MCBlank
  MaxSessions = 2
  MaxIssued <- HastyIssued
  MaxWrites <- HastyWrites
  Window = 2
  TxCapacity = 1
  Clients = {"hasty"}
SPECIFICATION Spec
INVARIANT NoIdCollision
CHECK_DEADLOCK FALSE
