\* Two sessions of an orderly or a hasty client, a transmit ring smaller than a reply.
CONSTANTS
  RingSize = 2
  Ids <- MCIds
  Results <- MCResults
  Blank <- MCBlank
  MaxSessions = 2
  MaxIssued <- MCMaxIssued
  MaxWrites <- MCMaxWrites
  Window = 2
  TxCapacity = 1
  Clients = {"orderly", "hasty"}
SPECIFICATION Spec
INVARIANTS TypeOK OncePerSession AnswersOwn Framed NeverFull
PROPERTIES RingIsRecent CallbackReturns Served
CHECK_DEADLOCK FALSE
