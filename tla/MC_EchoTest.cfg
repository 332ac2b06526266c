SPECIFICATION Spec
CONSTANTS
  a = a
  b = b
  Clients <- MC_Clients
  NoClient = NoClient
  Lines = 4
  QueueBound = 2
INVARIANTS
  TypeOK
  OwnAnswersInOrder
  LateAnswersShift
  ChainIsOrderly
PROPERTY ClientsEnd
CHECK_DEADLOCK FALSE
