SPECIFICATION Spec
CONSTANTS
  a = a
  b = b
  Clients <- MC_Clients
  NoClient = NoClient
  Lines = 2
  QueueBound = 2
INVARIANT RepliesWereReceived
CHECK_DEADLOCK FALSE
