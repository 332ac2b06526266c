SPECIFICATION Spec
CONSTANTS
  a = a
  b = b
  me = a
  Sockets <- MC_Sockets
  Foreign = Foreign
  Free = Free
  Fds = {0, 1, 2}
  Ports = {1}
  Groups = {g}
  Lengths = {0, 1}
  QueueBound = 2
  CounterMod = 1
INVARIANTS
  TypeOK
  DescriptorsAccounted
PROPERTIES
  ForeignUntouched
  ImplementsPort
