SPECIFICATION Spec
CONSTANTS
  mc = mc
  Foreign = Foreign
  Free = Free
  Fds = {0, 1, 2}
  Lengths = {0, 1, 3}
  QueueBound = 2
  CounterMod = 4
  Port = 1
  Group = g
  HandedBound = 3
INVARIANT BoundWhileOpened
