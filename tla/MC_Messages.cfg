SPECIFICATION Spec
CONSTANTS
  IntMax = 4
  Sizes = {0, 2, 4, 6}
  Origins = {0, 3}
  LimitBound = 2
  p = p
  q = q
  a = a
  b = b
  r = r
  Objects <- MC_Objects
  Cells <- MC_Cells
  Numbers = {0, 1}
  Robots = {r}
  RobotBound = 2
  Datagrams <- MC_Datagrams
  Contents <- MC_Contents
  Whole <- MC_Whole
  NULL = NULL
  Free = Free
  Absent = Absent
INVARIANTS FramesOwnedOnce BufferIsTheInput ArrayNeverAsks
PROPERTIES MethodsImplementValue ImplementsStream
SYMMETRY Symmetry
CHECK_DEADLOCK FALSE
