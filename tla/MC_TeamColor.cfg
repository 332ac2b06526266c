SPECIFICATION Spec
CONSTANTS
  H = 4
  BaseSpeed = 15
  Frames <- MC_Frames
  NoFrame = NoFrame
  Ordered = TRUE
  QueueBound = 2
  MessageBound = 3
  MyRobotsAreYellow = TRUE
INVARIANT CommandsMyTeam
