SPECIFICATION Spec
CONSTANTS
  H = 4
  BaseSpeed = 15
  Frames <- MC_TwoFrames
  NoFrame = NoFrame
  Ordered = FALSE
  QueueBound = 2
  MessageBound = 3
  MyRobotsAreYellow = FALSE
PROPERTIES
  ImplementsFollower
  FrameAnswered
