SPECIFICATION Spec
CONSTANTS
  H = 4
  BaseSpeed = 15
  Frames <- MC_Frames
  NoFrame = NoFrame
  Ordered = TRUE
  QueueBound = 2
  MessageBound = 4
  MyRobotsAreYellow = FALSE
INVARIANTS
  TypeOK
  DetectionIsWhatWasSent
  TurnsTheRobotItAnswers
PROPERTIES
  AnswersNeverGoBack
  ImplementsFollower
