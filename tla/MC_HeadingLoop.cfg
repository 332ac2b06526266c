SPECIFICATION LoopSpec
CONSTANTS
  H = 24
  BaseSpeed = 92
  Orientations <- MC_Orientations
  Bearings <- MC_Bearings
  MaxTurn = 3
  MaxGap = 3
PROPERTIES
  FrontIsKept
  HomesIn
  SettlesOnObjective
