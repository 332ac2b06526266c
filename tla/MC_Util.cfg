SPECIFICATION Spec
CONSTANTS
  H = 4
  Width = 4
  Arguments <- MC_Arguments
  Blocks = {a, b, c}
  MaxLength = 3
  Values = {v}
  Indeterminate = Indeterminate
  Null = Null
  MaxTime = 4
  MaxCycles = 8
  Settings = {2}
  Word = 4
  Stages = 3
INVARIANTS
  AngleHelpers
  NumbersAreRight
  BlocksAccounted
  TimersAreRight
  StagesAreRight
PROPERTIES
  ResizeKeepsCells
  CopyGoesUpwards
