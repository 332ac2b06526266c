SPECIFICATION Spec
CONSTANTS
  H = 20
  BaseSpeed = 76
  Orientations <- MC_Orientations
INVARIANTS
  TypeOK
  LastErrorFacesObjective
  LedByTheNearerFront
PROPERTIES
  SteersTowardObjective
  DrivesWithLeadingFront
