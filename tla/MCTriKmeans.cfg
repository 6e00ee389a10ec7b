\* All four init modes on five rows far from the origin; three workers,
\* three clusters, up to four E-step iterations.
CONSTANTS
  RandMax = 32767
  UDen = 4
  UDraws = {1, 2, 3}
  K = 3
  Inf = 100000
  w1 = w1
  w2 = w2
  w3 = w3
  Rows <- mcRows5
  Pos <- mcPos5
  Workers <- mcWorkers3
  Part <- mcPart3
  MaxIters = 4
  TolNum = 0
  TolDen = 1
  InitModes <- mcAllModes
  CenterCoords <- mcCenterCoords5
SPECIFICATION Spec
INVARIANTS
  TypeOK
  LbSound
  MembershipConserved
  PPInitCompletes
  PPDistIsNearestCenter
PROPERTY
  LloydRefinement
