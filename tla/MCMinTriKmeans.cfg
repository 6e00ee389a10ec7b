\* All three init modes, three workers, up to two E-step iterations, rows away from the origin.
CONSTANTS
  RandMax = 32767
  UDen = 4
  UDraws = {1, 2, 3}
  K = 2
  Inf = 100000
  w1 = w1
  w2 = w2
  w3 = w3
  Rows <- mcRows
  Pos <- mcPosFar
  Workers <- mcWorkers3
  Part <- mcPart3
  MaxIters = 2
  TolNum = 0
  TolDen = 1
  InitModes <- mcAllModes
  CenterCoords <- mcCenterCoordsFar
SPECIFICATION Spec
INVARIANTS
  TypeOK
  MembershipConserved
  ChangedBounded
  DistTablesFresh
  BarrierRoundHasCrosser
PROPERTIES
  Termination
  LloydRefinement
