\* kmeans++ and the other init modes, one worker, three clusters, up to two
\* E-step iterations, on rows that some starts do not settle in two.
CONSTANTS
  RandMax = 32767
  UDen = 4
  UDraws = {1, 2, 3}
  K = 3
  Inf = 100000
  w1 = w1
  w2 = w2
  w3 = w3
  Rows <- mcRows
  Pos <- mcPosSlow
  Workers <- mcWorkers1
  Part <- mcPart1
  MaxIters = 2
  TolNum = 0
  TolDen = 1
  InitModes <- mcPPAndOthers
  CenterCoords <- mcCenterCoords
SPECIFICATION Spec
INVARIANTS
  PPDistIsNearestCenter
  PPInitCompletes
  ResultSizesMatchMembership
PROPERTIES
  Termination
  CapIterationIsIdle
