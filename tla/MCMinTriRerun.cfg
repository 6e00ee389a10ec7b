\* Two calls in one process with caller centers, one worker, rows away from the origin.
CONSTANTS
  RandMax = 32767
  UDen = 4
  UDraws = {1, 2, 3}
  K = 2
  Inf = 100000
  w1 = w1
  w2 = w2
  w3 = w3
  Rows <- mcRows
  Pos <- mcPosFar
  Workers <- mcWorkers1
  Part <- mcPart1
  MaxIters = 3
  TolNum = 0
  TolDen = 1
  InitModes <- mcCenters
  CenterCoords <- mcCenterCoordsFar
SPECIFICATION RerunSpec
INVARIANT ConvergedIsFixedPoint
