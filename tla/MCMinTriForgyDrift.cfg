\* Forgy init, one worker: the E-step after the g_prune_init pass.
CONSTANTS
  RandMax = 32767
  UDen = 4
  UDraws = {1, 2, 3}
  K = 2
  Inf = 100000
  w1 = w1
  w2 = w2
  w3 = w3
  Rows <- mcRows
  Pos <- mcPos
  Workers <- mcWorkers1
  Part <- mcPart1
  MaxIters = 3
  TolNum = 0
  TolDen = 1
  InitModes <- mcForgy
  CenterCoords <- mcCenterCoords
SPECIFICATION Spec
INVARIANT EStepAssignsNearest
