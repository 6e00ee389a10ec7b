CONSTANTS
  K = 3
  Inf = 1000
  XCoords <- mcXCoords
  MeanCoords <- mcMeanCoords
  Slack <- mcSlack
  MaxMoves = 2
SPECIFICATION Spec
INVARIANT TypeOK
INVARIANT UbSound
 
