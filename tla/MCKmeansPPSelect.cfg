\* Distances of four rows from {0, 1, 2}, draws 1/4, 2/4, 3/4, against spec 4.6.
CONSTANTS
  K = 2
  Inf = 100000
  RandMax = 32767
  UDen = 4
  UDraws = {1, 2, 3}
  DistVals = {0, 1, 2}
SPECIFICATION Spec
INVARIANTS
  SelectionFollowsSpec
