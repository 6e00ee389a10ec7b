--------------------------- MODULE MCMinTriKmeans ---------------------------
(***************************************************************************)
(* Instances of MinTriKmeans for TLC: four rows on a line, two well        *)
(* separated pairs (the rows of scenario S1 projected on one axis), K = 2, *)
(* one, two or three workers.  Coordinates are scaled by 24 so that every *)
(* mean of up to four rows and every half distance is an integer.          *)
(***************************************************************************)
EXTENDS MinTriKmeans, TLC

CONSTANTS w1, w2, w3

Scale == 24
mcRows == 0 .. 3
mcPos == [r \in mcRows |-> Scale * <<0, 1, 10, 11>>[r + 1]]
\* Rows at 0, 3, 5 and 11: with K = 3 some forgy and caller-center starts
\* still move rows in the third E-step, so MaxIters = 2 cuts them.
mcPosSlow == [r \in mcRows |-> Scale * <<0, 3, 5, 11>>[r + 1]]

mcWorkers1 == {w1}
mcPart1 == [r \in mcRows |-> w1]

mcWorkers2 == {w1, w2}
\* The engine's range partitioning: the first pair on w1, the second on w2.
mcPart2 == [r \in mcRows |-> IF r < 2 THEN w1 ELSE w2]

\* Three workers: the first pair on w1, one row each on w2 and w3.
mcWorkers3 == {w1, w2, w3}
mcPart3 == [r \in mcRows |-> CASE r < 2 -> w1 [] r = 2 -> w2 [] OTHER -> w3]

\* Caller-supplied centers: near either pair, or between them.
mcCenterCoords == {0, 5 * Scale, 10 * Scale}

(***************************************************************************)
(* The same rows and centers moved away from the origin, where the zero    *)
(* shadow of previous means after the g_prune_init pass (finding 3 of the  *)
(* README) over-measures every drift, so that the other properties are    *)
(* checked past it.                                                        *)
(***************************************************************************)
Offset == 20 * Scale
mcPosFar == [r \in mcRows |-> mcPos[r] + Offset]
mcCenterCoordsFar == {c + Offset : c \in mcCenterCoords}

mcAllModes == {"random", "forgy", "centers"}
mcRandom == {"random"}
mcForgy == {"forgy"}
mcCenters == {"centers"}
mcPP == {"kmeanspp"}
mcPPAndOthers == {"kmeanspp", "forgy", "centers", "random"}
(***************************************************************************)
(* The iteration barrier inside the engine: no iteration loses its M-step. *)
(* Once every worker has left ping(), some worker saw the count complete   *)
(* (IterBarrier's RoundHasCrosser).                                        *)
(***************************************************************************)
BarrierRoundHasCrosser == B!RoundHasCrosser
=============================================================================
