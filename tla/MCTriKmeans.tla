---------------------------- MODULE MCTriKmeans ----------------------------
(***************************************************************************)
(* The instance of TriKmeans for TLC: rows on a line, scaled so that      *)
(* every mean of the rows and every half distance is an integer.           *)
(***************************************************************************)
EXTENDS TriKmeans, TLC

CONSTANTS w1, w2, w3

(***************************************************************************)
(* Five rows: the two pairs and a row between them, scaled by 60 so that   *)
(* every mean of up to five rows is an integer, on three workers in the    *)
(* engine's range partitioning.  The rows and centers are moved away from  *)
(* the origin.  After the g_prune_init pass prev_dist is measured from a   *)
(* zero shadow (finding 3 of the README), which is sound exactly when      *)
(* |m1| >= |m1 - m0| for every new mean m1 and old mean m0; far from the   *)
(* origin it always is, so that the other properties are checked past it.  *)
(***************************************************************************)
Scale5 == 60
Offset == 20 * Scale5
mcRows5 == 0 .. 4
mcPos5 == [r \in mcRows5 |-> Scale5 * <<0, 1, 4, 10, 11>>[r + 1] + Offset]
mcWorkers3 == {w1, w2, w3}
mcPart3 == [r \in mcRows5 |-> CASE r < 2 -> w1 [] r = 2 -> w2 [] OTHER -> w3]
mcCenterCoords5 == {Offset, 5 * Scale5 + Offset, 10 * Scale5 + Offset}

mcAllModes == {"random", "forgy", "kmeanspp", "centers"}
=============================================================================
