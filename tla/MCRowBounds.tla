----------------------------- MODULE MCRowBounds -----------------------------
(* Three clusters, so that test 3a can skip a cluster before the bound is   *)
(* recalculated; centroids on an even grid, rows anywhere between them.     *)
EXTENDS RowBounds

mcXCoords == 0 .. 8
mcMeanCoords == {0, 4, 8}
mcSlack == {0, 3}
=============================================================================
