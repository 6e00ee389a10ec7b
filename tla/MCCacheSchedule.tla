--------------------------- MODULE MCCacheSchedule ---------------------------
(***************************************************************************)
(* Two workers, four rows, two per worker.                                 *)
(***************************************************************************)
EXTENDS CacheSchedule

CONSTANTS w1, w2

mcWorkers == {w1, w2}
mcRows == 0 .. 3
mcPart == [r \in mcRows |-> IF r < 2 THEN w1 ELSE w2]

=============================================================================
