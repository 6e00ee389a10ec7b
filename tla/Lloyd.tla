-------------------------------- MODULE Lloyd --------------------------------
(***************************************************************************)
(* What the pruned k-means drivers promise (spec sections 8.1 to 8.4): the *)
(* iterations of Lloyd's algorithm, whatever the pruning skips.  After a   *)
(* seeding, each iteration is an assignment step, in which every row in    *)
(* turn joins a nearest centroid, followed by an update step, in which     *)
(* every non-empty cluster's centroid becomes the mean of its members and  *)
(* an empty cluster keeps its centroid.  The iteration count and the       *)
(* convergence test are left to the implementation: between iterations    *)
(* the algorithm may stop.                                                 *)
(*                                                                         *)
(* Two seedings are allowed: a set of means (forgy, k-means++, caller      *)
(* centers), after which an assignment step follows, and a partition of    *)
(* the rows (random), whose centroids are the first means.                 *)
(***************************************************************************)
EXTENDS KmeansGeometry, FiniteSets

CONSTANTS
  Rows,   \* the rows
  Pos     \* Pos[r]: the coordinate of row r

VARIABLES
  lmean,   \* the centroids
  lasg,    \* the cluster of each row (InvalidClust before any assignment)
  todo,    \* the rows the current assignment step has still to assign
  lphase   \* "seed", "assign", "between" or "done"

lvars == <<lmean, lasg, todo, lphase>>

Assignments == [Rows -> Clusters \cup {InvalidClust}]

\* The centroid of each cluster under assignment a; an empty cluster keeps m.
Centroids(a, m) ==
  [c \in Clusters |->
     LET mem == {r \in Rows : a[r] = c}
     IN  IF mem = {} THEN m[c]
         ELSE MapThenSumSet(LAMBDA r : Pos[r], mem) \div Cardinality(mem)]

LInit ==
  /\ lmean = [c \in Clusters |-> 0]
  /\ lasg = [r \in Rows |-> InvalidClust]
  /\ todo = {}
  /\ lphase = "seed"

\* Seeding by means: any centroids, then an assignment step over every row.
SeedMeans ==
  /\ lphase = "seed"
  /\ lmean' \in [Clusters -> Int]
  /\ lasg' \in Assignments
  /\ todo' = Rows
  /\ lphase' = "assign"

\* Seeding by a partition: every row in some cluster, the centroids its means.
SeedPartition ==
  /\ lphase = "seed"
  /\ lasg' \in [Rows -> Clusters]
  /\ lmean' = Centroids(lasg', lmean)
  /\ todo' = {}
  /\ lphase' = "between"

\* Row r joins a nearest centroid.
Assign(r) ==
  /\ lphase = "assign"
  /\ r \in todo
  /\ \E c \in Clusters :
       /\ IsNearest(Pos[r], lmean, c)
       /\ lasg' = [lasg EXCEPT ![r] = c]
  /\ todo' = todo \ {r}
  /\ UNCHANGED <<lmean, lphase>>

\* Once every row is assigned, the centroids are recomputed; the algorithm
\* may then stop.
Update ==
  /\ lphase = "assign"
  /\ todo = {}
  /\ lmean' = Centroids(lasg, lmean)
  /\ lphase' \in {"between", "done"}
  /\ UNCHANGED <<lasg, todo>>

\* The next iteration's assignment step.
StartAssign ==
  /\ lphase = "between"
  /\ todo' = Rows
  /\ lphase' = "assign"
  /\ UNCHANGED <<lmean, lasg>>

Stop ==
  /\ lphase = "between"
  /\ lphase' = "done"
  /\ UNCHANGED <<lmean, lasg, todo>>

LNext ==
  \/ SeedMeans \/ SeedPartition \/ Update \/ StartAssign \/ Stop
  \/ \E r \in Rows : Assign(r)

LSpec == LInit /\ [][LNext]_lvars

=============================================================================
