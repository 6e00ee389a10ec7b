------------------------------ MODULE RowBounds ------------------------------
(***************************************************************************)
(* The distance-bound state machine of one row in the steady state of the  *)
(* pruned E-step (g_prune_init false), against centroids that move         *)
(* arbitrarily between E-steps.                                            *)
(*                                                                         *)
(* E-step: kmeans_vertex::run loosens the row's bound `dist` by the drift  *)
(* of its own centroid, skips the row when the bound is within the         *)
(* s-value (lemma 1), and otherwise run_distance scans the clusters with   *)
(* tests 3a / 3c.  M-step: the means move, the drift of each centroid is   *)
(* measured from the means of the previous E-step (set_prev_means, then    *)
(* eucl_dist(mean, prev_mean)), and the half-distance table and s-values   *)
(* are recomputed (compute_dist).  The M-step here is the code's path      *)
(* when g_prune_init is false; the path after a g_prune_init pass is       *)
(* modelled in MinTriKmeans.                                               *)
(***************************************************************************)
EXTENDS KmeansGeometry

CONSTANTS
  XCoords,     \* coordinates a row may have
  MeanCoords,  \* coordinates a centroid may move to
  Slack,       \* how loose an initial bound may be
  MaxMoves     \* number of M-steps in a behaviour

ASSUME MaxMoves \in Nat /\ K >= 2
\* Half distances between centroids are exact.
ASSUME \A p \in MeanCoords : p % 2 = 0

VARIABLES
  x,         \* the row's coordinate (never changes)
  m,         \* g_clusters means
  prevDist,  \* g_clusters prev_dist per cluster
  dm,        \* g_cluster_dist, half distances
  s,         \* g_clusters s_val
  a,         \* the row's cluster id
  ub,        \* the row's bound `dist`
  phase,     \* "estep": the row has still to run; "mstep": the means move next
  moves

vars == <<x, m, prevDist, dm, s, a, ub, phase, moves>>

(***************************************************************************)
(* The row starts with a sound bound on the distance to its centroid: Inf  *)
(* as after construction, or a distance the previous E-step computed plus  *)
(* some slack.  prev_dist is 0: the bound already refers to these means.   *)
(***************************************************************************)
Init ==
  /\ x \in XCoords
  /\ m \in [Clusters -> MeanCoords]
  /\ a \in Clusters
  /\ ub \in {Inf} \cup {Dist(x, m[a]) + e : e \in Slack}
  /\ prevDist = [c \in Clusters |-> 0]
  /\ dm = HalfDistMatrix(m)
  /\ s = SVal(dm)
  /\ phase = "estep"
  /\ moves = 0

\* kmeans_vertex::run: the loosened bound is within the s-value; no I/O.
RowSkip ==
  LET lb == Loosen(ub, prevDist[a])
  IN  /\ phase = "estep"
      /\ Lemma1Skip(lb, s, a)
      /\ ub' = lb
      /\ phase' = "mstep"
      /\ UNCHANGED <<x, m, prevDist, dm, s, a, moves>>

\* kmeans_vertex::run then run_distance without g_prune_init.
RowScan ==
  LET lb == Loosen(ub, prevDist[a])
      r  == PruneScan(x, m, dm, a, lb)
  IN  /\ phase = "estep"
      /\ ~Lemma1Skip(lb, s, a)
      /\ a' = r.a
      /\ ub' = r.ub
      /\ phase' = "mstep"
      /\ UNCHANGED <<x, m, prevDist, dm, s, moves>>

\* The means move; prev_dist is measured from the previous means.
MStep ==
  /\ phase = "mstep"
  /\ moves < MaxMoves
  /\ \E m2 \in [Clusters -> MeanCoords] :
       /\ m' = m2
       /\ prevDist' = [c \in Clusters |-> Dist(m2[c], m[c])]
       /\ dm' = HalfDistMatrix(m2)
       /\ s' = SVal(HalfDistMatrix(m2))
  /\ phase' = "estep"
  /\ moves' = moves + 1
  /\ UNCHANGED <<x, a, ub>>

\* The behaviour ends after MaxMoves M-steps and a last E-step.
Finished ==
  /\ phase = "mstep"
  /\ moves = MaxMoves
  /\ UNCHANGED vars

Next == RowSkip \/ RowScan \/ MStep \/ Finished

Spec == Init /\ [][Next]_vars

-----------------------------------------------------------------------------
TypeOK ==
  /\ x \in XCoords
  /\ m \in [Clusters -> MeanCoords]
  /\ prevDist \in [Clusters -> Nat]
  /\ s \in [Clusters -> Nat]
  /\ a \in Clusters
  /\ ub \in Nat
  /\ phase \in {"estep", "mstep"}
  /\ moves \in 0 .. MaxMoves

(***************************************************************************)
(* The bound the code consults is a true upper bound (spec 8.6): before    *)
(* the E-step, dist + prev_dist[a] bounds the distance to the moved        *)
(* centroid; after it, dist bounds the distance to the row's centroid.     *)
(* A drift that under-measures a move, or a scan that keeps a stale        *)
(* bound after switching cluster, breaks it.                               *)
(***************************************************************************)
UbSound ==
  LET bound == IF phase = "estep" THEN Loosen(ub, prevDist[a]) ELSE ub
  IN  bound >= Dist(x, m[a])

=============================================================================
