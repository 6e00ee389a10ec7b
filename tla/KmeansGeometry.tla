--------------------------- MODULE KmeansGeometry ---------------------------
(***************************************************************************)
(* The distance arithmetic and the per-row cluster scans of the pruned     *)
(* k-means E-step (src/flash-graph/libgraph-algs/min_triangle_sem_kmeans   *)
(* .cpp and triangle_sem_kmeans.cpp).                                      *)
(*                                                                         *)
(* Data abstraction: rows and centroids are points on a line with integer  *)
(* coordinates, so the Euclidean distance of the code (sqrt of a sum of    *)
(* squared differences over NUM_COLS columns) is |p - q|.  Coordinates are *)
(* scaled by the caller so that every mean and every half distance is an   *)
(* exact integer; the comparisons the code makes on doubles are then made  *)
(* exactly.  std::numeric_limits<double>::max(), the initial bound of a    *)
(* row, is the constant Inf; adding a drift to it leaves it Inf, as the    *)
(* double addition rounds back to max.                                     *)
(***************************************************************************)
EXTENDS Integers, FiniteSetsExt, SequencesExt

CONSTANTS
  K,      \* number of clusters (the code's K)
  Inf     \* std::numeric_limits<double>::max()

Clusters == 0 .. K-1

\* The cluster ids in the order the code's `for (cl = 0; cl < K; cl++)` visits them.
ClusterOrder == [i \in 1 .. K |-> i - 1]

\* INVALID_CLUST_ID: the cluster id of a row no init has assigned yet.
InvalidClust == -1

(***************************************************************************)
(* Faulty variants of the definitions below, each the code with one        *)
(* plausible bug; the properties must tell each apart from the code.       *)
(***************************************************************************)
\* A distance that forgets the absolute value (a signed difference).
DistSigned(p, q) == p - q

AbsVal(v) == IF v < 0 THEN -v ELSE v

\* kbase::dist_comp_raw / dist_comp / eucl_dist with EUCL on one column.
Dist(p, q) == AbsVal(p - q)

\* dist_matrix::compute_dist: the table caches half distances (get(i,j) = D(i,j)/2).
HalfDistMatrix(m) == [i \in Clusters |-> [j \in Clusters |-> Dist(m[i], m[j]) \div 2]]

\* The s-value of each cluster: half the distance to its nearest other centroid.
SVal(dm) == [c \in Clusters |-> Min({dm[c][j] : j \in Clusters \ {c}})]

\* The bound loosened by half the drift, as if prev_dist were a half distance.
LoosenHalfDrift(ub, d) == IF ub = Inf THEN Inf ELSE ub + d \div 2

\* ub + prev_dist on doubles: max + d stays max.
Loosen(ub, d) == IF ub = Inf THEN Inf ELSE ub + d

\* Reference definitions: the distance to the nearest centroid, and whether
\* cluster c is one of the nearest.
MinDist(x, m) == Min({Dist(x, m[c]) : c \in Clusters})
IsNearest(x, m, c) == c \in Clusters /\ Dist(x, m[c]) = MinDist(x, m)

(***************************************************************************)
(* The state a row carries through one E-step: its cluster id, its upper   *)
(* bound `dist` and the `recalculated` flag that kmeans_vertex::run        *)
(* clears before the scan.                                                 *)
(***************************************************************************)
RowScanState(a, ub) == [a |-> a, ub |-> ub, recalc |-> FALSE]

\* One turn of the g_prune_init loop: take cl if it is strictly closer.
FullStep(x, m, st, cl) ==
  LET d == Dist(x, m[cl])
  IN  IF d < st.ub THEN [st EXCEPT !.a = cl, !.ub = d] ELSE st

\* run_distance with g_prune_init: a distance to every centroid, first minimiser kept.
FullScan(x, m, a, ub) ==
  FoldLeft(LAMBDA st, cl : FullStep(x, m, st, cl), RowScanState(a, ub), ClusterOrder)

PruneStep(x, m, dm, st, cl) ==
  IF st.ub <= dm[st.a][cl]
  THEN st
  ELSE LET ub1 == IF st.recalc THEN st.ub ELSE Dist(x, m[st.a])
           st1 == [st EXCEPT !.ub = ub1, !.recalc = TRUE]
           jd  == Dist(x, m[cl])
       IN  IF ub1 <= dm[st.a][cl] THEN st1
           ELSE IF jd < ub1 THEN [st1 EXCEPT !.a = cl, !.ub = jd]
           ELSE st1

PruneScan(x, m, dm, a, ub) ==
  FoldLeft(LAMBDA st, cl : PruneStep(x, m, dm, st, cl), RowScanState(a, ub), ClusterOrder)

\* Lemma 1 of kmeans_vertex::run: after loosening, a bound within the
\* s-value of the own cluster lets the row skip the E-step.
Lemma1Skip(ub, s, a) == ub <= s[a]


(***************************************************************************)
(* k-means++ selection (kmeanspp_get_next_cluster_id).  The distances d    *)
(* are indexed by row id; the draw u of ur_distribution is u / uden.  The  *)
(* code draws the threshold T = cuml * u / (RAND_MAX - 1) and returns the  *)
(* first row at which T minus the running sum of distances is <= 0, that   *)
(* is the first row whose prefix sum reaches T.  Both sides are multiplied *)
(* by uden * (RAND_MAX - 1) to compare integers.                          *)
(***************************************************************************)
PrefixSum(d, r) == MapThenSumSet(LAMBDA i : d[i], {i \in DOMAIN d : i <= r})

\* T - prefix <= 0 on doubles; a prefix holding a max distance reaches any T.
Reaches(p, lhs, scale) == IF p >= Inf THEN TRUE ELSE lhs <= p * scale

FirstReaching(d, lhs, scale) == Min({r \in DOMAIN d : Reaches(PrefixSum(d, r), lhs, scale)})

\* A draw for which the scan finds a row (the code exits otherwise).
PPSelectable(d, cuml, u, uden, randMax) ==
  \E r \in DOMAIN d : Reaches(PrefixSum(d, r), cuml * u, uden * (randMax - 1))

\* Faulty variant: the threshold computed in integer arithmetic, truncated.
KmeansPPSelectTruncated(d, cuml, u, uden, randMax) ==
  FirstReaching(d, (cuml * u) \div (uden * (randMax - 1)), 1)

KmeansPPSelect(d, cuml, u, uden, randMax) ==
  FirstReaching(d, cuml * u, uden * (randMax - 1))

\* The selection the spec states (4.6): T = S * u, then the same scan.
SpecPPSelect(d, u, uden) ==
  FirstReaching(d, MapThenSumSet(LAMBDA i : d[i], DOMAIN d) * u, uden)

=============================================================================
