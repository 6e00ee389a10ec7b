------------------------------ MODULE TriKmeans ------------------------------
(***************************************************************************)
(* compute_triangle_sem_kmeans (triangle_sem_kmeans.cpp): the full         *)
(* triangle-inequality k-means.  Unlike the minimized variant, the driver  *)
(* thread runs every step itself: each init stage and each E-step is one   *)
(* graph-engine run (start / start_all, then wait4complete), after which   *)
(* the driver merges the workers' programs (update_clusters) and decides   *)
(* what runs next.  A row keeps, besides its bound `dist`, a lower bound   *)
(* lwr_bnd[cl] on its distance to every centroid.                          *)
(*                                                                         *)
(* A row's callback is one action: it touches only the row, the worker's  *)
(* own program and globals that only the driver writes between engine      *)
(* runs.  Coordinates are one-dimensional and scaled (see KmeansGeometry). *)
(***************************************************************************)
EXTENDS KmeansGeometry, FiniteSets

CONSTANTS
  Rows,         \* row ids 0 .. NUM_ROWS-1
  Pos,          \* Pos[r]: the (scaled) coordinate of row r
  Workers,      \* worker threads, one kmeans_vertex_program each
  Part,         \* Part[r]: the worker whose partition holds row r
  MaxIters,     \* max_iters
  TolNum,       \* tolerance = TolNum / TolDen
  TolDen,
  InitModes,    \* the init arguments a run may be given
  CenterCoords, \* coordinates of caller-supplied centers
  RandMax,      \* RAND_MAX
  UDen,         \* draws of ur_distribution are u / UDen ...
  UDraws        \* ... for u in UDraws

ASSUME /\ Rows = 0 .. Cardinality(Rows) - 1
       /\ 2 <= K /\ K <= Cardinality(Rows)
       /\ Part \in [Rows -> Workers]
       /\ MaxIters \in Nat /\ TolNum \in Nat /\ TolDen \in Nat \ {0}
       /\ InitModes \subseteq {"random", "forgy", "kmeanspp", "centers"}
       /\ RandMax > 1 /\ UDraws \subseteq 1 .. UDen - 1

NUM_ROWS == Cardinality(Rows)

VARIABLES
  \* g_clusters (prune_clusters) and g_cluster_dist
  mean, prevMean, cnt, prevDist, dm, s,
  numMembers,   \* num_members_v
  numChanged,   \* g_num_changed
  iter,         \* g_iter
  converged,    \* converged
  pruneInit,    \* g_prune_init
  stage,        \* g_stage: "INIT" or "ESTEP"
  initMode,     \* the init argument of this run
  phase,        \* where compute_triangle_sem_kmeans is
  kmsppStage,   \* g_kmspp_stage: "ADDMEAN" or "DIST"
  kmsppIdx,     \* g_kmspp_cluster_idx
  \* kmeans_vertex of each row (cluster id, dist, lwr_bnd) and g_kmspp_distance
  asg, ub, lb, kmsppDist,
  \* the programs of the current engine run (one per worker)
  ptSum, ptCnt, ptChanged, ptCuml,
  pending       \* rows the current engine run has still to run

clusterVars == <<mean, prevMean, cnt, prevDist, dm, s, numMembers>>
ctrlVars == <<numChanged, iter, converged, pruneInit, stage, initMode, phase,
             kmsppStage, kmsppIdx>>
rowVars == <<asg, ub, lb, kmsppDist>>
progVars == <<ptSum, ptCnt, ptChanged, ptCuml>>
vars == <<clusterVars, ctrlVars, rowVars, progVars, pending>>

\* The driver's phases; initrun, ppadd, ppdist, initpass and estep are engine runs.
Phases == {"initrun", "forgy", "ppadd", "ppdist", "pruneinit", "initpass",
           "loop", "estep", "done"}

ZeroPt == [w \in Workers |-> [c \in Clusters |-> 0]]

\* Fresh programs, as every start_all creates them.
FreshPrograms ==
  /\ ptSum' = ZeroPt /\ ptCnt' = ZeroPt
  /\ ptChanged' = [w \in Workers |-> 0] /\ ptCuml' = [w \in Workers |-> 0]

(***************************************************************************)
(* VarInit, then the first engine run of the chosen init: a fresh          *)
(* prune_clusters (caller centers copied in), fresh rows (cluster id       *)
(* INVALID, dist max, lwr_bnd all 0).  kmeans++ picks its first row and    *)
(* sets its g_kmspp_distance to 0.                                         *)
(***************************************************************************)
Init ==
  /\ initMode \in InitModes
  /\ IF initMode = "centers"
       THEN mean \in [Clusters -> CenterCoords]
       ELSE mean = [c \in Clusters |-> 0]
  /\ prevMean = [c \in Clusters |-> 0] /\ cnt = [c \in Clusters |-> 0]
  /\ prevDist = [c \in Clusters |-> 0]
  /\ dm = [i \in Clusters |-> [j \in Clusters |-> 0]] /\ s = [c \in Clusters |-> 0]
  /\ numMembers = [c \in Clusters |-> 0]
  /\ numChanged = 0 /\ iter = 0 /\ converged = FALSE /\ pruneInit = FALSE
  /\ stage = "INIT"
  /\ kmsppStage = "ADDMEAN" /\ kmsppIdx = 0
  /\ asg = [r \in Rows |-> InvalidClust] /\ ub = [r \in Rows |-> Inf]
  /\ lb = [r \in Rows |-> [c \in Clusters |-> 0]]
  /\ ptSum = ZeroPt /\ ptCnt = ZeroPt
  /\ ptChanged = [w \in Workers |-> 0] /\ ptCuml = [w \in Workers |-> 0]
  /\ \E first \in Rows :
       /\ kmsppDist = [r \in Rows |->
                         IF initMode = "kmeanspp" /\ r = first THEN 0 ELSE Inf]
       /\ pending = CASE initMode = "random"   -> Rows
                      [] initMode = "kmeanspp" -> {first}
                      [] OTHER                 -> {}
  /\ phase = CASE initMode = "random"   -> "initrun"
               [] initMode = "forgy"    -> "forgy"
               [] initMode = "kmeanspp" -> "ppadd"
               [] OTHER                 -> "pruneinit"

\* Accumulating into a worker's program (clusters::add_member, remove_member).
AddTo(acc, w, c, v) == [acc EXCEPT ![w][c] = @ + v]

\* Faulty variant: swap_membership that adds the row to its new cluster only.
MoveMemberNoRemove(acc, w, old, new, v) == AddTo(acc, w, new, v)

\* swap_membership: the row leaves its old cluster and joins its new one.
MoveMember(acc, w, old, new, v) == AddTo(AddTo(acc, w, new, v), w, old, -v)

\* g_cluster_dist->compute_dist: the half-distance table and the s-values.
ComputeDist(m) ==
  LET d == HalfDistMatrix(m) IN [dm |-> d, s |-> SVal(d)]

\* An engine run has finished once wait4complete returns.
EngineDone == pending = {}

\* run_init RANDOM: random() % K, then add_member to the worker's program.
RandomInitRow(r) ==
  LET w == Part[r] IN
  /\ phase = "initrun"
  /\ r \in pending
  /\ \E c \in Clusters :
       /\ asg' = [asg EXCEPT ![r] = c]
       /\ ptSum' = AddTo(ptSum, w, c, Pos[r])
       /\ ptCnt' = AddTo(ptCnt, w, c, 1)
  /\ pending' = pending \ {r}
  /\ UNCHANGED <<clusterVars, ctrlVars, ub, lb, kmsppDist, ptChanged, ptCuml>>

(***************************************************************************)
(* Forgy init: K row ids drawn uniformly, possibly equal; g_init_hash[id]  *)
(* keeps the last cluster drawn for an id, and the engine run on the ids   *)
(* makes each distinct id's row that cluster's mean (set_mean).  A cluster *)
(* whose id was drawn again for a later cluster keeps its initial mean.    *)
(***************************************************************************)
ForgyInit ==
  /\ phase = "forgy"
  /\ \E draw \in [Clusters -> Rows] :
       LET hash(id) == Max({c \in Clusters : draw[c] = id})
       IN  mean' = [c \in Clusters |->
                      IF hash(draw[c]) = c THEN Pos[draw[c]] ELSE mean[c]]
  /\ phase' = "pruneinit"
  /\ UNCHANGED <<prevMean, cnt, prevDist, dm, s, numMembers, numChanged, iter,
                 converged, pruneInit, stage, initMode, kmsppStage, kmsppIdx,
                 rowVars, progVars, pending>>

(***************************************************************************)
(* kmeans++ init, the driver's `while (true)` loop: an ADDMEAN engine run  *)
(* on the chosen row (run_init adds the row to g_clusters as centroid      *)
(* g_kmspp_cluster_idx, nothing else), compute_dist, and unless K          *)
(* centroids are chosen a DIST engine run on every row with fresh          *)
(* kmeanspp_vertex_programs, then kmeanspp_get_next_cluster_id.            *)
(***************************************************************************)
PPAddRow(r) ==
  /\ phase = "ppadd"
  /\ r \in pending
  /\ mean' = [mean EXCEPT ![kmsppIdx] = @ + Pos[r]]
  /\ cnt' = [cnt EXCEPT ![kmsppIdx] = @ + 1]
  /\ pending' = pending \ {r}
  /\ UNCHANGED <<prevMean, prevDist, dm, s, numMembers, ctrlVars, rowVars, progVars>>

PPAddEnd ==
  LET t == ComputeDist(mean) IN
  /\ phase = "ppadd"
  /\ EngineDone
  /\ dm' = t.dm /\ s' = t.s
  /\ IF kmsppIdx + 1 = K
       THEN /\ phase' = "pruneinit"
            /\ UNCHANGED <<kmsppStage, progVars, pending>>
       ELSE /\ phase' = "ppdist" /\ kmsppStage' = "DIST"
            /\ pending' = Rows
            /\ FreshPrograms
  /\ UNCHANGED <<mean, prevMean, cnt, prevDist, numMembers, numChanged, iter,
                 converged, pruneInit, stage, initMode, kmsppIdx, rowVars>>

\* Faulty variant: the DIST prune test against the full centroid distance.
PPSkipTestFullDist(dist, a) == a # InvalidClust /\ dist <= 2 * dm[a][kmsppIdx]

\* The DIST prune test, in kmeans_vertex::run (on dist) and run_init (on
\* g_kmspp_distance): the new centroid is no closer than the row's own.
PPSkipTest(dist, a) == a # InvalidClust /\ dist <= dm[a][kmsppIdx]

\* kmeans_vertex::run, DIST: pruned, the row adds its dist without a fetch.
PPDistSkip(r) ==
  /\ phase = "ppdist"
  /\ r \in pending
  /\ PPSkipTest(ub[r], asg[r])
  /\ ptCuml' = [ptCuml EXCEPT ![Part[r]] = @ + ub[r]]
  /\ pending' = pending \ {r}
  /\ UNCHANGED <<clusterVars, ctrlVars, rowVars, ptSum, ptCnt, ptChanged>>

\* run_init PLUSPLUS, DIST: the distance to the new centroid, kept if closer.
PPDistScan(r) ==
  LET d   == Dist(Pos[r], mean[kmsppIdx])
      upd == ~PPSkipTest(kmsppDist[r], asg[r]) /\ d < kmsppDist[r]
      nd  == IF upd THEN d ELSE kmsppDist[r]
  IN  /\ phase = "ppdist"
      /\ r \in pending
      /\ ~PPSkipTest(ub[r], asg[r])
      /\ kmsppDist' = [kmsppDist EXCEPT ![r] = nd]
      /\ asg' = IF upd THEN [asg EXCEPT ![r] = kmsppIdx] ELSE asg
      /\ ub' = IF upd THEN [ub EXCEPT ![r] = d] ELSE ub
      /\ ptCuml' = [ptCuml EXCEPT ![Part[r]] = @ + nd]
      /\ pending' = pending \ {r}
      /\ UNCHANGED <<clusterVars, ctrlVars, lb, ptSum, ptCnt, ptChanged>>

(***************************************************************************)
(* kmeanspp_get_next_cluster_id: the threshold from the summed cumulative  *)
(* sums, g_kmspp_cluster_idx advanced, the first row whose prefix sum      *)
(* reaches it chosen; the loop then starts its next ADDMEAN run on it.     *)
(* A zero sum fails the code's assertion.                                  *)
(***************************************************************************)
PPDistEnd ==
  LET cuml == MapThenSumSet(LAMBDA w : ptCuml[w], Workers) IN
  /\ phase = "ppdist"
  /\ EngineDone
  /\ cuml # 0
  /\ \E u \in UDraws :
       /\ PPSelectable(kmsppDist, cuml, u, UDen, RandMax)
       /\ pending' = {KmeansPPSelect(kmsppDist, cuml, u, UDen, RandMax)}
  /\ kmsppIdx' = kmsppIdx + 1
  /\ kmsppStage' = "ADDMEAN"
  /\ phase' = "ppadd"
  /\ UNCHANGED <<clusterVars, numChanged, iter, converged, pruneInit, stage,
                 initMode, rowVars, progVars>>

-----------------------------------------------------------------------------
(***************************************************************************)
(* The E-step.  kmeans_vertex::run clears `recalculated`; without          *)
(* g_prune_init it loosens every lower bound by its centroid's drift and   *)
(* the bound `dist` by the drift of its own, and skips the row when the    *)
(* loosened bound is within the own s-value (lemma 1).  run_distance then  *)
(* scans the clusters: a full scan in the g_prune_init pass, otherwise     *)
(* the pruned scan with tests 3a, 3b, 3c and 4.                            *)
(***************************************************************************)
\* lwr_bnd[cl] = max(lwr_bnd[cl] - prev_dist(cl), 0) when prev_dist(cl) > 0.
LoosenLb(l, d) == IF d > 0 THEN Max({l - d, 0}) ELSE l

LoosenLbs(lbs) == [c \in Clusters |-> LoosenLb(lbs[c], prevDist[c])]

(***************************************************************************)
(* One turn of the pruned loop of run_distance: 3a (the bound within half  *)
(* the centroid distance) and 3b (the bound within the lower bound) skip   *)
(* cl; otherwise the bound is recalculated once, which also makes it the   *)
(* lower bound of the own cluster; 3c and track 4 repeat the tests on the  *)
(* tight bound; track 5 computes the distance to cl, which becomes its     *)
(* lower bound, and moves the row if it is strictly closer.                *)
(***************************************************************************)
\* Faulty variant: the recalculation stores get_dist() as lwr_bnd of the
\* own cluster before set_dist(udist), that is the loosened bound.
ElkanStepLbFromBound(x, m, d, st, cl) ==
  IF st.ub <= d[st.a][cl] \/ st.ub <= st.lb[cl]
  THEN st
  ELSE LET ud  == Dist(x, m[st.a])
           st1 == IF st.recalc THEN st
                  ELSE [st EXCEPT !.ub = ud, !.recalc = TRUE, !.lb[st.a] = st.ub]
       IN  IF st1.ub <= d[st1.a][cl] \/ st1.lb[cl] >= st1.ub
           THEN st1
           ELSE LET jd  == Dist(x, m[cl])
                    st2 == [st1 EXCEPT !.lb[cl] = jd]
                IN  IF jd < st2.ub THEN [st2 EXCEPT !.a = cl, !.ub = jd] ELSE st2

ElkanStep(x, m, d, st, cl) ==
  IF st.ub <= d[st.a][cl] \/ st.ub <= st.lb[cl]
  THEN st
  ELSE LET ud  == Dist(x, m[st.a])
           st1 == IF st.recalc THEN st
                  ELSE [st EXCEPT !.ub = ud, !.recalc = TRUE, !.lb[st.a] = ud]
       IN  IF st1.ub <= d[st1.a][cl] \/ st1.lb[cl] >= st1.ub
           THEN st1
           ELSE LET jd  == Dist(x, m[cl])
                    st2 == [st1 EXCEPT !.lb[cl] = jd]
                IN  IF jd < st2.ub THEN [st2 EXCEPT !.a = cl, !.ub = jd] ELSE st2

ElkanScan(x, m, d, a, ubd, lbs) ==
  FoldLeft(LAMBDA st, cl : ElkanStep(x, m, d, st, cl),
           [a |-> a, ub |-> ubd, recalc |-> FALSE, lb |-> lbs], ClusterOrder)

EStepRow(r) ==
  /\ phase \in {"initpass", "estep"}
  /\ r \in pending
  /\ kmsppStage # "DIST"
  /\ pending' = pending \ {r}

\* run_distance with g_prune_init: a full scan; every row counts as changed
\* and is added to its cluster in the program.
RowFull(r) ==
  LET w == Part[r]
      f == FullScan(Pos[r], mean, asg[r], ub[r])
  IN  /\ EStepRow(r)
      /\ pruneInit
      /\ asg' = [asg EXCEPT ![r] = f.a]
      /\ ub' = [ub EXCEPT ![r] = f.ub]
      /\ ptChanged' = [ptChanged EXCEPT ![w] = @ + 1]
      /\ ptSum' = AddTo(ptSum, w, f.a, Pos[r])
      /\ ptCnt' = AddTo(ptCnt, w, f.a, 1)
      /\ UNCHANGED <<clusterVars, ctrlVars, lb, kmsppDist, ptCuml>>

\* kmeans_vertex::run: the loosened bounds are kept and lemma 1 skips the row.
RowSkip(r) ==
  LET lub == Loosen(ub[r], prevDist[asg[r]]) IN
  /\ EStepRow(r)
  /\ ~pruneInit
  /\ Lemma1Skip(lub, s, asg[r])
  /\ ub' = [ub EXCEPT ![r] = lub]
  /\ lb' = [lb EXCEPT ![r] = LoosenLbs(@)]
  /\ UNCHANGED <<clusterVars, ctrlVars, asg, kmsppDist, progVars>>

\* kmeans_vertex::run, then the pruned run_distance; a row that changed
\* cluster is counted and moved in the program (swap_membership).
RowScan(r) ==
  LET w   == Part[r]
      lub == Loosen(ub[r], prevDist[asg[r]])
      e   == ElkanScan(Pos[r], mean, dm, asg[r], lub, LoosenLbs(lb[r]))
  IN  /\ EStepRow(r)
      /\ ~pruneInit
      /\ ~Lemma1Skip(lub, s, asg[r])
      /\ asg' = [asg EXCEPT ![r] = e.a]
      /\ ub' = [ub EXCEPT ![r] = e.ub]
      /\ lb' = [lb EXCEPT ![r] = e.lb]
      /\ IF e.a # asg[r]
           THEN /\ ptChanged' = [ptChanged EXCEPT ![w] = @ + 1]
                /\ ptSum' = MoveMember(ptSum, w, asg[r], e.a, Pos[r])
                /\ ptCnt' = MoveMember(ptCnt, w, asg[r], e.a, 1)
           ELSE UNCHANGED <<ptChanged, ptSum, ptCnt>>
      /\ UNCHANGED <<clusterVars, ctrlVars, kmsppDist, ptCuml>>

-----------------------------------------------------------------------------
(***************************************************************************)
(* clear_clusters: after the g_prune_init pass clear() zeroes the sums and *)
(* counts and leaves the shadow of previous means as it was; otherwise     *)
(* set_prev_means copies the means and unfinalize turns each mean back     *)
(* into its sum.                                                            *)
(***************************************************************************)
ClearClusters ==
  IF pruneInit
  THEN [sum |-> [c \in Clusters |-> 0], cnt |-> [c \in Clusters |-> 0], prevMean |-> prevMean]
  ELSE [sum |-> [c \in Clusters |-> mean[c] * cnt[c]], cnt |-> cnt, prevMean |-> mean]

\* Faulty variant: finalize of an empty cluster leaves its cleared (zero) sum.
UpdateClustersEmptyZero ==
  LET b   == ClearClusters
      tot == [c \in Clusters |-> b.sum[c] + MapThenSumSet(LAMBDA w : ptSum[w][c], Workers)]
      n   == [c \in Clusters |-> b.cnt[c] + MapThenSumSet(LAMBDA w : ptCnt[w][c], Workers)]
      m2  == [c \in Clusters |-> IF n[c] > 0 THEN tot[c] \div n[c] ELSE 0]
  IN  [mean |-> m2, prevMean |-> b.prevMean, cnt |-> n,
       prevDist |-> [c \in Clusters |-> Dist(m2[c], b.prevMean[c])],
       changed |-> numChanged + MapThenSumSet(LAMBDA w : ptChanged[w], Workers)]

(***************************************************************************)
(* update_clusters: clear_clusters, merge every program into g_clusters    *)
(* and add up g_num_changed, finalize each cluster (an empty one keeps its *)
(* mean), copy the counts to num_members_v and measure prev_dist.          *)
(***************************************************************************)
UpdateClusters ==
  LET b   == ClearClusters
      tot == [c \in Clusters |-> b.sum[c] + MapThenSumSet(LAMBDA w : ptSum[w][c], Workers)]
      n   == [c \in Clusters |-> b.cnt[c] + MapThenSumSet(LAMBDA w : ptCnt[w][c], Workers)]
      m2  == [c \in Clusters |-> IF n[c] > 0 THEN tot[c] \div n[c] ELSE mean[c]]
  IN  [mean |-> m2, prevMean |-> b.prevMean, cnt |-> n,
       prevDist |-> [c \in Clusters |-> Dist(m2[c], b.prevMean[c])],
       changed |-> numChanged + MapThenSumSet(LAMBDA w : ptChanged[w], Workers)]

\* The writes of update_clusters to g_clusters and num_members_v.
ApplyUpdate(u) ==
  /\ mean' = u.mean /\ prevMean' = u.prevMean /\ cnt' = u.cnt
  /\ numMembers' = u.cnt /\ prevDist' = u.prevDist

\* After the random init run: update_clusters, then the main loop at g_iter = 1.
RandomInitEnd ==
  /\ phase = "initrun"
  /\ EngineDone
  /\ ApplyUpdate(UpdateClusters)
  /\ numChanged' = UpdateClusters.changed
  /\ stage' = "ESTEP" /\ iter' = 1 /\ phase' = "loop"
  /\ UNCHANGED <<dm, s, converged, pruneInit, initMode, kmsppStage, kmsppIdx,
                 rowVars, progVars, pending>>

\* forgy, kmeans++ or caller centers: compute_dist and the g_prune_init pass.
PruneInitStart ==
  LET t == ComputeDist(mean) IN
  /\ phase = "pruneinit"
  /\ pruneInit' = TRUE /\ stage' = "ESTEP"
  /\ dm' = t.dm /\ s' = t.s
  /\ pending' = Rows /\ FreshPrograms
  /\ phase' = "initpass"
  /\ UNCHANGED <<mean, prevMean, cnt, prevDist, numMembers, numChanged, iter,
                 converged, initMode, kmsppStage, kmsppIdx, rowVars>>

\* After the g_prune_init pass: update_clusters, reset g_prune_init and
\* g_num_changed, then the main loop at g_iter = 1.
InitPassEnd ==
  /\ phase = "initpass"
  /\ EngineDone
  /\ ApplyUpdate(UpdateClusters)
  /\ pruneInit' = FALSE /\ numChanged' = 0
  /\ iter' = 1 /\ phase' = "loop"
  /\ UNCHANGED <<dm, s, converged, stage, initMode, kmsppStage, kmsppIdx,
                 rowVars, progVars, pending>>

\* `while (g_iter < max_iters)`: compute_dist and an E-step engine run.
LoopTop ==
  LET t == ComputeDist(mean) IN
  /\ phase = "loop"
  /\ IF iter < MaxIters
       THEN /\ dm' = t.dm /\ s' = t.s
            /\ pending' = Rows /\ FreshPrograms
            /\ phase' = "estep"
       ELSE /\ phase' = "done"
            /\ UNCHANGED <<dm, s, progVars, pending>>
  /\ UNCHANGED <<mean, prevMean, cnt, prevDist, numMembers, numChanged, iter,
                 converged, pruneInit, stage, initMode, kmsppStage, kmsppIdx,
                 rowVars>>

\* The convergence test on g_num_changed / NUM_ROWS.
ConvergedTest(changed) ==
  \/ changed = 0
  \/ changed * TolDen <= TolNum * NUM_ROWS

\* After an E-step: update_clusters, then converge and leave the loop, or
\* zero g_num_changed and go on with the next g_iter.
EStepEnd ==
  LET u == UpdateClusters IN
  /\ phase = "estep"
  /\ EngineDone
  /\ ApplyUpdate(u)
  /\ IF ConvergedTest(u.changed)
       THEN /\ converged' = TRUE /\ numChanged' = u.changed
            /\ phase' = "done" /\ UNCHANGED iter
       ELSE /\ numChanged' = 0 /\ iter' = iter + 1
            /\ phase' = "loop" /\ UNCHANGED converged
  /\ UNCHANGED <<dm, s, pruneInit, stage, initMode, kmsppStage, kmsppIdx,
                 rowVars, progVars, pending>>

\* compute_triangle_sem_kmeans has returned.
Terminated ==
  /\ phase = "done"
  /\ UNCHANGED vars

Next ==
  \/ ForgyInit \/ RandomInitEnd \/ PPAddEnd \/ PPDistEnd
  \/ PruneInitStart \/ InitPassEnd \/ LoopTop \/ EStepEnd
  \/ \E r \in Rows : RandomInitRow(r) \/ PPAddRow(r) \/ PPDistSkip(r) \/ PPDistScan(r)
  \/ \E r \in Rows : RowFull(r) \/ RowSkip(r) \/ RowScan(r)
  \/ Terminated

(***************************************************************************)
(* Every worker keeps running the rows of an engine run until the run has  *)
(* none left, and the driver resumes once wait4complete returns.           *)
(***************************************************************************)
Fairness ==
  /\ WF_vars(ForgyInit) /\ WF_vars(RandomInitEnd) /\ WF_vars(PPAddEnd)
  /\ WF_vars(PPDistEnd) /\ WF_vars(PruneInitStart) /\ WF_vars(InitPassEnd)
  /\ WF_vars(LoopTop) /\ WF_vars(EStepEnd)
  /\ \A r \in Rows : WF_vars(RandomInitRow(r) \/ PPAddRow(r) \/ PPDistSkip(r) \/ PPDistScan(r))
  /\ \A r \in Rows : WF_vars(RowFull(r) \/ RowSkip(r) \/ RowScan(r))

Spec == Init /\ [][Next]_vars /\ Fairness

-----------------------------------------------------------------------------
TypeOK ==
  /\ mean \in [Clusters -> Int] /\ prevMean \in [Clusters -> Int]
  /\ cnt \in [Clusters -> 0 .. NUM_ROWS] /\ numMembers \in [Clusters -> 0 .. NUM_ROWS]
  /\ prevDist \in [Clusters -> Nat] /\ s \in [Clusters -> Nat]
  /\ numChanged \in 0 .. NUM_ROWS /\ iter \in 0 .. MaxIters
  /\ converged \in BOOLEAN /\ pruneInit \in BOOLEAN
  /\ stage \in {"INIT", "ESTEP"} /\ phase \in Phases
  /\ kmsppStage \in {"ADDMEAN", "DIST"} /\ kmsppIdx \in Clusters
  /\ asg \in [Rows -> Clusters \cup {InvalidClust}]
  /\ ub \in [Rows -> Nat] /\ lb \in [Rows -> [Clusters -> Nat]]
  /\ kmsppDist \in [Rows -> Nat]
  /\ ptCnt \in [Workers -> [Clusters -> Int]]
  /\ ptChanged \in [Workers -> 0 .. NUM_ROWS] /\ ptCuml \in [Workers -> Nat]
  /\ pending \subseteq Rows

Members(c) == {r \in Rows : asg[r] = c}
PtCnt(c) == MapThenSumSet(LAMBDA w : ptCnt[w][c], Workers)
PtSum(c) == MapThenSumSet(LAMBDA w : ptSum[w][c], Workers)
SumPos(S) == MapThenSumSet(LAMBDA r : Pos[r], S)

(***************************************************************************)
(* The lower bounds are sound wherever a row consults them (spec 8.6): in  *)
(* the main loop, before a row's E-step its lwr_bnd loosened by the        *)
(* drifts bounds its distance to every moved centroid from below, and      *)
(* after it lwr_bnd itself does.  Tests 3b and 4 skip a cluster on this    *)
(* bound; a drift left out of the loosening, or a lower bound taken from   *)
(* the wrong distance in the scan, breaks it only iterations later.        *)
(***************************************************************************)
LbSound ==
  phase \in {"loop", "estep"} =>
    \A r \in Rows, c \in Clusters :
      LET cur == IF phase = "estep" /\ r \notin pending
                 THEN lb[r][c] ELSE LoosenLb(lb[r][c], prevDist[c])
      IN  cur <= Dist(Pos[r], mean[c])

(***************************************************************************)
(* Membership is conserved across rows, programs and g_clusters (spec 8.1, *)
(* 8.2): the members g_clusters counts plus what the programs of the       *)
(* engine run in progress added or moved are the rows with that cluster id,    *)
(* and likewise for the sums.  It holds from the random init run on, and   *)
(* once the g_prune_init pass has been merged.                             *)
(***************************************************************************)
MembershipConserved ==
  LET live == phase \in {"initrun", "estep"}
      pc(c) == IF live THEN PtCnt(c) ELSE 0
      ps(c) == IF live THEN PtSum(c) ELSE 0
  IN  phase \in {"initrun", "loop", "estep", "done"} =>
      \A c \in Clusters :
        /\ cnt[c] + pc(c) = Cardinality(Members(c))
        /\ cnt[c] > 0 => mean[c] * cnt[c] + ps(c) = SumPos(Members(c))

(***************************************************************************)
(* The kmeans++ loop leaves K distinct rows as the K centers, each added   *)
(* once, and g_kmspp_stage at ADDMEAN for the E-step's kmeans_vertex::run. *)
(***************************************************************************)
PPInitCompletes ==
  (phase = "pruneinit" /\ initMode = "kmeanspp")
    => /\ kmsppStage = "ADDMEAN"
       /\ \A c \in Clusters : cnt[c] = 1 /\ \E r \in Rows : mean[c] = Pos[r]
       /\ Cardinality({mean[c] : c \in Clusters}) = K

(***************************************************************************)
(* A kmeans++ DIST run keeps, for every row that has run, the distance to  *)
(* its nearest chosen center in g_kmspp_distance, and for a row with a     *)
(* cluster id, that id at such a center and its bound `dist` equal to it,  *)
(* although kmeans_vertex::run prunes on `dist` and run_init on            *)
(* g_kmspp_distance without computing the distance to the new center.      *)
(* The first center's row keeps INVALID_CLUST_ID and dist max throughout.  *)
(***************************************************************************)
PPDistIsNearestCenter ==
  phase = "ppdist" =>
    \A r \in Rows \ pending :
      LET chosen == 0 .. kmsppIdx IN
      /\ kmsppDist[r] = Min({Dist(Pos[r], mean[c]) : c \in chosen})
      /\ asg[r] # InvalidClust =>
           /\ asg[r] \in chosen
           /\ Dist(Pos[r], mean[asg[r]]) = kmsppDist[r]
           /\ ub[r] = kmsppDist[r]

-----------------------------------------------------------------------------
(***************************************************************************)
(* The refinement mapping to Lloyd.  The init runs are the seeding, which  *)
(* the abstract spec takes in one step: the random init run's merge is a   *)
(* seeding by partition, the start of the g_prune_init pass a seeding by   *)
(* means.  The g_prune_init pass and each E-step engine run are an         *)
(* assignment step whose rows still to assign are the rows still pending;  *)
(* every row callback, skipped by lemma 1 or not, assigns its row.  Each   *)
(* update_clusters after an engine run is an update step, and the loop     *)
(* head between two E-steps is the state between iterations.              *)
(***************************************************************************)
LloydPhase ==
  CASE phase \in {"initrun", "forgy", "ppadd", "ppdist", "pruneinit"} -> "seed"
    [] phase \in {"initpass", "estep"}                               -> "assign"
    [] phase = "loop"                                                -> "between"
    [] phase = "done"                                                -> "done"

Seeded == LloydPhase # "seed"

LloydSpec == INSTANCE Lloyd WITH
  lmean  <- IF Seeded THEN mean ELSE [c \in Clusters |-> 0],
  lasg   <- IF Seeded THEN asg ELSE [r \in Rows |-> InvalidClust],
  todo   <- IF LloydPhase = "assign" THEN pending ELSE {},
  lphase <- LloydPhase

(***************************************************************************)
(* compute_triangle_sem_kmeans implements Lloyd's algorithm: every row     *)
(* callback leaves its row at a nearest centroid of the current means,     *)
(* whichever bound pruned it, and every update_clusters, merging the       *)
(* workers' swap_membership deltas into the unfinalized means, leaves      *)
(* each non-empty cluster at the mean of its members and an empty one      *)
(* where it was, in the order seed, assign, update, assign, update, ...    *)
(***************************************************************************)
LloydRefinement == LloydSpec!LSpec

=============================================================================
