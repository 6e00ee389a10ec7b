---------------------------- MODULE MinTriKmeans ----------------------------
(***************************************************************************)
(* compute_min_triangle_sem_kmeans (min_triangle_sem_kmeans.cpp): the      *)
(* minimized triangle-inequality k-means.  One graph-engine run performs   *)
(* all E-steps: every row re-activates itself for the next iteration, each *)
(* worker accumulates into its own kmeans_vertex_program, and at the end   *)
(* of an iteration every worker's run_on_iteration_end pings the barrier;  *)
(* the worker that sees the barrier complete runs the M-step               *)
(* (update_clusters, compute_dist, the convergence test).                  *)
(*                                                                         *)
(* A row's callback is one action: kmeans_vertex::run, the row fetch and   *)
(* run_distance touch only the row, the worker's own program and globals   *)
(* that only the M-step writes, and the M-step runs after every worker has *)
(* drained its rows.  The row cache only decides whether a row is read     *)
(* from memory or from disk; it is modelled in RowCache.  Coordinates are  *)
(* one-dimensional and scaled (see KmeansGeometry).                        *)
(***************************************************************************)
EXTENDS KmeansGeometry, FiniteSets

CONSTANTS
  Rows,         \* row ids 0 .. NUM_ROWS-1
  Pos,          \* Pos[r]: the (scaled) coordinate of row r
  Workers,      \* worker threads (g_nthread)
  Part,         \* Part[r]: the worker whose partition holds row r
  MaxIters,     \* g_max_iters
  TolNum,       \* g_tolerance = TolNum / TolDen
  TolDen,
  InitModes,    \* the init arguments a run may be given
  CenterCoords, \* coordinates of caller-supplied centers
  RandMax,      \* RAND_MAX
  UDen,         \* draws of ur_distribution are u / UDen ...
  UDraws        \* ... for u in UDraws

ASSUME /\ Rows = 0 .. Cardinality(Rows) - 1
       /\ 2 <= K /\ K <= Cardinality(Rows)
       /\ Part \in [Rows -> Workers]
       /\ MaxIters \in Nat /\ TolNum \in Nat /\ TolDen \in Nat \ {0}
       /\ InitModes \subseteq {"random", "forgy", "kmeanspp", "centers"}
       /\ RandMax > 1 /\ UDraws \subseteq 1 .. UDen - 1

NUM_ROWS == Cardinality(Rows)

VARIABLES
  \* g_clusters (prune_clusters) and the pruning tables
  mean, prevMean, cnt, prevDist, dm, s,
  numMembers,   \* g_num_members_v
  numChanged,   \* g_num_changed
  iter,         \* g_iter
  converged,    \* g_converged
  pruneInit,    \* g_prune_init
  stage,        \* g_stage: "INIT" or "ESTEP"
  initMode,     \* the init argument of this run
  phase,        \* where compute_min_triangle_sem_kmeans is
  kmsppStage,   \* g_kmspp_stage: "ADDMEAN" or "DIST"
  kmsppIdx,     \* g_kmspp_cluster_idx
  \* kmeans_vertex of each row, and g_kmspp_distance
  asg, ub, kmsppDist,
  \* kmeans_vertex_program (kmeanspp_vertex_program) of each worker
  ptSum, ptCnt, ptChanged, ptCuml,
  \* the graph engine
  pending,      \* rows still to run in this engine iteration
  activeNext,   \* rows activated for the next iteration
  \* the iteration barrier
  ncomplete, bpc, seen, crossers

B == INSTANCE IterBarrier

bVars == <<ncomplete, bpc, seen, crossers>>

clusterVars == <<mean, prevMean, cnt, prevDist, dm, s, numMembers>>
ctrlVars == <<numChanged, iter, converged, pruneInit, stage, initMode, phase,
             kmsppStage, kmsppIdx>>
rowVars == <<asg, ub, kmsppDist>>
progVars == <<ptSum, ptCnt, ptChanged, ptCuml>>
engineVars == <<pending, activeNext>>
vars == <<clusterVars, ctrlVars, rowVars, progVars, engineVars, bVars>>

ZeroPt == [w \in Workers |-> [c \in Clusters |-> 0]]

\* The driver phases; "initrun" and "estep" are graph-engine runs.
Phases == {"forgy", "initrun", "inittail", "ppinit", "start", "estep", "done"}

(***************************************************************************)
(* Entry of a call with init argument m: parameters checked, g_clusters    *)
(* and g_cluster_dist created afresh (caller centers set with set_mean), a *)
(* new engine whose rows are at INVALID_CLUST_ID with dist = max, a new    *)
(* barrier.  The shadow of previous means starts at the origin, as a      *)
(* freshly created prune_clusters holds zeros.  For random init the first  *)
(* engine run starts here with g_stage = INIT; for kmeans++ the engine     *)
(* starts on one uniformly drawn row, whose g_kmspp_distance is 0, in      *)
(* stage ADDMEAN at g_kmspp_cluster_idx 0.  g_num_changed, g_iter,         *)
(* g_converged, g_prune_init and, outside kmeans++, g_kmspp_stage and      *)
(* g_kmspp_cluster_idx are file-scope statics that the entry leaves alone. *)
(***************************************************************************)
ZeroC == [c \in Clusters |-> 0]

\* The means of a fresh g_clusters: zero, or the caller's centers.
CallMeans(m) == IF m = "centers" THEN [Clusters -> CenterCoords] ELSE {ZeroC}

CallPhase(m) ==
  CASE m = "random"   -> "initrun"
    [] m = "forgy"    -> "forgy"
    [] m = "kmeanspp" -> "ppinit"
    [] OTHER          -> "start"

\* The first engine run's active rows and g_kmspp_distance.
CallRows(m) ==
  IF m = "kmeanspp"
  THEN {[p |-> {f}, d |-> [r \in Rows |-> IF r = f THEN 0 ELSE Inf]] : f \in Rows}
  ELSE {[p |-> IF m = "random" THEN Rows ELSE {}, d |-> [r \in Rows |-> Inf]]}

CallInit(m) ==
  /\ initMode = m
  /\ mean \in CallMeans(m)
  /\ prevMean = ZeroC /\ cnt = ZeroC /\ prevDist = ZeroC /\ s = ZeroC
  /\ numMembers = ZeroC /\ dm = [i \in Clusters |-> ZeroC]
  /\ stage = IF m = "centers" THEN "ESTEP" ELSE "INIT"
  /\ phase = CallPhase(m)
  /\ asg = [r \in Rows |-> InvalidClust]
  /\ ub = [r \in Rows |-> Inf]
  /\ ptSum = ZeroPt /\ ptCnt = ZeroPt /\ ptChanged = [w \in Workers |-> 0]
  /\ ptCuml = [w \in Workers |-> 0]
  /\ activeNext = {}
  /\ \E st \in CallRows(m) : pending = st.p /\ kmsppDist = st.d
  /\ B!BInit

\* The statics at their initializers, then the first call.
Init ==
  /\ numChanged = 0
  /\ iter = 0
  /\ converged = FALSE
  /\ pruneInit = FALSE
  /\ kmsppStage = "ADDMEAN" /\ kmsppIdx = 0
  /\ \E m \in InitModes : CallInit(m)

-----------------------------------------------------------------------------
(* Accumulating into a worker's program (clusters::add_member, remove_member). *)
AddTo(acc, w, c, v) == [acc EXCEPT ![w][c] = @ + v]

\* swap_membership that adds the row to its new cluster only.
MoveMemberNoRemove(acc, w, old, new, v) == AddTo(acc, w, new, v)

\* swap_membership: the row leaves its old cluster and joins its new one.
MoveMember(acc, w, old, new, v) == AddTo(AddTo(acc, w, new, v), w, old, -v)

\* Random init, run_init RANDOM: random() % K, then add_member to the program.
RandomInitRow(r) ==
  LET w == Part[r] IN
  /\ phase = "initrun"
  /\ r \in pending
  /\ \E c \in Clusters :
       /\ asg' = [asg EXCEPT ![r] = c]
       /\ ptSum' = AddTo(ptSum, w, c, Pos[r])
       /\ ptCnt' = AddTo(ptCnt, w, c, 1)
  /\ pending' = pending \ {r}
  /\ UNCHANGED <<clusterVars, ctrlVars, ub, kmsppDist, ptChanged, ptCuml, activeNext, bVars>>

(***************************************************************************)
(* Forgy init: K row ids drawn uniformly, possibly equal; g_init_hash[id]  *)
(* keeps the last cluster drawn for an id, and each distinct id's row      *)
(* becomes that cluster's mean (set_mean).  A cluster whose id was drawn   *)
(* again for a later cluster keeps its initial mean.                       *)
(***************************************************************************)
ForgyInit ==
  /\ phase = "forgy"
  /\ \E draw \in [Clusters -> Rows] :
       LET hash(id) == Max({c \in Clusters : draw[c] = id})
       IN  mean' = [c \in Clusters |->
                      IF hash(draw[c]) = c THEN Pos[draw[c]] ELSE mean[c]]
  /\ phase' = "start"
  /\ UNCHANGED <<prevMean, cnt, prevDist, dm, s, numMembers, numChanged, iter,
                 converged, pruneInit, stage, initMode, kmsppStage, kmsppIdx,
                 rowVars, progVars, engineVars, bVars>>

-----------------------------------------------------------------------------
(***************************************************************************)
(* Faulty variants of definitions below, each the code with one plausible  *)
(* bug; the properties must tell each apart from the code.                 *)
(***************************************************************************)
\* s-values taken from the table before it is recomputed.
ComputeDistStaleS(m) == [dm |-> HalfDistMatrix(m), s |-> SVal(dm)]

\* Rows that keep activating whatever the state.
RowActiveAlways == TRUE

\* Rows that still activate in the iteration g_iter = g_max_iters.
RowActiveAtCap == ~converged /\ iter <= MaxIters

(***************************************************************************)
(* clear_clusters: after a g_prune_init pass clear() zeroes the sums and   *)
(* counts and leaves the shadow of previous means as it was; otherwise     *)
(* set_prev_means copies the means and unfinalize turns each mean back     *)
(* into its sum.                                                            *)
(***************************************************************************)
ClearClusters ==
  IF pruneInit
  THEN [sum |-> [c \in Clusters |-> 0], cnt |-> [c \in Clusters |-> 0], prevMean |-> prevMean]
  ELSE [sum |-> [c \in Clusters |-> mean[c] * cnt[c]], cnt |-> cnt, prevMean |-> mean]

\* update_clusters finalizing an empty cluster to the origin.
UpdateClustersEmptyZero ==
  LET b   == ClearClusters
      tot == [c \in Clusters |-> b.sum[c] + MapThenSumSet(LAMBDA w : ptSum[w][c], Workers)]
      n   == [c \in Clusters |-> b.cnt[c] + MapThenSumSet(LAMBDA w : ptCnt[w][c], Workers)]
      m2  == [c \in Clusters |-> IF n[c] > 0 THEN tot[c] \div n[c] ELSE 0]
  IN  [mean |-> m2, prevMean |-> b.prevMean, cnt |-> n,
       prevDist |-> [c \in Clusters |-> Dist(m2[c], b.prevMean[c])],
       changed |-> numChanged + MapThenSumSet(LAMBDA w : ptChanged[w], Workers)]

(***************************************************************************)
(* update_clusters: clear_clusters, then merge and reset every program,    *)
(* add up g_num_changed, finalize each cluster (an empty one keeps its     *)
(* mean) and measure prev_dist from the shadow of previous means.          *)
(***************************************************************************)
UpdateClusters ==
  LET b   == ClearClusters
      tot == [c \in Clusters |-> b.sum[c] + MapThenSumSet(LAMBDA w : ptSum[w][c], Workers)]
      n   == [c \in Clusters |-> b.cnt[c] + MapThenSumSet(LAMBDA w : ptCnt[w][c], Workers)]
      m2  == [c \in Clusters |-> IF n[c] > 0 THEN tot[c] \div n[c] ELSE mean[c]]
  IN  [mean |-> m2, prevMean |-> b.prevMean, cnt |-> n,
       prevDist |-> [c \in Clusters |-> Dist(m2[c], b.prevMean[c])],
       changed |-> numChanged + MapThenSumSet(LAMBDA w : ptChanged[w], Workers)]

\* The convergence test of run_on_iteration_end.
ConvergedTest(changed) ==
  \/ changed = 0
  \/ changed * TolDen <= TolNum * NUM_ROWS
  \/ iter > MaxIters

(***************************************************************************)
(* The body of kmeans_vertex_program::run_on_iteration_end once ping()    *)
(* returned true: nothing once converged; otherwise update_clusters,       *)
(* compute_dist, then either converge or start the next iteration.         *)
(***************************************************************************)
\* g_cluster_dist->compute_dist: the half-distance table, then the s-values from it.
ComputeDist(m) ==
  LET d == HalfDistMatrix(m) IN [dm |-> d, s |-> SVal(d)]

\* The next iteration starts without zeroing g_num_changed.
ConvergeOrNextKeepChanged(changed) ==
  IF ConvergedTest(changed)
  THEN /\ converged' = TRUE /\ numChanged' = changed
       /\ UNCHANGED <<iter, pruneInit>>
  ELSE /\ pruneInit' = FALSE /\ numChanged' = changed /\ iter' = iter + 1
       /\ UNCHANGED converged

(***************************************************************************)
(* The convergence test: converge and keep g_num_changed, or leave the     *)
(* g_prune_init pass, zero g_num_changed and start the next g_iter.         *)
(***************************************************************************)
ConvergeOrNext(changed) ==
  IF ConvergedTest(changed)
  THEN /\ converged' = TRUE /\ numChanged' = changed
       /\ UNCHANGED <<iter, pruneInit>>
  ELSE /\ pruneInit' = FALSE /\ numChanged' = 0 /\ iter' = iter + 1
       /\ UNCHANGED converged

\* Faulty variant: update_clusters leaves num_members_v as it was.
MStepBodyNoMemberCopy ==
  IF converged
  THEN UNCHANGED <<clusterVars, ctrlVars, progVars>>
  ELSE LET u == UpdateClusters
           t == ComputeDist(u.mean)
       IN
       /\ mean' = u.mean /\ prevMean' = u.prevMean /\ cnt' = u.cnt
       /\ prevDist' = u.prevDist /\ dm' = t.dm /\ s' = t.s
       /\ ptSum' = ZeroPt /\ ptCnt' = ZeroPt /\ ptChanged' = [w \in Workers |-> 0]
       /\ ConvergeOrNext(u.changed)
       /\ UNCHANGED <<numMembers, stage, initMode, phase, kmsppStage, kmsppIdx, ptCuml>>

MStepBody ==
  IF converged
  THEN UNCHANGED <<clusterVars, ctrlVars, progVars>>
  ELSE LET u == UpdateClusters
           t == ComputeDist(u.mean)
       IN
       /\ mean' = u.mean /\ prevMean' = u.prevMean /\ cnt' = u.cnt
       /\ numMembers' = u.cnt /\ prevDist' = u.prevDist
       /\ dm' = t.dm /\ s' = t.s
       /\ ptSum' = ZeroPt /\ ptCnt' = ZeroPt /\ ptChanged' = [w \in Workers |-> 0]
       /\ ConvergeOrNext(u.changed)
       /\ UNCHANGED <<stage, initMode, phase, kmsppStage, kmsppIdx, ptCuml>>

-----------------------------------------------------------------------------
(***************************************************************************)
(* kmeans++ init: one engine run alternating ADDMEAN iterations (only the  *)
(* chosen row runs; it becomes centroid g_kmspp_cluster_idx in g_clusters, *)
(* whose sum with one member is the row) and DIST iterations (every row    *)
(* moves to the new centroid if it is closer and adds its distance to its  *)
(* worker's cumulative sum).                                               *)
(***************************************************************************)
\* Faulty variant: the DIST prune test against the full centroid distance.
PPSkipTestFullDist(dist, a) == a # InvalidClust /\ dist <= 2 * dm[a][kmsppIdx]

\* The DIST prune test, in kmeans_vertex::run (on dist) and run_init (on
\* g_kmspp_distance): the new centroid is no closer than the row's own.
PPSkipTest(dist, a) == a # InvalidClust /\ dist <= dm[a][kmsppIdx]

PPStep(r) ==
  /\ phase = "ppinit"
  /\ r \in pending
  /\ pending' = pending \ {r}

\* run_init PLUSPLUS, ADDMEAN: the row becomes the centroid and activates all rows.
PPAddMean(r) ==
  /\ PPStep(r)
  /\ kmsppStage = "ADDMEAN"
  /\ asg' = [asg EXCEPT ![r] = kmsppIdx]
  /\ ub' = [ub EXCEPT ![r] = 0]
  /\ kmsppDist' = [kmsppDist EXCEPT ![r] = 0]
  /\ mean' = [mean EXCEPT ![kmsppIdx] = @ + Pos[r]]
  /\ cnt' = [cnt EXCEPT ![kmsppIdx] = @ + 1]
  /\ activeNext' = Rows
  /\ UNCHANGED <<prevMean, prevDist, dm, s, numMembers, ctrlVars, progVars, bVars>>

\* kmeans_vertex::run, DIST: pruned, the row adds its dist without a fetch.
PPDistSkip(r) ==
  /\ PPStep(r)
  /\ kmsppStage = "DIST"
  /\ PPSkipTest(ub[r], asg[r])
  /\ ptCuml' = [ptCuml EXCEPT ![Part[r]] = @ + ub[r]]
  /\ UNCHANGED <<clusterVars, ctrlVars, rowVars, ptSum, ptCnt, ptChanged,
                 activeNext, bVars>>

\* run_init PLUSPLUS, DIST: the distance to the new centroid, kept if closer.
PPDistScan(r) ==
  LET d   == Dist(Pos[r], mean[kmsppIdx])
      upd == ~PPSkipTest(kmsppDist[r], asg[r]) /\ d < kmsppDist[r]
      nd  == IF upd THEN d ELSE kmsppDist[r]
  IN  /\ PPStep(r)
      /\ kmsppStage = "DIST"
      /\ ~PPSkipTest(ub[r], asg[r])
      /\ kmsppDist' = [kmsppDist EXCEPT ![r] = nd]
      /\ asg' = IF upd THEN [asg EXCEPT ![r] = kmsppIdx] ELSE asg
      /\ ub' = IF upd THEN [ub EXCEPT ![r] = d] ELSE ub
      /\ ptCuml' = [ptCuml EXCEPT ![Part[r]] = @ + nd]
      /\ UNCHANGED <<clusterVars, ctrlVars, ptSum, ptCnt, ptChanged,
                     activeNext, bVars>>

(***************************************************************************)
(* kmeanspp_vertex_program::run_on_iteration_end, past the barrier.  After *)
(* DIST: unless K centroids are chosen, kmeanspp_get_next_cluster_id sums  *)
(* and resets the cumulative sums, advances g_kmspp_cluster_idx, draws the *)
(* next row and activates it; then ADDMEAN.  After ADDMEAN: compute_dist,  *)
(* then DIST.                                                              *)
(***************************************************************************)
\* Faulty variant: g_kmspp_stage = ADDMEAN inside the `if (idx+1 < K)` block.
PPIterEndStageInIf ==
  /\ IF kmsppStage = "DIST"
       THEN IF kmsppIdx + 1 < K
              THEN LET cuml == MapThenSumSet(LAMBDA w : ptCuml[w], Workers) IN
                   \E u \in UDraws :
                     /\ PPSelectable(kmsppDist, cuml, u, UDen, RandMax)
                     /\ activeNext' = activeNext \cup
                          {KmeansPPSelect(kmsppDist, cuml, u, UDen, RandMax)}
                     /\ kmsppIdx' = kmsppIdx + 1
                     /\ ptCuml' = [w \in Workers |-> 0]
                     /\ kmsppStage' = "ADDMEAN"
                     /\ UNCHANGED <<dm, s>>
              ELSE UNCHANGED <<activeNext, kmsppIdx, ptCuml, kmsppStage, dm, s>>
       ELSE LET tb == ComputeDist(mean) IN
            /\ dm' = tb.dm /\ s' = tb.s
            /\ kmsppStage' = "DIST"
            /\ UNCHANGED <<activeNext, kmsppIdx, ptCuml>>
  /\ UNCHANGED <<mean, prevMean, cnt, prevDist, numMembers, numChanged, iter,
                 converged, pruneInit, stage, initMode, phase, ptSum, ptCnt,
                 ptChanged>>

PPIterEnd ==
  /\ IF kmsppStage = "DIST"
       THEN /\ kmsppStage' = "ADDMEAN"
            /\ IF kmsppIdx + 1 < K
                 THEN LET cuml == MapThenSumSet(LAMBDA w : ptCuml[w], Workers) IN
                      \E u \in UDraws :
                        /\ PPSelectable(kmsppDist, cuml, u, UDen, RandMax)
                        /\ activeNext' = activeNext \cup
                             {KmeansPPSelect(kmsppDist, cuml, u, UDen, RandMax)}
                        /\ kmsppIdx' = kmsppIdx + 1
                        /\ ptCuml' = [w \in Workers |-> 0]
                 ELSE UNCHANGED <<activeNext, kmsppIdx, ptCuml>>
            /\ UNCHANGED <<dm, s>>
       ELSE LET tb == ComputeDist(mean) IN
            /\ dm' = tb.dm /\ s' = tb.s
            /\ kmsppStage' = "DIST"
            /\ UNCHANGED <<activeNext, kmsppIdx, ptCuml>>
  /\ UNCHANGED <<mean, prevMean, cnt, prevDist, numMembers, numChanged, iter,
                 converged, pruneInit, stage, initMode, phase, ptSum, ptCnt,
                 ptChanged>>

EngineRunning == phase \in {"initrun", "ppinit", "estep"}

\* run_on_iteration_end starts once the worker has drained its rows.
IterEndInc(w) ==
  /\ EngineRunning
  /\ \A r \in pending : Part[r] # w
  /\ B!PingInc(w)
  /\ UNCHANGED <<clusterVars, ctrlVars, rowVars, progVars, engineVars>>

IterEndLoad(w) ==
  /\ B!PingLoad(w)
  /\ UNCHANGED <<clusterVars, ctrlVars, rowVars, progVars, engineVars>>

\* The crosser runs the M-step, or during kmeans++ the next init step.
IterEndCross(w) ==
  /\ B!PingTrue(w)
  /\ IF phase = "ppinit"
       THEN PPIterEnd
       ELSE MStepBody /\ UNCHANGED activeNext
  /\ UNCHANGED <<rowVars, pending>>

IterEndPass(w) ==
  /\ B!PingFalse(w)
  /\ UNCHANGED <<clusterVars, ctrlVars, rowVars, progVars, engineVars>>

\* Faulty variant: the rows activated for the next iteration stay queued.
NextIterationKeepActive ==
  /\ EngineRunning
  /\ B!Reopen
  /\ activeNext # {}
  /\ pending' = activeNext
  /\ UNCHANGED <<clusterVars, ctrlVars, rowVars, progVars, activeNext>>

(***************************************************************************)
(* Every worker has returned from run_on_iteration_end: the engine runs    *)
(* the rows activated for the next iteration, or the run is complete       *)
(* (wait4complete returns).                                                *)
(***************************************************************************)
NextIteration ==
  /\ EngineRunning
  /\ B!Reopen
  /\ activeNext # {}
  /\ pending' = activeNext
  /\ activeNext' = {}
  /\ UNCHANGED <<clusterVars, ctrlVars, rowVars, progVars>>

EngineDone ==
  /\ EngineRunning
  /\ B!AllOut
  /\ activeNext = {}
  /\ phase' = CASE phase = "initrun" -> "inittail"
                 [] phase = "ppinit"  -> "start"
                 [] OTHER             -> "done"
  /\ bpc' = [w \in Workers |-> "run"]
  /\ crossers' = {}
  /\ UNCHANGED <<clusterVars, numChanged, iter, converged, pruneInit, stage,
                 initMode, kmsppStage, kmsppIdx, rowVars, progVars, engineVars,
                 ncomplete, seen>>

-----------------------------------------------------------------------------
\* After the random-init engine run: update_clusters once more.
RandomInitTail ==
  LET u == UpdateClusters IN
  /\ phase = "inittail"
  /\ mean' = u.mean /\ prevMean' = u.prevMean /\ cnt' = u.cnt
  /\ numMembers' = u.cnt /\ prevDist' = u.prevDist
  /\ numChanged' = u.changed
  /\ ptSum' = ZeroPt /\ ptCnt' = ZeroPt /\ ptChanged' = [w \in Workers |-> 0]
  /\ phase' = "start"
  /\ UNCHANGED <<dm, s, iter, converged, pruneInit, stage, initMode, kmsppStage,
                 kmsppIdx, ptCuml, rowVars, engineVars, bVars>>

(***************************************************************************)
(* g_iter = 0; one full pass (g_prune_init) unless init was random; then   *)
(* the E-step engine run over all rows if max_iters > 0, with fresh        *)
(* programs.                                                               *)
(***************************************************************************)
StartEStep ==
  /\ phase = "start"
  /\ iter' = 0
  /\ pruneInit' = (pruneInit \/ initMode \in {"forgy", "kmeanspp", "centers"})
  /\ stage' = "ESTEP"
  /\ IF MaxIters > 0
       THEN phase' = "estep" /\ pending' = Rows
       ELSE phase' = "done" /\ UNCHANGED pending
  /\ ptSum' = ZeroPt /\ ptCnt' = ZeroPt /\ ptChanged' = [w \in Workers |-> 0]
  /\ UNCHANGED <<clusterVars, numChanged, converged, initMode, kmsppStage,
                 kmsppIdx, ptCuml, rowVars, activeNext, bVars>>

-----------------------------------------------------------------------------
(***************************************************************************)
(* kmeans_vertex::run in the E-step.  A row first re-activates itself for  *)
(* the next iteration, unless the run has converged or g_iter reached      *)
(* g_max_iters, in which case it returns at once.                          *)
(***************************************************************************)
RowActive == ~converged /\ iter < MaxIters

(***************************************************************************)
(* kmeans_vertex::run tests g_kmspp_stage before g_stage.  In the E-step   *)
(* the stage is ADDMEAN unless the kmeans++ run ended on DIST; then a row  *)
(* takes the kmeans++ prune test first, and a row that fails it goes to    *)
(* run_distance without re-activating itself and without loosening.        *)
(***************************************************************************)
Steady == kmsppStage # "DIST"

RowStep(r) ==
  /\ phase = "estep"
  /\ r \in pending
  /\ pending' = pending \ {r}
  /\ Steady \/ ~PPSkipTest(ub[r], asg[r])

\* The row re-activates itself for the next iteration.
Reactivate(r) ==
  activeNext' = IF Steady THEN activeNext \cup {r} ELSE activeNext

\* The row returns before the fetch: the run has converged or hit
\* g_max_iters, or (stage DIST) the kmeans++ prune test holds; its
\* pt_cuml_sum_peq then writes through a kmeans_vertex_program cast to the
\* kmeans++ program, which changes no state modelled here.
RowIdle(r) ==
  /\ phase = "estep"
  /\ r \in pending
  /\ pending' = pending \ {r}
  /\ IF Steady THEN ~RowActive ELSE PPSkipTest(ub[r], asg[r])
  /\ UNCHANGED <<clusterVars, ctrlVars, rowVars, progVars, activeNext, bVars>>

\* g_prune_init: the distance to every centroid; the row joins the program's sums.
RowFull(r) ==
  LET w == Part[r]
      st == FullScan(Pos[r], mean, asg[r], ub[r])
  IN  /\ RowStep(r)
      /\ Steady => RowActive
      /\ pruneInit
      /\ Reactivate(r)
      /\ asg' = [asg EXCEPT ![r] = st.a]
      /\ ub' = [ub EXCEPT ![r] = st.ub]
      /\ ptChanged' = [ptChanged EXCEPT ![w] = @ + 1]
      /\ ptSum' = AddTo(ptSum, w, st.a, Pos[r])
      /\ ptCnt' = AddTo(ptCnt, w, st.a, 1)
      /\ UNCHANGED <<clusterVars, ctrlVars, kmsppDist, ptCuml, bVars>>

\* Lemma 1: the loosened bound is within the s-value; no I/O, no change.
RowSkip(r) ==
  LET a == asg[r]
      lb == Loosen(ub[r], prevDist[a])
  IN  /\ RowStep(r)
      /\ Steady /\ RowActive /\ ~pruneInit
      /\ Lemma1Skip(lb, s, a)
      /\ Reactivate(r)
      /\ ub' = [ub EXCEPT ![r] = lb]
      /\ UNCHANGED <<clusterVars, ctrlVars, asg, kmsppDist, progVars, bVars>>

\* The row is read and run_distance scans with tests 3a and 3c; a row that
\* changes cluster moves between the program's sums (swap_membership).
RowScan(r) ==
  LET w == Part[r]
      a == asg[r]
      lb == IF Steady THEN Loosen(ub[r], prevDist[a]) ELSE ub[r]
      st == PruneScan(Pos[r], mean, dm, a, lb)
  IN  /\ RowStep(r)
      /\ ~pruneInit
      /\ Steady => RowActive /\ ~Lemma1Skip(lb, s, a)
      /\ Reactivate(r)
      /\ asg' = [asg EXCEPT ![r] = st.a]
      /\ ub' = [ub EXCEPT ![r] = st.ub]
      /\ IF st.a # a
           THEN /\ ptChanged' = [ptChanged EXCEPT ![w] = @ + 1]
                /\ ptSum' = MoveMember(ptSum, w, a, st.a, Pos[r])
                /\ ptCnt' = MoveMember(ptCnt, w, a, st.a, 1)
           ELSE UNCHANGED <<ptSum, ptCnt, ptChanged>>
      /\ UNCHANGED <<clusterVars, ctrlVars, kmsppDist, ptCuml, bVars>>

\* The run has returned its result.
Terminated ==
  /\ phase = "done"
  /\ UNCHANGED vars

Next ==
  \/ ForgyInit \/ RandomInitTail \/ StartEStep
  \/ \E r \in Rows : RandomInitRow(r) \/ PPAddMean(r) \/ PPDistSkip(r) \/ PPDistScan(r)
  \/ \E r \in Rows : RowIdle(r) \/ RowFull(r) \/ RowSkip(r) \/ RowScan(r)
  \/ \E w \in Workers : IterEndInc(w) \/ IterEndLoad(w) \/ IterEndCross(w) \/ IterEndPass(w)
  \/ NextIteration \/ EngineDone
  \/ Terminated

(***************************************************************************)
(* A further call of compute_min_triangle_sem_kmeans in the same process,  *)
(* once the previous one has returned: the entry sets up a new engine,     *)
(* g_clusters and barrier for the caller's init argument, and the statics  *)
(* it never assigns keep what the previous call left in them.              *)
(***************************************************************************)
Rerun ==
  /\ phase = "done"
  /\ \E m \in InitModes :
       /\ initMode' = m
       /\ mean' \in CallMeans(m)
       /\ prevMean' = ZeroC /\ cnt' = ZeroC /\ prevDist' = ZeroC /\ s' = ZeroC
       /\ numMembers' = ZeroC /\ dm' = [i \in Clusters |-> ZeroC]
       /\ stage' = IF m = "centers" THEN stage ELSE "INIT"
       /\ phase' = CallPhase(m)
       /\ IF m = "kmeanspp" THEN kmsppStage' = "ADDMEAN" /\ kmsppIdx' = 0
                            ELSE UNCHANGED <<kmsppStage, kmsppIdx>>
       /\ \E st \in CallRows(m) : pending' = st.p /\ kmsppDist' = st.d
  /\ asg' = [r \in Rows |-> InvalidClust]
  /\ ub' = [r \in Rows |-> Inf]
  /\ ptSum' = ZeroPt /\ ptCnt' = ZeroPt /\ ptChanged' = [w \in Workers |-> 0]
  /\ ptCuml' = [w \in Workers |-> 0]
  /\ activeNext' = {}
  /\ ncomplete' = 0 /\ bpc' = [w \in Workers |-> "run"]
  /\ seen' = [w \in Workers |-> FALSE] /\ crossers' = {}
  /\ UNCHANGED <<numChanged, iter, converged, pruneInit>>

(***************************************************************************)
(* Every worker thread keeps running its rows and its iteration end, and   *)
(* the driver thread keeps going once wait4complete returns.               *)
(***************************************************************************)
Fairness ==
  /\ WF_vars(ForgyInit) /\ WF_vars(RandomInitTail) /\ WF_vars(StartEStep)
  /\ \A r \in Rows : WF_vars(RandomInitRow(r) \/ PPAddMean(r) \/ PPDistSkip(r) \/ PPDistScan(r))
  /\ \A r \in Rows : WF_vars(RowIdle(r) \/ RowFull(r) \/ RowSkip(r) \/ RowScan(r))
  /\ \A w \in Workers : WF_vars(IterEndInc(w) \/ IterEndLoad(w) \/ IterEndCross(w) \/ IterEndPass(w))
  /\ WF_vars(NextIteration) /\ WF_vars(EngineDone)

Spec == Init /\ [][Next]_vars /\ Fairness

\* Back-to-back calls in one process.
RerunSpec == Init /\ [][Next \/ Rerun]_vars


-----------------------------------------------------------------------------
TypeOK ==
  /\ mean \in [Clusters -> Int] /\ prevMean \in [Clusters -> Int]
  /\ cnt \in [Clusters -> 0 .. NUM_ROWS] /\ numMembers \in [Clusters -> 0 .. NUM_ROWS]
  /\ prevDist \in [Clusters -> Nat] /\ s \in [Clusters -> Nat]
  /\ numChanged \in Nat /\ iter \in 0 .. MaxIters
  /\ converged \in BOOLEAN /\ pruneInit \in BOOLEAN
  /\ stage \in {"INIT", "ESTEP"} /\ phase \in Phases
  /\ asg \in [Rows -> Clusters \cup {InvalidClust}]
  /\ ub \in [Rows -> Nat]
  /\ ptCnt \in [Workers -> [Clusters -> Int]]
  /\ ptChanged \in [Workers -> 0 .. NUM_ROWS]
  /\ kmsppStage \in {"ADDMEAN", "DIST"} /\ kmsppIdx \in Clusters
  /\ kmsppDist \in [Rows -> Nat] /\ ptCuml \in [Workers -> Nat]
  /\ pending \subseteq Rows /\ activeNext \subseteq Rows
  /\ B!BTypeOK

Members(c) == {r \in Rows : asg[r] = c}
PtCnt(c) == MapThenSumSet(LAMBDA w : ptCnt[w][c], Workers)
PtSum(c) == MapThenSumSet(LAMBDA w : ptSum[w][c], Workers)
SumPos(S) == MapThenSumSet(LAMBDA r : Pos[r], S)

\* kmeans++ fills g_clusters with add_member and moves rows without it; the
\* counts are those of the rows again once the first pass has been merged.
LiveCounts ==
  initMode = "kmeanspp" => (phase \in {"estep", "done"} /\ ~pruneInit)

(***************************************************************************)
(* Membership is conserved across rows, programs and g_clusters (spec 8.1, *)
(* 8.2): at every moment, the members g_clusters counts plus what the      *)
(* workers' programs have added or moved since the last update_clusters    *)
(* are exactly the rows assigned to the cluster, and likewise for their    *)
(* coordinate sums.  It is broken by a program reset that loses a delta,   *)
(* by a merge that counts a row twice after a g_prune_init pass, or by a   *)
(* swap_membership with its clusters reversed.                             *)
(***************************************************************************)
MembershipConserved ==
  LiveCounts =>
  \A c \in Clusters :
    /\ cnt[c] + PtCnt(c) = Cardinality(Members(c))
    /\ cnt[c] > 0 => mean[c] * cnt[c] + PtSum(c) = SumPos(Members(c))

(***************************************************************************)
(* What the driver returns once the engine is done: set_params with g_iter *)
(* (logged as ++g_iter when converged), then set_computed with the         *)
(* get_membership copy, g_num_members_v and the means of g_clusters.       *)
(***************************************************************************)
Result ==
  [membership |-> asg, sizes |-> numMembers, means |-> mean,
   iters |-> IF converged THEN iter + 1 ELSE iter]

(***************************************************************************)
(* The returned result is consistent (spec 8.1): the cluster sizes that    *)
(* set_computed returns (g_num_members_v, copied by update_clusters from   *)
(* g_clusters) count exactly the rows that get_membership returns in each  *)
(* cluster, in every init mode, whether the run converged or hit the cap.  *)
(* With max_iters = 0 the E-step engine never runs and the property does   *)
(* not hold for kmeans++ (rows at centers, sizes still the zeros of line   *)
(* 1001); the runs that check it have max_iters > 0.                       *)
(***************************************************************************)
ResultSizesMatchMembership ==
  phase = "done" /\ MaxIters > 0 =>
    \A c \in Clusters : Result.sizes[c] = Cardinality({r \in Rows : Result.membership[r] = c})

(***************************************************************************)
(* BOOST_VERIFY(g_num_changed <= NUM_ROWS) of update_clusters never fails: *)
(* the changed count of an iteration is reset before the next one, and a  *)
(* row is counted at most once per iteration.                              *)
(***************************************************************************)
ChangedBounded == numChanged + MapThenSumSet(LAMBDA w : ptChanged[w], Workers) <= NUM_ROWS

(***************************************************************************)
(* A row that prunes with lemma 1 or tests 3a/3c reads a distance table   *)
(* and s-values computed from the current means (spec 5: the M-step's     *)
(* writes happen before any row of the next iteration).                   *)
(***************************************************************************)
DistTablesFresh ==
  (phase = "estep" /\ RowActive /\ ~pruneInit /\ pending # {})
    => /\ dm = HalfDistMatrix(mean)
       /\ s = SVal(dm)

(***************************************************************************)
(* The iteration cap cuts the run cleanly: once g_iter = g_max_iters, the  *)
(* rows of kmeans_vertex::run return before any distance is taken, so no  *)
(* row moves, and the crosser's update_clusters of that idle iteration    *)
(* rebuilds every mean from its own sum; the result is the one of the     *)
(* last counted E-step.                                                    *)
(***************************************************************************)
CapIterationIsIdle ==
  [][iter = MaxIters => UNCHANGED <<asg, mean>>]_vars

(***************************************************************************)
(* Every run returns: the E-step engine stops once the run converges or    *)
(* g_iter reaches g_max_iters, and every iteration ends at the barrier.    *)
(***************************************************************************)
Termination == <>(phase = "done")

(***************************************************************************)
(* With tolerance 0 a converged result is a Lloyd fixed point (spec 8.4,   *)
(* S1, S2): unless the iteration cap was hit, every row belongs to a       *)
(* nearest centroid of the returned means.                                 *)
(***************************************************************************)
ConvergedIsFixedPoint ==
  (phase = "done" /\ converged /\ TolNum = 0 /\ iter < MaxIters)
    => \A r \in Rows : IsNearest(Pos[r], mean, asg[r])

(***************************************************************************)
(* Pruning does not change the E-step (spec 8.4): in an E-step iteration, *)
(* before the M-step, every row that has run sits at a nearest centroid   *)
(* of the current means, as the unpruned full scan would put it.          *)
(***************************************************************************)
EStepAssignsNearest ==
  (phase = "estep" /\ RowActive /\ crossers = {})
    => \A r \in Rows \ pending : IsNearest(Pos[r], mean, asg[r])

(***************************************************************************)
(* max_iters = 0 with caller centers returns the centers unchanged and    *)
(* every row assigned to its nearest center (spec 8.7).                    *)
(***************************************************************************)
ZeroIterResultIsArgmin ==
  (phase = "done" /\ initMode = "centers" /\ MaxIters = 0)
    => \A r \in Rows : IsNearest(Pos[r], mean, asg[r])

(***************************************************************************)
(* kmeans++ DIST iterations keep, for every row that has run, the distance *)
(* to its nearest chosen center (g_kmspp_distance), its cluster id at that *)
(* center and its bound `dist` equal to it, although rows pruned by the    *)
(* half-distance test in kmeans_vertex::run and run_init never compute the *)
(* distance to the new center.  A test against the full center distance   *)
(* lets a row keep a farther center.                                       *)
(***************************************************************************)
PPDistIsNearestCenter ==
  (phase = "ppinit" /\ kmsppStage = "DIST" /\ crossers = {})
    => \A r \in Rows \ pending :
         LET chosen == 0 .. kmsppIdx IN
         /\ kmsppDist[r] = Min({Dist(Pos[r], mean[c]) : c \in chosen})
         /\ asg[r] \in chosen
         /\ Dist(Pos[r], mean[asg[r]]) = kmsppDist[r]
         /\ ub[r] = kmsppDist[r]

(***************************************************************************)
(* When the kmeans++ engine run returns, K distinct rows have each become *)
(* one center (one add_member each), and g_kmspp_stage is back at ADDMEAN, *)
(* the stage the E-step's kmeans_vertex::run expects.                      *)
(***************************************************************************)
PPInitCompletes ==
  (phase = "start" /\ initMode = "kmeanspp")
    => /\ kmsppStage = "ADDMEAN"
       /\ \A c \in Clusters : cnt[c] = 1 /\ \E r \in Rows : mean[c] = Pos[r]
       /\ Cardinality({mean[c] : c \in Clusters}) = K

-----------------------------------------------------------------------------
(***************************************************************************)
(* The refinement mapping to Lloyd.  The init engine runs are the seeding: *)
(* the M-step at the end of the random init run is a seeding by partition, *)
(* the start of the E-step engine run after forgy, kmeans++ or caller      *)
(* centers a seeding by means.  An E-step iteration is an assignment step  *)
(* until its barrier is crossed, with the rows still pending as the rows   *)
(* still to assign; the crosser's M-step is the update step.  An iteration *)
(* that starts once the run has converged or reached g_max_iters, whose    *)
(* rows return at once, lies between iterations: its M-step, if any,       *)
(* merges empty programs into unfinalized means and leaves them as they    *)
(* were, as do the tail update_clusters of random init and the second      *)
(* M-step of a barrier race.                                               *)
(***************************************************************************)
LloydPhase ==
  CASE phase \in {"forgy", "ppinit"} -> "seed"
    [] phase = "initrun"  -> IF crossers = {} THEN "seed" ELSE "between"
    [] phase = "inittail" -> "between"
    [] phase = "start"    -> IF initMode = "random" THEN "between" ELSE "seed"
    [] phase = "estep"    -> IF crossers = {} /\ RowActive THEN "assign" ELSE "between"
    [] phase = "done"     -> "done"

Seeded == LloydPhase # "seed"

LloydSpec == INSTANCE Lloyd WITH
  lmean  <- IF Seeded THEN mean ELSE [c \in Clusters |-> 0],
  lasg   <- IF Seeded THEN asg ELSE [r \in Rows |-> InvalidClust],
  todo   <- IF LloydPhase = "assign" THEN pending ELSE {},
  lphase <- LloydPhase

(***************************************************************************)
(* compute_min_triangle_sem_kmeans implements Lloyd's algorithm: every row *)
(* callback of an E-step iteration leaves its row at a nearest centroid,   *)
(* whichever of lemma 1, tests 3a/3c or the full scan decided it; every    *)
(* barrier-crossing M-step, merging the workers' swap_membership deltas    *)
(* into the unfinalized means, leaves each non-empty cluster at the mean   *)
(* of its members and an empty one where it was; and every row of an       *)
(* iteration has run before its M-step.                                    *)
(***************************************************************************)
LloydRefinement == LloydSpec!LSpec

=============================================================================
