----------------------------- MODULE IterBarrier -----------------------------
(***************************************************************************)
(* The iteration barrier of sem_kmeans.h (class barrier): an atomic        *)
(* counter `ncomplete` and a member count `nmembers`.  Every worker's      *)
(* run_on_iteration_end calls ping() once per engine iteration; the caller *)
(* that sees the count reach nmembers resets it and runs the M-step.       *)
(*                                                                         *)
(* ping() is three steps, because only the increment is atomic:            *)
(*   ncomplete++                     (atomic fetch_add)        -> "inc"    *)
(*   complete = nmembers == load()   (a separate atomic load)  -> "loaded" *)
(*   if (complete) store(0); return complete                   -> "out"    *)
(* The graph engine starts the next iteration only when every worker has   *)
(* returned from run_on_iteration_end (Reopen).                            *)
(***************************************************************************)
EXTENDS Naturals, FiniteSets

CONSTANT Workers

VARIABLES
  ncomplete,  \* barrier::ncomplete
  bpc,        \* where each worker is in its iteration end
  seen,       \* the `complete` local of each worker's ping()
  crossers    \* workers whose ping() returned true this iteration (history)

barrierVars == <<ncomplete, bpc, seen, crossers>>

\* barrier::create(g_nthread)
nmembers == Cardinality(Workers)

BInit ==
  /\ ncomplete = 0
  /\ bpc = [w \in Workers |-> "run"]
  /\ seen = [w \in Workers |-> FALSE]
  /\ crossers = {}

\* ncomplete++
PingInc(w) ==
  /\ bpc[w] = "run"
  /\ ncomplete' = ncomplete + 1
  /\ bpc' = [bpc EXCEPT ![w] = "inc"]
  /\ UNCHANGED <<seen, crossers>>

\* bool complete = nmembers == ncomplete.load();
PingLoad(w) ==
  /\ bpc[w] = "inc"
  /\ seen' = [seen EXCEPT ![w] = (nmembers = ncomplete)]
  /\ bpc' = [bpc EXCEPT ![w] = "loaded"]
  /\ UNCHANGED <<ncomplete, crossers>>

\* Faulty variant: the crosser does not store 0.
PingTrueNoReset(w) ==
  /\ bpc[w] = "loaded"
  /\ seen[w]
  /\ bpc' = [bpc EXCEPT ![w] = "out"]
  /\ crossers' = crossers \cup {w}
  /\ UNCHANGED <<ncomplete, seen>>

\* if (complete) ncomplete.store(0); return true
PingTrue(w) ==
  /\ bpc[w] = "loaded"
  /\ seen[w]
  /\ ncomplete' = 0
  /\ bpc' = [bpc EXCEPT ![w] = "out"]
  /\ crossers' = crossers \cup {w}
  /\ UNCHANGED seen

\* return false
PingFalse(w) ==
  /\ bpc[w] = "loaded"
  /\ ~seen[w]
  /\ bpc' = [bpc EXCEPT ![w] = "out"]
  /\ UNCHANGED <<ncomplete, seen, crossers>>

AllOut == \A w \in Workers : bpc[w] = "out"

\* The engine's next iteration: every worker runs again.
Reopen ==
  /\ AllOut
  /\ bpc' = [w \in Workers |-> "run"]
  /\ crossers' = {}
  /\ UNCHANGED <<ncomplete, seen>>

BNext ==
  \/ \E w \in Workers : PingInc(w) \/ PingLoad(w) \/ PingTrue(w) \/ PingFalse(w)
  \/ Reopen

BSpec == BInit /\ [][BNext]_barrierVars

-----------------------------------------------------------------------------
BTypeOK ==
  /\ ncomplete \in 0 .. nmembers
  /\ bpc \in [Workers -> {"run", "inc", "loaded", "out"}]
  /\ seen \in [Workers -> BOOLEAN]
  /\ crossers \subseteq Workers

(***************************************************************************)
(* No iteration loses its M-step: when every worker has left ping(), some *)
(* worker saw the count complete.  An off-by-one in the comparison, or a   *)
(* missing reset, breaks it only on a later iteration.                     *)
(***************************************************************************)
RoundHasCrosser == AllOut => crossers # {}

=============================================================================
