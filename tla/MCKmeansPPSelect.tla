-------------------------- MODULE MCKmeansPPSelect --------------------------
(***************************************************************************)
(* kmeanspp_get_next_cluster_id over every vector of g_kmspp_distance of   *)
(* four rows with distances in DistVals, and every draw u / UDen of        *)
(* ur_distribution, against the D^2-weighted sampling of spec 4.6.  The    *)
(* state is the input; the behaviour stutters.                             *)
(***************************************************************************)
EXTENDS KmeansGeometry

CONSTANTS RandMax, UDen, UDraws, DistVals

ASSUME RandMax > 1 /\ UDraws \subseteq 1 .. UDen - 1

SelRows == 0 .. 3

VARIABLES d, u

vars == <<d, u>>

Init ==
  /\ d \in [SelRows -> DistVals]
  /\ u \in UDraws

Spec == Init /\ [][UNCHANGED vars]_vars

\* cuml_sum: the reduction of the per-partition sums, all rows counted once.
Cuml == MapThenSumSet(LAMBDA i : d[i], SelRows)

Pick == KmeansPPSelect(d, Cuml, u, UDen, RandMax)

(***************************************************************************)
(* The code samples as spec 4.6 states: T = S * u, then the first row at   *)
(* which T minus the running sum is <= 0.  The code divides S * u by       *)
(* RAND_MAX - 1 although ur_distribution already draws from [0, 1).        *)
(***************************************************************************)
SelectionFollowsSpec == Cuml > 0 => Pick = SpecPPSelect(d, u, UDen)

=============================================================================
