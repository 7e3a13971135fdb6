---------------------------- MODULE IndexSearch ----------------------------
(***************************************************************************)
(* The index as its searches find it: the route (Partition::order) and the *)
(* bounds (Partition::upper) of every query, between any two operations.   *)
(* WorkspaceSearch takes both for granted.                                 *)
(*                                                                         *)
(* Queries are unit vectors along the arc of the rows and centroids.       *)
(* Rounding is left out, and with it outward(), which makes up for it.     *)
(***************************************************************************)
EXTENDS EpochIndex, Ranking

CONSTANTS
  QueryAngles,  \* the directions of the queries
  Cos           \* the cosine of a distance on the arc, as a falling sequence from 0

ASSUME CosAssumption ==
  /\ QueryAngles \subseteq Nat /\ DOMAIN Cos \subseteq Nat
  /\ \A at \in QueryAngles, a \in Angles \cup {row.angle : row \in Rows} :
       0..Dist(at, a) \subseteq DOMAIN Cos
  /\ \A d \in DOMAIN Cos : Cos[d] \in Nat
  /\ \A d, e \in DOMAIN Cos : d <= e => Cos[e] <= Cos[d]

Score(at, row) == row.length * Cos[Dist(at, row.angle)]

\* the largest inner product with the centroid first, then the first cluster
Earlier(at, c, d) ==
  LET rho == [e \in {c, d} |-> Cos[Dist(at, clusters[e].mu)]]
  IN rho[c] > rho[d] \/ (rho[c] = rho[d] /\ c < d)

\* the clusters sorted by it
Order(at) == CHOOSE o \in [DOMAIN clusters -> DOMAIN clusters] :
               \A s, u \in DOMAIN o : s < u => Earlier(at, o[s], o[u])

\* norm bound times the cosine of what the cover leaves of the angle
Upper(at, c) ==
  LET theta == Dist(at, clusters[c].mu)
  IN clusters[c].norm * Cos[Larger(0, theta - clusters[c].cover)]

\* the part of the index that a search for this query reads; records from 0
CallAt(at) ==
  [n      |-> Size,
   active |-> {i - 1 : i \in Active},
   delta  |-> {i - 1 : i \in delta_ids},
   score  |-> [i \in 0..Size-1 |-> Score(at, Row(i + 1))],
   route  |-> [s \in DOMAIN Order(at) |->
                 [members |-> {i - 1 : i \in clusters[Order(at)[s]].ids},
                  bound   |-> Upper(at, Order(at)[s])]]]

-----------------------------------------------------------------------------
\* Whatever was inserted, erased, updated or rebuilt, a search between two
\* operations finds what its early stop relies on: no active record scores above
\* the bound of a cluster it is in, and each is in the delta list or the route.
RoutesAreSound == Built => \A at \in QueryAngles : SoundRoute(CallAt(at))
=============================================================================
