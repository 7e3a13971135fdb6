----------------------------- MODULE SearchCall -----------------------------
(***************************************************************************)
(* What one search reads, and the orders it ranks by: shared by the search *)
(* on the reusable workspace (QueryWorkspace, WorkspaceSearch) and by the  *)
(* reference search it must agree with (ReferenceSearch).                  *)
(*                                                                         *)
(* The index is read only during a search, so a call carries the part of   *)
(* it the search reads.                                                    *)
(*   n              records.size() of the collection                       *)
(*   active, delta  the records that are active, and Index::delta_ids      *)
(*   weight         query_size + cardinal[i], the sizes of the two sketches*)
(*   score          exact inner product of each record with the query      *)
(*   route          partition.order(q), each cluster with its members, its *)
(*                  number of tables m, its bound partition.upper(q, c)    *)
(*   B              capacity of the index's candidate pool                 *)
(*   k, stopping    parameters of the search                               *)
(*   empty          whether the query's sketch is empty                    *)
(***************************************************************************)
EXTENDS Ranking, Sequences

CONSTANTS
  Calls,      \* the search calls
  MaxTables,  \* bound on the number m of hash tables of a cluster
  Scale       \* proxies are integers, in units of 1/Scale

\* the pool is calibrated to hold at least kmax >= k records
ASSUME CallsAssumption ==
  \A c \in Calls :
    /\ c.n \in Nat /\ c.B \in Nat /\ c.k \in 1..c.B
    /\ c.active \subseteq 0..c.n-1 /\ c.delta \subseteq 0..c.n-1
    /\ c.weight \in [0..c.n-1 -> Nat]
    /\ c.score \in [0..c.n-1 -> Int]
    /\ c.empty \in BOOLEAN /\ c.stopping \in BOOLEAN
    /\ c.route \in Seq([members : SUBSET (0..c.n-1), bound : Int, m : 1..MaxTables])

\* what Partition and Index::insert see to: IndexSearch checks it of the index
ASSUME RouteAssumption == \A c \in Calls : SoundRoute(c)

ASSUME BoundsAssumption == MaxTables \in Nat \ {0} /\ Scale \in Nat \ {0}

Proxy(count, m, weight) == ProxyOf(Scale, count, m, weight)

Scored(c, i) == <<c.score[i], i>>
Hits(c, S)   == {Scored(c, i) : i \in S}

\* exact(): the k best active records
ExactHits(c) == Best(c.k, Hits(c, c.active))
=============================================================================
