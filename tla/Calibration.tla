---------------------------- MODULE Calibration ----------------------------
(***************************************************************************)
(* How Index::rebuild chooses the granularity K, the numbers m of hash     *)
(* tables and the capacity B of the candidate pool (search/epoch_index.hpp *)
(* 23-40 and 87-160), once the sketches are built.                         *)
(*                                                                         *)
(* A calibration set is a sequence of targets: a query, a record that is   *)
(* among its exact hits, and the similarity of their two sketches in units *)
(* of 1/Unit.  The partition of a candidate K is any of Partitions, what a *)
(* table returns is any of its members, and a measured cost any of Costs.  *)
(***************************************************************************)
EXTENDS Ranking, Sequences, FiniteSetsExt

CONSTANTS
  Records,     \* the active records
  Sets,        \* calibration sets
  Partitions,  \* possible results of Partition::build
  Costs,       \* what candidate_cost may measure
  Unit,        \* similarities are j/Unit, j in 0..Unit
  DeltaNum, DeltaDen,  \* delta_h
  MaxTables,   \* UINT32_MAX, the most tables a cluster may have
  Scale,       \* proxies are in units of 1/Scale
  kmax

ASSUME CalibrationAssumption ==
  /\ Records \subseteq Nat /\ IsFiniteSet(Records)
  /\ \A s \in Sets :
       /\ s.queries \in Nat
       /\ s.targets \in Seq([query : 1..s.queries, id : Records, j : 0..Unit])
       /\ s.weight \in [Records -> Nat]
  /\ \A p \in Partitions :
       /\ p.K \in Nat \ {0}
       /\ p.primary \in [Records -> 1..p.K]
       /\ p.secondary \in [Records -> 0..p.K]
  /\ Costs \subseteq Nat /\ Costs # {} /\ IsFiniteSet(Costs)
  /\ Unit \in Nat /\ MaxTables \in Nat /\ Scale \in Nat
  /\ DeltaNum \in Nat \ {0} /\ DeltaDen \in Nat /\ DeltaNum < DeltaDen
  /\ kmax \in Nat \ {0}

VARIABLES
  set,        \* the supplied calibration
  preflight,
  phase,
  todo,       \* candidate values of K left
  partition,  \* the partition in work, each cluster with its floor and m
  at,         \* position in the loop of the phase
  log,        \* the candidates that were measured, with their partitions
  best,       \* what the loop over the candidates remembers of them
  capacity,
  order,      \* clusters of the route of the current query that are not visited yet
  all,        \* proxies of the current query, 0 for a record not met
  min_rank,   \* best rank of each record of the current query, 0 for none
  prefixes    \* history: <<query, all>> after each cluster

vars == <<set, preflight, phase, todo, partition, at, log, best, capacity, order, all, min_rank, prefixes>>

pool == <<capacity, order, all, min_rank, prefixes>>

Nothing == [id \in Records |-> 0]
NoCost == Max(Costs) + 1  \* INFINITY

Targets(z) == {t \in Range(set.targets) : t.query = z}
Positive == {t \in Range(set.targets) : t.j > 0}
global == IF Positive = {} THEN 0 ELSE Min({t.j : t \in Positive})
distinct == Cardinality({t.id : t \in Positive})

\* 1, the powers of two below the number of distinct positive targets, that number
Candidates == {1} \union {K \in 2..distinct : K = distinct \/ \E e \in 1..distinct : K = 2^e}

\* the clusters a record is a member of
ClustersOf(p, id) == {p.primary[id], p.secondary[id]} \ {0}
Members(p, c) == {id \in Records : c \in ClustersOf(p, id)}

Init ==
  /\ set \in Sets
  /\ preflight \in BOOLEAN
  /\ phase = "candidates"
  /\ todo = Candidates
  /\ partition = <<>>
  /\ at = 0
  /\ log = {}
  /\ best = [cost |-> NoCost, partition |-> <<>>]
  /\ capacity = kmax
  /\ order = {}
  /\ all = Nothing
  /\ min_rank = Nothing
  /\ prefixes = {}

-----------------------------------------------------------------------------
(***************************************************************************)
(* The loop over the candidates: partition, floors, tables, cost.          *)
(***************************************************************************)

NoFloor(c) == 0

Blank(p) == [K |-> p.K, primary |-> p.primary, secondary |-> p.secondary,
             floor |-> [c \in 1..p.K |-> NoFloor(c)], m |-> [c \in 1..p.K |-> 1]]

BuildPartition ==
  /\ phase = "candidates"
  /\ todo # {}
  /\ \E p \in Partitions : p.K = Min(todo) /\ partition' = Blank(p)
  /\ at' = 1
  /\ phase' = "floors"
  /\ UNCHANGED <<set, preflight, todo, log, best, pool>>

Lowered(f, j) == IF f # 0 THEN Min({f, j}) ELSE j

\* mutant: only the primary cluster answers for a record
PrimaryFloors(p, t) == [p.floor EXCEPT ![p.primary[t.id]] = Lowered(@, t.j)]

Floors(p, t) == [c \in 1..p.K |-> IF c \in ClustersOf(p, t.id) THEN Lowered(p.floor[c], t.j) ELSE p.floor[c]]

ConfigureFloor ==
  /\ phase = "floors"
  /\ at <= Len(set.targets)
  /\ LET t == set.targets[at] IN
       partition' = IF t.j = 0 THEN partition ELSE [partition EXCEPT !.floor = Floors(partition, t)]
  /\ at' = at + 1
  /\ UNCHANGED <<set, preflight, phase, todo, log, best, pool>>

\* the powers of a number, as a function that the proofs can unfold
power(base) == LET p[m \in 0..MaxTables] == IF m = 0 THEN 1 ELSE base * p[m - 1] IN p

\* whether m tables miss a target of similarity j with probability at most delta_h
Suffices(m, j) == DeltaDen * power(Unit - j)[m] <= DeltaNum * power(Unit)[m]

Representable(f) == f = 0 \/ \E m \in 1..MaxTables : Suffices(m, f)

HashCount(f) == IF f = 0 THEN 1 ELSE Min({m \in 1..MaxTables : Suffices(m, f)})

Configured(p) ==
  LET floor == [c \in 1..p.K |-> IF p.floor[c] = 0 THEN global ELSE p.floor[c]] IN
  [p EXCEPT !.floor = floor, !.m = [c \in 1..p.K |-> HashCount(floor[c])]]

ConfigureTables ==
  /\ phase = "floors"
  /\ at > Len(set.targets)
  /\ \A f \in Range(partition.floor) \union {global} : Representable(f)
  /\ partition' = Configured(partition)
  /\ phase' = "measure"
  /\ UNCHANGED <<set, preflight, todo, at, log, best, pool>>

\* Partition::build finds a cluster empty in the end
PartitionThrows == phase = "candidates" /\ todo # {}

\* "Unrepresentable hash count", once the floors are known
HashCountThrows ==
  /\ phase = "floors" /\ at > Len(set.targets)
  /\ \E f \in Range(partition.floor) : ~Representable(f)

\* the resource guard of build_tables, whatever the estimate
GuardThrows == phase = "measure" /\ ~preflight

\* rebuild catches nothing
GiveUp ==
  /\ PartitionThrows \/ HashCountThrows \/ GuardThrows
  /\ phase' = "failed"
  /\ UNCHANGED <<set, preflight, todo, partition, at, log, best, pool>>

Cheaper(cost) == cost < best.cost

MeasureCandidate ==
  /\ phase = "measure"
  /\ IF preflight
     THEN UNCHANGED <<log, best>>
     ELSE \E cost \in (IF Positive = {} THEN {Min(Costs)} ELSE Costs) :
            /\ log' = log \union {[cost |-> cost, partition |-> partition]}
            /\ best' = IF Cheaper(cost) THEN [cost |-> cost, partition |-> partition] ELSE best
  /\ todo' = todo \ {partition.K}
  /\ phase' = "candidates"
  /\ UNCHANGED <<set, preflight, partition, at, pool>>

\* a preflight stops after the candidates
PreflightDone ==
  /\ phase = "candidates"
  /\ todo = {}
  /\ preflight
  /\ phase' = "preflight done"
  /\ UNCHANGED <<set, preflight, todo, partition, at, log, best, pool>>

-----------------------------------------------------------------------------
(***************************************************************************)
(* The pool, calibrated with tables of the selected partition.             *)
(***************************************************************************)

Select ==
  /\ phase = "candidates"
  /\ todo = {}
  /\ ~preflight
  /\ partition' = best.partition
  /\ at' = 0
  /\ phase' = IF global = 0 THEN "done" ELSE "pool"
  /\ UNCHANGED <<set, preflight, todo, log, best, pool>>

\* the next calibration query: its route, nothing met
BeginQuery ==
  /\ phase = "pool"
  /\ order = {}
  /\ at < set.queries
  /\ at' = at + 1
  /\ order' = 1..partition.K
  /\ all' = Nothing
  /\ min_rank' = Nothing
  /\ UNCHANGED <<set, preflight, phase, todo, partition, log, best, capacity, prefixes>>

Positives(z) == {t.id : t \in {u \in Targets(z) : u.j > 0}}

Entries(proxies) == {<<proxies[id], id>> : id \in {i \in Records : proxies[i] > 0}}

\* mutant: ranks count from 0
ZeroRank(e, S) == Cardinality({f \in S : Better(f, e)})

\* 1 + p of the ranking
RankOf(e, S) == 1 + Cardinality({f \in S : Better(f, e)})

Met(c, counts) ==
  [id \in Records |->
     IF id \in Members(partition, c)
     THEN Max({all[id], ProxyOf(Scale, counts[id], partition.m[c], set.weight[id])})
     ELSE all[id]]

\* mutant: the rank after the last cluster
LastRanks(proxies) ==
  [id \in Records |-> IF proxies[id] = 0 THEN 0 ELSE RankOf(<<proxies[id], id>>, Entries(proxies))]

Ranks(proxies) ==
  [id \in Records |->
     IF proxies[id] = 0 \/ id \notin Positives(at) THEN min_rank[id]
     ELSE LET rank == RankOf(<<proxies[id], id>>, Entries(proxies)) IN
          IF min_rank[id] = 0 THEN rank ELSE Min({min_rank[id], rank})]

\* the next cluster of the route: any, and any collisions of its members
VisitCluster ==
  /\ phase = "pool"
  /\ \E c \in order, counts \in [Records -> 0..MaxTables] :
       /\ \A id \in Records : counts[id] <= IF id \in Members(partition, c) THEN partition.m[c] ELSE 0
       /\ all' = Met(c, counts)
       /\ order' = order \ {c}
  /\ min_rank' = Ranks(all')
  /\ prefixes' = prefixes \union {<<at, all'>>}
  /\ IF order' = {}
     THEN capacity' = Max({capacity} \union {min_rank'[id] : id \in Positives(at)})
     ELSE UNCHANGED capacity
  /\ UNCHANGED <<set, preflight, phase, todo, partition, at, log, best>>

CalibrationDone ==
  /\ phase = "pool"
  /\ order = {}
  /\ at = set.queries
  /\ phase' = "done"
  /\ UNCHANGED <<set, preflight, todo, partition, at, log, best, pool>>

Next ==
  \/ BuildPartition \/ ConfigureFloor \/ ConfigureTables \/ GiveUp \/ MeasureCandidate \/ PreflightDone
  \/ Select \/ BeginQuery \/ VisitCluster \/ CalibrationDone

Spec == Init /\ [][Next]_vars

-----------------------------------------------------------------------------
(***************************************************************************)
(* Properties.                                                             *)
(***************************************************************************)

HasTables == partition # <<>> /\ phase \notin {"floors", "failed"}

\* configure_floors and hash_count: in every cluster a calibration target is a member of, the
\* tables miss it with probability at most delta_h, however unlike the other targets there.
FloorsGuaranteeRecall ==
  HasTables => \A t \in Positive : \A c \in ClustersOf(partition, t.id) : Suffices(partition.m[c], t.j)

\* the pool of size B of a search that has met these proxies (QueryWorkspace's PoolIsTopB)
PoolOf(B, proxies) == {e[2] : e \in Best(B, Entries(proxies))}

\* whether pools of size B hold, after some cluster, each target that its query collided with
Admits(B) ==
  \A z \in 1..set.queries : \A id \in Positives(z) :
    (\E p \in prefixes : p[1] = z /\ p[2][id] > 0) =>
      \E p \in prefixes : p[1] = z /\ id \in PoolOf(B, p[2])

\* calibrate_pool: with the capacity it returns, a search that collides as the calibration did
\* admits, and so verifies, every positive target it meets.
PoolSuffices == phase = "done" => Admits(capacity)

\* ... and it is the least such capacity of at least kmax: ranks after a later cluster, when the
\* target was admitted before, do not count.
PoolIsLeast == phase = "done" /\ capacity > kmax => ~Admits(capacity - 1)
=============================================================================
