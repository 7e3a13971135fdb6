------------------------- MODULE Rebuild_proofs -------------------------
(***************************************************************************)
(* The steps of Index::rebuild: the capacity that calibrate_pool returns   *)
(* and the numbers of tables, for every data set, every calibration set,   *)
(* every result of the partition and of the measurements, and whatever the *)
(* tables return; the slots of the dimensions, for every document          *)
(* frequencies; and a table, for all members, sketches and rankings.       *)
(***************************************************************************)
EXTENDS Calibration, Allocation, HashTable, Ranking_proofs, SequenceTheorems

-----------------------------------------------------------------------------
(***************************************************************************)
(* Lemmas on the operators.                                                *)
(***************************************************************************)

\* A set of integers that is finite and not empty has a maximum.
LEMMA MaxIs ==
  ASSUME NEW S \in SUBSET Int, IsFiniteSet(S), S # {}
  PROVE  Max(S) \in S /\ \A y \in S : Max(S) >= y
<1> DEFINE HasMax(T) == \E x \in T : \A y \in T : x >= y
           Bad == {T \in SUBSET S : T # {} /\ ~HasMax(T)}
<1>1. HasMax(S)
  <2>1. SUFFICES ASSUME S \in Bad PROVE FALSE
    OBVIOUS
  <2>2. PICK T \in Bad : IsFiniteSet(T) /\ \A e \in T : T \ {e} \notin Bad
    <3> HIDE DEF Bad
    <3> QED
      BY <2>1, LeastBadSet
  <2>3. T \in SUBSET Int /\ T \in SUBSET S /\ T # {} /\ ~HasMax(T)
    OBVIOUS
  <2>4. PICK e \in T : TRUE
    BY <2>3
  <2>5. T \ {e} = {} \/ HasMax(T \ {e})
    BY <2>2, <2>3
  <2>6. CASE T \ {e} = {}
    BY <2>3, <2>6
  <2>7. CASE HasMax(T \ {e})
    <3>1. PICK x \in T \ {e} : \A y \in T \ {e} : x >= y
      BY <2>7
    <3>2. e \in Int /\ x \in Int
      BY <2>3
    <3>3. (\A y \in T : x >= y) \/ (\A y \in T : e >= y)
      BY <2>3, <3>1, <3>2
    <3> QED
      BY <2>3, <3>1, <3>3
  <2> QED
    BY <2>5, <2>6, <2>7
<1> QED
  BY <1>1 DEF Max

\* A set of naturals that is not empty has a minimum.
LEMMA MinIs ==
  ASSUME NEW S \in SUBSET Nat, S # {}
  PROVE  Min(S) \in S /\ \A y \in S : Min(S) <= y
<1>1. \E x \in S : \A y \in S : x <= y
  BY LeastExists
<1> QED
  BY <1>1 DEF Min

\* A function takes finitely many values on a finite set.
LEMMA ImageFinite ==
  ASSUME NEW S, IsFiniteSet(S), NEW f
  PROVE  IsFiniteSet({f[x] : x \in S})
<1> DEFINE T == {f[x] : x \in S}
           g == [x \in S |-> f[x]]
<1>1. g \in Surjection(S, T)
  BY DEF Surjection
<1> HIDE DEF T, g
<1>2. IsFiniteSet(T)
  BY <1>1, FS_Surjection
<1> QED
  BY <1>2 DEF T

\* The larger of two.
LEMMA MaxOfTwo ==
  ASSUME NEW a \in Nat, NEW b \in Nat
  PROVE  Max({a, b}) \in Nat /\ Max({a, b}) >= a /\ Max({a, b}) >= b
<1>1. IsFiniteSet({a, b})
  <2>1. IsFiniteSet({a} \cup {b})
    BY FS_Singleton, FS_AddElement
  <2>2. {a, b} = {a} \cup {b}
    OBVIOUS
  <2> QED
    BY <2>1, <2>2
<1>2. {a, b} \in SUBSET Int
  OBVIOUS
<1> QED
  BY <1>1, <1>2, MaxIs

\* The smaller of two.
LEMMA MinOfTwo ==
  ASSUME NEW a \in Nat, NEW b \in Nat
  PROVE  /\ Min({a, b}) \in {a, b} /\ Min({a, b}) <= a /\ Min({a, b}) <= b
BY MinIs

\* Division by a positive number.
LEMMA ProxyTyped ==
  ASSUME NEW count \in Nat, NEW tables \in Nat \ {0}, NEW weight \in Nat
  PROVE  ProxyOf(Scale, count, tables, weight) \in Nat
<1>1. Scale * count * weight \in Nat
  BY CalibrationAssumption
<1>2. tables + count \in Nat \ {0}
  OBVIOUS
<1> DEFINE a == Scale * count * weight
           b == tables + count
<1>3. a \div b \in Nat
  <2> HIDE DEF a, b
  <2> QED
    BY <1>1, <1>2 DEF a, b
<1> QED
  BY <1>3 DEF ProxyOf

-----------------------------------------------------------------------------
(***************************************************************************)
(* The calibration set and the ranks.                                      *)
(***************************************************************************)

\* An element of a sequence.
LEMMA ElementTyped ==
  ASSUME NEW T, NEW s \in Seq(T)
  PROVE  \A i \in DOMAIN s : s[i] \in T
OBVIOUS

\* What the assumptions say of one calibration set.
LEMMA SetTypes ==
  ASSUME set \in Sets
  PROVE  /\ set.queries \in Nat
         /\ Range(set.targets) \subseteq [query : 1..set.queries, id : Records, j : 0..Unit]
         /\ set.weight \in [Records -> Nat]
<1>1. /\ set.queries \in Nat
      /\ set.targets \in Seq([query : 1..set.queries, id : Records, j : 0..Unit])
      /\ set.weight \in [Records -> Nat]
  BY CalibrationAssumption
<1> DEFINE T == [query : 1..set.queries, id : Records, j : 0..Unit]
<1>2. \A i \in DOMAIN set.targets : set.targets[i] \in T
  <2>1. set.targets \in Seq(T)
    BY <1>1
  <2> HIDE DEF T
  <2> QED
    BY <2>1, ElementTyped
<1>3. Range(set.targets) \subseteq T
  <2> HIDE DEF T
  <2> QED
    BY <1>2 DEF Range
<1> QED
  BY <1>1, <1>3

\* The positive targets of a query are finitely many records.
LEMMA PositivesTyped ==
  ASSUME set \in Sets, NEW z
  PROVE  Positives(z) \subseteq Records /\ IsFiniteSet(Positives(z))
<1>1. Positives(z) \subseteq Records
  BY SetTypes DEF Positives, Targets
<1> QED
  BY <1>1, CalibrationAssumption, FS_Subset

\* With no positive target there is none of any query.
LEMMA NoPositives ==
  ASSUME set \in Sets, global = 0, NEW z
  PROVE  Positives(z) = {}
<1>1. Range(set.targets) \subseteq [query : 1..set.queries, id : Records, j : 0..Unit]
  BY SetTypes
<1>2. Positive = {}
  <2> SUFFICES ASSUME Positive # {} PROVE FALSE
    OBVIOUS
  <2> DEFINE S == {t.j : t \in Positive}
  <2>1. S \in SUBSET Nat /\ S # {} /\ 0 \notin S
    <3>1. \A t \in Positive : t.j \in Nat /\ t.j > 0
      <4>1. \A t \in Positive : t \in [query : 1..set.queries, id : Records, j : 0..Unit] /\ t.j > 0
        BY <1>1 DEF Positive
      <4> QED
        BY <4>1, CalibrationAssumption
    <3> QED
      BY <3>1
  <2>2. Min(S) \in S
    <3> HIDE DEF S
    <3> QED
      BY <2>1, MinIs
  <2>3. global = Min(S)
    BY DEF global
  <2> HIDE DEF S
  <2> QED
    BY <2>1, <2>2, <2>3
<1> QED
  BY <1>2 DEF Positives, Targets, Positive

\* The entries of a query's proxies are finitely many.
LEMMA EntriesFinite ==
  ASSUME NEW proxies
  PROVE  IsFiniteSet(Entries(proxies))
<1> DEFINE S == {i \in Records : proxies[i] > 0}
           f == [i \in S |-> <<proxies[i], i>>]
<1>1. IsFiniteSet(S)
  BY CalibrationAssumption, FS_Subset
<1>2. Entries(proxies) = {f[id] : id \in S}
  BY DEF Entries
<1> HIDE DEF S, f
<1> QED
  BY <1>1, <1>2, ImageFinite

\* The rank of a record among the proxies met.
Rank(proxies, id) == RankOf(<<proxies[id], id>>, Entries(proxies))

\* A rank counts from one.
LEMMA RankTyped ==
  ASSUME NEW proxies, NEW id
  PROVE  Rank(proxies, id) \in Nat \ {0}
<1> DEFINE S == {f \in Entries(proxies) : Better(f, <<proxies[id], id>>)}
<1>1. IsFiniteSet(S)
  BY EntriesFinite, FS_Subset
<1>2. Cardinality(S) \in Nat
  BY <1>1, FS_CardinalityType
<1>3. Rank(proxies, id) = 1 + Cardinality(S)
  BY DEF Rank, RankOf
<1> HIDE DEF S
<1> QED
  BY <1>2, <1>3

\* A pool of size B holds the records whose rank is at most B.
LEMMA PoolHoldsRanks ==
  ASSUME NEW proxies \in [Records -> Nat], NEW id \in Records, NEW B \in Int
  PROVE  id \in PoolOf(B, proxies) <=> proxies[id] > 0 /\ Rank(proxies, id) <= B
<1> DEFINE Ahead(e) == {f \in Entries(proxies) : Better(f, e)}
           e == <<proxies[id], id>>
<1>1. Cardinality(Ahead(e)) \in Nat
  <2>1. IsFiniteSet(Ahead(e))
    BY EntriesFinite, FS_Subset
  <2> HIDE DEF Ahead
  <2> QED
    BY <2>1, FS_CardinalityType
<1>2. Rank(proxies, id) = 1 + Cardinality(Ahead(e))
  BY DEF Rank, RankOf
<1>3. Best(B, Entries(proxies)) = {f \in Entries(proxies) : Cardinality(Ahead(f)) < B}
  BY DEF Best
<1>4. e \in Entries(proxies) <=> proxies[id] > 0
  BY DEF Entries
<1>5. \A f \in Entries(proxies) : f[2] = id => f = e
  BY DEF Entries
<1>6. e[2] = id
  OBVIOUS
<1>7. id \in PoolOf(B, proxies) <=> e \in Best(B, Entries(proxies))
  <2>1. id \in PoolOf(B, proxies) <=> \E f \in Best(B, Entries(proxies)) : f[2] = id
    BY DEF PoolOf
  <2>2. Best(B, Entries(proxies)) \subseteq Entries(proxies)
    BY <1>3
  <2> HIDE DEF e
  <2> QED
    BY <1>5, <1>6, <2>1, <2>2
<1> HIDE DEF Ahead, e
<1> QED
  BY <1>1, <1>2, <1>3, <1>4, <1>7

-----------------------------------------------------------------------------
(***************************************************************************)
(* The partition whose tables are measured and searched: it has clusters,  *)
(* and each of them tables.                                                *)
(***************************************************************************)
Shaped(p) ==
  /\ p = [K |-> p.K, primary |-> p.primary, secondary |-> p.secondary, floor |-> p.floor, m |-> p.m]
  /\ p.K \in Nat \ {0}
  /\ DOMAIN p.floor = 1..p.K
  /\ p.m \in [1..p.K -> Nat \ {0}]

\* A candidate whose cost was measured is remembered as soon as there is one.
Selected ==
  /\ set \in Sets
  /\ phase \in {"floors", "measure"} => Shaped(partition)
  /\ best.partition = <<>> => best.cost = NoCost
  /\ best.partition # <<>> => Shaped(best.partition)
  /\ ~preflight /\ todo = {} => best.partition # <<>>
  /\ phase = "pool" => Shaped(partition)

\* NoCost is above every cost.
LEMMA CostsBelow ==
  ASSUME NEW cost \in Costs
  PROVE  cost \in Nat /\ NoCost \in Nat /\ cost < NoCost
<1>1. Max(Costs) \in Costs /\ \A y \in Costs : Max(Costs) >= y
  <2>1. Costs \in SUBSET Int
    BY CalibrationAssumption
  <2> QED
    BY <2>1, CalibrationAssumption, MaxIs
<1>2. cost \in Nat /\ Max(Costs) \in Nat
  BY <1>1, CalibrationAssumption
<1>3. NoCost = Max(Costs) + 1
  BY DEF NoCost
<1> QED
  BY <1>1, <1>2, <1>3

\* There is always a number of tables to be had for a floor that passed the check.
LEMMA HashCountTyped ==
  ASSUME NEW f, Representable(f)
  PROVE  HashCount(f) \in Nat \ {0}
<1>1. CASE f = 0
  BY <1>1 DEF HashCount
<1>2. CASE f # 0
  <2> DEFINE S == {m \in 1..MaxTables : Suffices(m, f)}
  <2>1. S \in SUBSET Nat /\ S # {} /\ 0 \notin S
    BY <1>2, CalibrationAssumption DEF Representable
  <2>2. HashCount(f) = Min(S)
    BY <1>2 DEF HashCount
  <2> HIDE DEF S
  <2> QED
    BY <2>1, <2>2, MinIs
<1> QED
  BY <1>1, <1>2

\* A new partition has no floors and a table for every cluster.
LEMMA BlankShaped ==
  ASSUME NEW p \in Partitions
  PROVE  Shaped(Blank(p))
BY CalibrationAssumption DEF Blank, Shaped

\* Lowering floors keeps the shape.
LEMMA FloorsShaped ==
  ASSUME NEW p, Shaped(p), NEW t
  PROVE  Shaped([p EXCEPT !.floor = Floors(p, t)])
<1> DEFINE new == Floors(p, t)
<1>1. DOMAIN new = 1..p.K
  BY DEF Floors
<1> HIDE DEF new
<1>2. [p EXCEPT !.floor = new]
        = [K |-> p.K, primary |-> p.primary, secondary |-> p.secondary, floor |-> new, m |-> p.m]
  BY DEF Shaped
<1>3. Shaped([p EXCEPT !.floor = new])
  BY <1>1, <1>2 DEF Shaped
<1> QED
  BY <1>3 DEF new

\* So does choosing the numbers of tables.
LEMMA ConfiguredShaped ==
  ASSUME NEW p, Shaped(p), \A f \in Range(p.floor) \union {global} : Representable(f)
  PROVE  Shaped(Configured(p))
<1> DEFINE floor == [c \in 1..p.K |-> IF p.floor[c] = 0 THEN global ELSE p.floor[c]]
           tables == [c \in 1..p.K |-> HashCount(floor[c])]
<1>1. \A c \in 1..p.K : Representable(floor[c])
  BY DEF Shaped, Range
<1>2. DOMAIN floor = 1..p.K
  OBVIOUS
<1>3. Configured(p) = [p EXCEPT !.floor = floor, !.m = tables]
  BY DEF Configured
<1> HIDE DEF floor
<1>4. tables \in [1..p.K -> Nat \ {0}]
  BY <1>1, HashCountTyped
<1> HIDE DEF tables
<1>5. Configured(p) = [K |-> p.K, primary |-> p.primary, secondary |-> p.secondary,
                       floor |-> floor, m |-> tables]
  BY <1>3 DEF Shaped
<1> QED
  BY <1>2, <1>4, <1>5 DEF Shaped

\* Nothing is selected at first.
LEMMA SelectedInit == Init => Selected
<1> SUFFICES ASSUME Init PROVE Selected
  OBVIOUS
<1>1. 1 \in todo
  BY DEF Init, Candidates
<1> QED
  BY <1>1 DEF Init, Selected

\* Every step keeps the selection.
LEMMA SelectedStep == Selected /\ [Next]_vars => Selected'
<1> SUFFICES ASSUME Selected, [Next]_vars PROVE Selected'
  OBVIOUS
<1>1. CASE BuildPartition
  <2>1. PICK p \in Partitions : partition' = Blank(p)
    BY <1>1 DEF BuildPartition
  <2>2. Shaped(partition')
    BY <2>1, BlankShaped
  <2> QED
    BY <1>1, <2>2 DEF BuildPartition, Selected
<1>2. CASE ConfigureFloor
  <2>1. Shaped(partition')
    BY <1>2, FloorsShaped DEF ConfigureFloor, Selected
  <2> QED
    BY <1>2, <2>1 DEF ConfigureFloor, Selected
<1>3. CASE ConfigureTables
  <2>1. Shaped(partition')
    BY <1>3, ConfiguredShaped DEF ConfigureTables, Selected
  <2> QED
    BY <1>3, <2>1 DEF ConfigureTables, Selected
<1>4. CASE GiveUp
  BY <1>4 DEF GiveUp, Selected
<1>5. CASE MeasureCandidate
  <2>1. Shaped(partition) /\ partition # <<>>
    <3>1. Shaped(partition)
      BY <1>5 DEF MeasureCandidate, Selected
    <3>2. ~Shaped(<<>>)
      BY DEF Shaped
    <3> QED
      BY <3>1, <3>2
  <2>2. CASE preflight
    BY <1>5, <2>2 DEF MeasureCandidate, Selected
  <2>3. CASE ~preflight
    <3>1. PICK cost \in Costs :
            best' = IF Cheaper(cost) THEN [cost |-> cost, partition |-> partition] ELSE best
      <4>1. Min(Costs) \in Costs
        BY CalibrationAssumption, MinIs
      <4> QED
        BY <1>5, <2>3, <4>1 DEF MeasureCandidate
    <3>2. best.partition = <<>> => Cheaper(cost)
      BY CostsBelow DEF Selected, Cheaper
    <3>3. best'.partition # <<>> /\ Shaped(best'.partition)
      BY <2>1, <3>1, <3>2 DEF Selected
    <3> QED
      BY <1>5, <3>3 DEF MeasureCandidate, Selected
  <2> QED
    BY <2>2, <2>3
<1>6. CASE PreflightDone
  BY <1>6 DEF PreflightDone, Selected
<1>7. CASE Select
  BY <1>7 DEF Select, Selected
<1>8. CASE BeginQuery
  BY <1>8 DEF BeginQuery, Selected
<1>9. CASE VisitCluster
  BY <1>9 DEF VisitCluster, Selected
<1>10. CASE CalibrationDone
  BY <1>10 DEF CalibrationDone, Selected
<1>11. CASE UNCHANGED vars
  BY <1>11 DEF vars, pool, Selected
<1> QED
  BY <1>1, <1>2, <1>3, <1>4, <1>5, <1>6, <1>7, <1>8, <1>9, <1>10, <1>11 DEF Next

-----------------------------------------------------------------------------
(***************************************************************************)
(* The pool.  A query of the calibration is closed once its last cluster   *)
(* was visited.  The capacity is the largest of the best ranks of the      *)
(* targets of closed queries, or kmax; it is large enough for them, and    *)
(* if it is above kmax then for one of them nothing less would be.         *)
(***************************************************************************)
Closed(z) == z < at \/ (z = at /\ order = {})

\* The prefixes of a query with which a target was met.
Meets(z, id) == {p \in prefixes : p[1] = z /\ p[2][id] > 0}

LargeEnough ==
  \A z \in 1..set.queries : \A id \in Positives(z) :
    Closed(z) /\ Meets(z, id) # {} => \E p \in Meets(z, id) : Rank(p[2], id) <= capacity

NoLarger ==
  capacity = kmax
  \/ \E z \in 1..set.queries : \E id \in Positives(z) :
       /\ Closed(z) /\ Meets(z, id) # {}
       /\ \A p \in Meets(z, id) : Rank(p[2], id) >= capacity

\* The ranks of the current query's targets.
BestRanks ==
  \A id \in Positives(at) :
    /\ Meets(at, id) = {} => min_rank[id] = 0
    /\ Meets(at, id) # {} =>
         /\ min_rank[id] # 0
         /\ \E p \in Meets(at, id) : Rank(p[2], id) = min_rank[id]
         /\ \A p \in Meets(at, id) : Rank(p[2], id) >= min_rank[id]

PoolTypes ==
  /\ at \in Nat /\ capacity \in Nat /\ capacity >= kmax
  /\ all \in [Records -> Nat] /\ min_rank \in [Records -> Nat]
  /\ \A p \in prefixes : p[1] \in 1..at /\ p[2] \in [Records -> Nat]
  /\ order \subseteq 1..partition.K /\ (at = 0 => order = {})

Measured ==
  /\ phase = "pool" =>
       PoolTypes /\ at <= set.queries /\ LargeEnough /\ NoLarger /\ BestRanks
  /\ phase \in {"candidates", "floors", "measure"} =>
       /\ capacity = kmax /\ order = {} /\ prefixes = {}
       /\ all = Nothing /\ min_rank = Nothing
  /\ phase = "done" =>
       \/ PoolTypes /\ at = set.queries /\ order = {} /\ LargeEnough /\ NoLarger
       \/ global = 0 /\ capacity = kmax

CalibrationInv == Selected /\ Measured

\* Within a visit: the proxies the records have after it.
LEMMA MetTyped ==
  ASSUME set \in Sets, Shaped(partition), all \in [Records -> Nat],
         NEW c \in 1..partition.K, NEW counts \in [Records -> 0..MaxTables]
  PROVE  Met(c, counts) \in [Records -> Nat]
<1> SUFFICES ASSUME NEW id \in Records
             PROVE  Max({all[id], ProxyOf(Scale, counts[id], partition.m[c], set.weight[id])}) \in Nat
  BY DEF Met
<1>1. counts[id] \in Nat /\ all[id] \in Nat
  BY CalibrationAssumption
<1>2. partition.m[c] \in Nat \ {0} /\ set.weight[id] \in Nat
  BY SetTypes DEF Shaped
<1>3. ProxyOf(Scale, counts[id], partition.m[c], set.weight[id]) \in Nat
  BY <1>1, <1>2, ProxyTyped
<1> QED
  BY <1>1, <1>3, MaxOfTwo

\* The ranks are still the best after another cluster.
LEMMA RanksAreBest ==
  ASSUME set \in Sets, PoolTypes, BestRanks, 0 < at,
         NEW proxies \in [Records -> Nat],
         prefixes' = prefixes \union {<<at, proxies>>}, at' = at, set' = set,
         min_rank' = Ranks(proxies)
  PROVE  BestRanks' /\ min_rank' \in [Records -> Nat]
<1>1. /\ min_rank \in [Records -> Nat]
      /\ \A p \in prefixes : p[1] \in 1..at /\ p[2] \in [Records -> Nat]
  BY DEF PoolTypes
<1>2. Positives(at)' = Positives(at) /\ Positives(at) \subseteq Records
  BY PositivesTyped DEF Positives, Targets
<1>3. ASSUME NEW id \in Records, proxies[id] = 0 \/ id \notin Positives(at)
      PROVE  min_rank'[id] = min_rank[id]
  BY <1>3 DEF Ranks
<1>4. ASSUME NEW id \in Positives(at), proxies[id] # 0
      PROVE  /\ Rank(proxies, id) \in Nat \ {0}
             /\ min_rank'[id] = IF min_rank[id] = 0 THEN Rank(proxies, id)
                                ELSE Min({min_rank[id], Rank(proxies, id)})
             /\ min_rank'[id] \in Nat
  <2>1. Rank(proxies, id) \in Nat \ {0}
    BY RankTyped
  <2>2. id \in Records /\ min_rank[id] \in Nat
    BY <1>1, <1>2, <1>4
  <2>3. min_rank'[id] = IF min_rank[id] = 0 THEN Rank(proxies, id)
                        ELSE Min({min_rank[id], Rank(proxies, id)})
    BY <1>4, <2>2 DEF Ranks, Rank
  <2>4. Min({min_rank[id], Rank(proxies, id)}) \in Nat
    BY <2>1, <2>2, MinOfTwo
  <2> QED
    BY <2>1, <2>3, <2>4
<1>5. min_rank' \in [Records -> Nat]
  <2>1. \A id \in Records : min_rank'[id] \in Nat
    BY <1>1, <1>3, <1>4
  <2>2. min_rank' = [id \in Records |-> min_rank'[id]]
    BY DEF Ranks
  <2> QED
    BY <2>1, <2>2
<1>6. ASSUME NEW id \in Positives(at)
      PROVE  /\ Meets(at, id)' = {} => min_rank'[id] = 0
             /\ Meets(at, id)' # {} =>
                  /\ min_rank'[id] # 0
                  /\ \E p \in Meets(at, id)' : Rank(p[2], id) = min_rank'[id]
                  /\ \A p \in Meets(at, id)' : Rank(p[2], id) >= min_rank'[id]
  <2> DEFINE new == <<at, proxies>>
             M == Meets(at, id)
             N == Meets(at, id)'
  <2>1. id \in Records /\ proxies[id] \in Nat /\ min_rank[id] \in Nat
    BY <1>1, <1>2
  <2>2. /\ M = {} => min_rank[id] = 0
        /\ M # {} => /\ min_rank[id] # 0
                     /\ \E p \in M : Rank(p[2], id) = min_rank[id]
                     /\ \A p \in M : Rank(p[2], id) >= min_rank[id]
    BY DEF BestRanks
  <2>3. N = IF proxies[id] > 0 THEN M \union {new} ELSE M
    BY DEF Meets
  <2>4. \A p : Rank(p[2], id) \in Nat
    BY RankTyped
  <2>5. CASE proxies[id] = 0
    <3>1. N = M /\ min_rank'[id] = min_rank[id]
      BY <1>3, <2>1, <2>3, <2>5
    <3> HIDE DEF M, N
    <3>2. \A p : Rank(p[2], id)' = Rank(p[2], id)
      OBVIOUS
    <3> QED
      BY <2>2, <3>1 DEF N
  <2>6. CASE proxies[id] # 0
    <3>1. N = M \union {new} /\ new[2] = proxies
      BY <2>1, <2>3, <2>6
    <3>2. /\ Rank(proxies, id) \in Nat \ {0}
          /\ min_rank'[id] = IF min_rank[id] = 0 THEN Rank(proxies, id)
                             ELSE Min({min_rank[id], Rank(proxies, id)})
      BY <1>4, <2>6
    <3>3. CASE M = {}
      <4>1. min_rank'[id] = Rank(new[2], id) /\ N = {new}
        BY <2>2, <3>1, <3>2, <3>3
      <4> HIDE DEF M, N, new
      <4>2. min_rank'[id] \in Nat \ {0}
        BY <3>1, <3>2, <4>1
      <4>3. \A p \in N : Rank(p[2], id) = min_rank'[id]
        BY <4>1
      <4>4. (\A p \in N : Rank(p[2], id) >= min_rank'[id]) /\ min_rank'[id] # 0
        BY <4>2, <4>3
      <4>5. N # {} /\ \E p \in N : Rank(p[2], id) = min_rank'[id]
        BY <4>1, <4>3
      <4> QED
        BY <4>4, <4>5 DEF N
    <3>4. CASE M # {}
      <4>1. PICK q \in M : Rank(q[2], id) = min_rank[id]
        BY <2>2, <3>4
      <4>2. /\ min_rank'[id] \in {min_rank[id], Rank(proxies, id)}
            /\ min_rank'[id] <= min_rank[id] /\ min_rank'[id] <= Rank(proxies, id)
            /\ min_rank[id] # 0
        BY <2>1, <2>2, <3>2, <3>4, MinOfTwo
      <4>3. q \in N /\ new \in N
        BY <3>1
      <4>4. \A p \in N : Rank(p[2], id) >= min_rank'[id]
        <5> SUFFICES ASSUME NEW p \in N PROVE Rank(p[2], id) >= min_rank'[id]
          OBVIOUS
        <5>1. CASE p = new
          BY <3>1, <3>2, <4>2, <5>1
        <5>2. CASE p \in M
          BY <2>1, <2>2, <2>4, <3>2, <3>4, <4>2, <5>2
        <5> HIDE DEF M, N, new
        <5> QED
          BY <3>1, <5>1, <5>2
      <4>5. \E p \in N : Rank(p[2], id) = min_rank'[id]
        <5> HIDE DEF M, N, new
        <5> QED
          BY <3>1, <4>1, <4>2, <4>3
      <4>6. min_rank'[id] # 0 /\ N # {}
        BY <3>2, <4>2, <4>3
      <4> HIDE DEF M, N, new
      <4> QED
        BY <4>4, <4>5, <4>6 DEF N
    <3> QED
      BY <3>3, <3>4
  <2> QED
    BY <2>1, <2>5, <2>6
<1> QED
  BY <1>2, <1>5, <1>6 DEF BestRanks

\* Visiting a cluster: the prefix is recorded, and with the last one the query closes.
LEMMA MeasuredVisit ==
  ASSUME CalibrationInv, VisitCluster
  PROVE  Measured'
<1>1. /\ phase = "pool" /\ set \in Sets /\ Shaped(partition)
      /\ PoolTypes /\ at <= set.queries /\ LargeEnough /\ NoLarger /\ BestRanks
  BY DEF CalibrationInv, Selected, Measured, VisitCluster
<1>2. PICK c \in order, counts \in [Records -> 0..MaxTables] :
        all' = Met(c, counts) /\ order' = order \ {c}
  BY DEF VisitCluster
<1>3. /\ prefixes' = prefixes \union {<<at, all'>>} /\ min_rank' = Ranks(all')
      /\ at' = at /\ set' = set /\ partition' = partition /\ phase' = "pool"
      /\ capacity' = IF order' = {} THEN Max({capacity} \union {min_rank'[id] : id \in Positives(at)})
                     ELSE capacity
  BY <1>1 DEF VisitCluster
<1>4. /\ at \in Nat /\ capacity \in Nat /\ capacity >= kmax
      /\ all \in [Records -> Nat] /\ min_rank \in [Records -> Nat]
      /\ \A p \in prefixes : p[1] \in 1..at /\ p[2] \in [Records -> Nat]
      /\ order \subseteq 1..partition.K
  BY <1>1 DEF PoolTypes
<1>5. all' \in [Records -> Nat]
  BY <1>1, <1>2, <1>4, MetTyped
<1>6. 0 < at
  BY <1>1, <1>2, <1>4 DEF PoolTypes
<1>7. BestRanks' /\ min_rank' \in [Records -> Nat]
  BY <1>1, <1>3, <1>5, <1>6, RanksAreBest
<1> DEFINE Old == {min_rank'[id] : id \in Positives(at)}
<1>8. /\ capacity' \in Nat /\ capacity' >= capacity
      /\ capacity' # capacity => order' = {} /\ capacity' \in Old
      /\ order' = {} => \A id \in Positives(at) : capacity' >= min_rank'[id]
  <2> DEFINE S == {capacity} \union Old
  <2>1. IsFiniteSet(S)
    <3>1. IsFiniteSet(Old)
      BY <1>1, PositivesTyped, ImageFinite
    <3> HIDE DEF Old
    <3>2. IsFiniteSet(Old \union {capacity})
      BY <3>1, FS_AddElement
    <3>3. S = Old \union {capacity}
      OBVIOUS
    <3> QED
      BY <3>2, <3>3
  <2>2. S \in SUBSET Nat /\ S # {}
    BY <1>1, <1>4, <1>7, PositivesTyped
  <2>3. Max(S) \in S /\ \A y \in S : Max(S) >= y
    <3>1. S \in SUBSET Int
      BY <2>2
    <3> HIDE DEF S
    <3> QED
      BY <2>1, <2>2, <3>1, MaxIs
  <2>4. CASE order' = {}
    <3>1. capacity' = Max(S)
      BY <1>3, <2>4
    <3>2. capacity \in S /\ \A id \in Positives(at) : min_rank'[id] \in S
      OBVIOUS
    <3>3. Max(S) \in Nat /\ (Max(S) # capacity => Max(S) \in Old)
      BY <2>2, <2>3
    <3> HIDE DEF S, Old
    <3> QED
      BY <2>3, <2>4, <3>1, <3>2, <3>3
  <2>5. CASE order' # {}
    BY <1>3, <1>4, <2>5
  <2> QED
    BY <2>4, <2>5
<1>9. /\ \A z : Positives(z)' = Positives(z)
      /\ \A z, id : z # at => Meets(z, id)' = Meets(z, id)
  BY <1>3 DEF Positives, Targets, Meets
<1>10. /\ order # {}
       /\ \A z : Closed(z) <=> z < at
       /\ \A z : Closed(z)' <=> z < at \/ (z = at /\ order' = {})
  BY <1>2, <1>3 DEF Closed
<1>11. LargeEnough'
  <2> SUFFICES ASSUME NEW z \in 1..set.queries, NEW id \in Positives(z),
                      Closed(z)', Meets(z, id)' # {}
               PROVE  \E p \in Meets(z, id)' : Rank(p[2], id) <= capacity'
    BY <1>3, <1>9 DEF LargeEnough
  <2>1. \A p : Rank(p[2], id) \in Nat
    BY RankTyped
  <2>2. CASE z < at
    <3>1. z # at
      BY <1>4, <2>2
    <3>2. Meets(z, id)' = Meets(z, id) /\ Closed(z)
      BY <1>9, <1>10, <2>2, <3>1
    <3>3. \E p \in Meets(z, id) : Rank(p[2], id) <= capacity
      BY <1>1, <3>2 DEF LargeEnough
    <3> QED
      BY <1>4, <1>8, <2>1, <3>2, <3>3
  <2>3. CASE z = at /\ order' = {}
    <3>1. \E p \in Meets(at, id)' : Rank(p[2], id) = min_rank'[id]
      BY <1>3, <1>7, <1>9, <2>3 DEF BestRanks
    <3>2. capacity' >= min_rank'[id]
      BY <1>8, <2>3
    <3>3. min_rank'[id] \in Nat
      BY <1>1, <1>7, PositivesTyped
    <3>4. Meets(at, id)' = Meets(z, id)'
      BY <1>3, <2>3 DEF Meets
    <3> QED
      BY <1>8, <2>1, <2>3, <3>1, <3>2, <3>3, <3>4
  <2> QED
    BY <1>10, <2>2, <2>3
<1>12. NoLarger'
  <2>1. CASE capacity' = capacity
    <3>1. CASE capacity = kmax
      BY <2>1, <3>1 DEF NoLarger
    <3>2. CASE capacity # kmax
      <4> DEFINE Reached(z, id) == /\ Closed(z) /\ Meets(z, id) # {}
                                   /\ \A p \in Meets(z, id) : Rank(p[2], id) >= capacity
      <4>1. PICK z \in 1..set.queries : \E id \in Positives(z) : Reached(z, id)
        BY <1>1, <3>2 DEF NoLarger
      <4>2. PICK id \in Positives(z) : Reached(z, id)
        BY <4>1
      <4>3. z < at /\ z # at
        BY <1>4, <1>10, <4>2
      <4>4. Meets(z, id)' = Meets(z, id) /\ Closed(z)' /\ Positives(z)' = Positives(z)
        BY <1>9, <1>10, <4>3
      <4> QED
        BY <1>3, <2>1, <4>2, <4>4 DEF NoLarger
    <3> QED
      BY <3>1, <3>2
  <2>2. CASE capacity' # capacity
    <3>1. PICK id \in Positives(at) : capacity' = min_rank'[id]
      BY <1>8, <2>2
    <3>2. order' = {} /\ capacity' # 0 /\ at \in 1..set.queries
      BY <1>1, <1>4, <1>6, <1>8, <2>2, SetTypes
    <3>3. /\ Meets(at, id)' # {}
          /\ \A p \in Meets(at, id)' : Rank(p[2], id) >= capacity'
      BY <1>3, <1>7, <1>9, <3>1, <3>2 DEF BestRanks
    <3>4. Closed(at)' /\ Positives(at)' = Positives(at)
      BY <1>3, <3>2 DEF Closed, Positives, Targets
    <3> QED
      BY <1>3, <3>1, <3>2, <3>3, <3>4 DEF NoLarger
  <2> QED
    BY <2>1, <2>2
<1>13. PoolTypes'
  <2>1. order' \subseteq 1..partition'.K
    BY <1>2, <1>3, <1>4
  <2>2. \A p \in prefixes' : p[1] \in 1..at /\ p[2] \in [Records -> Nat]
    BY <1>3, <1>4, <1>5, <1>6
  <2>3. capacity' >= kmax
    BY <1>4, <1>8, CalibrationAssumption
  <2> QED
    BY <1>3, <1>4, <1>5, <1>6, <1>7, <1>8, <2>1, <2>2, <2>3 DEF PoolTypes
<1> QED
  BY <1>1, <1>3, <1>7, <1>11, <1>12, <1>13 DEF Measured

\* The next query has met nothing yet, and the one before it stays closed.
LEMMA MeasuredBegin ==
  ASSUME CalibrationInv, BeginQuery
  PROVE  Measured'
<1>1. /\ phase = "pool" /\ set \in Sets /\ Shaped(partition)
      /\ PoolTypes /\ at < set.queries /\ LargeEnough /\ NoLarger
  BY DEF CalibrationInv, Selected, Measured, BeginQuery
<1>2. /\ at' = at + 1 /\ order = {} /\ order' = 1..partition.K
      /\ all' = Nothing /\ min_rank' = Nothing
      /\ phase' = phase /\ set' = set /\ partition' = partition
      /\ capacity' = capacity /\ prefixes' = prefixes
  BY DEF BeginQuery
<1>3. /\ at \in Nat /\ capacity \in Nat /\ capacity >= kmax
      /\ \A p \in prefixes : p[1] \in 1..at /\ p[2] \in [Records -> Nat]
  BY <1>1 DEF PoolTypes
<1>4. Nothing \in [Records -> Nat]
  BY DEF Nothing
<1>5. PoolTypes'
  <2>1. \A p \in prefixes : p[1] \in 1..at+1
    BY <1>3
  <2>2. at + 1 \in Nat /\ at + 1 # 0
    BY <1>3
  <2> QED
    BY <1>2, <1>3, <1>4, <2>1, <2>2 DEF PoolTypes
<1>6. \A z, id : Positives(z)' = Positives(z) /\ Meets(z, id)' = Meets(z, id)
  BY <1>2 DEF Positives, Targets, Meets
<1>7. \A id : Meets(at + 1, id) = {}
  <2>1. \A p \in prefixes : p[1] # at + 1
    BY <1>3
  <2> QED
    BY <2>1 DEF Meets
<1>8. ASSUME NEW z \in 1..set.queries
      PROVE  /\ Closed(z) => Closed(z)'
             /\ Closed(z)' => Closed(z) \/ z = at + 1
  <2>1. z \in Nat /\ set.queries \in Nat
    BY <1>1, SetTypes
  <2> QED
    BY <1>2, <1>3, <2>1 DEF Closed
<1>9. LargeEnough'
  <2> SUFFICES ASSUME NEW z \in 1..set.queries, NEW id \in Positives(z),
                      Closed(z)', Meets(z, id) # {}
               PROVE  \E p \in Meets(z, id) : Rank(p[2], id) <= capacity
    BY <1>2, <1>6 DEF LargeEnough
  <2>1. Closed(z)
    BY <1>7, <1>8
  <2> QED
    BY <1>1, <2>1 DEF LargeEnough
<1>10. NoLarger'
  BY <1>1, <1>2, <1>6, <1>8 DEF NoLarger
<1>11. BestRanks'
  <2>1. \A id \in Positives(at + 1) : min_rank'[id] = 0
    BY <1>1, <1>2, PositivesTyped DEF Nothing
  <2>2. Positives(at)' = Positives(at + 1)
    BY <1>2 DEF Positives, Targets
  <2>3. \A id : Meets(at, id)' = {}
    BY <1>2, <1>7 DEF Meets
  <2> QED
    BY <2>1, <2>2, <2>3 DEF BestRanks
<1>12. at' <= set'.queries
  BY <1>1, <1>2, <1>3, SetTypes
<1> QED
  BY <1>1, <1>2, <1>5, <1>9, <1>10, <1>11, <1>12 DEF Measured

\* The pool is calibrated from nothing.
LEMMA MeasuredSelect ==
  ASSUME CalibrationInv, Select
  PROVE  Measured'
<1>1. /\ phase = "candidates" /\ set \in Sets /\ set' = set /\ at' = 0
      /\ capacity = kmax /\ order = {} /\ prefixes = {} /\ all = Nothing /\ min_rank = Nothing
      /\ capacity' = kmax /\ order' = {} /\ prefixes' = {} /\ all' = Nothing /\ min_rank' = Nothing
      /\ phase' = IF global = 0 THEN "done" ELSE "pool"
  BY DEF CalibrationInv, Selected, Measured, Select, pool
<1>2. CASE global = 0
  <2>1. global' = global
    BY <1>1 DEF global, Positive
  <2> QED
    BY <1>1, <1>2, <2>1 DEF Measured
<1>3. CASE global # 0
  <2>1. PoolTypes'
    BY <1>1, CalibrationAssumption DEF PoolTypes, Nothing
  <2>2. set.queries \in Nat
    BY <1>1, SetTypes
  <2>3. /\ \A z \in 1..set.queries : ~Closed(z)'
        /\ \A z, id : Meets(z, id)' = {}
    BY <1>1, <2>2 DEF Closed, Meets
  <2>4. Positives(at)' = Positives(0) /\ Positives(0) \subseteq Records
    BY <1>1, PositivesTyped DEF Positives, Targets
  <2>5. LargeEnough' /\ NoLarger'
    BY <1>1, <2>3 DEF LargeEnough, NoLarger
  <2>6. BestRanks'
    <3>1. \A id : Meets(at, id)' = {}
      BY <1>1 DEF Meets
    <3>2. \A id \in Positives(0) : min_rank'[id] = 0
      BY <1>1, <2>4 DEF Nothing
    <3> QED
      BY <2>4, <3>1, <3>2 DEF BestRanks
  <2> QED
    BY <1>1, <1>3, <2>1, <2>2, <2>5, <2>6 DEF Measured
<1> QED
  BY <1>2, <1>3

\* Nothing is measured at first.
LEMMA MeasuredInit == Init => Measured
BY DEF Init, Measured

\* Every step keeps what has been measured.
LEMMA MeasuredStep ==
  ASSUME CalibrationInv, [Next]_vars
  PROVE  Measured'
<1>1. CASE BuildPartition
  BY <1>1 DEF BuildPartition, CalibrationInv, Measured, pool
<1>2. CASE ConfigureFloor
  BY <1>2 DEF ConfigureFloor, CalibrationInv, Measured, pool
<1>3. CASE ConfigureTables
  BY <1>3 DEF ConfigureTables, CalibrationInv, Measured, pool
<1>4. CASE GiveUp
  BY <1>4 DEF GiveUp, CalibrationInv, Measured
<1>5. CASE MeasureCandidate
  BY <1>5 DEF MeasureCandidate, CalibrationInv, Measured, pool
<1>6. CASE PreflightDone
  BY <1>6 DEF PreflightDone, CalibrationInv, Measured
<1>7. CASE Select
  BY <1>7, MeasuredSelect
<1>8. CASE BeginQuery
  BY <1>8, MeasuredBegin
<1>9. CASE VisitCluster
  BY <1>9, MeasuredVisit
<1>10. CASE CalibrationDone
  <2>1. /\ phase = "pool" /\ phase' = "done" /\ order = {} /\ at = set.queries
        /\ PoolTypes /\ LargeEnough /\ NoLarger
        /\ UNCHANGED <<set, partition, at, capacity, order, all, min_rank, prefixes>>
    BY <1>10 DEF CalibrationDone, CalibrationInv, Measured, pool
  <2>2. PoolTypes' = PoolTypes
    BY <2>1 DEF PoolTypes
  <2>3. LargeEnough' = LargeEnough /\ NoLarger' = NoLarger
    BY <2>1 DEF LargeEnough, NoLarger, Closed, Meets, Positives, Targets
  <2> QED
    BY <2>1, <2>2, <2>3 DEF Measured
<1>11. CASE UNCHANGED vars
  <2>1. /\ UNCHANGED <<set, preflight, phase, todo, partition, at, log, best>>
        /\ UNCHANGED <<capacity, order, all, min_rank, prefixes>>
    BY <1>11 DEF vars, pool
  <2>2. PoolTypes' = PoolTypes
    BY <2>1 DEF PoolTypes
  <2>3. LargeEnough' = LargeEnough /\ NoLarger' = NoLarger /\ BestRanks' = BestRanks
    BY <2>1 DEF LargeEnough, NoLarger, BestRanks, Closed, Meets, Positives, Targets
  <2>4. global' = global
    BY <2>1 DEF global, Positive
  <2> QED
    BY <2>1, <2>2, <2>3, <2>4 DEF CalibrationInv, Measured
<1> QED
  BY <1>1, <1>2, <1>3, <1>4, <1>5, <1>6, <1>7, <1>8, <1>9, <1>10, <1>11 DEF Next

-----------------------------------------------------------------------------
\* The calibration starts with the invariant.
LEMMA PoolInit == Init => CalibrationInv
BY SelectedInit, MeasuredInit DEF CalibrationInv

\* Every step of the calibration keeps it.
LEMMA PoolStep == CalibrationInv /\ [Next]_vars => CalibrationInv'
<1> SUFFICES ASSUME CalibrationInv, [Next]_vars PROVE CalibrationInv'
  OBVIOUS
<1>1. Selected'
  BY SelectedStep DEF CalibrationInv
<1>2. Measured'
  BY MeasuredStep
<1> QED
  BY <1>1, <1>2 DEF CalibrationInv

\* The best rank that the capacity was taken from is a rank in the pool of a search.
LEMMA SufficesOfInv == CalibrationInv => PoolSuffices
<1> SUFFICES ASSUME CalibrationInv, phase = "done",
                    NEW z \in 1..set.queries, NEW id \in Positives(z),
                    NEW p \in prefixes, p[1] = z, p[2][id] > 0
             PROVE  \E q \in prefixes : q[1] = z /\ id \in PoolOf(capacity, q[2])
  BY DEF PoolSuffices, Admits
<1>1. set \in Sets /\ id \in Records
  BY PositivesTyped DEF CalibrationInv, Selected
<1>2. global # 0
  BY <1>1, NoPositives
<1>3. PoolTypes /\ at = set.queries /\ order = {} /\ LargeEnough
  BY <1>2 DEF CalibrationInv, Measured
<1>4. Closed(z)
  BY <1>1, <1>3, SetTypes DEF Closed
<1>5. p \in Meets(z, id)
  BY DEF Meets
<1>6. PICK q \in Meets(z, id) : Rank(q[2], id) <= capacity
  BY <1>3, <1>4, <1>5 DEF LargeEnough
<1>7. q \in prefixes /\ q[1] = z /\ q[2][id] > 0
  BY DEF Meets
<1>8. q[2] \in [Records -> Nat] /\ capacity \in Int
  BY <1>3, <1>7 DEF PoolTypes
<1>9. id \in PoolOf(capacity, q[2])
  BY <1>1, <1>6, <1>7, <1>8, PoolHoldsRanks
<1> QED
  BY <1>7, <1>9

\* The target that the capacity was raised for is in no smaller pool.
LEMMA LeastOfInv == CalibrationInv => PoolIsLeast
<1> SUFFICES ASSUME CalibrationInv, phase = "done", capacity > kmax
             PROVE  ~Admits(capacity - 1)
  BY DEF PoolIsLeast
<1>1. set \in Sets /\ kmax \in Nat
  BY CalibrationAssumption DEF CalibrationInv, Selected
<1>2. capacity # kmax
  BY <1>1
<1>3. PoolTypes /\ NoLarger
  BY <1>2 DEF CalibrationInv, Measured
<1> DEFINE Tight(z, id) == /\ Meets(z, id) # {}
                           /\ \A p \in Meets(z, id) : Rank(p[2], id) >= capacity
<1>4. PICK z \in 1..set.queries : \E id \in Positives(z) : Tight(z, id)
  BY <1>2, <1>3 DEF NoLarger
<1>5. PICK id \in Positives(z) : Tight(z, id)
  BY <1>4
<1>6. id \in Records
  BY <1>1, PositivesTyped
<1>7. \E p \in prefixes : p[1] = z /\ p[2][id] > 0
  BY <1>5 DEF Meets
<1>8. ASSUME NEW p \in prefixes, p[1] = z, id \in PoolOf(capacity - 1, p[2])
      PROVE  FALSE
  <2>1. p[2] \in [Records -> Nat] /\ capacity \in Nat /\ capacity - 1 \in Int
    BY <1>3 DEF PoolTypes
  <2>2. p[2][id] > 0 /\ Rank(p[2], id) <= capacity - 1
    BY <1>6, <1>8, <2>1, PoolHoldsRanks
  <2>3. p \in Meets(z, id)
    BY <1>8, <2>2 DEF Meets
  <2>4. Rank(p[2], id) >= capacity /\ Rank(p[2], id) \in Nat
    BY <1>5, <2>3, RankTyped
  <2> QED
    BY <2>1, <2>2, <2>4
<1> QED
  BY <1>7, <1>8 DEF Admits

\* With the capacity that calibrate_pool returns, a search that collides as the
\* calibration did has each positive target that it meets in its pool after some
\* cluster: by the best rank the target reached, not the one it ended with.
THEOREM CalibratedPoolSuffices == Spec => []PoolSuffices
BY PoolInit, PoolStep, SufficesOfInv, PTL DEF Spec

\* ... and a pool of one less would miss a target, unless the capacity is kmax.
THEOREM CalibratedPoolIsLeast == Spec => []PoolIsLeast
BY PoolInit, PoolStep, LeastOfInv, PTL DEF Spec

-----------------------------------------------------------------------------
(***************************************************************************)
(* The floors.  What a cluster's tables suffice for at its floor they      *)
(* suffice for at every similarity above it.                               *)
(***************************************************************************)
IsStep(V, first, step, N) == N \in Nat /\ first \in V /\ step \in [1..N -> [V -> V]]
Follows(f, V, first, step, N) ==
  /\ f \in [0..N -> V]
  /\ f[0] = first /\ \A m \in 1..N : f[m] = step[m][f[m - 1]]

\* A recursion on the numbers up to a bound has a solution: the least bound for which it
\* had none would extend the solution for the bound before it.
LEMMA RecursionExists ==
  ASSUME NEW V, NEW first, NEW step, NEW N, IsStep(V, first, step, N)
  PROVE  \E f : Follows(f, V, first, step, N)
<1> DEFINE Bad == {z \in 0..N : ~ \E f : Follows(f, V, first, step, z)}
<1>0. N \in Nat /\ first \in V /\ step \in [1..N -> [V -> V]]
  BY DEF IsStep
<1>1. SUFFICES ASSUME N \in Bad PROVE FALSE
  BY <1>0
<1>2. PICK z \in Bad : \A x \in Bad : z <= x
  <2>1. Bad \in SUBSET Nat
    BY <1>0
  <2>2. Bad # {}
    BY <1>1
  <2> HIDE DEF Bad
  <2> QED
    BY <2>1, <2>2, LeastExists
<1>3. z \in 0..N /\ ~ \E f : Follows(f, V, first, step, z)
  OBVIOUS
<1>4. CASE z = 0
  <2> DEFINE f == [m \in 0..0 |-> first]
  <2>1. Follows(f, V, first, step, 0)
    BY <1>0 DEF Follows
  <2> QED
    BY <1>3, <1>4, <2>1
<1>5. CASE z # 0
  <2>1. z - 1 \in 0..N /\ z \in 1..N /\ z - 1 \notin Bad
    <3> HIDE DEF Bad
    <3>1. z - 1 \in 0..N /\ z \in 1..N /\ ~(z <= z - 1)
      BY <1>0, <1>3, <1>5
    <3> QED
      BY <1>2, <3>1
  <2>2. PICK g : Follows(g, V, first, step, z - 1)
    BY <2>1
  <2> DEFINE f == [m \in 0..z |-> IF m = z THEN step[z][g[z - 1]] ELSE g[m]]
  <2>3. step[z] \in [V -> V] /\ g[z - 1] \in V /\ g \in [0..z-1 -> V]
    BY <1>0, <2>1, <2>2 DEF Follows
  <2>4. f \in [0..z -> V]
    BY <1>0, <2>1, <2>3
  <2>5. f[0] = first
    BY <1>0, <2>1, <2>2 DEF Follows
  <2>6. ASSUME NEW m \in 1..z
        PROVE  f[m] = step[m][f[m - 1]]
    <3>1. m - 1 \in 0..z /\ m - 1 # z /\ (m # z => m \in 1..z-1)
      BY <1>0, <2>1
    <3> QED
      BY <2>2, <3>1 DEF Follows
  <2> HIDE DEF f
  <2>7. Follows(f, V, first, step, z)
    BY <2>4, <2>5, <2>6 DEF Follows
  <2> QED
    BY <1>3, <2>7
<1> QED
  BY <1>4, <1>5

IsPower(p, base, z) == p = [m \in 0..z |-> IF m = 0 THEN 1 ELSE base * p[m - 1]]

\* There is a table of powers.
LEMMA PowerExists ==
  ASSUME NEW base \in Nat, NEW N \in Nat
  PROVE  \E p : IsPower(p, base, N)
<1> DEFINE step == [m \in 1..N |-> [v \in Nat |-> base * v]]
<1>1. IsStep(Nat, 1, step, N)
  BY DEF IsStep
<1> HIDE DEF step
<1>2. PICK p : Follows(p, Nat, 1, step, N)
  BY <1>1, RecursionExists
<1> USE DEF step
<1>3. ASSUME NEW m \in 0..N
      PROVE  p[m] = IF m = 0 THEN 1 ELSE base * p[m - 1]
  <2>1. m # 0 => m \in 1..N /\ m - 1 \in 0..N
    OBVIOUS
  <2> QED
    BY <1>2, <2>1 DEF Follows
<1>4. IsPower(p, base, N)
  BY <1>2, <1>3 DEF IsPower, Follows
<1> QED
  BY <1>4

\* How the powers go on.
LEMMA PowerIs ==
  ASSUME NEW base \in Nat
  PROVE  /\ power(base)[0] = 1
         /\ \A m \in 1..MaxTables : power(base)[m] = base * power(base)[m - 1]
<1>1. MaxTables \in Nat
  BY CalibrationAssumption
<1>2. power(base) = CHOOSE p : IsPower(p, base, MaxTables)
  BY DEF power, IsPower
<1>3. IsPower(power(base), base, MaxTables)
  BY <1>1, <1>2, PowerExists
<1>4. \A m \in 0..MaxTables :
        power(base)[m] = IF m = 0 THEN 1 ELSE base * power(base)[m - 1]
  BY <1>3 DEF IsPower
<1> QED
  BY <1>1, <1>4

\* A product grows with its factors.
LEMMA ProductGrows ==
  ASSUME NEW a \in Nat, NEW b \in Nat, NEW x \in Nat, NEW y \in Nat, a <= b, x <= y
  PROVE  a * x \in Nat /\ b * y \in Nat /\ a * x <= b * y
<1>1. a * x <= a * y /\ a * y <= b * y
  OBVIOUS
<1> QED
  BY <1>1

\* Powers are naturals, and grow with the base.
LEMMA PowersGrow ==
  ASSUME NEW a \in Nat, NEW b \in Nat, a <= b, NEW k \in 0..MaxTables
  PROVE  /\ power(a)[k] \in Nat /\ power(b)[k] \in Nat
         /\ power(a)[k] <= power(b)[k]
<1> DEFINE Good(m) == /\ power(a)[m] \in Nat /\ power(b)[m] \in Nat
                      /\ power(a)[m] <= power(b)[m]
           Bad == {m \in 0..MaxTables : ~Good(m)}
<1>1. SUFFICES ASSUME k \in Bad PROVE FALSE
  OBVIOUS
<1>2. PICK z \in Bad : \A x \in Bad : z <= x
  <2>1. Bad \in SUBSET Nat /\ Bad # {}
    BY <1>1
  <2> HIDE DEF Bad
  <2> QED
    BY <2>1, LeastExists
<1>3. z \in 0..MaxTables /\ ~Good(z)
  OBVIOUS
<1>4. CASE z = 0
  <2>1. power(a)[0] = 1 /\ power(b)[0] = 1
    BY PowerIs
  <2> QED
    BY <1>3, <1>4, <2>1
<1>5. CASE z # 0
  <2>1. z \in 1..MaxTables /\ z - 1 \in 0..MaxTables /\ z - 1 < z
    BY <1>3, <1>5, CalibrationAssumption
  <2>2. Good(z - 1)
    BY <1>2, <2>1
  <2>3. power(a)[z] = a * power(a)[z - 1] /\ power(b)[z] = b * power(b)[z - 1]
    BY <2>1, PowerIs
  <2>4. Good(z)
    BY <2>2, <2>3, ProductGrows
  <2> QED
    BY <1>3, <2>4
<1> QED
  BY <1>4, <1>5

\* Fewer tables are needed for what is more alike.
LEMMA SufficesAbove ==
  ASSUME NEW f \in 0..Unit, NEW j \in 0..Unit, f <= j, NEW m \in 1..MaxTables, Suffices(m, f)
  PROVE  Suffices(m, j)
<1>1. Unit - j \in Nat /\ Unit - f \in Nat /\ Unit - j <= Unit - f /\ Unit \in Nat /\ m \in 0..MaxTables
  BY CalibrationAssumption
<1>2. /\ power(Unit - j)[m] \in Nat /\ power(Unit - f)[m] \in Nat /\ power(Unit)[m] \in Nat
      /\ power(Unit - j)[m] <= power(Unit - f)[m]
  BY <1>1, PowersGrow
<1>3. DeltaDen \in Nat /\ DeltaNum \in Nat
  BY CalibrationAssumption
<1>4. DeltaDen * power(Unit - j)[m] <= DeltaDen * power(Unit - f)[m]
  BY <1>2, <1>3, ProductGrows
<1> DEFINE x == DeltaDen * power(Unit - j)[m]
           y == DeltaDen * power(Unit - f)[m]
           z == DeltaNum * power(Unit)[m]
<1>5. x \in Nat /\ y \in Nat /\ z \in Nat
  BY <1>2, <1>3, ProductGrows
<1>6. y <= z
  BY DEF Suffices
<1>7. x <= z
  <2>1. x <= y
    BY <1>4
  <2> HIDE DEF x, y, z
  <2> QED
    BY <1>5, <1>6, <2>1
<1> QED
  BY <1>7 DEF Suffices

\* Each cluster's tables suffice for the positive targets that are members.
Recalls(p) == \A t \in Positive : \A c \in ClustersOf(p, t.id) : Suffices(p.m[c], t.j)

\* While the floors are configured: the floors of the clusters of the targets so far.
Floored(p, z) ==
  /\ \A c \in 1..p.K : p.floor[c] \in 0..Unit
  /\ \A i \in 1..Len(set.targets) : i < z /\ set.targets[i].j # 0 =>
       \A c \in ClustersOf(p, set.targets[i].id) :
         p.floor[c] # 0 /\ p.floor[c] <= set.targets[i].j

Placed(p) == p.primary \in [Records -> 1..p.K] /\ p.secondary \in [Records -> 0..p.K]

FloorInv ==
  /\ Selected
  /\ phase = "floors" => Placed(partition) /\ at \in Nat \ {0} /\ Floored(partition, at)
  /\ phase \notin {"floors", "failed"} /\ partition # <<>> => Recalls(partition)
  /\ best.partition # <<>> => Recalls(best.partition)

\* A target by its place in the calibration set.
LEMMA TargetTypes ==
  ASSUME set \in Sets
  PROVE  /\ Len(set.targets) \in Nat
         /\ \A i \in 1..Len(set.targets) :
              set.targets[i].id \in Records /\ set.targets[i].j \in 0..Unit
         /\ \A t \in Positive : /\ t.id \in Records /\ t.j \in 0..Unit /\ t.j # 0
                                /\ \E i \in 1..Len(set.targets) : set.targets[i] = t
<1> DEFINE T == [query : 1..set.queries, id : Records, j : 0..Unit]
<1>1. set.targets \in Seq(T)
  BY CalibrationAssumption
<1>2. \A t \in T : t.id \in Records /\ t.j \in 0..Unit
  OBVIOUS
<1>3. \A t \in Positive : t \in Range(set.targets) /\ (t.j \in 0..Unit => t.j # 0)
  BY CalibrationAssumption DEF Positive
<1> HIDE DEF T
<1>4. /\ Len(set.targets) \in Nat /\ DOMAIN set.targets = 1..Len(set.targets)
      /\ \A i \in DOMAIN set.targets : set.targets[i] \in T
  BY <1>1, ElementTyped
<1>5. \A t \in Positive : \E i \in 1..Len(set.targets) : set.targets[i] = t
  BY <1>3, <1>4 DEF Range
<1> QED
  BY <1>2, <1>3, <1>4, <1>5

\* One more target lowers the floors of its clusters, and raises none.
LEMMA FloorsFloored ==
  ASSUME set \in Sets, NEW p, Shaped(p), Placed(p),
         NEW z \in 1..Len(set.targets), Floored(p, z), set.targets[z].j # 0
  PROVE  Floored([p EXCEPT !.floor = Floors(p, set.targets[z])], z + 1)
<1> DEFINE t == set.targets[z]
           new == Floors(p, t)
           q == [p EXCEPT !.floor = new]
<1>1. /\ z \in Nat /\ t.j \in 0..Unit /\ t.j \in Nat /\ t.j # 0
  BY TargetTypes, CalibrationAssumption
<1>2. /\ q.floor = new /\ q.K = p.K
      /\ \A id : ClustersOf(q, id) = ClustersOf(p, id)
  BY DEF Shaped, ClustersOf
<1>3. \A c \in 1..p.K : new[c] = IF c \in ClustersOf(p, t.id) THEN Lowered(p.floor[c], t.j) ELSE p.floor[c]
  BY DEF Floors
<1>4. ASSUME NEW c \in 1..p.K
      PROVE  /\ new[c] \in 0..Unit
             /\ c \in ClustersOf(p, t.id) => new[c] # 0 /\ new[c] <= t.j
             /\ p.floor[c] # 0 => new[c] # 0 /\ new[c] <= p.floor[c]
  <2>1. p.floor[c] \in 0..Unit /\ p.floor[c] \in Nat
    BY CalibrationAssumption DEF Floored
  <2>2. p.floor[c] # 0 => /\ Min({p.floor[c], t.j}) \in {p.floor[c], t.j}
                          /\ Min({p.floor[c], t.j}) <= p.floor[c]
                          /\ Min({p.floor[c], t.j}) <= t.j
    BY <1>1, <2>1, MinOfTwo
  <2> DEFINE l == Lowered(p.floor[c], t.j)
  <2>3. /\ l \in 0..Unit /\ l # 0 /\ l <= t.j
        /\ p.floor[c] # 0 => l <= p.floor[c]
    <3> HIDE DEF t
    <3>1. CASE p.floor[c] = 0
      BY <1>1, <2>1, <3>1 DEF Lowered
    <3>2. CASE p.floor[c] # 0
      BY <1>1, <2>1, <2>2, <3>2 DEF Lowered
    <3> QED
      BY <3>1, <3>2
  <2> HIDE DEF l, new, t
  <2>4. CASE c \in ClustersOf(p, t.id)
    BY <1>3, <2>3, <2>4 DEF l
  <2>5. CASE c \notin ClustersOf(p, t.id)
    BY <1>3, <2>1, <2>5
  <2> QED
    BY <2>4, <2>5
<1>5. ASSUME NEW i \in 1..Len(set.targets), i < z + 1, set.targets[i].j # 0,
             NEW c \in ClustersOf(p, set.targets[i].id)
      PROVE  new[c] # 0 /\ new[c] <= set.targets[i].j
  <2>1. set.targets[i].id \in Records /\ set.targets[i].j \in Nat
    BY TargetTypes, CalibrationAssumption
  <2>2. c \in 1..p.K
    BY <2>1 DEF Placed, ClustersOf, Shaped
  <2>3. CASE i = z
    BY <1>4, <1>5, <2>2, <2>3
  <2>4. CASE i # z
    <3>1. i < z
      BY <1>1, <1>5, <2>4
    <3>2. p.floor[c] # 0 /\ p.floor[c] <= set.targets[i].j /\ p.floor[c] \in 0..Unit
      BY <1>5, <2>2, <3>1 DEF Floored
    <3>3. new[c] # 0 /\ new[c] <= p.floor[c] /\ new[c] \in 0..Unit
      BY <1>4, <2>2, <3>2
    <3> HIDE DEF new, t
    <3> QED
      BY <2>1, <3>2, <3>3, CalibrationAssumption
  <2> QED
    BY <2>3, <2>4
<1> HIDE DEF new, q
<1>6. Floored(q, z + 1)
  BY <1>2, <1>4, <1>5 DEF Floored
<1> QED
  BY <1>6 DEF q, new, t

\* With all the targets seen, the numbers of tables suffice for them.
LEMMA ConfiguredRecalls ==
  ASSUME set \in Sets, NEW p, Shaped(p), Placed(p),
         NEW z \in Nat, Floored(p, z), z > Len(set.targets),
         \A f \in Range(p.floor) \union {global} : Representable(f)
  PROVE  Recalls(Configured(p))
<1> DEFINE q == Configured(p)
           floor == [c \in 1..p.K |-> IF p.floor[c] = 0 THEN global ELSE p.floor[c]]
<1> SUFFICES ASSUME NEW t \in Positive, NEW c \in ClustersOf(q, t.id)
             PROVE  Suffices(q.m[c], t.j)
  BY DEF Recalls
<1>1. /\ q.primary = p.primary /\ q.secondary = p.secondary
      /\ q.m = [e \in 1..p.K |-> HashCount(floor[e])]
  BY DEF Configured, Shaped
<1>2. c \in ClustersOf(p, t.id)
  BY <1>1 DEF ClustersOf
<1>3. PICK i \in 1..Len(set.targets) : set.targets[i] = t
  BY TargetTypes
<1>4. t.id \in Records /\ t.j \in 0..Unit /\ t.j # 0 /\ i < z
  BY TargetTypes
<1>5. c \in 1..p.K
  BY <1>2, <1>4 DEF Placed, ClustersOf, Shaped
<1>6. p.floor[c] # 0 /\ p.floor[c] <= t.j /\ p.floor[c] \in 0..Unit
  BY <1>2, <1>3, <1>4, <1>5 DEF Floored
<1>7. Representable(p.floor[c])
  BY <1>5 DEF Shaped, Range
<1>8. q.m[c] = HashCount(p.floor[c])
  BY <1>1, <1>5, <1>6
<1>9. HashCount(p.floor[c]) \in 1..MaxTables /\ Suffices(HashCount(p.floor[c]), p.floor[c])
  <2> DEFINE S == {m \in 1..MaxTables : Suffices(m, p.floor[c])}
  <2>1. S \in SUBSET Nat /\ S # {}
    BY <1>6, <1>7, CalibrationAssumption DEF Representable
  <2>2. HashCount(p.floor[c]) = Min(S)
    BY <1>6 DEF HashCount
  <2>3. Min(S) \in S
    <3> HIDE DEF S
    <3> QED
      BY <2>1, MinIs
  <2> QED
    BY <2>2, <2>3
<1> HIDE DEF q
<1> QED
  BY <1>4, <1>6, <1>8, <1>9, SufficesAbove

\* No cluster has a floor at first.
LEMMA FloorInit == Init => FloorInv
BY SelectedInit DEF Init, FloorInv

\* Every step keeps the floors.
LEMMA FloorStep == FloorInv /\ [Next]_vars => FloorInv'
<1> SUFFICES ASSUME FloorInv, [Next]_vars PROVE FloorInv'
  OBVIOUS
<1>1. Selected /\ Selected'
  BY SelectedStep DEF FloorInv
<1>2. set \in Sets
  BY <1>1 DEF Selected
<1>4. CASE BuildPartition
  <2>1. PICK p \in Partitions : partition' = Blank(p)
    BY <1>4 DEF BuildPartition
  <2>2. Placed(partition') /\ at' = 1 /\ set' = set /\ best' = best /\ phase' = "floors"
    BY <1>4, <2>1, CalibrationAssumption DEF BuildPartition, Blank, Placed
  <2>3. Floored(partition, at)'
    <3>1. \A c \in 1..partition'.K : partition'.floor[c] = 0
      BY <2>1 DEF Blank, NoFloor
    <3>2. 0 \in 0..Unit /\ \A i \in 1..Len(set.targets) : ~(i < 1)
      BY <1>2, TargetTypes, CalibrationAssumption
    <3> QED
      BY <2>2, <3>1, <3>2 DEF Floored
  <2>4. Recalls(best.partition)' <=> Recalls(best.partition)
    BY <2>2 DEF Recalls, Positive
  <2> QED
    BY <1>1, <2>2, <2>3, <2>4 DEF FloorInv, Placed
<1>5. CASE ConfigureFloor
  <2>1. /\ phase = "floors" /\ phase' = "floors" /\ at' = at + 1 /\ set' = set /\ best' = best
        /\ at \in Nat \ {0} /\ at <= Len(set.targets)
        /\ Shaped(partition) /\ Placed(partition) /\ Floored(partition, at)
    BY <1>1, <1>5 DEF ConfigureFloor, FloorInv, Selected
  <2> DEFINE t == set.targets[at]
  <2>2. partition' = IF t.j = 0 THEN partition ELSE [partition EXCEPT !.floor = Floors(partition, t)]
    BY <1>5 DEF ConfigureFloor
  <2>3. Placed(partition')
    BY <2>1, <2>2 DEF Shaped, Placed
  <2>4. Floored(partition', at + 1)
    <3>1. CASE t.j = 0
      <4>1. \A i \in 1..Len(set.targets) : i < at + 1 => i < at \/ i = at
        BY <1>2, <2>1, TargetTypes
      <4> QED
        BY <2>1, <2>2, <3>1, <4>1 DEF Floored
    <3>2. CASE t.j # 0
      <4>1. at \in 1..Len(set.targets)
        BY <1>2, <2>1, TargetTypes
      <4> QED
        BY <1>2, <2>1, <2>2, <3>2, <4>1, FloorsFloored
    <3> QED
      BY <3>1, <3>2
  <2>5. Floored(partition, at)'
    BY <2>1, <2>4 DEF Floored, ClustersOf
  <2>6. Recalls(best.partition)' <=> Recalls(best.partition)
    BY <2>1 DEF Recalls, Positive
  <2> QED
    BY <1>1, <2>1, <2>3, <2>5, <2>6 DEF FloorInv, Placed
<1>6. CASE ConfigureTables
  <2>1. /\ phase = "floors" /\ phase' = "measure" /\ set' = set /\ best' = best
        /\ at \in Nat /\ at > Len(set.targets)
        /\ Shaped(partition) /\ Placed(partition) /\ Floored(partition, at)
        /\ \A f \in Range(partition.floor) \union {global} : Representable(f)
        /\ partition' = Configured(partition)
    BY <1>1, <1>6 DEF ConfigureTables, FloorInv, Selected
  <2>2. Recalls(Configured(partition))
    BY <1>2, <2>1, ConfiguredRecalls
  <2>3. Recalls(partition)'
    BY <2>1, <2>2 DEF Recalls, Positive, ClustersOf
  <2>4. Recalls(best.partition)' <=> Recalls(best.partition)
    BY <2>1 DEF Recalls, Positive
  <2> QED
    BY <1>1, <2>1, <2>3, <2>4 DEF FloorInv
<1>7. CASE GiveUp
  <2>1. phase' = "failed" /\ set' = set /\ best' = best
    BY <1>7 DEF GiveUp
  <2>2. Recalls(best.partition)' <=> Recalls(best.partition)
    BY <2>1 DEF Recalls, Positive
  <2> QED
    BY <1>1, <2>1, <2>2 DEF FloorInv
<1>8. CASE MeasureCandidate
  <2>1. /\ phase = "measure" /\ phase' = "candidates" /\ set' = set /\ partition' = partition
        /\ best'.partition \in {best.partition, partition}
    BY <1>8 DEF MeasureCandidate
  <2>2. /\ Recalls(partition)' <=> Recalls(partition)
        /\ best'.partition = partition => (Recalls(best.partition)' <=> Recalls(partition))
        /\ best'.partition = best.partition =>
             (Recalls(best.partition)' <=> Recalls(best.partition))
    BY <2>1 DEF Recalls, Positive
  <2> QED
    BY <1>1, <2>1, <2>2 DEF FloorInv
<1>9. CASE Select
  <2>1. /\ phase' \in {"pool", "done"} /\ set' = set /\ best' = best /\ partition' = best.partition
    BY <1>9 DEF Select
  <2>2. /\ Recalls(best.partition)' <=> Recalls(best.partition)
        /\ Recalls(partition)' <=> Recalls(best.partition)
    BY <2>1 DEF Recalls, Positive
  <2> QED
    BY <1>1, <2>1, <2>2 DEF FloorInv
<1>10. CASE \/ PreflightDone \/ BeginQuery \/ VisitCluster \/ CalibrationDone \/ UNCHANGED vars
  <2>1. /\ set' = set /\ best' = best /\ partition' = partition
        /\ \/ phase' = phase /\ at' = at
           \/ phase \notin {"floors", "failed"} /\ phase' \notin {"floors", "failed"}
    BY <1>10 DEF PreflightDone, BeginQuery, VisitCluster, CalibrationDone, vars, pool
  <2>2. /\ Recalls(best.partition)' <=> Recalls(best.partition)
        /\ Recalls(partition)' <=> Recalls(partition)
        /\ Placed(partition)' <=> Placed(partition)
        /\ at' = at => (Floored(partition, at)' <=> Floored(partition, at))
    BY <2>1 DEF Recalls, Positive, Placed, Floored
  <2> QED
    BY <1>1, <2>1, <2>2 DEF FloorInv
<1> QED
  BY <1>4, <1>5, <1>6, <1>7, <1>8, <1>9, <1>10 DEF Next

\* Every cluster gets as many tables as its least floor needs, so that a positive target is
\* missed with probability at most delta_h in each cluster it is a member of, in any
\* candidate that is measured and in the one that is selected.
THEOREM TablesRecallTargets == Spec => []FloorsGuaranteeRecall
<1>1. FloorInv => FloorsGuaranteeRecall
  BY DEF FloorInv, FloorsGuaranteeRecall, HasTables, Recalls
<1> QED
  BY <1>1, FloorInit, FloorStep, PTL DEF Spec

-----------------------------------------------------------------------------
(***************************************************************************)
(* Sums of the values of a function, whichever element they take first.    *)
(***************************************************************************)
Summation(f, S) == CHOOSE g : IsSum(g, f, S)
SumOf(f, S) == Summation(f, S)[S]

\* Every finite set has a sum.
LEMMA SummationIs ==
  ASSUME NEW S, IsFiniteSet(S), NEW f
  PROVE  IsSum(Summation(f, S), f, S)
BY SumExists DEF Summation

\* The sum of a subset is the same in every sum it is taken from.
LEMMA SumOfPart ==
  ASSUME NEW S, IsFiniteSet(S), NEW f, NEW R \in SUBSET S
  PROVE  SumOf(f, R) = Summation(f, S)[R]
<1>1. IsFiniteSet(R)
  BY FS_Subset
<1>2. IsSum(Summation(f, S), f, S) /\ IsSum(Summation(f, R), f, R)
  BY <1>1, SummationIs
<1> QED
  BY <1>1, <1>2, SumsAgree DEF SumOf

\* Of nothing.
LEMMA SumOfNone ==
  ASSUME NEW f
  PROVE  SumOf(f, {}) = 0
<1>1. IsFiniteSet({})
  BY FS_EmptySet
<1>2. IsSum(Summation(f, {}), f, {})
  BY <1>1, SummationIs
<1> QED
  BY <1>2, SumStep DEF SumOf

\* Of integers.
LEMMA SumOfInt ==
  ASSUME NEW S, IsFiniteSet(S), NEW f, \A x \in S : f[x] \in Int
  PROVE  SumOf(f, S) \in Int
BY SummationIs, SumIsInt DEF SumOf

\* Of naturals.
LEMMA SumOfNat ==
  ASSUME NEW S, IsFiniteSet(S), NEW f, \A x \in S : f[x] \in Nat
  PROVE  SumOf(f, S) \in Nat
BY SummationIs, SumTyped DEF SumOf

\* Any element may be taken first.
LEMMA SumOfTakes ==
  ASSUME NEW S, IsFiniteSet(S), NEW f, \A x \in S : f[x] \in Int, NEW e \in S
  PROVE  SumOf(f, S) = f[e] + SumOf(f, S \ {e})
<1>1. SumOf(f, S) = f[e] + Summation(f, S)[S \ {e}]
  BY SummationIs, SumTakesAny DEF SumOf
<1>2. SumOf(f, S \ {e}) = Summation(f, S)[S \ {e}]
  BY SumOfPart
<1> QED
  BY <1>1, <1>2

\* The same values have the same sum.
LEMMA SumOfEqual ==
  ASSUME NEW S, IsFiniteSet(S), NEW f, NEW g, \A x \in S : f[x] = g[x]
  PROVE  SumOf(f, S) = SumOf(g, S)
<1> DEFINE F == Summation(f, S)
<1>1. IsSum(F, f, S)
  BY SummationIs
<1> HIDE DEF F
<1>2. IsSum(F, g, S)
  <2>1. \A s \in SUBSET S : s # {} => f[One(s)] = g[One(s)]
    BY DEF One
  <2>2. F = [s \in SUBSET S |-> IF s = {} THEN 0 ELSE f[One(s)] + F[s \ {One(s)}]]
    BY <1>1 DEF IsSum
  <2>3. F = [s \in SUBSET S |-> IF s = {} THEN 0 ELSE g[One(s)] + F[s \ {One(s)}]]
    BY <2>1, <2>2
  <2> QED
    BY <2>3 DEF IsSum
<1>3. IsSum(Summation(g, S), g, S)
  BY SummationIs
<1>4. F[S] = Summation(g, S)[S]
  BY <1>2, <1>3, SumsAgree
<1> QED
  BY <1>4 DEF SumOf, F

\* The sum of the sums.
LEMMA SumOfBoth ==
  ASSUME NEW S, IsFiniteSet(S), NEW f, NEW g, NEW h,
         \A x \in S : f[x] \in Int /\ g[x] \in Int /\ h[x] = f[x] + g[x]
  PROVE  SumOf(h, S) = SumOf(f, S) + SumOf(g, S)
<1> DEFINE Bad == {s \in SUBSET S : SumOf(h, s) # SumOf(f, s) + SumOf(g, s)}
<1>1. SUFFICES ASSUME S \in Bad PROVE FALSE
  OBVIOUS
<1>2. PICK s \in Bad : IsFiniteSet(s) /\ \A e \in s : s \ {e} \notin Bad
  <2> HIDE DEF Bad
  <2> QED
    BY <1>1, LeastBadSet
<1>3. s \in SUBSET S /\ SumOf(h, s) # SumOf(f, s) + SumOf(g, s)
  OBVIOUS
<1>4. s # {}
  <2>1. SumOf(h, {}) = 0 /\ SumOf(f, {}) = 0 /\ SumOf(g, {}) = 0
    BY SumOfNone
  <2>2. SumOf(h, {}) = SumOf(f, {}) + SumOf(g, {})
    BY <2>1
  <2> HIDE DEF Bad
  <2> QED
    BY <1>3, <2>2
<1>5. PICK e \in s : TRUE
  BY <1>4
<1>6. SumOf(h, s \ {e}) = SumOf(f, s \ {e}) + SumOf(g, s \ {e})
  BY <1>2, <1>3
<1> HIDE DEF Bad
<1>7. \A x \in s : f[x] \in Int /\ g[x] \in Int /\ h[x] \in Int /\ h[x] = f[x] + g[x]
  BY <1>3
<1>8. /\ SumOf(f, s) = f[e] + SumOf(f, s \ {e})
      /\ SumOf(g, s) = g[e] + SumOf(g, s \ {e})
      /\ SumOf(h, s) = h[e] + SumOf(h, s \ {e})
  BY <1>2, <1>7, SumOfTakes
<1>9. SumOf(f, s \ {e}) \in Int /\ SumOf(g, s \ {e}) \in Int
  <2>1. IsFiniteSet(s \ {e})
    BY <1>2, FS_Subset
  <2> QED
    BY <1>7, <2>1, SumOfInt
<1> QED
  BY <1>3, <1>6, <1>7, <1>8, <1>9

\* A common factor.
LEMMA SumOfMultiples ==
  ASSUME NEW S, IsFiniteSet(S), NEW c \in Int, NEW f, NEW h,
         \A x \in S : f[x] \in Int /\ h[x] = c * f[x]
  PROVE  SumOf(h, S) = c * SumOf(f, S)
<1> DEFINE Bad == {s \in SUBSET S : SumOf(h, s) # c * SumOf(f, s)}
<1>1. SUFFICES ASSUME S \in Bad PROVE FALSE
  OBVIOUS
<1>2. PICK s \in Bad : IsFiniteSet(s) /\ \A e \in s : s \ {e} \notin Bad
  <2> HIDE DEF Bad
  <2> QED
    BY <1>1, LeastBadSet
<1>3. s \in SUBSET S /\ SumOf(h, s) # c * SumOf(f, s)
  OBVIOUS
<1>4. s # {}
  <2>1. SumOf(h, {}) = 0 /\ SumOf(f, {}) = 0
    BY SumOfNone
  <2>2. SumOf(h, {}) = c * SumOf(f, {})
    BY <2>1
  <2> HIDE DEF Bad
  <2> QED
    BY <1>3, <2>2
<1>5. PICK e \in s : TRUE
  BY <1>4
<1>6. SumOf(h, s \ {e}) = c * SumOf(f, s \ {e})
  BY <1>2, <1>3
<1> HIDE DEF Bad
<1>7. \A x \in s : f[x] \in Int /\ h[x] \in Int /\ h[x] = c * f[x]
  BY <1>3
<1>8. /\ SumOf(f, s) = f[e] + SumOf(f, s \ {e})
      /\ SumOf(h, s) = h[e] + SumOf(h, s \ {e})
  BY <1>2, <1>7, SumOfTakes
<1>9. SumOf(f, s \ {e}) \in Int
  <2>1. IsFiniteSet(s \ {e})
    BY <1>2, FS_Subset
  <2> QED
    BY <1>7, <2>1, SumOfInt
<1>10. c * (f[e] + SumOf(f, s \ {e})) = c * f[e] + c * SumOf(f, s \ {e})
  BY <1>7, <1>9
<1> QED
  BY <1>3, <1>6, <1>7, <1>8, <1>9, <1>10

\* Values that are all at most c.
LEMMA SumOfBounded ==
  ASSUME NEW S, IsFiniteSet(S), NEW c \in Int, NEW f,
         \A x \in S : f[x] \in Int /\ f[x] <= c
  PROVE  SumOf(f, S) <= c * Cardinality(S)
<1> DEFINE Bad == {s \in SUBSET S : ~(SumOf(f, s) <= c * Cardinality(s))}
<1>1. SUFFICES ASSUME S \in Bad PROVE FALSE
  OBVIOUS
<1>2. PICK s \in Bad : IsFiniteSet(s) /\ \A e \in s : s \ {e} \notin Bad
  <2> HIDE DEF Bad
  <2> QED
    BY <1>1, LeastBadSet
<1>3. s \in SUBSET S /\ ~(SumOf(f, s) <= c * Cardinality(s))
  OBVIOUS
<1>4. s # {}
  <2>1. SumOf(f, {}) = 0 /\ Cardinality({}) = 0
    BY SumOfNone, FS_EmptySet
  <2> HIDE DEF Bad
  <2> QED
    BY <1>3, <2>1
<1>5. PICK e \in s : TRUE
  BY <1>4
<1>6. SumOf(f, s \ {e}) <= c * Cardinality(s \ {e})
  BY <1>2, <1>3
<1> HIDE DEF Bad
<1>7. \A x \in s : f[x] \in Int /\ f[x] <= c
  BY <1>3
<1>8. SumOf(f, s) = f[e] + SumOf(f, s \ {e})
  BY <1>2, <1>7, SumOfTakes
<1>9. SumOf(f, s \ {e}) \in Int /\ Cardinality(s) \in Nat /\ Cardinality(s \ {e}) = Cardinality(s) - 1
  <2>1. IsFiniteSet(s \ {e})
    BY <1>2, FS_Subset
  <2> QED
    BY <1>2, <1>7, <2>1, SumOfInt, FS_CardinalityType, FS_RemoveElement
<1>10. \A k \in Int : c * (k - 1) = c * k - c /\ c * k \in Int
  OBVIOUS
<1> QED
  BY <1>3, <1>6, <1>7, <1>8, <1>9, <1>10

\* Ones.
LEMMA SumOfOnes ==
  ASSUME NEW S, IsFiniteSet(S)
  PROVE  SumOf([x \in S |-> 1], S) = Cardinality(S)
<1> DEFINE f == [x \in S |-> 1]
           Bad == {s \in SUBSET S : SumOf(f, s) # Cardinality(s)}
<1>1. SUFFICES ASSUME S \in Bad PROVE FALSE
  OBVIOUS
<1>2. PICK s \in Bad : IsFiniteSet(s) /\ \A e \in s : s \ {e} \notin Bad
  <2> HIDE DEF Bad
  <2> QED
    BY <1>1, LeastBadSet
<1>3. s \in SUBSET S /\ SumOf(f, s) # Cardinality(s)
  OBVIOUS
<1>4. s # {}
  <2>1. SumOf(f, {}) = 0 /\ Cardinality({}) = 0
    BY SumOfNone, FS_EmptySet
  <2>2. SumOf(f, {}) = Cardinality({})
    BY <2>1
  <2> HIDE DEF Bad, f
  <2> QED
    BY <1>3, <2>2
<1>5. PICK e \in s : TRUE
  BY <1>4
<1>6. SumOf(f, s \ {e}) = Cardinality(s \ {e})
  BY <1>2, <1>3
<1>7. \A x \in s : f[x] \in Int /\ f[x] = 1
  BY <1>3
<1> HIDE DEF Bad, f
<1>8. SumOf(f, s) = f[e] + SumOf(f, s \ {e})
  BY <1>2, <1>7, SumOfTakes
<1>9. Cardinality(s) \in Nat /\ Cardinality(s \ {e}) = Cardinality(s) - 1
  BY <1>2, FS_CardinalityType, FS_RemoveElement
<1> QED
  BY <1>3, <1>6, <1>7, <1>8, <1>9

\* The sums of the specifications.
LEMMA SumSetIs ==
  ASSUME NEW f, NEW S
  PROVE  MapThenSumSet(LAMBDA x : f[x], S) = SumOf(f, S)
BY DEF MapThenSumSet, MapThenFoldSet, SumOf, Summation, IsSum, One

-----------------------------------------------------------------------------
(***************************************************************************)
(* The slots of the dimensions.                                            *)
(***************************************************************************)

\* The common multiple is a positive number.
LEMMA MultipleTyped == multiple[n] \in Nat
<1> DEFINE step == [m \in 1..n |-> [v \in Nat |-> m * v]]
           IsMultiple(f) == f = [k \in 0..n |-> IF k = 0 THEN 1 ELSE k * f[k - 1]]
<1>1. n \in Nat
  BY AllocationAssumption
<1>2. IsStep(Nat, 1, step, n)
  BY <1>1 DEF IsStep
<1> HIDE DEF step
<1>3. PICK f : Follows(f, Nat, 1, step, n)
  BY <1>2, RecursionExists
<1> USE DEF step
<1>4. ASSUME NEW k \in 0..n
      PROVE  f[k] = IF k = 0 THEN 1 ELSE k * f[k - 1]
  <2>1. k # 0 => k \in 1..n /\ k - 1 \in 0..n
    BY <1>1
  <2> QED
    BY <1>3, <2>1 DEF Follows
<1>5. IsMultiple(f)
  BY <1>3, <1>4 DEF Follows
<1>6. multiple = CHOOSE g : IsMultiple(g)
  BY DEF multiple
<1> HIDE DEF IsMultiple, step
<1>7. IsMultiple(multiple)
  BY <1>5, <1>6
<1>8. \A k \in 0..n : multiple[k] = IF k = 0 THEN 1 ELSE k * multiple[k - 1]
  BY <1>7 DEF IsMultiple
<1> DEFINE Bad == {k \in 0..n : multiple[k] \notin Nat}
<1>9. SUFFICES ASSUME n \in Bad PROVE FALSE
  BY <1>1
<1>10. PICK k \in Bad : \A x \in Bad : k <= x
  <2>1. Bad \in SUBSET Nat
    BY <1>1
  <2> HIDE DEF Bad
  <2> QED
    BY <1>9, <2>1, LeastExists
<1>11. k \in 0..n /\ multiple[k] \notin Nat
  OBVIOUS
<1>12. k # 0 /\ k - 1 \in 0..n
  <2>1. multiple[0] = 1
    BY <1>1, <1>8
  <2> QED
    BY <1>1, <1>11, <2>1
<1>13. multiple[k - 1] \in Nat
  <2>1. ~(k <= k - 1)
    BY <1>11
  <2> QED
    BY <1>10, <1>12, <2>1
<1>14. multiple[k] = k * multiple[k - 1]
  BY <1>8, <1>11, <1>12
<1> HIDE DEF Bad
<1> QED
  BY <1>1, <1>11, <1>13, <1>14

\* Whole part and remainder.
LEMMA Division ==
  ASSUME NEW a \in Nat, NEW u \in Nat, u > 0
  PROVE  a \div u \in Nat /\ a % u \in 0..u-1 /\ a = u * (a \div u) + (a % u)
<1>1. a \div u \in Nat
  OBVIOUS
<1>2. a % u \in 0..u-1
  OBVIOUS
<1>3. a = u * (a \div u) + (a % u)
  OBVIOUS
<1> QED
  BY <1>1, <1>2, <1>3

\* Whole parts and remainders of shares: what the whole parts leave of the sum of the shares
\* is the sum of the remainders, each of them less than one part.
LEMMA LeftByFloors ==
  ASSUME NEW S, IsFiniteSet(S), S # {}, NEW c \in Nat, NEW w \in [S -> Nat],
         NEW q, NEW u \in Nat, u = SumOf(w, S), u > 0,
         \A x \in S : q[x] = 1 + (c * w[x]) \div u
  PROVE  /\ SumOf(q, S) \in Int
         /\ SumOf(q, S) <= Cardinality(S) + c
         /\ Cardinality(S) + c - SumOf(q, S) < Cardinality(S)
<1> DEFINE p == [x \in S |-> c * w[x]]
           r == [x \in S |-> (c * w[x]) % u]
           b == [x \in S |-> (c * w[x]) \div u]
           ub == [x \in S |-> u * b[x]]
           ones == [x \in S |-> 1]
           card == Cardinality(S)
<1>1. \A x \in S : /\ c * w[x] \in Nat
                   /\ b[x] \in Int /\ r[x] \in 0..u-1 /\ r[x] \in Int
                   /\ c * w[x] = u * b[x] + r[x]
  <2>1. ASSUME NEW x \in S PROVE c * w[x] \in Nat
    OBVIOUS
  <2>2. \A z \in Nat : /\ z \div u \in Nat /\ z % u \in 0..u-1
                       /\ z = u * (z \div u) + (z % u)
    BY Division
  <2> QED
    BY <2>1, <2>2
<1>2. card \in Nat /\ card > 0
  BY FS_CardinalityType, FS_EmptySet
<1>3. SumOf(p, S) = c * u
  BY SumOfMultiples
<1>4. \A x \in S : p[x] = ub[x] + r[x] /\ ub[x] \in Int /\ r[x] \in Int
  BY <1>1
<1>5. \A x \in S : q[x] = ones[x] + b[x] /\ ones[x] \in Int /\ b[x] \in Int
  BY <1>1
<1>6. \A x \in S : ub[x] = u * b[x] /\ b[x] \in Int
  BY <1>1
<1>7. \A x \in S : r[x] \in Nat /\ r[x] <= u - 1
  BY <1>1
<1>8. \A x \in S : ones[x] \in Int /\ ones[x] <= 1
  OBVIOUS
<1> HIDE DEF p, r, b, ub
<1>9. SumOf(p, S) = SumOf(ub, S) + SumOf(r, S)
  BY <1>4, SumOfBoth
<1>10. SumOf(q, S) = SumOf(ones, S) + SumOf(b, S)
  BY <1>5, SumOfBoth
<1>11. SumOf(ub, S) = u * SumOf(b, S)
  BY <1>6, SumOfMultiples
<1>12. SumOf(ones, S) = card
  BY SumOfOnes
<1>13. SumOf(r, S) \in Nat /\ SumOf(r, S) <= (u - 1) * card
  <2>1. SumOf(r, S) \in Nat
    BY <1>7, SumOfNat
  <2> DEFINE most == u - 1
  <2>2. most \in Int /\ \A x \in S : r[x] \in Int /\ r[x] <= most
    BY <1>7
  <2> HIDE DEF most
  <2>3. SumOf(r, S) <= most * Cardinality(S)
    BY <2>2, SumOfBounded
  <2> QED
    BY <2>1, <2>3 DEF most
<1>14. SumOf(b, S) \in Int
  BY <1>6, SumOfInt
<1> DEFINE B == SumOf(b, S)
           R == SumOf(r, S)
<1>15. u * c = u * B + R
  BY <1>3, <1>9, <1>11
<1>16. B \in Int /\ R \in Nat /\ R <= (u - 1) * card
  BY <1>13, <1>14
<1> HIDE DEF B, R, card
<1>17. B <= c /\ c - B < card
  <2>1. R = u * (c - B) /\ R < u * card
    <3>1. u * (c - B) = u * c - u * B /\ (u - 1) * card = u * card - card
      BY <1>2, <1>16
    <3>2. u * c \in Int /\ u * B \in Int /\ u * card \in Int
      BY <1>2, <1>16
    <3> QED
      BY <1>2, <1>15, <1>16, <3>1, <3>2
  <2>2. ASSUME c - B < 0 PROVE FALSE
    BY <1>16, <2>1, <2>2
  <2>3. ASSUME card <= c - B PROVE FALSE
    BY <1>2, <1>16, <2>1, <2>3
  <2> QED
    BY <1>2, <1>16, <2>2, <2>3
<1>18. SumOf(q, S) = card + B
  BY <1>10, <1>12 DEF B
<1> QED
  BY <1>2, <1>16, <1>17, <1>18 DEF card

\* The remainders suffice at every stage, for lengths that are numbers.
AllocationInv ==
  /\ df \in [Dimensions -> 0..n] /\ rule \in {"uniform", "inverse", "idf"} /\ ell \in Ells
  /\ lengths \in [Dimensions -> Int]
  /\ taken \in SUBSET Dimensions
  /\ stage = "check" => taken = {}
  /\ RemaindersSuffice

\* The weights of all three rules are naturals.
LEMMA WeightsTyped ==
  ASSUME AllocationInv
  PROVE  weights \in [Dimensions -> Nat]
<1> DEFINE w(j) == CASE rule = "uniform" -> 1
                     [] rule # "uniform" /\ df[j] = 0 -> 0
                     [] rule = "inverse" /\ df[j] > 0 -> multiple[n] \div df[j]
                     [] rule = "idf" /\ df[j] > 0 -> RarityWeight[df[j]]
<1>1. ASSUME NEW j \in Dimensions
      PROVE  w(j) \in Nat
  <2>1. df[j] \in Nat /\ df[j] \in 0..n /\ n \in Nat
    BY AllocationAssumption DEF AllocationInv
  <2>2. CASE rule = "uniform"
    BY <2>2
  <2>3. CASE rule # "uniform" /\ df[j] = 0
    BY <2>3
  <2>4. CASE rule = "inverse" /\ df[j] > 0
    <3>1. multiple[n] \div df[j] \in Nat
      BY <2>1, <2>4, MultipleTyped, Division
    <3> QED
      BY <2>1, <2>4, <3>1
  <2>5. CASE rule = "idf" /\ df[j] > 0
    <3>1. RarityWeight[df[j]] \in Nat
      BY <2>1, <2>5, AllocationAssumption
    <3> QED
      BY <2>1, <2>5, <3>1
  <2> QED
    BY <2>1, <2>2, <2>3, <2>4, <2>5 DEF AllocationInv
<1>2. weights = [j \in Dimensions |-> w(j)]
  BY DEF weights
<1> HIDE DEF w
<1> QED
  BY <1>1, <1>2

\* Allocation's sum of the weights.
LEMMA SumIs == sum = SumOf(weights, Dimensions)
BY SumSetIs DEF sum

\* Allocation's sum of the lengths, before and after a step.
LEMMA TotalIs == total = SumOf(lengths, Dimensions) /\ total' = SumOf(lengths', Dimensions)
<1>1. total = SumOf(lengths, Dimensions)
  BY SumSetIs DEF total
<1>2. total' = SumOf(lengths', Dimensions)
  BY DEF total, Dimensions, MapThenSumSet, MapThenFoldSet, SumOf, Summation, IsSum, One
<1> QED
  BY <1>1, <1>2

\* There is a dimension, and there are finitely many.
LEMMA DimensionsFinite ==
  /\ IsFiniteSet(Dimensions) /\ Dimensions # {} /\ Cardinality(Dimensions) = d
  /\ d \in Nat \ {0} /\ n \in Nat /\ Ells \subseteq Nat
<1>1. d \in Nat \ {0} /\ n \in Nat /\ Ells \subseteq Nat
  BY AllocationAssumption
<1>2. IsFiniteSet(1..d) /\ Cardinality(1..d) = d
  <2>1. 1 \in Int /\ d \in Int /\ ~(1 > d) /\ d - 1 + 1 = d
    BY <1>1
  <2> QED
    BY <2>1, FS_Interval
<1>3. 1 \in 1..d
  BY <1>1
<1> QED
  BY <1>1, <1>2, <1>3 DEF Dimensions

\* No slot is allocated at first.
LEMMA AllocationInit == AllocateInit => AllocationInv
<1>1. SUFFICES ASSUME AllocateInit PROVE AllocationInv
  OBVIOUS
<1>2. lengths \in [Dimensions -> Int]
  BY <1>1 DEF AllocateInit
<1> QED
  BY <1>1, <1>2 DEF AllocateInit, AllocationInv, RemaindersSuffice

\* The floors leave fewer slots than there are dimensions.
LEMMA FloorsLeave ==
  ASSUME AllocationInv, FloorAll
  PROVE  AllocationInv'
<1>1. /\ stage = "check" /\ ell \in Nat /\ ell >= 1 /\ sum > 0 /\ taken = {} /\ taken' = {}
      /\ lengths' = [j \in Dimensions |-> 1 + (d * (ell - 1) * weights[j]) \div sum]
      /\ stage' = "remainders" /\ df' = df /\ rule' = rule /\ ell' = ell
  BY DimensionsFinite DEF AllocationInv, FloorAll, Floor, Share
<1>2. weights \in [Dimensions -> Nat]
  BY WeightsTyped
<1>3. sum \in Nat /\ sum = SumOf(weights, Dimensions)
  <2>1. SumOf(weights, Dimensions) \in Nat
    BY <1>2, DimensionsFinite, SumOfNat
  <2> QED
    BY <2>1, SumIs
<1> DEFINE c == d * (ell - 1)
           u == sum
<1>4. c \in Nat
  BY <1>1, DimensionsFinite
<1>5. \A j \in Dimensions : lengths'[j] = 1 + (c * weights[j]) \div u
  BY <1>1
<1>6. u \in Nat /\ u > 0 /\ u = SumOf(weights, Dimensions)
  BY <1>1, <1>3
<1> HIDE DEF c, u
<1>7. /\ SumOf(lengths', Dimensions) \in Int
      /\ SumOf(lengths', Dimensions) <= Cardinality(Dimensions) + c
      /\ Cardinality(Dimensions) + c - SumOf(lengths', Dimensions) < Cardinality(Dimensions)
  BY <1>2, <1>4, <1>5, <1>6, DimensionsFinite, LeftByFloors
<1>8. d + c = d * ell
  BY <1>1, DimensionsFinite DEF c
<1>9. budget' = d * ell /\ Dimensions \ taken' = Dimensions
  BY <1>1 DEF budget
<1>10. total' \in Int /\ total' <= budget' /\ budget' - total' <= Cardinality(Dimensions \ taken')
  BY <1>1, <1>4, <1>7, <1>8, <1>9, DimensionsFinite, TotalIs
<1>11. lengths' \in [Dimensions -> Int]
  <2>1. \A j \in Dimensions : (c * weights[j]) \div u \in Int
    BY <1>2, <1>4, <1>6, Division
  <2>2. lengths' = [j \in Dimensions |-> 1 + (c * weights[j]) \div u]
    BY <1>1 DEF c, u
  <2> QED
    BY <2>1, <2>2
<1>12. RemaindersSuffice'
  BY <1>10 DEF RemaindersSuffice, Dimensions
<1> QED
  BY <1>1, <1>11, <1>12 DEF AllocationInv, Dimensions

\* A slot for a remainder is one for the total and one dimension less to get one.
LEMMA RemainderLeaves ==
  ASSUME AllocationInv, TakeRemainder
  PROVE  AllocationInv'
<1>1. PICK j \in Dimensions \ taken :
        lengths' = [lengths EXCEPT ![j] = @ + 1] /\ taken' = taken \union {j}
  BY DEF TakeRemainder
<1>2. /\ stage = "remainders" /\ stage' = stage /\ total < budget
      /\ df' = df /\ rule' = rule /\ ell' = ell
      /\ ell \in Nat /\ lengths \in [Dimensions -> Int] /\ taken \in SUBSET Dimensions
      /\ total <= budget /\ budget - total <= Cardinality(Dimensions \ taken)
  BY DimensionsFinite DEF TakeRemainder, AllocationInv, RemaindersSuffice
<1>3. lengths' \in [Dimensions -> Int] /\ lengths'[j] = lengths[j] + 1
  BY <1>1, <1>2
<1>4. total = lengths[j] + SumOf(lengths, Dimensions \ {j})
  BY <1>2, DimensionsFinite, TotalIs, SumOfTakes
<1>5. total' = lengths'[j] + SumOf(lengths', Dimensions \ {j})
  <2> DEFINE l == lengths'
  <2>1. l \in [Dimensions -> Int] /\ total' = SumOf(l, Dimensions)
    BY <1>3, TotalIs
  <2> HIDE DEF l
  <2>2. SumOf(l, Dimensions) = l[j] + SumOf(l, Dimensions \ {j})
    BY <2>1, DimensionsFinite, SumOfTakes
  <2> QED
    BY <2>1, <2>2 DEF l
<1>6. SumOf(lengths', Dimensions \ {j}) = SumOf(lengths, Dimensions \ {j})
  <2>1. \A x \in Dimensions \ {j} : lengths'[x] = lengths[x]
    BY <1>1, <1>2
  <2>2. IsFiniteSet(Dimensions \ {j})
    BY DimensionsFinite, FS_Subset
  <2> QED
    BY <2>1, <2>2, SumOfEqual
<1>7. total \in Int /\ budget \in Int /\ SumOf(lengths, Dimensions \ {j}) \in Int
  <2>1. IsFiniteSet(Dimensions \ {j})
    BY DimensionsFinite, FS_Subset
  <2>2. SumOf(lengths, Dimensions) \in Int /\ SumOf(lengths, Dimensions \ {j}) \in Int
    BY <1>2, <2>1, DimensionsFinite, SumOfInt
  <2>3. d * ell \in Int
    BY <1>2, DimensionsFinite
  <2> QED
    BY <2>2, <2>3, TotalIs DEF budget
<1>8. total' = total + 1 /\ budget' = budget
  BY <1>2, <1>3, <1>4, <1>5, <1>6, <1>7 DEF budget
<1>9. /\ Cardinality(Dimensions \ taken') = Cardinality(Dimensions \ taken) - 1
      /\ Cardinality(Dimensions \ taken) \in Nat
  <2>1. IsFiniteSet(Dimensions \ taken) /\ Dimensions \ taken' = (Dimensions \ taken) \ {j}
    BY <1>1, DimensionsFinite, FS_Subset
  <2> QED
    BY <2>1, FS_RemoveElement, FS_CardinalityType
<1>10. total' <= budget' /\ budget' - total' <= Cardinality(Dimensions \ taken')
  BY <1>2, <1>7, <1>8, <1>9
<1>11. RemaindersSuffice'
  BY <1>10 DEF RemaindersSuffice, Dimensions
<1>12. taken' \in SUBSET Dimensions
  BY <1>1, <1>2
<1> QED
  BY <1>2, <1>3, <1>11, <1>12 DEF AllocationInv, Dimensions

\* Every step of the allocation keeps the invariant.
LEMMA AllocationStep == AllocationInv /\ [AllocateNext]_allocation => AllocationInv'
<1>1. SUFFICES ASSUME AllocationInv, [AllocateNext]_allocation PROVE AllocationInv'
  OBVIOUS
<1>2. CASE FloorAll
  BY <1>1, <1>2, FloorsLeave
<1>3. CASE TakeRemainder
  BY <1>1, <1>3, RemainderLeaves
<1>4. CASE Refuse
  BY <1>1, <1>4 DEF Refuse, AllocationInv, RemaindersSuffice, Dimensions
<1>5. CASE SetOffsets
  BY <1>1, <1>5 DEF SetOffsets, AllocationInv, RemaindersSuffice, Dimensions
<1>6. CASE UNCHANGED allocation
  <2>1. total' = total
    BY <1>6, TotalIs DEF allocation
  <2> QED
    BY <1>1, <1>6, <2>1 DEF allocation, AllocationInv, RemaindersSuffice, Dimensions, budget
<1> QED
  BY <1>1, <1>2, <1>3, <1>4, <1>5, <1>6 DEF AllocateNext

\* For every number of dimensions, every document frequencies, rule and capacity: the floors
\* stay within the budget, and the slots they leave are at most one for each dimension that
\* has got none yet, so that Expansion::allocate never finds a rounding error in exact arithmetic.
THEOREM FloorsLeaveRemainders == AllocateSpec => []RemaindersSuffice
<1>1. AllocationInv => RemaindersSuffice
  BY DEF AllocationInv
<1> QED
  BY <1>1, AllocationInit, AllocationStep, PTL DEF AllocateSpec

-----------------------------------------------------------------------------
(***************************************************************************)
(* The tables: a counting sort of the members by signature, and additions. *)
(***************************************************************************)

\* the place of a member in the buckets: behind those of smaller signatures and, among those
\* of the same, behind the earlier ones
Ahead(j) == {k \in DOMAIN sigs : sigs[k] < sigs[j] \/ (sigs[k] = sigs[j] /\ k < j)}
PlaceOf(j) == 1 + Cardinality(Ahead(j))

Signed == sigs = [j \in DOMAIN members |-> Signature(sketch[members[j]])]

LaidOut ==
  /\ keys = Ascending({s \in Slots : Count(s) > 0})
  /\ offsets = [k \in 1..Len(keys) + 1 |-> Start(IF k <= Len(keys) THEN keys[k] ELSE Universe)]
  /\ ids \in [1..Start(Universe) - 1 -> Nat]

Filled ==
  /\ cursor \in [Slots -> Nat]
  /\ \A s \in Slots : Count(s) > 0 =>
       cursor[s] = Start(s) + Cardinality({k \in 1..next - 1 : sigs[k] = s})
  /\ \A j \in 1..next - 1 : sigs[j] # no_slot => ids[PlaceOf(j)] = members[j]

AdditionsInv ==
  /\ additions \in [Slots -> Seq(Identifiers)]
  /\ \A s \in Slots :
       /\ IsInjective(additions[s])
       /\ \A k \in DOMAIN additions[s] :
            /\ Signature(sketch[additions[s][k]]) = s
            /\ additions[s][k] \notin ToSet(members)

TableInv ==
  /\ rank \in [Slots -> Slots] /\ sketch \in [Identifiers -> SUBSET Slots]
  /\ members \in Seq(Identifiers) /\ IsInjective(members)
  /\ progress \in {"sign", "lay out", "place", "built"}
  /\ next \in 1..Len(members) + 1
  /\ progress \in {"sign", "lay out"} => next = 1
  /\ progress = "built" => next = Len(members) + 1
  /\ progress # "sign" => Signed
  /\ progress \in {"place", "built"} => LaidOut /\ Filled
  /\ AdditionsInv

\* There is a slot, and there are finitely many.
LEMMA SlotsFinite ==
  /\ IsFiniteSet(Slots) /\ Slots \in SUBSET Nat /\ Universe \in Nat /\ Universe > 0
  /\ \A S \in SUBSET Slots : IsFiniteSet(S)
  /\ no_slot \notin Slots
<1>1. Universe \in Nat /\ Universe > 0
  BY TableAssumption
<1>2. IsFiniteSet(0..Universe-1)
  BY <1>1, FS_Interval
<1>3. \A S \in SUBSET Slots : IsFiniteSet(S)
  BY <1>2, FS_Subset DEF Slots
<1> QED
  BY <1>1, <1>2, <1>3 DEF Slots, no_slot

\* The slots are numbers below the universe.
LEMMA SlotsAreNumbers == \A s \in Slots : s \in Nat /\ s \in Int /\ s \in 0..Universe /\ s < Universe
<1>1. Universe \in Nat
  BY TableAssumption
<1> QED
  BY <1>1 DEF Slots

\* A finite set of naturals has an ascending list.
LEMMA AscendingIs ==
  ASSUME NEW S \in SUBSET Nat, IsFiniteSet(S)
  PROVE  /\ Ascending(S) \in [1..Cardinality(S) -> S]
         /\ \A j, k \in 1..Cardinality(S) : j < k => Ascending(S)[j] < Ascending(S)[k]
         /\ \A x \in S : \E k \in 1..Cardinality(S) : Ascending(S)[k] = x
<1> DEFINE Lists(T, f) == /\ f \in [1..Cardinality(T) -> T]
                          /\ \A j, k \in DOMAIN f : j < k => f[j] < f[k]
           Bad == {T \in SUBSET S : ~ \E f : Lists(T, f)}
<1>1. \E f : Lists(S, f)
  <2>1. SUFFICES ASSUME S \in Bad PROVE FALSE
    OBVIOUS
  <2>2. PICK T \in Bad : IsFiniteSet(T) /\ \A e \in T : T \ {e} \notin Bad
    <3> HIDE DEF Bad
    <3> QED
      BY <2>1, LeastBadSet
  <2>3. T \in SUBSET S /\ ~ \E f : Lists(T, f)
    OBVIOUS
  <2>4. T # {}
    <3>1. Cardinality({}) = 0
      BY FS_EmptySet
    <3>2. Lists({}, [k \in 1..0 |-> 0])
      BY <3>1
    <3> HIDE DEF Lists, Bad
    <3> QED
      BY <2>3, <3>2
  <2>5. T \in SUBSET Int
    BY <2>3
  <2> DEFINE m == Max(T)
             c == Cardinality(T)
             R == T \ {m}
  <2>6. m \in T /\ \A y \in T : m >= y
    BY <2>2, <2>4, <2>5, MaxIs
  <2>7. R \in SUBSET S /\ ~(R \in Bad) /\ c \in Nat /\ c > 0 /\ Cardinality(R) = c - 1
    <3>1. R \notin Bad
      BY <2>2, <2>6
    <3>2. c \in Nat /\ Cardinality(R) = c - 1
      BY <2>2, <2>6, FS_CardinalityType, FS_RemoveElement
    <3>3. c # 0
      BY <2>2, <2>4, FS_EmptySet
    <3>4. R \in SUBSET S
      BY <2>3
    <3> HIDE DEF Bad, m, c, R
    <3> QED
      BY <3>1, <3>2, <3>3, <3>4
  <2> HIDE DEF m, c
  <2>8. PICK g : Lists(R, g)
    BY <2>7
  <2> HIDE DEF Bad
  <2> DEFINE f == [k \in 1..c |-> IF k = c THEN m ELSE g[k]]
  <2>13. g \in [1..c-1 -> R] /\ \A j, k \in 1..c-1 : j < k => g[j] < g[k]
    <3>1. g \in [1..Cardinality(R) -> R] /\ \A j, k \in DOMAIN g : j < k => g[j] < g[k]
      BY <2>8
    <3>2. DOMAIN g = 1..c-1
      BY <2>7, <3>1
    <3> HIDE DEF R
    <3> QED
      BY <2>7, <3>1, <3>2
  <2>9. \A k \in 1..c : k # c => k \in 1..c-1 /\ g[k] \in R
    <3> HIDE DEF R
    <3> QED
      BY <2>7, <2>13
  <2>10. f \in [1..c -> T]
    BY <2>6, <2>7, <2>9
  <2>11. ASSUME NEW j \in 1..c, NEW k \in 1..c, j < k
         PROVE  f[j] < f[k]
    <3>1. j # c /\ f[j] = g[j] /\ g[j] \in R
      BY <2>7, <2>9, <2>11
    <3>4. g[j] \in T /\ g[j] # m /\ g[j] \in Int /\ m \in Int
      BY <2>5, <2>6, <3>1
    <3>2. CASE k = c
      <4>1. f[k] = m
        BY <3>2
      <4> QED
        BY <2>6, <3>1, <3>4, <4>1
    <3>3. CASE k # c
      <4>1. f[k] = g[k] /\ j \in 1..c-1 /\ k \in 1..c-1
        BY <2>9, <3>1, <3>3
      <4> QED
        BY <2>11, <2>13, <3>1, <4>1
    <3> QED
      BY <3>2, <3>3
  <2>12. Lists(T, f)
    <3> HIDE DEF f
    <3> QED
      BY <2>10, <2>11 DEF c
  <2> HIDE DEF Lists, f
  <2> QED
    BY <2>3, <2>12
<1>2. Ascending(S) = CHOOSE f : Lists(S, f)
  BY DEF Ascending
<1> DEFINE a == Ascending(S)
           c == Cardinality(S)
<1>3. Lists(S, a)
  <2> HIDE DEF Lists
  <2> QED
    BY <1>1, <1>2
<1>4. a \in [1..c -> S] /\ \A j, k \in 1..c : j < k => a[j] < a[k]
  BY <1>3
<1> HIDE DEF a, Lists
<1>5. c \in Nat /\ IsFiniteSet(1..c) /\ Cardinality(1..c) = c
  <2>1. c \in Nat
    BY FS_CardinalityType
  <2> HIDE DEF c
  <2>2. 1 \in Int /\ c \in Int /\ (1 > c => c = 0) /\ c - 1 + 1 = c
    BY <2>1
  <2> QED
    BY <2>1, <2>2, FS_Interval
<1>6. a \in Injection(1..c, S)
  <2>1. ASSUME NEW j \in 1..c, NEW k \in 1..c, a[j] = a[k] PROVE j = k
    <3>1. a[j] \in Nat /\ a[k] \in Nat /\ j \in Int /\ k \in Int
      <4>1. a[j] \in S /\ a[k] \in S
        BY <1>4
      <4>2. a[j] \in Nat /\ a[k] \in Nat
        BY <4>1
      <4> HIDE DEF c, Bad
      <4>3. j \in Int /\ k \in Int
        BY <1>5
      <4> QED
        BY <4>2, <4>3
    <3>2. j < k \/ k < j \/ j = k
      BY <3>1
    <3> QED
      BY <1>4, <2>1, <3>1, <3>2
  <2> QED
    BY <1>4, <2>1 DEF Injection, IsInjective
<1>7. a \in Surjection(1..c, S)
  BY <1>5, <1>6, FS_Injection DEF c
<1>8. \A x \in S : \E k \in 1..c : a[k] = x
  BY <1>7 DEF Surjection
<1> QED
  BY <1>4, <1>8 DEF a, c

\* A signature is a slot of the sketch.
LEMMA SignatureIs ==
  ASSUME TableInv, NEW slots \in SUBSET Slots
  PROVE  /\ slots = {} => Signature(slots) = no_slot
         /\ slots # {} => Signature(slots) \in slots
<1>1. CASE slots = {}
  BY <1>1 DEF Signature
<1>2. CASE slots # {}
  <2> DEFINE ranks == {rank[s] : s \in slots}
  <2>1. \A s \in slots : rank[s] \in Nat
    BY SlotsFinite DEF TableInv
  <2>2. ranks \in SUBSET Nat /\ ranks # {}
    BY <1>2, <2>1
  <2>3. PICK x \in ranks : \A y \in ranks : x <= y
    <3> HIDE DEF ranks
    <3> QED
      BY <2>2, LeastExists
  <2>4. \E s \in slots : \A t \in slots : rank[s] <= rank[t]
    BY <2>3
  <2> QED
    BY <1>2, <2>4 DEF Signature
<1> QED
  BY <1>1, <1>2

\* A member's signature is a slot, or none when its sketch is empty.
LEMMA SignaturesTyped ==
  ASSUME TableInv, progress # "sign"
  PROVE  /\ DOMAIN members = 1..Len(members) /\ DOMAIN sigs = 1..Len(members)
         /\ Len(members) \in Nat /\ IsFiniteSet(DOMAIN sigs)
         /\ Cardinality(DOMAIN sigs) = Len(members)
         /\ \A j \in DOMAIN sigs :
              /\ members[j] \in Identifiers
              /\ sigs[j] = Signature(sketch[members[j]])
              /\ sigs[j] \in 0..Universe
              /\ sigs[j] \in Slots \/ sigs[j] = no_slot
              /\ sigs[j] # no_slot => sigs[j] \in Slots
<1>1. members \in Seq(Identifiers) /\ Signed
  BY DEF TableInv
<1>2. DOMAIN members = 1..Len(members) /\ Len(members) \in Nat
  BY <1>1
<1>3. DOMAIN sigs = 1..Len(members)
  BY <1>1, <1>2 DEF Signed
<1>4. \A j \in DOMAIN sigs : members[j] \in Identifiers /\ sigs[j] = Signature(sketch[members[j]])
  BY <1>1, <1>2, <1>3 DEF Signed
<1>5. ASSUME NEW j \in DOMAIN sigs
      PROVE  sigs[j] \in Slots \/ sigs[j] = no_slot
  <2>1. sketch[members[j]] \in SUBSET Slots
    BY <1>4 DEF TableInv
  <2> QED
    BY <1>4, <2>1, SignatureIs
<1>6. Slots \subseteq 0..Universe /\ no_slot \in 0..Universe
  BY SlotsFinite DEF Slots, no_slot
<1>7. IsFiniteSet(DOMAIN sigs) /\ Cardinality(DOMAIN sigs) = Len(members)
  <2>1. 1 \in Int /\ Len(members) \in Int /\ (1 > Len(members) => Len(members) = 0)
        /\ Len(members) - 1 + 1 = Len(members)
    BY <1>2
  <2> QED
    BY <1>3, <2>1, FS_Interval
<1> QED
  BY <1>2, <1>3, <1>4, <1>5, <1>6, <1>7

\* Members by signature.
Having(T) == {j \in DOMAIN sigs : sigs[j] \in T}

\* There are at most as many as members.
LEMMA HavingFinite ==
  ASSUME TableInv, progress # "sign", NEW T
  PROVE  IsFiniteSet(Having(T)) /\ Cardinality(Having(T)) \in Nat /\ Having(T) \subseteq DOMAIN sigs
         /\ Cardinality(Having(T)) <= Len(members)
<1>1. Having(T) \in SUBSET DOMAIN sigs
  BY DEF Having
<1> QED
  BY <1>1, SignaturesTyped, FS_Subset, FS_CardinalityType

\* Of disjoint sets of signatures.
LEMMA HavingBoth ==
  ASSUME TableInv, progress # "sign", NEW T, NEW R, T \cap R = {}
  PROVE  Cardinality(Having(T \cup R)) = Cardinality(Having(T)) + Cardinality(Having(R))
<1>1. Having(T \cup R) = Having(T) \cup Having(R) /\ Having(T) \cap Having(R) = {}
  BY DEF Having
<1>2. Cardinality(Having(T) \cup Having(R))
        = Cardinality(Having(T)) + Cardinality(Having(R)) - Cardinality(Having(T) \cap Having(R))
  BY HavingFinite, FS_Union
<1>3. Cardinality({}) = 0
  BY FS_EmptySet
<1>4. Cardinality(Having(T)) \in Nat /\ Cardinality(Having(R)) \in Nat
  BY HavingFinite
<1>5. Cardinality(Having(T) \cap Having(R)) = 0
  BY <1>1, <1>3, Zenon
<1>6. Cardinality(Having(T \cup R)) = Cardinality(Having(T) \cup Having(R))
  BY <1>1, Zenon
<1> QED
  BY <1>2, <1>4, <1>5, <1>6

\* The count of a slot.
LEMMA CountIs ==
  ASSUME TableInv, progress # "sign", NEW s
  PROVE  Count(s) = Cardinality(Having({s})) /\ Count(s) \in Nat
<1>1. {j \in DOMAIN sigs : sigs[j] = s} = Having({s})
  BY DEF Having
<1> QED
  BY <1>1, HavingFinite DEF Count

\* The counts of some slots add up to the members with one of these signatures.
LEMMA CountsAddUp ==
  ASSUME TableInv, progress # "sign", NEW T \in SUBSET Slots
  PROVE  MapThenSumSet(Count, T) = Cardinality(Having(T))
<1> DEFINE f == [s \in Slots |-> Count(s)]
           D(g) == g = [s \in SUBSET T |->
                          IF s = {} THEN 0 ELSE Count(One(s)) + g[s \ {One(s)}]]
<1>1. ASSUME NEW g PROVE D(g) <=> IsSum(g, f, T)
  <2>1. ASSUME NEW s \in SUBSET T, s # {}
        PROVE  Count(One(s)) = f[One(s)]
    <3>1. One(s) \in Slots
      BY <2>1 DEF One
    <3> QED
      BY <3>1
  <2>2. [s \in SUBSET T |-> IF s = {} THEN 0 ELSE Count(One(s)) + g[s \ {One(s)}]]
        = [s \in SUBSET T |-> IF s = {} THEN 0 ELSE f[One(s)] + g[s \ {One(s)}]]
    <3> HIDE DEF f
    <3> QED
      BY <2>1
  <2> QED
    BY <2>2 DEF IsSum
<1>2. MapThenSumSet(Count, T) = (CHOOSE g : D(g))[T]
  BY DEF MapThenSumSet, MapThenFoldSet, One
<1>3. \A s \in Slots : f[s] \in Int /\ f[s] = Cardinality(Having({s}))
  BY CountIs
<1> HIDE DEF f
<1>4. IsFiniteSet(T)
  BY SlotsFinite
<1>5. \E g : D(g)
  <2> HIDE DEF D
  <2> QED
    BY <1>1, <1>4, SumExists
<1> DEFINE G == CHOOSE g : D(g)
<1>6. D(G)
  <2> HIDE DEF D
  <2> QED
    BY <1>5
<1> HIDE DEF G, D
<1>7. IsSum(G, f, T)
  BY <1>1, <1>6
<1>8. G[T] = SumOf(f, T)
  <2>1. IsSum(Summation(f, T), f, T)
    BY <1>4, SummationIs
  <2>2. G[T] = Summation(f, T)[T]
    BY <1>4, <1>7, <2>1, SumsAgree
  <2> QED
    BY <2>2 DEF SumOf
<1> DEFINE Bad == {S \in SUBSET T : SumOf(f, S) # Cardinality(Having(S))}
<1>9. SUFFICES ASSUME T \in Bad PROVE FALSE
  BY <1>2, <1>8 DEF G
<1>10. PICK S \in Bad : IsFiniteSet(S) /\ \A e \in S : S \ {e} \notin Bad
  <2> HIDE DEF Bad
  <2> QED
    BY <1>4, <1>9, LeastBadSet
<1>11. S \in SUBSET T /\ S \in SUBSET Slots /\ SumOf(f, S) # Cardinality(Having(S))
  OBVIOUS
<1>12. S # {}
  <2>1. Having({}) = {}
    BY DEF Having
  <2>2. SumOf(f, {}) = 0 /\ Cardinality({}) = 0
    BY SumOfNone, FS_EmptySet
  <2>3. SumOf(f, {}) = Cardinality(Having({}))
    BY <2>1, <2>2
  <2> HIDE DEF Bad
  <2> QED
    BY <1>11, <2>3
<1>13. PICK e \in S : TRUE
  BY <1>12
<1>14. SumOf(f, S \ {e}) = Cardinality(Having(S \ {e}))
  BY <1>10, <1>11
<1>15. \A x \in S : f[x] \in Int /\ f[x] = Cardinality(Having({x}))
  BY <1>3, <1>11
<1> HIDE DEF Bad
<1>16. SumOf(f, S) = f[e] + SumOf(f, S \ {e})
  BY <1>10, <1>15, SumOfTakes
<1>17. Cardinality(Having(S)) = Cardinality(Having({e})) + Cardinality(Having(S \ {e}))
  <2>1. {e} \cap (S \ {e}) = {} /\ {e} \cup (S \ {e}) = S
    OBVIOUS
  <2> QED
    BY <2>1, HavingBoth
<1> QED
  BY <1>11, <1>14, <1>15, <1>16, <1>17

\* Where the bucket of a slot starts: behind the members of smaller signatures.
LEMMA StartIs ==
  ASSUME TableInv, progress # "sign", NEW s \in 0..Universe
  PROVE  /\ Start(s) = 1 + Cardinality(Having(0..s-1))
         /\ Start(s) \in Nat
<1>1. {t \in Slots : t < s} = 0..s-1 /\ 0..s-1 \in SUBSET Slots
  BY SlotsFinite DEF Slots
<1>2. Start(s) = 1 + Cardinality(Having(0..s-1))
  BY <1>1, CountsAddUp DEF Start
<1> QED
  BY <1>2, HavingFinite

\* The buckets of two slots with no members between them are next to each other.
LEMMA StartAfter ==
  ASSUME TableInv, progress # "sign", NEW s \in Slots, NEW t \in 0..Universe, s < t,
         \A u \in Slots : s < u /\ u < t => Count(u) = 0
  PROVE  Start(t) = Start(s) + Count(s)
<1>1. s \in 0..Universe /\ s \in Nat /\ t \in Nat /\ 0..t-1 \subseteq Slots
  BY SlotsFinite DEF Slots
<1>2. Having(0..t-1) = Having((0..s-1) \cup {s})
  <2>1. ASSUME NEW j \in DOMAIN sigs, sigs[j] \in 0..t-1, sigs[j] \notin (0..s-1) \cup {s}
        PROVE  FALSE
    <3>1. sigs[j] \in Slots /\ s < sigs[j] /\ sigs[j] < t
      BY <1>1, <2>1
    <3>2. Cardinality(Having({sigs[j]})) = 0 /\ IsFiniteSet(Having({sigs[j]}))
      BY <3>1, CountIs, HavingFinite
    <3>3. j \in Having({sigs[j]})
      BY DEF Having
    <3> QED
      BY <3>2, <3>3, FS_EmptySet
  <2>2. (0..s-1) \cup {s} \subseteq 0..t-1
    BY <1>1
  <2> QED
    BY <2>1, <2>2 DEF Having
<1>3. (0..s-1) \cap {s} = {}
  BY <1>1
<1>4. Cardinality(Having((0..s-1) \cup {s})) = Cardinality(Having(0..s-1)) + Cardinality(Having({s}))
  BY <1>3, HavingBoth
<1>5. Start(s) = 1 + Cardinality(Having(0..s-1)) /\ Start(t) = 1 + Cardinality(Having(0..t-1))
  BY <1>1, StartIs
<1>6. Count(s) = Cardinality(Having({s}))
  BY CountIs
<1>7. Cardinality(Having(0..s-1)) \in Nat /\ Cardinality(Having({s})) \in Nat
  BY HavingFinite
<1>8. Cardinality(Having(0..t-1)) = Cardinality(Having(0..s-1)) + Cardinality(Having({s}))
  BY <1>2, <1>4, Zenon
<1> QED
  BY <1>5, <1>6, <1>7, <1>8

-----------------------------------------------------------------------------
(***************************************************************************)
(* Places.                                                                 *)
(***************************************************************************)

\* Of two members with a signature, the one ahead has the smaller place.
LEMMA PlacesApart ==
  ASSUME TableInv, progress # "sign", NEW j \in DOMAIN sigs, NEW k \in DOMAIN sigs, j # k
  PROVE  PlaceOf(j) \in Nat /\ PlaceOf(k) \in Nat /\ PlaceOf(j) # PlaceOf(k)
<1>1. \A i \in DOMAIN sigs : sigs[i] \in Int /\ i \in Int
  BY SignaturesTyped, SlotsFinite
<1>2. \A i \in DOMAIN sigs : /\ Ahead(i) \in SUBSET DOMAIN sigs /\ IsFiniteSet(Ahead(i))
                             /\ Cardinality(Ahead(i)) \in Nat
  BY SignaturesTyped, FS_Subset, FS_CardinalityType DEF Ahead
<1>3. ASSUME NEW x \in DOMAIN sigs, NEW y \in DOMAIN sigs, x \in Ahead(y)
      PROVE  Cardinality(Ahead(x)) < Cardinality(Ahead(y))
  <2>1. Ahead(x) \subseteq Ahead(y)
    BY <1>1, <1>3 DEF Ahead
  <2>2. x \notin Ahead(x)
    BY <1>1 DEF Ahead
  <2>3. Cardinality(Ahead(x)) <= Cardinality(Ahead(y)) /\ Cardinality(Ahead(x)) # Cardinality(Ahead(y))
    BY <1>2, <1>3, <2>1, <2>2, FS_Subset
  <2> QED
    BY <1>2, <2>3
<1>4. j \in Ahead(k) \/ k \in Ahead(j)
  BY <1>1 DEF Ahead
<1> QED
  BY <1>2, <1>3, <1>4 DEF PlaceOf

\* The place of a member is in the bucket of its signature.
LEMMA PlaceInBucket ==
  ASSUME TableInv, progress # "sign", NEW j \in DOMAIN sigs, sigs[j] \in Slots
  PROVE  PlaceOf(j) \in Start(sigs[j]) .. Start(sigs[j]) + Count(sigs[j]) - 1
<1> DEFINE s == sigs[j]
           Smaller == Having(0..s-1)
           Earlier == {k \in Having({s}) : k < j}
<1>1. s \in Nat /\ s \in 0..Universe /\ j \in Int
  BY SignaturesTyped, SlotsFinite
<1>2. Ahead(j) = Smaller \cup Earlier /\ Smaller \cap Earlier = {}
  <2>1. \A k \in DOMAIN sigs : sigs[k] \in Nat
    BY SignaturesTyped, SlotsFinite
  <2> QED
    BY <1>1, <2>1 DEF Ahead, Having
<1>3. Earlier \in SUBSET Having({s}) /\ j \in Having({s}) /\ j \notin Earlier
  BY <1>1 DEF Having
<1> HIDE DEF Smaller, Earlier
<1>4. /\ IsFiniteSet(Having({s})) /\ IsFiniteSet(Smaller)
      /\ Cardinality(Smaller) \in Nat /\ Cardinality(Having({s})) \in Nat
  BY HavingFinite DEF Smaller
<1>5. /\ IsFiniteSet(Earlier) /\ Cardinality(Earlier) \in Nat
      /\ Cardinality(Earlier) < Cardinality(Having({s}))
  <2>1. /\ IsFiniteSet(Earlier) /\ Cardinality(Earlier) \in Nat
        /\ Cardinality(Earlier) <= Cardinality(Having({s}))
        /\ Cardinality(Earlier) # Cardinality(Having({s}))
    BY <1>3, <1>4, FS_Subset, FS_CardinalityType
  <2> QED
    BY <1>4, <2>1
<1>6. Cardinality(Ahead(j)) = Cardinality(Smaller) + Cardinality(Earlier)
  <2>1. Cardinality(Smaller \cup Earlier)
          = Cardinality(Smaller) + Cardinality(Earlier) - Cardinality(Smaller \cap Earlier)
    BY <1>4, <1>5, FS_Union
  <2>2. Cardinality({}) = 0
    BY FS_EmptySet
  <2>3. Cardinality(Smaller \cap Earlier) = 0
    BY <1>2, <2>2, Zenon
  <2>4. Cardinality(Ahead(j)) = Cardinality(Smaller \cup Earlier)
    BY <1>2, Zenon
  <2> QED
    BY <1>4, <1>5, <2>1, <2>3, <2>4
<1>7. Start(s) = 1 + Cardinality(Smaller) /\ Count(s) = Cardinality(Having({s}))
  BY <1>1, StartIs, CountIs DEF Smaller
<1> QED
  BY <1>4, <1>5, <1>6, <1>7 DEF PlaceOf

\* A bucket has no other places than those of its members.
LEMMA BucketIsFull ==
  ASSUME TableInv, progress # "sign", NEW s \in Slots,
         NEW z \in Start(s) .. Start(s) + Count(s) - 1
  PROVE  \E j \in DOMAIN sigs : sigs[j] = s /\ PlaceOf(j) = z
<1> DEFINE D == Having({s})
           T == Start(s) .. Start(s) + Count(s) - 1
           f == [j \in D |-> PlaceOf(j)]
<1>1. s \in 0..Universe
  BY SlotsFinite DEF Slots
<1>2. Start(s) \in Nat /\ Count(s) \in Nat /\ Count(s) = Cardinality(D)
  BY <1>1, StartIs, CountIs
<1>3. IsFiniteSet(T) /\ Cardinality(T) = Count(s)
  <2> DEFINE a == Start(s)
             b == Start(s) + Count(s) - 1
  <2>1. a \in Int /\ b \in Int /\ (a > b => Count(s) = 0) /\ b - a + 1 = Count(s)
    BY <1>2
  <2> HIDE DEF a, b
  <2>2. IsFiniteSet(a..b) /\ Cardinality(a..b) = IF a > b THEN 0 ELSE b - a + 1
    BY <2>1, FS_Interval
  <2> QED
    BY <2>1, <2>2 DEF a, b
<1>4. f \in [D -> T]
  BY PlaceInBucket DEF Having
<1>5. \A x, y \in D : f[x] = f[y] => x = y
  BY PlacesApart DEF Having
<1> HIDE DEF f
<1>6. f \in Injection(D, T)
  BY <1>4, <1>5 DEF Injection, IsInjective
<1> HIDE DEF T, D
<1>7. f \in Surjection(D, T)
  BY <1>2, <1>3, <1>6, FS_Injection
<1>8. PICK j \in D : f[j] = z
  BY <1>7 DEF Surjection, T
<1> QED
  BY <1>8 DEF f, D, Having

-----------------------------------------------------------------------------
(***************************************************************************)
(* What a lookup meets.                                                    *)
(***************************************************************************)

\* The keys are the slots that are a signature.
LEMMA KeysAre ==
  ASSUME TableInv, progress \in {"place", "built"}
  PROVE  LET T == {s \in Slots : Count(s) > 0} IN
         /\ Len(keys) = Cardinality(T) /\ Len(keys) \in Nat
         /\ DOMAIN keys = 1..Len(keys) /\ keys \in [1..Len(keys) -> T]
         /\ \A j, k \in 1..Len(keys) : j < k => keys[j] < keys[k]
         /\ \A s \in T : \E k \in 1..Len(keys) : keys[k] = s
<1> DEFINE T == {s \in Slots : Count(s) > 0}
           c == Cardinality(T)
<1>1. T \in SUBSET Nat /\ IsFiniteSet(T)
  BY SlotsFinite
<1>2. keys = Ascending(T)
  BY DEF TableInv, LaidOut
<1> HIDE DEF T
<1>3. /\ keys \in [1..c -> T]
      /\ \A j, k \in 1..c : j < k => keys[j] < keys[k]
      /\ \A x \in T : \E k \in 1..c : keys[k] = x
  BY <1>1, <1>2, AscendingIs
<1>4. c \in Nat
  BY <1>1, FS_CardinalityType
<1> HIDE DEF c
<1>5. Len(keys) = c
  <2>1. keys \in Seq(T)
    BY <1>3, <1>4
  <2> QED
    BY <1>3, <1>4, <2>1
<1>6. DOMAIN keys = 1..c
  BY <1>3
<1> QED
  BY <1>3, <1>4, <1>5, <1>6 DEF T, c

\* The places of a key.
LEMMA PlacesOfKey ==
  ASSUME TableInv, progress = "built", NEW k \in DOMAIN keys
  PROVE  /\ keys[k] \in Slots /\ offsets[k] = Start(keys[k])
         /\ offsets[k + 1] = Start(keys[k]) + Count(keys[k])
<1> DEFINE T == {s \in Slots : Count(s) > 0}
           after == IF k + 1 <= Len(keys) THEN keys[k + 1] ELSE Universe
<1>1. /\ Len(keys) \in Nat /\ DOMAIN keys = 1..Len(keys) /\ keys \in [1..Len(keys) -> T]
      /\ \A i, j \in 1..Len(keys) : i < j => keys[i] < keys[j]
      /\ \A s \in T : \E j \in 1..Len(keys) : keys[j] = s
  BY KeysAre
<1>2. /\ k \in 1..Len(keys) + 1 /\ k + 1 \in 1..Len(keys) + 1 /\ k \in Nat /\ k <= Len(keys)
      /\ k \in 1..Len(keys)
  BY <1>1
<1>3. offsets = [j \in 1..Len(keys) + 1 |-> Start(IF j <= Len(keys) THEN keys[j] ELSE Universe)]
  BY DEF TableInv, LaidOut
<1>4. offsets[k] = Start(keys[k]) /\ offsets[k + 1] = Start(after)
  BY <1>2, <1>3
<1>5. keys[k] \in Slots /\ keys[k] \in Nat /\ keys[k] < Universe
  <2>1. keys[k] \in Slots
    BY <1>1, <1>2
  <2> QED
    BY <2>1, SlotsFinite DEF Slots
<1>6. after \in 0..Universe /\ keys[k] < after
  <2>1. CASE k + 1 <= Len(keys)
    <3>1. k + 1 \in 1..Len(keys) /\ k < k + 1
      BY <1>2, <2>1
    <3>2. keys[k + 1] \in Slots /\ keys[k] < keys[k + 1]
      BY <1>1, <1>2, <3>1
    <3> QED
      BY <2>1, <3>2, SlotsFinite DEF Slots
  <2>2. CASE ~(k + 1 <= Len(keys))
    BY <1>5, <2>2, SlotsFinite
  <2> QED
    BY <2>1, <2>2
<1>7. ASSUME NEW u \in Slots, keys[k] < u, u < after PROVE Count(u) = 0
  <2>1. SUFFICES ASSUME Count(u) > 0 PROVE FALSE
    <3>1. Count(u) \in Nat
      BY CountIs
    <3> QED
      BY <3>1
  <2>2. PICK i \in 1..Len(keys) : keys[i] = u
    BY <1>1, <2>1
  <2>3. ~(i < k) /\ i # k
    <3>1. i \in Nat /\ u \in Int /\ (i < k => keys[i] < keys[k])
      BY <1>1, <1>2, SlotsFinite
    <3> QED
      BY <1>5, <1>7, <2>2, <3>1
  <2>4. k + 1 <= Len(keys) /\ k + 1 \in 1..Len(keys) /\ k + 1 <= i
    BY <1>1, <1>2, <2>2, <2>3
  <2>5. after = keys[k + 1] /\ keys[k + 1] \in Slots /\ keys[k + 1] \in Int
    <3>1. keys[k + 1] \in Slots
      BY <1>1, <2>4
    <3>2. after = keys[k + 1]
      BY <2>4
    <3>3. keys[k + 1] \in Int
      BY <3>1, SlotsAreNumbers
    <3> QED
      BY <3>1, <3>2, <3>3
  <2>6. i = k + 1 \/ keys[k + 1] < keys[i]
    <3>1. i \in Int /\ k + 1 \in Int
      BY <1>2
    <3> QED
      BY <1>1, <2>2, <2>4, <3>1
  <2>7. u \in Int
    BY SlotsFinite
  <2> HIDE DEF after
  <2> QED
    BY <1>7, <2>2, <2>5, <2>6, <2>7
<1> HIDE DEF after
<1>8. Start(after) = Start(keys[k]) + Count(keys[k])
  BY <1>5, <1>6, <1>7, StartAfter
<1> QED
  BY <1>4, <1>5, <1>8

\* v lists the members with a signature, each once
Lists(v, key) ==
  /\ v \in Seq(Identifiers) /\ Len(v) \in Nat
  /\ \A x : (\E i \in 1..Len(v) : v[i] = x)
              <=> (\E j \in DOMAIN sigs : sigs[j] = key /\ members[j] = x)
  /\ \A i, j \in 1..Len(v) : v[i] = v[j] => i = j

\* The bucket of a key does.
LEMMA BucketLists ==
  ASSUME TableInv, progress = "built", NEW k \in DOMAIN keys
  PROVE  Lists(Bucket(k), keys[k])
<1> DEFINE s == keys[k]
           a == Start(s)
           b == Start(s) + Count(s) - 1
<1>1. s \in Slots /\ offsets[k] = a /\ offsets[k + 1] = Start(s) + Count(s) /\ progress # "sign"
  BY PlacesOfKey
<1>2. a \in Nat /\ Count(s) \in Nat /\ b \in Int /\ b - a + 1 = Count(s) /\ (a <= b \/ Count(s) = 0)
  <2>1. s \in 0..Universe
    BY <1>1, SlotsFinite DEF Slots
  <2>2. Start(s) \in Nat /\ Count(s) \in Nat
    BY <1>1, <2>1, StartIs, CountIs
  <2> QED
    BY <2>2
<1>3. Bucket(k) = SubSeq(ids, a, b)
  <2>1. offsets[k] = a /\ offsets[k + 1] - 1 = b
    <3> HIDE DEF s
    <3> QED
      BY <1>1, <1>2
  <2> HIDE DEF a, b, s
  <2> QED
    BY <2>1 DEF Bucket
<1> HIDE DEF a, b, s
<1>4. \A j \in DOMAIN sigs : sigs[j] \in Slots => ids[PlaceOf(j)] = members[j]
  <2>1. next = Len(members) + 1 /\ Filled
    BY DEF TableInv
  <2>2. DOMAIN sigs = 1..next-1 /\ no_slot \notin Slots
    BY <1>1, <2>1, SignaturesTyped, SlotsFinite
  <2> QED
    BY <2>1, <2>2 DEF Filled
<1>5. \A z \in a..b : \E j \in DOMAIN sigs : sigs[j] = s /\ PlaceOf(j) = z
  BY <1>1, BucketIsFull DEF a, b
<1>6. \A z \in a..b : ids[z] \in Identifiers
  BY <1>1, <1>4, <1>5, SignaturesTyped
<1>7. /\ Bucket(k) \in Seq(Identifiers) /\ Len(Bucket(k)) = Count(s)
      /\ \A i \in 1..Count(s) : Bucket(k)[i] = ids[a + i - 1] /\ a + i - 1 \in a..b
  <2>1. /\ SubSeq(ids, a, b) \in Seq(Identifiers)
        /\ Len(SubSeq(ids, a, b)) = IF a <= b THEN b - a + 1 ELSE 0
        /\ \A i \in 1..b-a+1 : SubSeq(ids, a, b)[i] = ids[a + i - 1]
    BY <1>2, <1>6, SubSeqProperties
  <2>2. \A i \in 1..Count(s) : i \in 1..b-a+1 /\ a + i - 1 \in a..b
    BY <1>2
  <2> QED
    BY <1>2, <1>3, <2>1, <2>2
<1>8. ASSUME NEW i \in 1..Count(s)
      PROVE  \E j \in DOMAIN sigs : sigs[j] = s /\ members[j] = Bucket(k)[i] /\ PlaceOf(j) = a + i - 1
  <2>1. PICK j \in DOMAIN sigs : sigs[j] = s /\ PlaceOf(j) = a + i - 1
    BY <1>5, <1>7
  <2> QED
    BY <1>1, <1>4, <1>7, <2>1
<1>9. ASSUME NEW j \in DOMAIN sigs, sigs[j] = s
      PROVE  \E i \in 1..Count(s) : Bucket(k)[i] = members[j]
  <2>1. PlaceOf(j) \in a..b
    BY <1>1, <1>9, PlaceInBucket DEF a, b
  <2>2. PlaceOf(j) - a + 1 \in 1..Count(s) /\ a + (PlaceOf(j) - a + 1) - 1 = PlaceOf(j)
    BY <1>2, <2>1
  <2>3. ids[PlaceOf(j)] = members[j]
    BY <1>1, <1>4, <1>9
  <2> QED
    BY <1>7, <2>2, <2>3
<1>10. ASSUME NEW i \in 1..Count(s), NEW j \in 1..Count(s), Bucket(k)[i] = Bucket(k)[j]
       PROVE  i = j
  <2>1. PICK x \in DOMAIN sigs : members[x] = Bucket(k)[i] /\ PlaceOf(x) = a + i - 1
    BY <1>8
  <2>2. PICK y \in DOMAIN sigs : members[y] = Bucket(k)[j] /\ PlaceOf(y) = a + j - 1
    BY <1>8
  <2>3. x = y
    BY <1>1, <1>10, <2>1, <2>2, SignaturesTyped DEF TableInv, IsInjective
  <2> QED
    BY <1>2, <2>1, <2>2, <2>3
<1>11. ASSUME NEW x
       PROVE  (\E i \in 1..Count(s) : Bucket(k)[i] = x)
                <=> (\E j \in DOMAIN sigs : sigs[j] = s /\ members[j] = x)
  BY <1>8, <1>9
<1> USE DEF s
<1> QED
  BY <1>2, <1>7, <1>10, <1>11 DEF Lists

\* The records added to a slot.
LEMMA AddedAre ==
  ASSUME TableInv, NEW s \in Slots
  PROVE  /\ additions[s] \in Seq(Identifiers) /\ Len(additions[s]) \in Nat
         /\ \A x \in Added : Signature(sketch[x]) = s <=> \E i \in 1..Len(additions[s]) : additions[s][i] = x
         /\ \A i \in 1..Len(additions[s]) : /\ additions[s][i] \in Added
                                            /\ additions[s][i] \notin ToSet(members)
         /\ \A i, j \in 1..Len(additions[s]) : additions[s][i] = additions[s][j] => i = j
<1>1. AdditionsInv
  BY DEF TableInv
<1>2. \A t \in Slots : additions[t] \in Seq(Identifiers) /\ DOMAIN additions[t] = 1..Len(additions[t])
                       /\ Len(additions[t]) \in Nat
  BY <1>1 DEF AdditionsInv
<1>3. ASSUME NEW t \in Slots, NEW i \in 1..Len(additions[t])
      PROVE  /\ Signature(sketch[additions[t][i]]) = t /\ additions[t][i] \notin ToSet(members)
             /\ additions[t][i] \in Added
  BY <1>1, <1>2 DEF AdditionsInv, Added, ToSet
<1>4. ASSUME NEW x \in Added, Signature(sketch[x]) = s
      PROVE  \E i \in 1..Len(additions[s]) : additions[s][i] = x
  <2>1. PICK t \in Slots : x \in ToSet(additions[t])
    BY DEF Added
  <2>2. PICK i \in 1..Len(additions[t]) : additions[t][i] = x
    BY <1>2, <2>1 DEF ToSet
  <2>3. t = s
    BY <1>3, <1>4, <2>2
  <2> QED
    BY <2>2, <2>3
<1>5. \A i, j \in 1..Len(additions[s]) : additions[s][i] = additions[s][j] => i = j
  BY <1>1, <1>2 DEF AdditionsInv, IsInjective
<1> QED
  BY <1>2, <1>3, <1>4, <1>5

\* A lookup in a bucket of the build and in the additions.
LEMMA LookupMeets ==
  ASSUME TableInv, progress = "built", NEW key \in Slots,
         NEW v, Lists(v, key)
  PROVE  /\ ToSet(v \o additions[key]) =
              {id \in ToSet(members) \union Added : Signature(sketch[id]) = key}
         /\ IsInjective(v \o additions[key])
<1> DEFINE w == additions[key]
           vw == v \o w
<1>0. /\ v \in Seq(Identifiers) /\ Len(v) \in Nat
      /\ \A x : (\E i \in 1..Len(v) : v[i] = x)
                  <=> (\E j \in DOMAIN sigs : sigs[j] = key /\ members[j] = x)
      /\ \A i, j \in 1..Len(v) : v[i] = v[j] => i = j
  BY DEF Lists
<1>1. /\ w \in Seq(Identifiers) /\ Len(w) \in Nat
      /\ \A x \in Added : Signature(sketch[x]) = key <=> \E i \in 1..Len(w) : w[i] = x
      /\ \A i \in 1..Len(w) : w[i] \in Added /\ w[i] \notin ToSet(members)
      /\ \A i, j \in 1..Len(w) : w[i] = w[j] => i = j
  BY AddedAre
<1>2. /\ DOMAIN members = DOMAIN sigs
      /\ \A j \in DOMAIN sigs : sigs[j] = Signature(sketch[members[j]])
  BY SignaturesTyped
<1> HIDE DEF w
<1>3. /\ DOMAIN vw = 1..Len(v) + Len(w)
      /\ \A i \in 1..Len(v) : vw[i] = v[i]
      /\ \A i \in 1..Len(w) : vw[Len(v) + i] = w[i]
  <2>1. /\ vw \in Seq(Identifiers) /\ Len(vw) = Len(v) + Len(w)
        /\ \A i \in 1..Len(v) + Len(w) : vw[i] = IF i <= Len(v) THEN v[i] ELSE w[i - Len(v)]
    BY <1>0, <1>1, ConcatProperties
  <2>2. DOMAIN vw = 1..Len(vw)
    BY <2>1
  <2> HIDE DEF vw
  <2>3. \A i \in 1..Len(v) : i \in 1..Len(v) + Len(w) /\ i <= Len(v)
    BY <1>0, <1>1
  <2>4. \A i \in 1..Len(w) : /\ Len(v) + i \in 1..Len(v) + Len(w) /\ ~(Len(v) + i <= Len(v))
                             /\ Len(v) + i - Len(v) = i
    BY <1>0, <1>1
  <2>5. DOMAIN vw = 1..Len(v) + Len(w)
    BY <2>1, <2>2
  <2>6. \A i \in 1..Len(v) : vw[i] = v[i]
    BY <2>1, <2>3
  <2>7. \A i \in 1..Len(w) : vw[Len(v) + i] = w[i]
    BY <2>1, <2>4
  <2> QED
    BY <2>5, <2>6, <2>7
<1> HIDE DEF vw
<1>4. \A z \in DOMAIN vw : z \in 1..Len(v) \/ \E i \in 1..Len(w) : z = Len(v) + i
  <2>1. ASSUME NEW z \in DOMAIN vw, z \notin 1..Len(v) PROVE z - Len(v) \in 1..Len(w) /\ z = Len(v) + (z - Len(v))
    BY <1>0, <1>1, <1>3, <2>1
  <2> QED
    BY <2>1
<1>5. \A i \in 1..Len(v) : v[i] \in ToSet(members) /\ Signature(sketch[v[i]]) = key
  BY <1>0, <1>2 DEF ToSet
<1>6. \A x \in ToSet(members) : Signature(sketch[x]) = key => \E i \in 1..Len(v) : v[i] = x
  <2>1. SUFFICES ASSUME NEW x \in ToSet(members), Signature(sketch[x]) = key
                 PROVE  \E i \in 1..Len(v) : v[i] = x
    OBVIOUS
  <2>2. PICK j \in DOMAIN sigs : members[j] = x
    BY <1>2 DEF ToSet
  <2>3. sigs[j] = key
    BY <1>2, <2>1, <2>2
  <2> QED
    BY <1>0, <2>2, <2>3
<1>7. ASSUME NEW x \in ToSet(vw)
      PROVE  x \in ToSet(members) \union Added /\ Signature(sketch[x]) = key
  <2>1. PICK z \in DOMAIN vw : vw[z] = x
    BY DEF ToSet
  <2>2. CASE z \in 1..Len(v)
    BY <1>3, <1>5, <2>1, <2>2
  <2>3. ASSUME NEW i \in 1..Len(w), z = Len(v) + i
        PROVE  x \in Added /\ Signature(sketch[x]) = key
    <3>1. x = w[i]
      BY <1>3, <2>1, <2>3
    <3> QED
      BY <1>1, <3>1
  <2> QED
    BY <1>4, <2>2, <2>3
<1>8. ASSUME NEW x \in ToSet(members) \union Added, Signature(sketch[x]) = key
      PROVE  x \in ToSet(vw)
  <2>1. (\E i \in 1..Len(v) : v[i] = x) \/ (\E i \in 1..Len(w) : w[i] = x)
    BY <1>1, <1>6, <1>8
  <2>2. \A i \in 1..Len(v) : i \in DOMAIN vw
    BY <1>0, <1>1, <1>3
  <2>3. \A i \in 1..Len(w) : Len(v) + i \in DOMAIN vw
    BY <1>0, <1>1, <1>3
  <2>4. \E z \in DOMAIN vw : vw[z] = x
    <3>1. CASE \E i \in 1..Len(v) : v[i] = x
      BY <1>3, <2>2, <3>1
    <3>2. CASE \E i \in 1..Len(w) : w[i] = x
      BY <1>3, <2>3, <3>2
    <3> QED
      BY <2>1, <3>1, <3>2
  <2> QED
    BY <2>4 DEF ToSet
<1>9. ASSUME NEW y \in DOMAIN vw, NEW z \in DOMAIN vw, vw[y] = vw[z]
      PROVE  y = z
  <2>1. CASE y \in 1..Len(v) /\ z \in 1..Len(v)
    BY <1>3, <1>9, <1>0, <2>1
  <2>2. CASE y \in 1..Len(v) /\ z \notin 1..Len(v)
    BY <1>1, <1>3, <1>4, <1>5, <1>9, <1>0, <2>2
  <2>3. CASE y \notin 1..Len(v) /\ z \in 1..Len(v)
    BY <1>1, <1>3, <1>4, <1>5, <1>9, <1>0, <2>3
  <2>4. CASE y \notin 1..Len(v) /\ z \notin 1..Len(v)
    BY <1>1, <1>3, <1>4, <1>9, <1>0, <2>4
  <2> QED
    BY <2>1, <2>2, <2>3, <2>4
<1>10. IsInjective(vw)
  BY <1>9 DEF IsInjective
<1> QED
  BY <1>7, <1>8, <1>10 DEF vw, w

\* A lookup in a built table, whether its slot is a key or not.
LEMMA VisitsOfInv == TableInv => VisitsItsBucket
<1>1. SUFFICES ASSUME TableInv, progress = "built", NEW key \in Slots \union {no_slot}
               PROVE  /\ ToSet(Visit(key)) =
                           {id \in ToSet(members) \union Added :
                              key # no_slot /\ Signature(sketch[id]) = key}
                      /\ IsInjective(Visit(key))
  BY DEF VisitsItsBucket
<1>2. CASE key = no_slot
  BY <1>2 DEF Visit, ToSet, IsInjective
<1>3. CASE key # no_slot
  <2>1. key \in Slots
    BY <1>1, <1>3
  <2>2. CASE key \in ToSet(keys)
    <3> DEFINE k == CHOOSE i \in DOMAIN keys : keys[i] = key
    <3>1. k \in DOMAIN keys /\ keys[k] = key
      BY <2>2 DEF ToSet
    <3>2. Visit(key) = Bucket(k) \o additions[key]
      BY <1>3, <2>2 DEF Visit
    <3> HIDE DEF k
    <3>3. /\ ToSet(Bucket(k) \o additions[key]) =
              {id \in ToSet(members) \union Added : Signature(sketch[id]) = key}
          /\ IsInjective(Bucket(k) \o additions[key])
      BY <1>1, <2>1, <3>1, BucketLists, LookupMeets
    <3> QED
      BY <1>3, <3>2, <3>3
  <2>3. CASE key \notin ToSet(keys)
    <3>1. Visit(key) = <<>> \o additions[key]
      BY <1>3, <2>3 DEF Visit
    <3>2. \A j \in DOMAIN sigs : sigs[j] # key
      <4>1. SUFFICES ASSUME NEW j \in DOMAIN sigs, sigs[j] = key PROVE FALSE
        OBVIOUS
      <4>2. ~(Count(key) > 0)
        BY <1>1, <2>1, <2>3, KeysAre DEF ToSet
      <4>3. Count(key) \in Nat /\ Count(key) = Cardinality(Having({key}))
        BY <1>1, CountIs
      <4>4. IsFiniteSet(Having({key})) /\ Cardinality(Having({key})) = 0
        BY <1>1, <4>2, <4>3, HavingFinite
      <4>5. j \in Having({key})
        BY <4>1 DEF Having
      <4> QED
        BY <4>4, <4>5, FS_EmptySet
    <3> DEFINE v == <<>>
    <3>3. v \in Seq(Identifiers) /\ Len(v) = 0
      OBVIOUS
    <3> HIDE DEF v
    <3>4. /\ ToSet(v \o additions[key]) =
              {id \in ToSet(members) \union Added : Signature(sketch[id]) = key}
          /\ IsInjective(v \o additions[key])
      <4>1. Lists(v, key)
        BY <3>2, <3>3 DEF Lists
      <4> QED
        BY <1>1, <2>1, <4>1, LookupMeets
    <3> QED
      BY <1>3, <3>1, <3>4 DEF v
  <2> QED
    BY <2>2, <2>3
<1> QED
  BY <1>2, <1>3

-----------------------------------------------------------------------------
(***************************************************************************)
(* The steps.                                                              *)
(***************************************************************************)

\* The ascending list of a cluster's identifiers has each once.
LEMMA TableInitially == TableInit => TableInv
<1>1. SUFFICES ASSUME TableInit PROVE TableInv
  OBVIOUS
<1>2. rank \in [Slots -> Slots]
  BY <1>1 DEF TableInit, Bijection, Injection
<1>3. PICK S \in SUBSET Identifiers : members = Ascending(S)
  BY <1>1 DEF TableInit
<1> DEFINE c == Cardinality(S)
<1>4. S \in SUBSET Nat /\ IsFiniteSet(S) /\ c \in Nat
  BY TableAssumption, FS_Subset, FS_CardinalityType
<1>5. members \in [1..c -> S] /\ \A j, k \in 1..c : j < k => members[j] < members[k]
  BY <1>3, <1>4, AscendingIs
<1> HIDE DEF c
<1>6. members \in Seq(Identifiers) /\ Len(members) = c
  <2>1. members \in [1..c -> Identifiers]
    BY <1>5
  <2> QED
    BY <1>4, <2>1
<1>7. IsInjective(members)
  <2>1. ASSUME NEW j \in 1..c, NEW k \in 1..c, members[j] = members[k] PROVE j = k
    <3>1. members[j] \in S /\ members[k] \in S
      BY <1>5
    <3>2. members[j] \in Nat /\ members[k] \in Nat
      BY <1>4, <3>1
    <3>3. j < k \/ k < j \/ j = k
      BY <1>4
    <3> QED
      BY <1>5, <2>1, <3>2, <3>3
  <2> QED
    BY <1>5, <2>1 DEF IsInjective
<1>8. AdditionsInv
  <2>1. additions = [s \in Slots |-> <<>>]
    BY <1>1 DEF TableInit
  <2> QED
    BY <2>1 DEF AdditionsInv, IsInjective
<1> QED
  BY <1>1, <1>2, <1>4, <1>6, <1>7, <1>8 DEF TableInit, TableInv

\* What the counts, starts and places are read from.
LEMMA SameSignatures ==
  ASSUME sigs' = sigs
  PROVE  /\ \A s : Count(s)' = Count(s)
         /\ \A s : Start(s)' = Start(s)
         /\ \A j : PlaceOf(j)' = PlaceOf(j)
<1>1. \A s : Count(s)' = Count(s)
  BY DEF Count
<1>2. \A s : Start(s)' = Start(s)
  BY DEF Start, Count, MapThenSumSet, MapThenFoldSet, Slots
<1>3. \A j : PlaceOf(j)' = PlaceOf(j)
  BY DEF PlaceOf, Ahead
<1> QED
  BY <1>1, <1>2, <1>3

\* A signature is read from the ranks.
LEMMA SignatureSame ==
  ASSUME rank' = rank
  PROVE  \A slots : Signature(slots)' = Signature(slots)
BY DEF Signature, no_slot

\* Every member gets its signature.
LEMMA TableSign ==
  ASSUME TableInv, Sign
  PROVE  TableInv'
<1>1. /\ rank' = rank /\ sketch' = sketch /\ members' = members /\ next' = next
      /\ additions' = additions /\ progress = "sign" /\ progress' = "lay out"
      /\ sigs' = [j \in DOMAIN members |-> Signature(sketch[members[j]])]
  BY DEF Sign
<1>2. \A slots : Signature(slots)' = Signature(slots)
  BY <1>1, SignatureSame
<1>3. AdditionsInv'
  BY <1>1, <1>2 DEF TableInv, AdditionsInv, Slots
<1>4. Signed'
  BY <1>1, <1>2 DEF Signed
<1> QED
  BY <1>1, <1>3, <1>4 DEF TableInv, Slots

\* The cursor of every bucket is at its start.
LEMMA TableLayOut ==
  ASSUME TableInv, LayOut
  PROVE  TableInv'
<1>1. /\ rank' = rank /\ sketch' = sketch /\ members' = members /\ next' = next
      /\ additions' = additions /\ sigs' = sigs
      /\ progress = "lay out" /\ progress' = "place" /\ next = 1
      /\ keys' = Ascending({s \in Slots : Count(s) > 0})
      /\ offsets' = [k \in 1..Len(keys') + 1 |->
                       Start(IF k <= Len(keys') THEN keys'[k] ELSE Universe)]
      /\ ids' = [j \in 1..Start(Universe) - 1 |-> 0]
      /\ cursor' = [s \in Slots |-> IF Count(s) > 0 THEN Start(s) ELSE 0]
  BY DEF LayOut, TableInv
<1>2. \A slots : Signature(slots)' = Signature(slots)
  BY <1>1, SignatureSame
<1>3. AdditionsInv' /\ Signed'
  BY <1>1, <1>2 DEF TableInv, AdditionsInv, Slots, Signed
<1>4. (\A s : Count(s)' = Count(s)) /\ (\A s : Start(s)' = Start(s)) /\ \A j : PlaceOf(j)' = PlaceOf(j)
  BY <1>1, SameSignatures
<1>5. LaidOut'
  <2>1. {s \in Slots : Count(s) > 0}' = {s \in Slots : Count(s) > 0}
    BY <1>4 DEF Slots
  <2>2. ids' \in [1..Start(Universe) - 1 -> Nat]
    BY <1>1
  <2> QED
    BY <1>1, <1>4, <2>1, <2>2 DEF LaidOut, Slots
<1>6. Filled'
  <2>1. ASSUME NEW s \in Slots
        PROVE  Start(s) \in Nat
    BY <1>1, StartIs, SlotsAreNumbers
  <2>2. cursor' \in [Slots -> Nat]
    BY <1>1, <2>1
  <2>5. 1..next' - 1 = {}
    <3>1. next' = 1
      BY <1>1
    <3>2. 1..1 - 1 = {}
      OBVIOUS
    <3> QED
      BY <3>1, <3>2
  <2>3. ASSUME NEW s \in Slots
        PROVE  Cardinality({k \in 1..next' - 1 : sigs'[k] = s}) = 0
    <3>1. {k \in 1..next' - 1 : sigs'[k] = s} = {}
      BY <2>5, Zenon
    <3>2. Cardinality({}) = 0
      BY FS_EmptySet
    <3> QED
      BY <3>1, <3>2, Zenon
  <2>4. ASSUME NEW s \in Slots, Count(s) > 0
        PROVE  cursor'[s] = Start(s) + Cardinality({k \in 1..next' - 1 : sigs'[k] = s})
    <3>1. cursor'[s] = Start(s)
      BY <1>1, <2>4
    <3>2. \A x \in Nat : \A y : y = 0 => x = x + y
      OBVIOUS
    <3> QED
      BY <2>1, <2>3, <3>1, <3>2
  <2> QED
    BY <1>1, <1>4, <2>2, <2>4, <2>5 DEF Filled, Slots
<1> QED
  BY <1>1, <1>3, <1>5, <1>6 DEF TableInv, Slots

\* The array has room for every place.
LEMMA PlaceWithin ==
  ASSUME TableInv, progress # "sign", NEW j \in DOMAIN sigs, sigs[j] # no_slot
  PROVE  PlaceOf(j) \in 1..Start(Universe) - 1
<1> DEFINE All == Having(0..Universe-1)
<1>1. sigs[j] \in Slots /\ sigs[j] \in Nat /\ sigs[j] < Universe /\ j \in Int
  BY SignaturesTyped, SlotsAreNumbers
<1>2. Ahead(j) \in SUBSET All /\ j \in All /\ j \notin Ahead(j)
  <2>1. Universe \in Nat /\ \A k \in DOMAIN sigs : sigs[k] \in Nat
    BY SignaturesTyped, SlotsFinite
  <2> QED
    BY <1>1, <2>1 DEF Ahead, Having
<1>3. IsFiniteSet(All) /\ Cardinality(All) \in Nat
  BY HavingFinite
<1>4. /\ Cardinality(Ahead(j)) <= Cardinality(All) /\ Cardinality(Ahead(j)) # Cardinality(All)
      /\ Cardinality(Ahead(j)) \in Nat
  <2> HIDE DEF All
  <2> QED
    BY <1>2, <1>3, FS_Subset, FS_CardinalityType
<1>5. Universe \in 0..Universe
  BY SlotsFinite
<1>6. Start(Universe) = 1 + Cardinality(All)
  BY <1>5, StartIs
<1> HIDE DEF All
<1> QED
  BY <1>3, <1>4, <1>6 DEF PlaceOf

\* The cursor of the member's signature is at the member's place.
LEMMA CursorAt ==
  ASSUME TableInv, progress = "place", next <= Len(members), sigs[next] # no_slot
  PROVE  /\ next \in DOMAIN sigs /\ sigs[next] \in Slots
         /\ cursor[sigs[next]] = PlaceOf(next)
         /\ PlaceOf(next) \in 1..Start(Universe) - 1
<1> DEFINE s == sigs[next]
           Earlier == {k \in 1..next - 1 : sigs[k] = s}
           Smaller == Having(0..s-1)
<1>1. next \in DOMAIN sigs /\ s \in Slots /\ s \in Nat /\ s \in 0..Universe /\ next \in Nat /\ Filled
  <2>1. next \in 1..Len(members) + 1 /\ Len(members) \in Nat /\ DOMAIN sigs = 1..Len(members) /\ Filled
    BY SignaturesTyped DEF TableInv
  <2>2. next \in DOMAIN sigs /\ next \in Nat
    BY <2>1
  <2> QED
    BY <2>1, <2>2, SignaturesTyped, SlotsAreNumbers
<1>2. next \in Having({s}) /\ Count(s) > 0
  <2>1. next \in Having({s})
    BY <1>1 DEF Having
  <2>2. IsFiniteSet(Having({s})) /\ Count(s) = Cardinality(Having({s})) /\ Count(s) \in Nat
    BY HavingFinite, CountIs
  <2> HIDE DEF s
  <2>3. Cardinality(Having({s})) # 0
    BY <2>1, <2>2, FS_EmptySet
  <2> QED
    BY <2>1, <2>2, <2>3
<1>3. cursor[s] = Start(s) + Cardinality(Earlier)
  BY <1>1, <1>2 DEF Filled
<1>4. Ahead(next) = Smaller \cup Earlier /\ Smaller \cap Earlier = {} /\ Earlier \in SUBSET DOMAIN sigs
  <2>1. \A k \in DOMAIN sigs : sigs[k] \in Nat /\ k \in Nat
    BY SignaturesTyped, SlotsFinite
  <2>2. \A k : k \in 1..next - 1 <=> k \in DOMAIN sigs /\ k < next
    BY <1>1, SignaturesTyped
  <2> QED
    BY <1>1, <2>1, <2>2 DEF Ahead, Having
<1>5. /\ IsFiniteSet(Smaller) /\ IsFiniteSet(Earlier)
      /\ Cardinality(Smaller) \in Nat /\ Cardinality(Earlier) \in Nat
  BY <1>4, SignaturesTyped, HavingFinite, FS_Subset, FS_CardinalityType
<1>6. Start(s) = 1 + Cardinality(Smaller)
  BY <1>1, StartIs
<1> HIDE DEF Smaller, Earlier
<1>7. Cardinality(Ahead(next)) = Cardinality(Smaller) + Cardinality(Earlier)
  <2>1. Cardinality(Smaller \cup Earlier)
          = Cardinality(Smaller) + Cardinality(Earlier) - Cardinality(Smaller \cap Earlier)
    BY <1>5, FS_Union
  <2>2. Cardinality({}) = 0
    BY FS_EmptySet
  <2>3. Cardinality(Smaller \cap Earlier) = 0
    BY <1>4, <2>2, Zenon
  <2>4. Cardinality(Ahead(next)) = Cardinality(Smaller \cup Earlier)
    BY <1>4, Zenon
  <2> QED
    BY <1>5, <2>1, <2>3, <2>4
<1>8. cursor[s] = PlaceOf(next)
  BY <1>3, <1>5, <1>6, <1>7 DEF PlaceOf
<1>9. PlaceOf(next) \in 1..Start(Universe) - 1
  BY <1>1, PlaceWithin
<1> QED
  BY <1>1, <1>8, <1>9

\* A member goes to its place, which is no other's, and the cursor of its bucket to the next.
LEMMA TablePlace ==
  ASSUME TableInv, Place
  PROVE  TableInv'
<1>1. /\ rank' = rank /\ sketch' = sketch /\ members' = members /\ next' = next + 1
      /\ additions' = additions /\ sigs' = sigs /\ keys' = keys /\ offsets' = offsets
      /\ progress = "place" /\ progress' = "place" /\ next <= Len(members) /\ Len(members) \in Nat
      /\ next \in Nat /\ next \in 1..Len(members) /\ next' \in 1..Len(members) + 1
      /\ LaidOut /\ Filled /\ AdditionsInv /\ Signed
  <2>1. members \in Seq(Identifiers) /\ next \in 1..Len(members) + 1 /\ progress = "place"
    BY DEF TableInv, Place
  <2>2. Len(members) \in Nat
    BY <2>1
  <2>3. next <= Len(members) /\ next' = next + 1 /\ LaidOut /\ Filled /\ AdditionsInv /\ Signed
    BY <2>1 DEF Place, TableInv
  <2>4. next \in Nat /\ next \in 1..Len(members) /\ next' \in 1..Len(members) + 1
    BY <2>1, <2>2, <2>3
  <2> QED
    BY <2>1, <2>2, <2>3, <2>4 DEF Place
<1>2. \A slots : Signature(slots)' = Signature(slots)
  BY <1>1, SignatureSame
<1>3. AdditionsInv' /\ Signed'
  BY <1>1, <1>2 DEF AdditionsInv, Slots, Signed
<1>4. (\A s : Count(s)' = Count(s)) /\ (\A s : Start(s)' = Start(s)) /\ \A j : PlaceOf(j)' = PlaceOf(j)
  BY <1>1, SameSignatures
<1>5. next \in DOMAIN sigs /\ members[next] \in Nat /\ 1..next'-1 = (1..next-1) \cup {next} /\ next \notin 1..next-1
      /\ 1..next-1 \subseteq DOMAIN sigs
  <2>1. DOMAIN sigs = 1..Len(members) /\ next \in DOMAIN sigs
    BY <1>1, SignaturesTyped
  <2>2. members[next] \in Identifiers
    BY <1>1, <2>1, SignaturesTyped
  <2>3. members[next] \in Nat
    BY <2>2, TableAssumption
  <2> QED
    BY <1>1, <2>1, <2>3
<1>6. CASE sigs[next] = no_slot
  <2>1. ids' = ids /\ cursor' = cursor
    BY <1>6 DEF Place
  <2>2. \A s \in Slots : {k \in 1..next'-1 : sigs[k] = s} = {k \in 1..next-1 : sigs[k] = s}
    BY <1>5, <1>6, SlotsFinite
  <2>3. LaidOut'
    <3>1. {s \in Slots : Count(s) > 0}' = {s \in Slots : Count(s) > 0}
      BY <1>4 DEF Slots
    <3> QED
      BY <1>1, <1>4, <2>1, <3>1 DEF LaidOut, Slots
  <2>4. \A j \in 1..next'-1 : sigs[j] # no_slot => ids[PlaceOf(j)] = members[j]
    BY <1>1, <1>5, <1>6 DEF Filled
  <2>5. \A s \in Slots : Count(s) > 0 =>
          cursor[s] = Start(s) + Cardinality({k \in 1..next' - 1 : sigs[k] = s})
    BY <1>1, <2>2 DEF Filled
  <2>6. Filled'
    BY <1>1, <1>4, <2>1, <2>4, <2>5 DEF Filled, Slots, no_slot
  <2> QED
    BY <1>1, <1>3, <2>3, <2>6 DEF TableInv, Slots
<1>7. CASE sigs[next] # no_slot
  <2> DEFINE t == sigs[next]
             z == PlaceOf(next)
  <2>1. ids' = [ids EXCEPT ![cursor[t]] = members[next]] /\ cursor' = [cursor EXCEPT ![t] = @ + 1]
    BY <1>7 DEF Place, Advanced
  <2>2. t \in Slots /\ cursor[t] = z /\ z \in 1..Start(Universe) - 1
    BY <1>1, <1>7, CursorAt
  <2> HIDE DEF t, z
  <2>3. ids \in [1..Start(Universe) - 1 -> Nat] /\ cursor \in [Slots -> Nat]
    BY <1>1 DEF LaidOut, Filled
  <2>4. ids' \in [1..Start(Universe) - 1 -> Nat] /\ ids'[z] = members[next]
        /\ \A x \in 1..Start(Universe) - 1 : x # z => ids'[x] = ids[x]
    BY <1>5, <2>1, <2>2, <2>3
  <2>5. cursor' \in [Slots -> Nat] /\ cursor'[t] = cursor[t] + 1
        /\ \A s \in Slots : s # t => cursor'[s] = cursor[s]
    BY <2>1, <2>2, <2>3
  <2>6. LaidOut'
    <3>1. {s \in Slots : Count(s) > 0}' = {s \in Slots : Count(s) > 0}
      BY <1>4 DEF Slots
    <3> QED
      BY <1>1, <1>4, <2>4, <3>1 DEF LaidOut, Slots
  <2>7. ASSUME NEW s \in Slots, Count(s) > 0
        PROVE  cursor'[s] = Start(s) + Cardinality({k \in 1..next' - 1 : sigs[k] = s})
    <3> DEFINE E == {k \in 1..next - 1 : sigs[k] = s}
               F == {k \in 1..next' - 1 : sigs[k] = s}
    <3>1. cursor[s] = Start(s) + Cardinality(E)
      BY <1>1, <2>7 DEF Filled
    <3>2. CASE s # t
      <4>1. F = E
        BY <1>5, <3>2 DEF t
      <4> HIDE DEF E, F
      <4>2. cursor'[s] = Start(s) + Cardinality(F)
        BY <2>5, <3>1, <3>2, <4>1
      <4> QED
        BY <4>2 DEF F
    <3>3. CASE s = t
      <4>1. F = E \cup {next} /\ next \notin E /\ E \in SUBSET DOMAIN sigs
        BY <1>5, <3>3 DEF t
      <4>2. IsFiniteSet(E)
        BY <1>1, <4>1, SignaturesTyped, FS_Subset
      <4> HIDE DEF E, F
      <4>3. Cardinality(F) = Cardinality(E) + 1 /\ Cardinality(E) \in Nat
        BY <4>1, <4>2, FS_AddElement, FS_CardinalityType
      <4>4. Start(s) \in Nat
        BY <1>1, StartIs, SlotsAreNumbers
      <4>5. cursor'[s] = Start(s) + Cardinality(F)
        BY <2>5, <3>1, <3>3, <4>3, <4>4
      <4> QED
        BY <4>5 DEF F
    <3> QED
      BY <3>2, <3>3
  <2>8. ASSUME NEW j \in 1..next'-1, sigs[j] # no_slot
        PROVE  ids'[PlaceOf(j)] = members[j]
    <3>1. CASE j = next
      BY <2>4, <3>1 DEF z
    <3>2. CASE j # next
      <4>1. j \in 1..next-1 /\ j \in DOMAIN sigs
        BY <1>5, <3>2
      <4>2. ids[PlaceOf(j)] = members[j]
        BY <1>1, <2>8, <4>1 DEF Filled
      <4>3. PlaceOf(j) # z
        BY <1>1, <1>5, <3>2, <4>1, PlacesApart DEF z
      <4>4. PlaceOf(j) \in 1..Start(Universe) - 1
        BY <1>1, <2>8, <4>1, PlaceWithin
      <4> QED
        BY <2>4, <4>2, <4>3, <4>4
    <3> QED
      BY <3>1, <3>2
  <2>9. Filled'
    BY <1>1, <1>4, <2>5, <2>7, <2>8 DEF Filled, Slots, no_slot
  <2> QED
    BY <1>1, <1>3, <2>6, <2>9 DEF TableInv, Slots
<1> QED
  BY <1>6, <1>7

\* The state of the table without the additions is all that the other parts read.
LEMMA SameTable ==
  ASSUME TableInv, rank' = rank, sketch' = sketch, members' = members, sigs' = sigs,
         keys' = keys, offsets' = offsets, ids' = ids, cursor' = cursor, next' = next
  PROVE  Signed' = Signed /\ LaidOut' = LaidOut /\ Filled' = Filled
<1>1. \A slots : Signature(slots)' = Signature(slots)
  BY SignatureSame
<1>2. (\A s : Count(s)' = Count(s)) /\ (\A s : Start(s)' = Start(s)) /\ \A j : PlaceOf(j)' = PlaceOf(j)
  BY SameSignatures
<1>3. Signed' = Signed
  BY <1>1 DEF Signed
<1>4. LaidOut' = LaidOut
  <2>1. {s \in Slots : Count(s) > 0}' = {s \in Slots : Count(s) > 0}
    BY <1>2 DEF Slots
  <2> QED
    BY <1>2, <2>1 DEF LaidOut, Slots
<1>5. Filled' = Filled
  BY <1>2 DEF Filled, Slots, no_slot
<1> QED
  BY <1>3, <1>4, <1>5

\* All members are placed.
LEMMA TableFinish ==
  ASSUME TableInv, Finish
  PROVE  TableInv'
<1>1. /\ rank' = rank /\ sketch' = sketch /\ members' = members /\ next' = next
      /\ additions' = additions /\ sigs' = sigs /\ keys' = keys /\ offsets' = offsets
      /\ ids' = ids /\ cursor' = cursor
      /\ progress = "place" /\ progress' = "built" /\ next > Len(members)
  BY DEF Finish
<1>2. \A slots : Signature(slots)' = Signature(slots)
  BY <1>1, SignatureSame
<1>3. Signed' = Signed /\ LaidOut' = LaidOut /\ Filled' = Filled
  BY <1>1, SameTable
<1>4. AdditionsInv'
  BY <1>1, <1>2 DEF TableInv, AdditionsInv, Slots
<1>5. next = Len(members) + 1
  <2>1. members \in Seq(Identifiers) /\ next \in 1..Len(members) + 1
    BY DEF TableInv
  <2>2. Len(members) \in Nat
    BY <2>1
  <2> QED
    BY <1>1, <2>1, <2>2
<1> QED
  BY <1>1, <1>3, <1>4, <1>5 DEF TableInv, Slots

\* An insertion adds a record the table does not hold to the list of its signature.
LEMMA TableAdd ==
  ASSUME TableInv, NEW id \in Identifiers, Add(id)
  PROVE  TableInv'
<1> DEFINE t == Signature(sketch[id])
<1>1. /\ rank' = rank /\ sketch' = sketch /\ members' = members /\ next' = next
      /\ sigs' = sigs /\ keys' = keys /\ offsets' = offsets
      /\ ids' = ids /\ cursor' = cursor /\ progress' = progress
      /\ additions' = [additions EXCEPT ![t] = Append(@, id)]
      /\ sketch[id] # {} /\ id \notin ToSet(members) /\ id \notin Added
  BY DEF Add
<1>2. \A slots : Signature(slots)' = Signature(slots)
  BY <1>1, SignatureSame
<1>3. Signed' = Signed /\ LaidOut' = LaidOut /\ Filled' = Filled
  BY <1>1, SameTable
<1>4. t \in Slots
  <2>1. sketch[id] \in SUBSET Slots
    BY DEF TableInv
  <2> QED
    BY <1>1, <2>1, SignatureIs
<1>5. additions \in [Slots -> Seq(Identifiers)] /\ AdditionsInv
  BY DEF TableInv, AdditionsInv
<1> DEFINE v == additions[t]
<1>6. /\ v \in Seq(Identifiers) /\ Len(v) \in Nat /\ DOMAIN v = 1..Len(v)
      /\ \A i \in 1..Len(v) : v[i] \in Added
      /\ \A i, j \in 1..Len(v) : v[i] = v[j] => i = j
  <2>1. /\ v \in Seq(Identifiers) /\ Len(v) \in Nat
        /\ \A i \in 1..Len(v) : v[i] \in Added
        /\ \A i, j \in 1..Len(v) : v[i] = v[j] => i = j
    BY <1>4, AddedAre
  <2> HIDE DEF v
  <2> QED
    BY <2>1
<1> HIDE DEF t, v
<1>7. /\ Append(v, id) \in Seq(Identifiers) /\ DOMAIN Append(v, id) = 1..Len(v) + 1
      /\ Append(v, id)[Len(v) + 1] = id
      /\ \A i \in 1..Len(v) : Append(v, id)[i] = v[i]
  <2>1. /\ Append(v, id) \in Seq(Identifiers) /\ Len(Append(v, id)) = Len(v) + 1
        /\ \A i \in 1..Len(v) : Append(v, id)[i] = v[i]
        /\ Append(v, id)[Len(v) + 1] = id
    BY <1>6, AppendProperties
  <2> DEFINE w == Append(v, id)
  <2>2. w \in Seq(Identifiers) /\ Len(w) = Len(v) + 1
    BY <2>1
  <2> HIDE DEF w
  <2>3. DOMAIN w = 1..Len(v) + 1
    BY <2>2
  <2> QED
    BY <2>1, <2>3 DEF w
<1>8. /\ additions' \in [Slots -> Seq(Identifiers)] /\ additions'[t] = Append(v, id)
      /\ \A s \in Slots : s # t => additions'[s] = additions[s]
  BY <1>1, <1>4, <1>5, <1>7 DEF v
<1>9. \A i \in 1..Len(v) + 1 : i = Len(v) + 1 \/ i \in 1..Len(v)
  BY <1>6
<1>10. IsInjective(Append(v, id))
  <2>1. ASSUME NEW i \in 1..Len(v) + 1, NEW j \in 1..Len(v) + 1, Append(v, id)[i] = Append(v, id)[j]
        PROVE  i = j
    <3>1. CASE i \in 1..Len(v) /\ j \in 1..Len(v)
      BY <1>6, <1>7, <2>1, <3>1
    <3>2. CASE i \in 1..Len(v) /\ j = Len(v) + 1
      BY <1>1, <1>6, <1>7, <2>1, <3>2
    <3>3. CASE i = Len(v) + 1 /\ j \in 1..Len(v)
      BY <1>1, <1>6, <1>7, <2>1, <3>3
    <3>4. CASE i = Len(v) + 1 /\ j = Len(v) + 1
      BY <3>4
    <3> QED
      BY <1>9, <3>1, <3>2, <3>3, <3>4
  <2> QED
    BY <1>7, <2>1 DEF IsInjective
<1>11. \A k \in DOMAIN Append(v, id) :
         Signature(sketch[Append(v, id)[k]]) = t /\ Append(v, id)[k] \notin ToSet(members)
  <2>1. ASSUME NEW k \in 1..Len(v)
        PROVE  Signature(sketch[v[k]]) = t /\ v[k] \notin ToSet(members)
    BY <1>4, <1>5, <1>6 DEF AdditionsInv, v
  <2>2. Signature(sketch[id]) = t
    BY DEF t
  <2> QED
    BY <1>1, <1>7, <1>9, <2>1, <2>2
<1>12. \A s \in Slots :
         /\ IsInjective(additions'[s])
         /\ \A k \in DOMAIN additions'[s] :
              Signature(sketch[additions'[s][k]]) = s /\ additions'[s][k] \notin ToSet(members)
  <2>1. SUFFICES ASSUME NEW s \in Slots
                 PROVE  /\ IsInjective(additions'[s])
                        /\ \A k \in DOMAIN additions'[s] :
                             /\ Signature(sketch[additions'[s][k]]) = s
                             /\ additions'[s][k] \notin ToSet(members)
    OBVIOUS
  <2>2. CASE s = t
    BY <1>8, <1>10, <1>11, <2>2
  <2>3. CASE s # t
    BY <1>5, <1>8, <2>3 DEF AdditionsInv
  <2> QED
    BY <2>2, <2>3
<1>13. AdditionsInv'
  BY <1>1, <1>2, <1>8, <1>12 DEF AdditionsInv, Slots
<1> QED
  BY <1>1, <1>3, <1>13 DEF TableInv, Slots

\* Every step of a table keeps the invariant.
LEMMA TableStep == TableInv /\ [TableNext]_table => TableInv'
<1>1. SUFFICES ASSUME TableInv, [TableNext]_table PROVE TableInv'
  OBVIOUS
<1>2. CASE Sign
  BY <1>1, <1>2, TableSign
<1>3. CASE LayOut
  BY <1>1, <1>3, TableLayOut
<1>4. CASE Place
  BY <1>1, <1>4, TablePlace
<1>5. CASE Finish
  BY <1>1, <1>5, TableFinish
<1>6. CASE \E id \in Identifiers : Add(id)
  BY <1>1, <1>6, TableAdd
<1>7. CASE UNCHANGED table
  <2>1. /\ rank' = rank /\ sketch' = sketch /\ members' = members /\ next' = next
        /\ sigs' = sigs /\ keys' = keys /\ offsets' = offsets
        /\ ids' = ids /\ cursor' = cursor /\ progress' = progress /\ additions' = additions
    BY <1>7 DEF table
  <2>2. Signed' = Signed /\ LaidOut' = LaidOut /\ Filled' = Filled
    BY <1>1, <2>1, SameTable
  <2>3. \A slots : Signature(slots)' = Signature(slots)
    BY <2>1, SignatureSame
  <2>4. AdditionsInv'
    BY <1>1, <2>1, <2>3 DEF TableInv, AdditionsInv, Slots
  <2> QED
    BY <1>1, <2>1, <2>2, <2>4 DEF TableInv, Slots
<1> QED
  BY <1>1, <1>2, <1>3, <1>4, <1>5, <1>6, <1>7 DEF TableNext

\* The invariant of a table holds in every state.
LEMMA TableHolds == TableSpec => []TableInv
<1> QED
  BY TableInitially, TableStep, PTL DEF TableSpec

\* A query with a signature meets the records with that signature, built in or added, each
\* once: the counting sort of build puts every member into the bucket of its signature, and
\* the additions keep theirs apart from it.
THEOREM LookupsMeetTheirBucket == TableSpec => []VisitsItsBucket
<1> QED
  BY TableHolds, VisitsOfInv, PTL

-----------------------------------------------------------------------------
(***************************************************************************)
(* The bytes of a table.                                                   *)
(***************************************************************************)

\* An array that has grown one by one to N entries holds less than twice as many.
LEMMA CapacityIs ==
  ASSUME NEW N \in Nat
  PROVE  /\ Capacity(N) \in Nat
         /\ N = 0 => Capacity(N) = 0
         /\ N = 1 => Capacity(N) = 1
         /\ N > 1 => Capacity(N) <= 2 * N - 2
<1> DEFINE step == [k \in 1..N |-> [v \in Nat |-> IF v >= k THEN v ELSE Max({1, 2 * v})]]
           Grown(f) == f = [k \in 0..N |->
                              IF k = 0 THEN 0
                              ELSE LET c == f[k - 1] IN IF c >= k THEN c ELSE Max({1, 2 * c})]
<1>1. \A v \in Nat : /\ 2 * v \in Nat /\ Max({1, 2 * v}) \in Nat
                     /\ v = 0 => Max({1, 2 * v}) = 1
                     /\ v > 0 => Max({1, 2 * v}) = 2 * v
  <2>1. SUFFICES ASSUME NEW v \in Nat
                 PROVE  /\ 2 * v \in Nat /\ Max({1, 2 * v}) \in Nat
                        /\ v = 0 => Max({1, 2 * v}) = 1
                        /\ v > 0 => Max({1, 2 * v}) = 2 * v
    OBVIOUS
  <2> DEFINE w == 2 * v
  <2>2. w \in Nat /\ (v = 0 => w = 0) /\ (v > 0 => w > 1)
    OBVIOUS
  <2> HIDE DEF w
  <2>3. Max({1, w}) \in {1, w}
    <3>1. IsFiniteSet({1} \cup {w})
      BY FS_Singleton, FS_AddElement
    <3>2. {1, w} = {1} \cup {w} /\ {1, w} \in SUBSET Int /\ {1, w} # {}
      BY <2>2
    <3> QED
      BY <3>1, <3>2, MaxIs
  <2>4. Max({1, w}) \in Nat /\ Max({1, w}) >= 1 /\ Max({1, w}) >= w
    BY <2>2, MaxOfTwo
  <2>5. Max({1, w}) \in Nat /\ (v = 0 => Max({1, w}) = 1) /\ (v > 0 => Max({1, w}) = w)
    BY <2>2, <2>3, <2>4
  <2> QED
    BY <2>2, <2>5 DEF w
<1>2. IsStep(Nat, 0, step, N)
  BY <1>1 DEF IsStep
<1>3. PICK f : Follows(f, Nat, 0, step, N)
  <2> HIDE DEF step
  <2> QED
    BY <1>2, RecursionExists
<1>4. ASSUME NEW k \in 0..N
      PROVE  f[k] = IF k = 0 THEN 0
                    ELSE LET c == f[k - 1] IN IF c >= k THEN c ELSE Max({1, 2 * c})
  <2>1. CASE k = 0
    BY <1>3, <2>1 DEF Follows
  <2>2. CASE k # 0
    <3>1. k \in 1..N /\ k - 1 \in 0..N
      BY <2>2
    <3>2. f[k] = step[k][f[k - 1]] /\ f[k - 1] \in Nat
      BY <1>3, <3>1 DEF Follows
    <3>3. step[k][f[k - 1]] = IF f[k - 1] >= k THEN f[k - 1] ELSE Max({1, 2 * f[k - 1]})
      BY <3>1, <3>2
    <3> QED
      BY <2>2, <3>2, <3>3
  <2> QED
    BY <2>1, <2>2
<1>5. Grown(f)
  BY <1>3, <1>4 DEF Follows
<1> DEFINE grown == CHOOSE g : Grown(g)
<1>6. Capacity(N) = grown[N]
  BY DEF Capacity
<1>7. Grown(grown)
  <2> HIDE DEF Grown
  <2> QED
    BY <1>5
<1> HIDE DEF grown, step
<1>8. \A k \in 0..N : grown[k] = IF k = 0 THEN 0
                                 ELSE LET c == grown[k - 1] IN IF c >= k THEN c ELSE Max({1, 2 * c})
  BY <1>7
<1> HIDE DEF Grown
<1> DEFINE Holds(k) == /\ grown[k] \in Nat /\ grown[k] >= k
                       /\ k = 0 => grown[k] = 0
                       /\ k = 1 => grown[k] = 1
                       /\ k > 1 => grown[k] <= 2 * k - 2
           Bad == {k \in 0..N : ~Holds(k)}
<1>9. Holds(N)
  <2>1. SUFFICES ASSUME N \in Bad PROVE FALSE
    OBVIOUS
  <2>2. PICK k \in Bad : \A x \in Bad : k <= x
    <3>1. Bad \in SUBSET Nat
      OBVIOUS
    <3> HIDE DEF Bad
    <3> QED
      BY <2>1, <3>1, LeastExists
  <2>3. k \in 0..N /\ ~Holds(k)
    OBVIOUS
  <2>4. k # 0
    <3>1. grown[0] = 0
      <4>1. 0 \in 0..N
        OBVIOUS
      <4> HIDE DEF Bad, Holds
      <4> QED
        BY <1>8, <4>1
    <3> QED
      BY <2>3, <3>1
  <2>5. k - 1 \in 0..N /\ k - 1 \in Nat /\ ~(k <= k - 1)
    BY <2>3, <2>4
  <2>6. Holds(k - 1)
    <3> HIDE DEF Holds
    <3> QED
      BY <2>2, <2>5
  <2> DEFINE c == grown[k - 1]
  <2>7. /\ c \in Nat /\ c >= k - 1
        /\ k = 1 => c = 0
        /\ k = 2 => c = 1
        /\ k > 2 => c <= 2 * k - 4
    BY <2>3, <2>5, <2>6
  <2>8. grown[k] = IF c >= k THEN c ELSE Max({1, 2 * c})
    BY <1>8, <2>3, <2>4
  <2> HIDE DEF c, Bad
  <2>9. /\ Max({1, 2 * c}) \in Nat
        /\ c = 0 => Max({1, 2 * c}) = 1
        /\ c > 0 => Max({1, 2 * c}) = 2 * c
    BY <1>1, <2>7
  <2> DEFINE z == Max({1, 2 * c})
  <2>10. z \in Nat /\ (c = 0 => z = 1) /\ (c > 0 => z = 2 * c) /\ grown[k] = IF c >= k THEN c ELSE z
    BY <2>8, <2>9
  <2> HIDE DEF z
  <2>11. Holds(k)
    BY <2>3, <2>4, <2>7, <2>10
  <2> QED
    BY <2>3, <2>11
<1> QED
  BY <1>6, <1>9

\* There are no more keys than members, and no more than slots.
LEMMA KeysBounded ==
  ASSUME TableInv, progress \in {"place", "built"}
  PROVE  Len(keys) \in Nat /\ Len(keys) <= Len(members) /\ Len(keys) <= Universe
<1> DEFINE T == {s \in Slots : Count(s) > 0}
           f == [s \in T |-> CHOOSE j \in DOMAIN sigs : sigs[j] = s]
<1>1. Len(keys) = Cardinality(T) /\ Len(keys) \in Nat
  BY KeysAre
<1>2. T \in SUBSET Slots /\ IsFiniteSet(Slots)
  BY SlotsFinite
<1>3. Cardinality(Slots) = Universe
  <2>1. /\ 0 \in Int /\ Universe - 1 \in Int /\ ~(0 > Universe - 1)
        /\ Universe - 1 - 0 + 1 = Universe
    BY SlotsFinite
  <2>2. Cardinality(0..Universe-1) = IF 0 > Universe - 1 THEN 0 ELSE Universe - 1 - 0 + 1
    BY <2>1, FS_Interval
  <2>3. Cardinality(0..Universe-1) = Universe
    BY <2>1, <2>2
  <2> QED
    BY <2>3 DEF Slots
<1>4. ASSUME NEW s \in T
      PROVE  f[s] \in DOMAIN sigs /\ sigs[f[s]] = s
  <2>1. Count(s) = Cardinality(Having({s})) /\ Count(s) > 0
    BY CountIs
  <2>2. Having({s}) # {}
    <3>1. Cardinality({}) = 0
      BY FS_EmptySet
    <3>2. Count(s) # 0
      BY <2>1, CountIs
    <3> HIDE DEF T, f
    <3> QED
      BY <2>1, <3>1, <3>2, Zenon
  <2>3. \E j \in DOMAIN sigs : sigs[j] = s
    BY <2>2 DEF Having
  <2> HIDE DEF T
  <2> QED
    BY <2>3
<1> HIDE DEF f
<1>5. f \in Injection(T, DOMAIN sigs)
  <2>1. f \in [T -> DOMAIN sigs]
    <3>1. f = [s \in T |-> f[s]]
      BY DEF f
    <3> HIDE DEF T
    <3> QED
      BY <1>4, <3>1
  <2>2. \A x, y \in T : f[x] = f[y] => x = y
    <3> HIDE DEF T
    <3> QED
      BY <1>4
  <2> HIDE DEF T
  <2> QED
    BY <2>1, <2>2 DEF Injection, IsInjective
<1> HIDE DEF T
<1>6. IsFiniteSet(DOMAIN sigs) /\ Cardinality(DOMAIN sigs) = Len(members)
  BY SignaturesTyped
<1>7. Cardinality(T) <= Len(members)
  <2>1. Cardinality(T) <= Cardinality(DOMAIN sigs)
    BY <1>5, <1>6, FS_Injection
  <2> QED
    BY <1>6, <2>1
<1>8. Cardinality(T) <= Universe
  <2>1. Cardinality(T) <= Cardinality(Slots)
    BY <1>2, FS_Subset
  <2> QED
    BY <1>3, <2>1
<1> QED
  BY <1>1, <1>7, <1>8

\* Each entry of the two lists of keys costs less than the sixteen bytes that the estimate
\* reckons for it, and the one offset more than the keys is within the table itself.
LEMMA BytesOfInv == TableInv => BytesWithinEstimate
<1>1. SUFFICES ASSUME TableInv, progress = "built" PROVE Bytes <= Estimate
  BY DEF BytesWithinEstimate
<1> DEFINE K == Len(keys)
           M == Len(members)
           m == Min({M, Universe})
           L == Start(Universe) - 1
<1>2. K \in Nat /\ K <= M /\ K <= Universe
  BY <1>1, KeysBounded
<1>3. M \in Nat /\ Universe \in Nat /\ TableSize \in Nat /\ TableSize >= 4
  BY <1>1, SignaturesTyped, TableAssumption
<1>4. L \in Nat /\ L <= M
  <2>1. Universe \in 0..Universe
    BY SlotsFinite
  <2>2. /\ Start(Universe) = 1 + Cardinality(Having(0..Universe-1))
        /\ Cardinality(Having(0..Universe-1)) \in Nat
        /\ Cardinality(Having(0..Universe-1)) <= M
    BY <1>1, <2>1, StartIs, HavingFinite
  <2> HIDE DEF M
  <2> QED
    BY <2>2
<1>5. Len(ids) = L
  <2>1. ids \in [1..L -> Nat]
    BY <1>1 DEF TableInv, LaidOut
  <2> HIDE DEF L
  <2>2. ids \in Seq(Nat)
    BY <1>4, <2>1
  <2> QED
    BY <1>4, <2>1, <2>2
<1>6. Len(offsets) = K + 1
  <2>1. DOMAIN offsets = 1..K + 1 /\ \E T : offsets \in [1..K + 1 -> T]
    <3> DEFINE F(j) == Start(IF j <= K THEN keys[j] ELSE Universe)
               T == {F(j) : j \in 1..K + 1}
    <3>1. offsets = [j \in 1..K + 1 |-> F(j)]
      BY <1>1 DEF TableInv, LaidOut
    <3> HIDE DEF F, K
    <3>2. offsets \in [1..K + 1 -> T]
      BY <3>1
    <3> QED
      BY <3>2
  <2> HIDE DEF K
  <2>2. PICK T : offsets \in [1..K + 1 -> T]
    BY <2>1
  <2>3. offsets \in Seq(T) /\ K + 1 \in Nat
    BY <1>2, <2>2
  <2> QED
    BY <2>2, <2>3
<1>7. m \in {M, Universe}
  BY <1>3, MinOfTwo
<1> HIDE DEF K, M, m, L
<1>8. m \in Nat /\ K <= m
  BY <1>2, <1>3, <1>7
<1> DEFINE C == Capacity(K)
           D == Capacity(K + 1)
<1>9. C \in Nat /\ (K = 0 => C = 0) /\ (K = 1 => C = 1) /\ (K > 1 => C <= 2 * K - 2)
  BY <1>2, CapacityIs
<1>10. D \in Nat /\ (K = 0 => D = 1) /\ (K > 0 => D <= 2 * K)
  <2>1. K + 1 \in Nat
    BY <1>2
  <2>2. D \in Nat /\ (K + 1 = 1 => D = 1) /\ (K + 1 > 1 => D <= 2 * (K + 1) - 2)
    BY <2>1, CapacityIs
  <2> HIDE DEF D
  <2> QED
    BY <1>2, <2>2
<1>11. Bytes = 4 * (C + D + L)
  <2>1. Bytes = 4 * (Capacity(K) + Capacity(Len(offsets)) + Len(ids))
    BY DEF Bytes, K
  <2> QED
    BY <1>5, <1>6, <2>1
<1>12. Estimate = 4 * M + 16 * m + TableSize
  BY DEF Estimate, M, m
<1> HIDE DEF C, D
<1>13. 4 * (C + D) <= 16 * K + 4 /\ (K > 0 => 4 * (C + D) <= 16 * K)
  BY <1>2, <1>9, <1>10
<1> QED
  BY <1>2, <1>3, <1>4, <1>8, <1>9, <1>10, <1>11, <1>12, <1>13

\* What a built table keeps is within what the resource guard has reckoned for it, whatever
\* its members and their signatures are and whatever its arrays have grown to.
THEOREM TablesWithinEstimate == TableSpec => []BytesWithinEstimate
<1> QED
  BY TableHolds, BytesOfInv, PTL
=============================================================================
