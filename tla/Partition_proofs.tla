-------------------------- MODULE Partition_proofs --------------------------
(***************************************************************************)
(* Proofs about the build of the partition, for any records on the arc,    *)
(* any number of clusters and any budget: a repair finds a record to       *)
(* spare, iterations that come to rest leave no cluster empty, and the     *)
(* bounds of the result hold for every member.                             *)
(***************************************************************************)
EXTENDS Partition, Ranking_proofs

Phases == {"assign", "repair", "converged", "spill", "done", "empty cluster"}

Means(p) == [c \in Clusters |-> Mean(Primaries(p, c))]

\* The types of the partition; what is empty or zero until the end is left out.
Types ==
  /\ row \in Loads
  /\ K \in 1..Cardinality(Records)
  /\ mu \in [Clusters -> Nat]
  /\ primary \in [Records -> 0..K]
  /\ counts \in [Clusters -> Int]
  /\ changes \in BOOLEAN
  /\ iteration \in 0..MaxIterations
  /\ phase \in Phases
  /\ phase = "repair" => iteration < MaxIterations

\* In an iteration every record has a cluster, and the counts are of these.
Counted ==
  phase = "repair" =>
    /\ primary \in [Records -> Clusters]
    /\ \A c \in Clusters : counts[c] = Cardinality(Primaries(primary, c))

\* Every record is in the cluster nearest to it, and no cluster is empty.
Settled ==
  /\ \A i \in Records : primary[i] = First(i)
  /\ \A c \in Clusters : Primaries(primary, c) # {}

\* Centroids are the means of the last assignment, which an iteration without
\* changes only repeats.
AtRest ==
  /\ phase = "assign" /\ iteration = 0 => primary = [i \in Records |-> 0]
  /\ phase = "assign" /\ iteration > 0 => changes /\ mu = Means(primary)
  /\ phase = "repair" /\ ~changes =>
       mu = Means(primary) /\ \A i \in Records : primary[i] = First(i)
  /\ phase = "converged" => Settled

\* the bounds of cluster c hold for record i
Bounded(i, c) ==
  /\ row[i].length <= norm_bound[c] /\ Dist(row[i].angle, mu[c]) <= cover[c]
  /\ norm_bound[c] \in Nat /\ cover[c] \in Nat

\* The radius reaches the records at home in a cluster, and what spills into it
\* is within the radius.
Reached ==
  /\ phase = "spill" =>
       \A i \in Records :
         /\ primary[i] \in Clusters /\ radius[primary[i]] \in Nat
         /\ Dist(row[i].angle, mu[primary[i]]) <= radius[primary[i]]
         /\ secondary[i] # 0 => secondary[i] \in Clusters /\ radius[secondary[i]] \in Nat
  /\ phase = "done" =>
       \A c \in Clusters : ids[c] \subseteq Records /\ \A i \in ids[c] : Bounded(i, c)

PInv == Types /\ Counted /\ AtRest /\ ConvergedIsFinal /\ Reached

-----------------------------------------------------------------------------
(***************************************************************************)
(* Arithmetic on the arc.                                                  *)
(***************************************************************************)

\* Rows have a direction and a length.
LEMMA RowsTyped ==
  ASSUME row \in Loads, NEW i \in Records
  PROVE  row[i].angle \in Nat /\ row[i].length \in Nat
BY PartitionAssumption

\* Distances on the arc are naturals.
LEMMA DistTyped ==
  ASSUME NEW a \in Nat, NEW b \in Nat
  PROVE  Dist(a, b) \in Nat
BY DEF Dist

\* Some centroid is nearest.
LEMMA NearestExists ==
  ASSUME NEW a \in Nat, NEW among \in SUBSET Nat, among # {}, \A c \in among : mu[c] \in Nat
  PROVE  Nearest(a, among) \in among
<1> DEFINE f == [c \in among |-> Dist(a, mu[c])]
<1>1. f \in [among -> Nat] /\ \A c \in among : f[c] = Dist(a, mu[c])
  BY DistTyped
<1>2. \E c \in among : \A e \in among : f[c] < f[e] \/ (f[c] = f[e] /\ c <= e)
  <2> HIDE DEF f
  <2> QED
    BY <1>1, FirstOfLeast
<1> HIDE DEF f
<1> QED
  BY <1>1, <1>2 DEF Nearest

\* The nearest cluster of a record is one, the second nearest is one or none.
LEMMA NearestOfAll ==
  ASSUME Types, NEW i \in Records
  PROVE  /\ First(i) \in Clusters
         /\ Second(i) # 0 => Second(i) \in Clusters
<1>1. /\ row[i].angle \in Nat /\ Clusters \in SUBSET Nat /\ 1 \in Clusters
      /\ \A c \in Clusters : mu[c] \in Nat
  BY RowsTyped DEF Types, Clusters
<1>2. First(i) \in Clusters
  BY <1>1, NearestExists DEF First
<1>3. CASE K = 1
  BY <1>2, <1>3 DEF Second
<1>4. CASE K # 1
  <2> DEFINE others == Clusters \ {First(i)}
  <2>1. 2 \in Clusters
    BY <1>4 DEF Types, Clusters
  <2>2. others \subseteq Clusters /\ others # {}
    BY <1>1, <2>1
  <2>5. others \in SUBSET Nat /\ \A c \in others : mu[c] \in Nat
    <3> HIDE DEF others
    <3> QED
      BY <1>1, <2>2
  <2>3. Second(i) = Nearest(row[i].angle, others)
    BY <1>4 DEF Second
  <2> HIDE DEF others
  <2>4. Second(i) \in others
    BY <1>1, <2>2, <2>5, <2>3, NearestExists
  <2> QED
    BY <1>2, <2>4 DEF others
<1> QED
  BY <1>3, <1>4

\* The largest of zero and finitely many naturals bounds them.
LEMMA MaxBounds ==
  ASSUME NEW D, IsFiniteSet(D), NEW f \in [D -> Nat], NEW S, S = {0} \cup {f[i] : i \in D}
  PROVE  Max(S) \in Nat /\ \A i \in D : f[i] <= Max(S)
<1>1. \E m \in S : m \in Nat /\ \A y \in S : y <= m
  BY LargestExists
<1>2. S \subseteq Nat
  OBVIOUS
<1>3. Max(S) \in S /\ \A y \in S : y <= Max(S)
  BY <1>1, <1>2 DEF Max
<1> QED
  BY <1>2, <1>3

\* the sum in a mean, as the community modules define it
AngleSum(r, S) ==
  CHOOSE g : g = [s \in SUBSET S |->
    IF s = {} THEN 0
    ELSE LET x == CHOOSE y \in s : TRUE IN r[x].angle + g[s \ {x}]]

\* A mean is a sum divided by the number of its terms.
LEMMA MeanIs ==
  ASSUME NEW S
  PROVE  Mean(S) = AngleSum(row, S)[S] \div Cardinality(S)
<1>1. MapThenSumSet(LAMBDA i : row[i].angle, S) = AngleSum(row, S)[S]
  BY DEF MapThenSumSet, MapThenFoldSet, AngleSum
<1> QED
  BY ONLY <1>1 DEF Mean

\* The mean direction of some records is a natural.
LEMMA MeanTyped ==
  ASSUME row \in Loads, NEW S \in SUBSET Records, Cardinality(S) # 0
  PROVE  Mean(S) \in Nat
<1> DEFINE f == [i \in Records |-> row[i].angle]
           D(g) == g = [s \in SUBSET S |->
                     IF s = {} THEN 0
                     ELSE LET x == CHOOSE y \in s : TRUE IN row[x].angle + g[s \ {x}]]
           sum == AngleSum(row, S)
<1>1. IsFiniteSet(S) /\ Cardinality(S) \in Nat \ {0}
  BY PartitionAssumption, FS_Subset, FS_CardinalityType
<1>2. \A i \in S : f[i] \in Nat
  BY RowsTyped
<1>3. ASSUME NEW g PROVE D(g) <=> IsSum(g, f, S)
  <2>1. ASSUME NEW s \in SUBSET S, s # {}
        PROVE  row[One(s)].angle = f[One(s)]
    BY <2>1 DEF One
  <2>2. [s \in SUBSET S |->
           IF s = {} THEN 0 ELSE row[One(s)].angle + g[s \ {One(s)}]]
        = [s \in SUBSET S |-> IF s = {} THEN 0 ELSE f[One(s)] + g[s \ {One(s)}]]
    <3> HIDE DEF f
    <3> QED
      BY <2>1
  <2> QED
    BY <2>2 DEF IsSum, One
<1>4. IsSum(sum, f, S)
  <2>1. sum = CHOOSE g : D(g)
    BY DEF AngleSum
  <2> HIDE DEF f, sum
  <2>2. \E g : D(g)
    <3> HIDE DEF D
    <3> QED
      BY <1>1, <1>3, SumExists
  <2> HIDE DEF D
  <2> QED
    BY <1>3, <2>1, <2>2
<1>5. sum[S] \in Nat
  <2> HIDE DEF f, sum
  <2> QED
    BY <1>1, <1>2, <1>4, SumTyped
<1>6. Mean(S) = sum[S] \div Cardinality(S)
  BY MeanIs
<1> HIDE DEF sum
<1> QED
  BY <1>1, <1>5, <1>6

\* Means depend on the assignment and the rows alone.
LEMMA SameMeans ==
  ASSUME row' = row, K' = K, primary' = primary
  PROVE  Means(primary)' = Means(primary)
<1> SUFFICES ASSUME NEW c \in Clusters
             PROVE  Mean(Primaries(primary, c))' = Mean(Primaries(primary, c))
  BY DEF Means, Clusters
<1> DEFINE S == Primaries(primary, c)
<1>1. Mean(S) = AngleSum(row, S)[S] \div Cardinality(S)
  BY MeanIs
<1>2. Mean(S)' = AngleSum(row', S')[S'] \div Cardinality(S')
  BY DEF Mean, MapThenSumSet, MapThenFoldSet, AngleSum
<1>3. S' = S
  BY DEF Primaries
<1> QED
  BY <1>1, <1>2, <1>3

-----------------------------------------------------------------------------
(***************************************************************************)
(* The iterations.                                                         *)
(***************************************************************************)

\* The records of a cluster are finitely many.
LEMMA PrimariesFinite ==
  ASSUME NEW p, NEW c
  PROVE  /\ Primaries(p, c) \in SUBSET Records /\ IsFiniteSet(Primaries(p, c))
         /\ Cardinality(Primaries(p, c)) \in Nat
         /\ Cardinality(Primaries(p, c)) = 0 <=> Primaries(p, c) = {}
<1>1. Primaries(p, c) \in SUBSET Records
  BY DEF Primaries
<1> QED
  BY <1>1, PartitionAssumption, FS_Subset, FS_CardinalityType, FS_EmptySet

\* More records than clusters in use: one cluster has two.
LEMMA SpareExists ==
  ASSUME Types, Counted, phase = "repair", Empties # {}
  PROVE  Spare # {}
<1>1. PICK e \in Clusters : counts[e] = 0
  BY DEF Empties
<1>2. primary \in [Records -> Clusters] /\ \A c \in Clusters : counts[c] = Cardinality(Primaries(primary, c))
  BY DEF Counted
<1> DEFINE T == Clusters \ {e}
<1>3. primary \in [Records -> T]
  <2>1. Primaries(primary, e) = {}
    BY <1>1, <1>2, PrimariesFinite
  <2> QED
    BY <1>2, <2>1 DEF Primaries
<1>4. IsFiniteSet(T) /\ Cardinality(T) < Cardinality(Records) /\ IsFiniteSet(Records)
  <2>1. Cardinality(Records) \in Nat
    BY PartitionAssumption, FS_CardinalityType
  <2>2. K \in Nat /\ 1 <= K /\ K <= Cardinality(Records)
    BY <2>1 DEF Types
  <2>3. 1 \in Int /\ K \in Int
    BY <2>2
  <2>4. IsFiniteSet(Clusters) /\ Cardinality(Clusters) = K
    BY <2>2, <2>3, FS_Interval DEF Clusters
  <2>5. IsFiniteSet(T) /\ Cardinality(T) = K - 1
    BY <2>4, FS_RemoveElement
  <2> HIDE DEF T
  <2> QED
    BY <2>1, <2>2, <2>5, PartitionAssumption
<1> HIDE DEF T
<1>5. PICK i \in Records, j \in Records : i # j /\ primary[i] = primary[j]
  BY <1>3, <1>4, FS_PigeonHole
<1> DEFINE c == primary[i]
           S == Primaries(primary, c)
<1>6. i \in S /\ j \in S /\ c \in Clusters
  BY <1>2, <1>5 DEF Primaries
<1> HIDE DEF c, S
<1>7. Cardinality(S) \in Nat /\ Cardinality(S) # 0 /\ Cardinality(S) # 1
  <2>1. IsFiniteSet(S) /\ Cardinality(S) \in Nat /\ (Cardinality(S) = 0 <=> S = {})
    BY PrimariesFinite DEF S
  <2>2. Cardinality(S) = 1 => \E x : S = {x}
    BY <2>1, FS_Singleton
  <2> QED
    BY <1>5, <1>6, <2>1, <2>2
<1>8. counts[c] > 1
  BY <1>2, <1>6, <1>7 DEF S
<1> QED
  BY <1>8 DEF Spare, c

\* A record to spare is found.
LEMMA PickExists ==
  ASSUME Types, Spare # {}, primary \in [Records -> Clusters]
  PROVE  Pick(Spare) \in Spare
<1>1. Spare \in SUBSET Nat /\ IsFiniteSet(Spare) /\ Spare \subseteq Records
  <2>1. Spare \in SUBSET Records
    BY DEF Spare
  <2> QED
    BY <2>1, PartitionAssumption, FS_Subset
<1>2. \A i \in Spare : FarFromOwn(i) \in Nat
  BY <1>1, RowsTyped, DistTyped DEF Types, FarFromOwn
<1> DEFINE f == [i \in Spare |-> FarFromOwn(i)]
<1>3. f \in [Spare -> Nat] /\ \A i \in Spare : f[i] = FarFromOwn(i)
  BY <1>2
<1>4. \E i \in Spare : \A j \in Spare : f[i] > f[j] \/ (f[i] = f[j] /\ i <= j)
  <2> HIDE DEF f
  <2> QED
    BY <1>1, <1>3, FirstOfLargest
<1> HIDE DEF f
<1> QED
  BY <1>3, <1>4 DEF Pick

\* The first of the empty clusters is one.
LEMMA FirstEmptyExists ==
  ASSUME Empties # {}
  PROVE  Min(Empties) \in Empties
<1>1. Empties \in SUBSET Nat
  BY DEF Empties, Clusters
<1>2. \E x \in Empties : \A y \in Empties : x <= y
  BY <1>1, LeastExists
<1> QED
  BY <1>2 DEF Min

\* An assignment puts every record in a cluster and counts it there.
LEMMA AssignOK ==
  ASSUME PInv, Assign
  PROVE  PInv'
<1>1. Types'
  <2>1. \A i \in Records : First(i) \in Clusters
    BY NearestOfAll DEF PInv
  <2>2. primary' \in [Records -> Clusters]
    BY <2>1 DEF Assign, First
  <2>3. primary' \in [Records -> 0..K]
    BY <2>2 DEF PInv, Types, Clusters
  <2>4. \A c \in Clusters : Cardinality(Primaries(primary', c)) \in Int
    BY PrimariesFinite
  <2>5. counts' \in [Clusters -> Int]
    BY <2>4 DEF Assign
  <2> QED
    BY <2>3, <2>5 DEF PInv, Types, Assign, data, bounds, Clusters, Phases
<1>2. Counted'
  <2>1. \A i \in Records : First(i) \in Clusters
    BY NearestOfAll DEF PInv
  <2> QED
    BY <2>1 DEF Counted, Assign, First, Clusters, data, Primaries
<1>3. AtRest'
  <2>1. phase' = "repair" /\ row' = row /\ K' = K /\ mu' = mu
    BY DEF Assign, data
  <2>2. ASSUME ~changes' PROVE mu = Means(primary) /\ primary' = primary
    <3>1. primary' = primary /\ phase = "assign"
      BY <2>2 DEF Assign
    <3>2. iteration # 0
      <4>1. PICK i \in Records : TRUE
        BY PartitionAssumption
      <4>2. primary'[i] = First(i) /\ First(i) \in Clusters
        BY NearestOfAll DEF PInv, Assign, First
      <4>3. primary[i] # 0
        BY <3>1, <4>2 DEF Clusters
      <4> QED
        BY <3>1, <4>3 DEF PInv, AtRest
    <3>3. iteration > 0
      BY <3>2 DEF PInv, Types
    <3> QED
      BY <3>1, <3>3 DEF PInv, AtRest
  <2>3. \A i \in Records : primary'[i] = First(i)'
    <3>1. \A i \in Records : First(i)' = First(i)
      BY <2>1 DEF First, Nearest, Clusters, Dist
    <3> QED
      BY <3>1 DEF Assign, First
  <2>4. ~changes' => mu' = Means(primary)'
    BY <2>1, <2>2, SameMeans
  <2> QED
    BY <2>1, <2>3, <2>4 DEF AtRest
<1>4. ConvergedIsFinal' /\ Reached'
  BY DEF Assign, ConvergedIsFinal, Reached
<1> QED
  BY <1>1, <1>2, <1>3, <1>4 DEF PInv

\* A repair takes a record from one cluster and gives it to an empty one.
LEMMA RepairOK ==
  ASSUME PInv, Repair
  PROVE  PInv'
<1> DEFINE i == Pick(Spare)
           e == Min(Empties)
           d == primary[i]
<1>1. /\ primary \in [Records -> Clusters] /\ counts \in [Clusters -> Int]
      /\ \A c \in Clusters : counts[c] = Cardinality(Primaries(primary, c))
  BY DEF PInv, Types, Counted, Repair
<1>2. i \in Spare /\ e \in Empties
  BY <1>1, PickExists, FirstEmptyExists DEF PInv, Repair
<1>3. /\ i \in Records /\ d \in Clusters /\ counts[d] > 1
      /\ e \in Clusters /\ counts[e] = 0 /\ e # d
  BY <1>1, <1>2 DEF Spare, Empties
<1>4. primary' = [primary EXCEPT ![i] = e] /\ counts' = [counts EXCEPT ![d] = @ - 1, ![e] = 1]
  BY DEF Repair, Moved
<1>5. /\ changes' = TRUE /\ phase' = "repair" /\ row' = row /\ K' = K /\ mu' = mu
      /\ iteration' = iteration /\ Clusters' = Clusters
  BY DEF Repair, data, Clusters
<1> HIDE DEF i, e, d
<1>6. primary' \in [Records -> Clusters] /\ counts' \in [Clusters -> Int]
  BY <1>1, <1>3, <1>4
<1>7. ASSUME NEW c \in Clusters PROVE counts'[c] = Cardinality(Primaries(primary', c))
  <2>1. CASE c = e
    <3>1. Primaries(primary, e) = {}
      BY <1>1, <1>3, PrimariesFinite
    <3>2. Primaries(primary', e) = {i}
      BY <1>1, <1>3, <1>4, <3>1 DEF Primaries
    <3>3. counts'[e] = 1
      BY <1>1, <1>3, <1>4
    <3> QED
      BY <2>1, <3>2, <3>3, FS_Singleton
  <2>2. CASE c = d
    <3>1. Primaries(primary', d) = Primaries(primary, d) \ {i} /\ i \in Primaries(primary, d)
      BY <1>1, <1>3, <1>4 DEF Primaries, d
    <3>2. counts'[d] = counts[d] - 1
      BY <1>1, <1>3, <1>4
    <3>3. Cardinality(Primaries(primary', d)) = Cardinality(Primaries(primary, d)) - 1
      <4> DEFINE S == Primaries(primary, d)
      <4>1. IsFiniteSet(S) /\ i \in S /\ Primaries(primary', d) = S \ {i}
        BY <3>1, PrimariesFinite
      <4> HIDE DEF S
      <4>2. Cardinality(Primaries(primary', d)) = Cardinality(S) - 1
        BY <4>1, FS_RemoveElement
      <4> QED
        BY <4>2 DEF S
    <3> QED
      BY <1>1, <1>3, <2>2, <3>2, <3>3
  <2>3. CASE c # e /\ c # d
    <3>1. Primaries(primary', c) = Primaries(primary, c)
      BY <1>1, <1>3, <1>4, <2>3 DEF Primaries, d
    <3>2. counts'[c] = counts[c]
      BY <1>1, <1>3, <1>4, <2>3
    <3> QED
      BY <1>1, <3>1, <3>2
  <2> QED
    BY <2>1, <2>2, <2>3
<1>8. Types'
  <2>1. primary' \in [Records -> 0..K] /\ mu' \in [Clusters -> Nat]
    BY <1>5, <1>6 DEF PInv, Types, Clusters
  <2>2. row' \in Loads /\ K' \in 1..Cardinality(Records) /\ iteration' \in 0..MaxIterations
        /\ iteration < MaxIterations
    BY <1>5 DEF PInv, Types, Repair
  <2> QED
    BY <1>5, <1>6, <2>1, <2>2 DEF Types, Phases
<1>9. Counted'
  BY <1>5, <1>6, <1>7 DEF Counted, Primaries
<1>10. AtRest' /\ ConvergedIsFinal' /\ Reached'
  BY <1>5 DEF AtRest, ConvergedIsFinal, Reached
<1> QED
  BY <1>8, <1>9, <1>10 DEF PInv

\* Moving the centroids of an assignment that came to rest moves none.
LEMMA RecentreOK ==
  ASSUME PInv, Recentre
  PROVE  PInv'
<1>1. /\ primary \in [Records -> Clusters]
      /\ \A c \in Clusters : counts[c] = Cardinality(Primaries(primary, c)) /\ counts[c] # 0
  BY DEF PInv, Counted, Recentre, Empties
<1>2. /\ row' = row /\ K' = K /\ primary' = primary /\ changes' = changes
      /\ mu' = Means(primary) /\ Clusters' = Clusters /\ iteration' = iteration + 1
      /\ phase' = IF changes THEN "assign" ELSE "converged"
  BY DEF Recentre, data, Clusters, Means, GoesOn
<1>3. Means(primary) \in [Clusters -> Nat]
  <2>1. ASSUME NEW c \in Clusters PROVE Mean(Primaries(primary, c)) \in Nat
    BY <1>1, PrimariesFinite, MeanTyped DEF PInv, Types
  <2> QED
    BY <2>1 DEF Means
<1>4. Means(primary)' = Means(primary)
  BY <1>2, SameMeans
<1>5. iteration < MaxIterations
  BY DEF PInv, Types, Recentre
<1>6. Types'
  BY <1>2, <1>3, <1>5, PartitionAssumption DEF PInv, Types, Recentre, Phases, bounds
<1>7. AtRest'
  <2>1. CASE changes
    BY <1>2, <1>4, <2>1 DEF AtRest, PInv, Types
  <2>2. CASE ~changes
    <3>1. mu' = mu /\ phase' = "converged" /\ \A i \in Records : primary[i] = First(i)
      BY <1>2, <2>2 DEF PInv, AtRest, Recentre
    <3>2. \A i \in Records : First(i)' = First(i)
      BY <1>2, <3>1 DEF First, Nearest, Dist
    <3>3. \A c \in Clusters : Primaries(primary, c) # {}
      BY <1>1, PrimariesFinite
    <3>4. Settled'
      BY <1>2, <3>1, <3>2, <3>3 DEF Settled, Primaries
    <3> QED
      BY <3>1, <3>4 DEF AtRest
  <2> QED
    BY <2>1, <2>2 DEF PInv, Types
<1>8. Counted' /\ ConvergedIsFinal' /\ Reached'
  BY <1>2 DEF Counted, ConvergedIsFinal, Reached
<1> QED
  BY <1>6, <1>7, <1>8 DEF PInv
-----------------------------------------------------------------------------
(***************************************************************************)
(* The final assignment and the spillover.                                 *)
(***************************************************************************)

\* The radius of a cluster reaches every record nearest to it.
LEMMA RadiusReaches ==
  ASSUME Types, NEW c \in Clusters
  PROVE  /\ Radius(c) \in Nat
         /\ \A i \in Records : First(i) = c => Dist(row[i].angle, mu[c]) <= Radius(c)
<1> DEFINE D == {j \in Records : First(j) = c}
           f == [i \in D |-> Dist(row[i].angle, mu[c])]
           S == {0} \cup {f[i] : i \in D}
<1>1. IsFiniteSet(D)
  <2>1. D \in SUBSET Records
    OBVIOUS
  <2> HIDE DEF D
  <2> QED
    BY <2>1, PartitionAssumption, FS_Subset
<1>2. f \in [D -> Nat]
  <2>1. \A i \in D : Dist(row[i].angle, mu[c]) \in Nat
    BY RowsTyped, DistTyped DEF Types
  <2> HIDE DEF D
  <2> QED
    BY <2>1
<1>3. Radius(c) = Max(S)
  <2>1. S = {0} \cup {Dist(row[i].angle, mu[c]) : i \in D}
    <3> HIDE DEF D
    <3> QED
      OBVIOUS
  <2> HIDE DEF S
  <2> QED
    BY <2>1 DEF Radius
<1>4. Max(S) \in Nat /\ \A i \in D : f[i] <= Max(S)
  <2> HIDE DEF D, f
  <2> QED
    BY <1>1, <1>2, MaxBounds
<1>5. \A i \in Records : First(i) = c => i \in D /\ f[i] = Dist(row[i].angle, mu[c])
  OBVIOUS
<1> HIDE DEF D, f, S
<1> QED
  BY <1>3, <1>4, <1>5

\* The final assignment finds a cluster empty only when the budget ended the
\* iterations, and its radii reach the records they are to reach.
LEMMA FinalAssignOK ==
  ASSUME PInv, FinalAssign
  PROVE  PInv'
<1>1. /\ row' = row /\ K' = K /\ mu' = mu /\ counts' = counts /\ changes' = changes
      /\ iteration' = iteration /\ Clusters' = Clusters
      /\ primary' = [i \in Records |-> First(i)]
      /\ secondary' = [i \in Records |-> Second(i)]
      /\ radius' = [c \in Clusters |-> Radius(c)]
      /\ phase' = IF \A c \in Clusters : Primaries(primary', c) # {} THEN "spill" ELSE "empty cluster"
  BY DEF FinalAssign, data, Clusters
<1>2. \A i \in Records : First(i) \in Clusters /\ (Second(i) # 0 => Second(i) \in Clusters)
  BY NearestOfAll DEF PInv
<1>3. Types'
  <2>1. primary' \in [Records -> 0..K]
    <3>1. Clusters \subseteq 0..K
      BY DEF PInv, Types, Clusters
    <3> QED
      BY <1>1, <1>2, <3>1
  <2> QED
    BY <1>1, <2>1 DEF PInv, Types, Phases
<1>4. ConvergedIsFinal'
  <2> SUFFICES ASSUME phase' = "empty cluster" PROVE changes /\ iteration = MaxIterations
    BY <1>1 DEF ConvergedIsFinal
  <2>1. phase # "converged"
    <3> SUFFICES ASSUME Settled PROVE FALSE
      BY DEF PInv, AtRest
    <3>1. primary' = primary
      BY <1>1 DEF Settled, PInv, Types
    <3> QED
      BY <1>1, <3>1 DEF Settled
  <2>2. phase = "assign" /\ iteration = MaxIterations
    BY <2>1 DEF FinalAssign, LoopIsOver, BudgetSpent
  <2> QED
    <3>1. MaxIterations > 0 /\ MaxIterations \in Nat
      <4>1. MaxIterations \in Nat \ {0}
        BY PartitionAssumption
      <4> QED
        BY ONLY <4>1
    <3>2. iteration > 0
      BY <2>2, <3>1
    <3>3. changes
      BY <2>2, <3>2 DEF PInv, AtRest
    <3> QED
      BY <2>2, <3>3
<1>5. Reached'
  <2> SUFFICES ASSUME phase' = "spill", NEW i \in Records
               PROVE  /\ primary'[i] \in Clusters /\ radius'[primary'[i]] \in Nat
                      /\ Dist(row[i].angle, mu[primary'[i]]) <= radius'[primary'[i]]
                      /\ secondary'[i] # 0 => secondary'[i] \in Clusters /\ radius'[secondary'[i]] \in Nat
    BY <1>1 DEF Reached, Dist
  <2>1. \A c \in Clusters : radius'[c] = Radius(c) /\ Radius(c) \in Nat
    BY <1>1, RadiusReaches DEF PInv
  <2>2. primary'[i] = First(i) /\ secondary'[i] = Second(i)
    BY <1>1
  <2>3. Dist(row[i].angle, mu[First(i)]) <= Radius(First(i))
    BY <1>2, RadiusReaches DEF PInv
  <2> QED
    BY <1>2, <2>1, <2>2, <2>3
<1>6. Counted' /\ AtRest'
  BY <1>1 DEF Counted, AtRest
<1> QED
  BY <1>3, <1>4, <1>5, <1>6 DEF PInv

\* Every member of a cluster, at home or spilled, is within its bounds.
LEMMA SpillOK ==
  ASSUME PInv, Spill
  PROVE  PInv'
<1>1. /\ row' = row /\ K' = K /\ mu' = mu /\ counts' = counts /\ changes' = changes
      /\ iteration' = iteration /\ Clusters' = Clusters /\ primary' = primary
      /\ secondary' = [i \in Records |-> IF Spills(i) THEN secondary[i] ELSE 0]
      /\ ids' = [c \in Clusters |-> {i \in Records : primary[i] = c \/ secondary'[i] = c}]
      /\ cover' = radius /\ norm_bound' = [c \in Clusters |-> LongestMember(c)]
      /\ phase = "spill" /\ phase' = "done"
  BY DEF Spill, data, Clusters
<1>2. ASSUME NEW c \in Clusters, NEW i \in ids'[c]
      PROVE  i \in Records /\ Bounded(i, c)'
  <2>1. i \in Records /\ (primary[i] = c \/ secondary'[i] = c)
    BY <1>1
  <2>2. Dist(row[i].angle, mu[c]) <= cover'[c] /\ cover'[c] \in Nat
    <3>1. CASE primary[i] = c
      BY <1>1, <2>1, <3>1 DEF PInv, Reached
    <3>2. CASE secondary'[i] = c
      <4>1. c # 0
        BY DEF Clusters
      <4>2. Spills(i) /\ secondary[i] = c
        BY <1>1, <2>1, <3>2, <4>1
      <4> QED
        BY <1>1, <2>1, <4>1, <4>2 DEF PInv, Reached, Spills
    <3> QED
      BY <2>1, <3>1, <3>2
  <2> DEFINE D == ids'[c]
             f == [j \in D |-> row[j].length]
             S == {0} \cup {f[j] : j \in D}
  <2>3. D \in SUBSET Records
    BY <1>1
  <2>4. IsFiniteSet(D) /\ f \in [D -> Nat]
    <3> HIDE DEF D
    <3>1. \A j \in D : row[j].length \in Nat
      BY <2>3, RowsTyped DEF PInv, Types
    <3> QED
      BY <2>3, <3>1, PartitionAssumption, FS_Subset
  <2>5. norm_bound'[c] = Max(S)
    <3>1. S = {0} \cup {row[j].length : j \in ids'[c]}
      OBVIOUS
    <3> HIDE DEF S, D
    <3> QED
      BY <1>1, <3>1 DEF LongestMember
  <2>6. Max(S) \in Nat /\ \A j \in D : f[j] <= Max(S)
    <3> HIDE DEF D, f
    <3> QED
      BY <2>4, MaxBounds
  <2>7. i \in D /\ f[i] = row[i].length
    OBVIOUS
  <2> HIDE DEF D, f, S
  <2>8. row[i].length <= norm_bound'[c] /\ norm_bound'[c] \in Nat
    BY <2>5, <2>6, <2>7
  <2> QED
    BY <1>1, <2>1, <2>2, <2>8 DEF Bounded, Dist
<1>3. Reached'
  BY <1>1, <1>2 DEF Reached
<1>4. Types' /\ Counted' /\ AtRest' /\ ConvergedIsFinal'
  BY <1>1 DEF PInv, Types, Phases, Counted, AtRest, ConvergedIsFinal
<1> QED
  BY <1>3, <1>4 DEF PInv

\* The state before the first iteration.
LEMMA InitOK ==
  ASSUME Init
  PROVE  PInv
<1>1. mu \in [Clusters -> Nat]
  <2>1. PICK s \in Injection(1..K, Records) : mu = [c \in 1..K |-> row[s[c]].angle]
    BY DEF Init
  <2>2. s \in [1..K -> Records]
    BY <2>1 DEF Injection
  <2>3. \A c \in 1..K : row[s[c]].angle \in Nat
    BY <2>2, RowsTyped DEF Init
  <2> QED
    BY <2>1, <2>3 DEF Clusters
<1>2. K \in Nat
  BY PartitionAssumption, FS_CardinalityType DEF Init
<1>3. primary \in [Records -> 0..K] /\ counts \in [Clusters -> Int]
  BY <1>2 DEF Init, Clusters
<1>4. Types
  <2>1. 0 \in 0..MaxIterations
    BY PartitionAssumption
  <2>2. row \in Loads /\ K \in 1..Cardinality(Records) /\ iteration = 0 /\ changes = FALSE
        /\ phase = "assign"
    BY DEF Init
  <2> QED
    BY <1>1, <1>3, <2>1, <2>2 DEF Types, Phases
<1>5. Counted /\ AtRest /\ ConvergedIsFinal /\ Reached
  BY DEF Init, Counted, AtRest, ConvergedIsFinal, Reached
<1> QED
  BY <1>4, <1>5 DEF PInv

\* What holds of the partition at every step of its build.
LEMMA PartitionInvariant == Spec => []PInv
<1>1. Init => PInv
  BY InitOK
<1>2. PInv /\ [Next]_vars => PInv'
  <2> SUFFICES ASSUME PInv, [Next]_vars PROVE PInv'
    OBVIOUS
  <2>1. CASE Assign
    BY <2>1, AssignOK
  <2>2. CASE Repair
    BY <2>2, RepairOK
  <2>3. CASE Recentre
    BY <2>3, RecentreOK
  <2>4. CASE FinalAssign
    BY <2>4, FinalAssignOK
  <2>5. CASE Spill
    BY <2>5, SpillOK
  <2>6. CASE UNCHANGED vars
    <3>1. /\ row' = row /\ K' = K /\ mu' = mu /\ counts' = counts /\ changes' = changes
          /\ iteration' = iteration /\ primary' = primary /\ secondary' = secondary
          /\ phase' = phase /\ ids' = ids /\ radius' = radius /\ cover' = cover
          /\ norm_bound' = norm_bound
      BY <2>6 DEF vars
    <3>2. Means(primary)' = Means(primary)
      BY <3>1, SameMeans
    <3>3. Types' /\ Counted' /\ ConvergedIsFinal'
      BY <3>1 DEF PInv, Types, Counted, ConvergedIsFinal, Primaries, Clusters
    <3>4. \A i \in Records : First(i)' = First(i)
      BY <3>1 DEF First, Nearest, Dist, Clusters
    <3>5. AtRest'
      BY <3>1, <3>2, <3>4 DEF PInv, AtRest, Settled, Primaries, Clusters
    <3>6. Reached'
      BY <3>1 DEF PInv, Reached, Bounded, Dist, Clusters
    <3> QED
      BY <3>3, <3>5, <3>6 DEF PInv
  <2> QED
    BY <2>1, <2>2, <2>3, <2>4, <2>5, <2>6 DEF Next
<1> QED
  BY <1>1, <1>2, PTL DEF Spec

-----------------------------------------------------------------------------
(***************************************************************************)
(* The properties.                                                         *)
(***************************************************************************)

\* While a cluster is empty another has a record to spare: "Cannot repair empty
\* cluster" is never thrown, for any records and any number of clusters up to
\* theirs.
THEOREM RepairsSucceed == Spec => []RepairSucceeds
<1>1. PInv => RepairSucceeds
  BY SpareExists DEF PInv, RepairSucceeds
<1> QED
  BY <1>1, PartitionInvariant, PTL

\* Iterations that end before the budget leave no cluster empty in the final
\* assignment; the budget must allow one.
THEOREM RestIsFinal == Spec => []ConvergedIsFinal
<1>1. PInv => ConvergedIsFinal
  BY DEF PInv
<1> QED
  BY <1>1, PartitionInvariant, PTL

\* `upper` bounds every member of a cluster for every query on the arc.
THEOREM UpperBoundsHold == Spec => []UpperIsSafe
<1>1. PInv => UpperIsSafe
  <2> SUFFICES ASSUME PInv, phase = "done", NEW c \in Clusters, NEW i \in ids[c]
               PROVE  /\ row[i].length <= norm_bound[c]
                      /\ \A q \in Queries : Closest(q, c) <= Dist(q, row[i].angle)
    BY DEF UpperIsSafe
  <2>1. i \in Records /\ Bounded(i, c) /\ mu[c] \in Nat
    BY DEF PInv, Reached, Types
  <2>2. row[i].angle \in Nat
    BY <2>1, RowsTyped DEF PInv, Types
  <2>3. ASSUME NEW q \in Queries PROVE Closest(q, c) <= Dist(q, row[i].angle)
    <3> DEFINE a == row[i].angle
               m == mu[c]
               x == Dist(q, m) - cover[c]
    <3>1. q \in Nat
      BY PartitionAssumption
    <3>2. Dist(q, m) \in Nat /\ Dist(a, m) <= cover[c] /\ cover[c] \in Nat
      BY <2>1, <2>2, <3>1, DistTyped DEF Bounded
    <3>3. Dist(q, m) <= Dist(q, a) + Dist(a, m) /\ Dist(q, a) \in Nat /\ Dist(a, m) \in Nat
      BY <2>1, <2>2, <3>1 DEF Dist
    <3> HIDE DEF a, m
    <3>4. x \in Int /\ x <= Dist(q, a)
      BY <3>2, <3>3
    <3>5. Closest(q, c) = Max({0, x})
      BY DEF Closest, m
    <3> HIDE DEF x
    <3>6. Max({0, x}) \in {0, x}
      <4>1. \E y \in {0, x} : \A z \in {0, x} : y >= z
        BY <3>4
      <4> QED
        BY <4>1 DEF Max
    <3> QED
      BY <3>3, <3>4, <3>5, <3>6 DEF a
  <2> QED
    BY <2>1, <2>3 DEF Bounded
<1> QED
  BY <1>1, PartitionInvariant, PTL
=============================================================================
