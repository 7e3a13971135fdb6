------------------------- MODULE ExactSearch_proofs -------------------------
(***************************************************************************)
(* exact returns the k best, for every collection and every k; and the     *)
(* ground truth of an experiment, computed with it or read from a file.    *)
(***************************************************************************)
EXTENDS GroundTruth, Ranking_proofs, SequenceTheorems

\* Finiteness of what was met, beside what the runs check.
EInv == scan \in Scans /\ TypeOK /\ HeapIsTop /\ IsFiniteSet(Seen)

\* Before the first record nothing is kept of nothing.
LEMMA ScanInit == Init => EInv
<1> SUFFICES ASSUME Init PROVE EInv
  OBVIOUS
<1>1. scan \in Scans /\ i = 0 /\ heap = {} /\ scan.n \in Nat /\ scan.k \in Nat
  BY ScansAssumption DEF Init
<1>2. Seen = {}
  BY <1>1, ScansAssumption DEF Seen
<1>3. Cardinality(heap) = 0 /\ IsFiniteSet(Seen)
  BY <1>1, <1>2, FS_EmptySet
<1> QED
  BY <1>1, <1>2, <1>3 DEF EInv, TypeOK, HeapIsTop, IsTop

\* A record adds its hit to what was met, if it is active.
LEMMA SeenGrows ==
  ASSUME scan \in Scans, i \in 0..scan.n, i < scan.n, i' = i + 1, UNCHANGED scan
  PROVE  /\ ~Scored(i) => Seen' = Seen
         /\ Scored(i) => Seen' = Seen \cup {Hit(i)} /\ Hit(i) \notin Seen
<1>1. scan.active \subseteq 0..scan.n-1 /\ scan.n \in Nat
  BY ScansAssumption
<1>2. \A j \in scan.active : j < i' <=> j < i \/ j = i
  BY <1>1
<1>3. \A id : Hit(id)' = Hit(id)
  BY DEF Hit
<1>4. \A j \in scan.active : j < i => Hit(j) # Hit(i)
  BY <1>1 DEF Hit
<1> QED
  BY <1>2, <1>3, <1>4 DEF Seen, Scored

\* The heap stays the k best of what was met.
LEMMA ScanStep == EInv /\ [Next]_vars => EInv'
<1> SUFFICES ASSUME EInv, [Next]_vars PROVE EInv'
  OBVIOUS
<1>1. /\ scan \in Scans /\ scan.n \in Nat /\ scan.k \in Nat \ {0} /\ i \in 0..scan.n
      /\ heap \subseteq Seen /\ IsTop(scan.k, heap, Seen) /\ IsFiniteSet(Seen)
      /\ scan.active \subseteq 0..scan.n-1 /\ scan.score \in [0..scan.n-1 -> Int]
  BY ScansAssumption DEF EInv, TypeOK, HeapIsTop
<1>2. Seen \in SUBSET Pairs
  BY <1>1 DEF Seen, Hit, Pairs
<1>3. IsFiniteSet(heap) /\ Cardinality(heap) \in Nat /\ Cardinality(heap) <= scan.k
  BY <1>1, FS_Subset, FS_CardinalityType DEF IsTop
<1>4. CASE SkipErased
  <2>1. Seen' = Seen /\ scan' = scan /\ heap' = heap /\ i' \in 0..scan.n
    BY <1>1, <1>4, SeenGrows DEF SkipErased
  <2> QED
    BY <1>1, <2>1 DEF EInv, TypeOK, HeapIsTop
<1>5. CASE Push
  <2>1. /\ i < scan.n /\ Scored(i) /\ i \in scan.active /\ i' = i + 1 /\ scan' = scan
        /\ i' \in 0..scan.n
    BY <1>1, <1>5 DEF Push, Scored
  <2>2. Seen' = Seen \cup {Hit(i)} /\ Hit(i) \notin Seen
    BY <1>1, <2>1, SeenGrows
  <2>3. Hit(i) \in Pairs
    BY <1>1, <2>1 DEF Hit, Pairs
  <2>4. IsFiniteSet(Seen')
    BY <1>1, <2>2, FS_AddElement
  <2>5. IsTop(scan.k, heap', Seen \cup {Hit(i)})
    <3>1. CASE Cardinality(heap) < scan.k /\ heap' = heap \union {Hit(i)}
      <4>1. Cardinality(heap \ {}) # scan.k
        BY <1>3, <3>1
      <4>2. IsTop(scan.k, (heap \ {}) \cup {Hit(i)}, (Seen \ {}) \cup {Hit(i)})
        BY <1>1, <1>2, <1>3, <2>2, <2>3, <4>1, TopTakes
      <4> QED
        BY <3>1, <4>2
    <3>2. ASSUME NEW top \in heap, IsWorst(top, heap), Cardinality(heap) >= scan.k,
                 heap' = IF Beats(Hit(i), top) THEN (heap \ {top}) \union {Hit(i)} ELSE heap
          PROVE  IsTop(scan.k, heap', Seen \cup {Hit(i)})
      <4>1. Cardinality(heap \ {}) = scan.k /\ IsWorst(top, heap \ {})
        BY <1>1, <1>3, <3>2
      <4>2. CASE Better(Hit(i), top)
        <5>1. IsTop(scan.k, ((heap \ {}) \ {top}) \cup {Hit(i)}, (Seen \ {}) \cup {Hit(i)})
          BY <1>1, <1>2, <1>3, <2>2, <2>3, <4>1, <4>2, TopReplacesWorst
        <5> QED
          BY <3>2, <4>2, <5>1 DEF Beats
      <4>3. CASE ~Better(Hit(i), top)
        <5>1. IsTop(scan.k, heap \ {}, (Seen \ {}) \cup {Hit(i)})
          BY <1>1, <1>2, <1>3, <2>2, <2>3, <4>1, <4>3, TopKeepsOut
        <5> QED
          BY <3>2, <4>3, <5>1 DEF Beats
      <4> QED
        BY <4>2, <4>3
    <3> QED
      BY <1>5, <3>1, <3>2 DEF Push
  <2> QED
    BY <1>1, <2>1, <2>2, <2>4, <2>5 DEF EInv, TypeOK, HeapIsTop, IsTop
<1>6. CASE UNCHANGED vars
  BY <1>6 DEF vars, EInv, TypeOK, HeapIsTop, Seen, Hit
<1> QED
  BY <1>4, <1>5, <1>6 DEF Next

\* The invariant holds of the specification.
LEMMA ScanInv == Spec => []EInv
BY ScanInit, ScanStep, PTL DEF Spec

\* No record that was dropped from the heap would be wanted again.
THEOREM HeapKeepsTheBest == Spec => []HeapIsTop
<1>1. EInv => HeapIsTop
  BY DEF EInv
<1> QED
  BY <1>1, ScanInv, PTL

\* A heap that holds the k best of all is what exact returns.
LEMMA EndIsBest == EInv => ExactIsBest
<1> SUFFICES ASSUME EInv, i = scan.n
             PROVE  heap = Best(scan.k, {Hit(id) : id \in scan.active})
  BY DEF ExactIsBest
<1>1. /\ scan \in Scans /\ IsFiniteSet(Seen) /\ IsTop(scan.k, heap, Seen)
      /\ scan.n \in Nat /\ scan.k \in Nat
      /\ scan.active \subseteq 0..scan.n-1 /\ scan.score \in [0..scan.n-1 -> Int]
  BY ScansAssumption DEF EInv, HeapIsTop
<1>2. Seen = {Hit(id) : id \in scan.active}
  BY <1>1 DEF Seen
<1>3. Seen \in SUBSET Pairs
  BY <1>1 DEF Seen, Hit, Pairs
<1> QED
  BY <1>1, <1>2, <1>3, TopIsBest

\* What exact returns is the ground truth: the k best active records, ties by identifier.
THEOREM ExactReturnsTheBest == Spec => []ExactIsBest
BY EndIsBest, ScanInv, PTL

-----------------------------------------------------------------------------
(***************************************************************************)
(* The ranking of a query's hits: a record's rank is one more than the     *)
(* number of hits that are better, so no two records share one.            *)
(***************************************************************************)
HitOf(q, id)  == <<ScoreOf[q][id], id>>
AllHits(q, m) == {HitOf(q, id) : id \in 0..m-1}

\* exact on m records gives the record that rank
RanksAt(q, m, id, r) ==
  id \in 0..m-1 /\ Cardinality({h \in AllHits(q, m) : Better(h, HitOf(q, id))}) = r - 1

\* The hits of a query are finitely many pairs, one for each record.
LEMMA AllHitsAre ==
  ASSUME NEW q \in Queries, NEW m \in Limits
  PROVE  /\ m \in Nat \ {0}
         /\ \A id \in 0..m-1 : HitOf(q, id) \in Pairs
         /\ AllHits(q, m) \in SUBSET Pairs /\ IsFiniteSet(AllHits(q, m))
         /\ Cardinality(AllHits(q, m)) = m
<1>1. m \in Nat \ {0} /\ \A id \in 0..m-1 : ScoreOf[q][id] \in Int
  BY TruthAssumption DEF Queries
<1>2. \A id \in 0..m-1 : HitOf(q, id) \in Pairs
  BY <1>1 DEF HitOf, Pairs
<1> DEFINE f == [id \in 0..m-1 |-> HitOf(q, id)]
<1>3. f \in Bijection(0..m-1, AllHits(q, m))
  <2>1. f \in [0..m-1 -> AllHits(q, m)]
    BY DEF AllHits
  <2>2. \A a, b \in 0..m-1 : f[a] = f[b] => a = b
    BY DEF HitOf
  <2>3. \A h \in AllHits(q, m) : \E a \in 0..m-1 : f[a] = h
    BY DEF AllHits
  <2> HIDE DEF f
  <2> QED
    BY <2>1, <2>2, <2>3 DEF Bijection, Injection, Surjection, IsInjective
<1>4. IsFiniteSet(0..m-1) /\ Cardinality(0..m-1) = m
  <2>1. /\ IsFiniteSet(0..m-1)
        /\ Cardinality(0..m-1) = IF 0 > m-1 THEN 0 ELSE (m-1) - 0 + 1
    BY <1>1, FS_Interval
  <2> QED
    BY <1>1, <2>1
<1>5. ExistsBijection(0..m-1, AllHits(q, m))
  BY <1>3 DEF ExistsBijection
<1>6. IsFiniteSet(AllHits(q, m)) /\ Cardinality(AllHits(q, m)) = m
  BY <1>4, <1>5, FS_Bijection
<1> QED
  BY <1>1, <1>2, <1>6 DEF AllHits

\* A finite set of hits is sorted as a whole.
LEMMA RankedIs ==
  ASSUME NEW S \in SUBSET Pairs, IsFiniteSet(S)
  PROVE  /\ Ranked(S) \in [1..Cardinality(S) -> S] /\ Cardinality(S) \in Nat
         /\ \A a, b \in 1..Cardinality(S) : a < b => Better(Ranked(S)[a], Ranked(S)[b])
<1>1. PICK o \in [1..Cardinality(S) -> S] :
        \A s, u \in 1..Cardinality(S) : s < u => Better(o[s], o[u])
  BY RankingExists
<1>2. DOMAIN o = 1..Cardinality(S)
  OBVIOUS
<1>3. /\ Ranked(S) \in [1..Cardinality(S) -> S]
      /\ \A a, b \in DOMAIN Ranked(S) : a < b => Better(Ranked(S)[a], Ranked(S)[b])
  BY <1>1, <1>2 DEF Ranked
<1> QED
  BY <1>3, FS_CardinalityType

\* the hits of S that are better
Above(S, hit) == {h \in S : Better(h, hit)}

\* Of the k best in order, the one at place r has r - 1 hits before it.
LEMMA PlaceIsRank ==
  ASSUME NEW O \in SUBSET Pairs, IsFiniteSet(O), NEW k \in Nat, NEW P, IsTop(k, P, O),
         NEW o \in [1..Cardinality(P) -> P],
         \A a, b \in 1..Cardinality(P) : a < b => Better(o[a], o[b]),
         NEW r \in 1..Cardinality(P)
  PROVE  Cardinality(Above(O, o[r])) = r - 1
<1>1. /\ P \subseteq O /\ IsFiniteSet(P) /\ Cardinality(P) \in Nat
      /\ \A p \in P, q \in O \ P : Better(p, q)
  BY FS_Subset, FS_CardinalityType DEF IsTop
<1> DEFINE N == Cardinality(P)
           above == {h \in O : Better(h, o[r])}
           g == [s \in 1..r-1 |-> o[s]]
<1>2. \A a, b \in 1..N : o[a] = o[b] => a = b
  <2> SUFFICES ASSUME NEW a \in 1..N, NEW b \in 1..N, a < b PROVE o[a] # o[b]
    BY <1>1
  <2> QED
    BY <1>1, BetterIsStrict
<1>3. o \in Surjection(1..N, P)
  <2>1. o \in Injection(1..N, P)
    BY <1>2 DEF Injection, IsInjective
  <2>2. Cardinality(1..N) = N
    BY <1>1, FS_Interval
  <2> HIDE DEF N
  <2> QED
    BY <1>1, <2>1, <2>2, FS_Injection DEF N
<1>4. \A s \in 1..r-1 : s \in 1..N /\ s < r
  BY <1>1
<1>5. g \in Bijection(1..r-1, above)
  <2>1. g \in [1..r-1 -> above]
    BY <1>1, <1>4
  <2>2. \A a, b \in 1..r-1 : g[a] = g[b] => a = b
    BY <1>2, <1>4
  <2>3. ASSUME NEW h \in above PROVE \E a \in 1..r-1 : g[a] = h
    <3>1. h \in O /\ Better(h, o[r]) /\ h \in Pairs /\ o[r] \in P /\ o[r] \in Pairs
      BY <1>1
    <3>2. h \in P
      BY <1>1, <3>1, BetterIsStrict
    <3>3. PICK s \in 1..N : o[s] = h
      BY <1>3, <3>2 DEF Surjection
    <3>4. ~(s = r) /\ ~(r < s)
      BY <3>1, <3>3, BetterIsStrict
    <3>5. s \in 1..r-1
      BY <1>1, <3>4
    <3> QED
      BY <3>3, <3>5
  <2> HIDE DEF g, above
  <2> QED
    BY <2>1, <2>2, <2>3 DEF Bijection, Injection, Surjection, IsInjective
<1> HIDE DEF above, g
<1>6. r - 1 \in Nat
  BY <1>1
<1>7. ExistsBijection(1..r-1, above)
  BY <1>5 DEF ExistsBijection
<1>8. Cardinality(above) = r - 1
  BY <1>6, <1>7, FS_CountingElements
<1> QED
  BY <1>8 DEF above, Above


\* The better of two hits has fewer before it.
LEMMA BetterIsEarlier ==
  ASSUME NEW q \in Queries, NEW m \in Limits, NEW a, NEW b, NEW r \in Nat, NEW s \in Nat,
         RanksAt(q, m, a, r), RanksAt(q, m, b, s), Better(HitOf(q, a), HitOf(q, b))
  PROVE  r < s
<1> DEFINE beyond(id) == {h \in AllHits(q, m) : Better(h, HitOf(q, id))}
<1>1. /\ a \in 0..m-1 /\ b \in 0..m-1
      /\ Cardinality(beyond(a)) = r - 1 /\ Cardinality(beyond(b)) = s - 1
  BY DEF RanksAt
<1>2. /\ HitOf(q, a) \in Pairs /\ HitOf(q, b) \in Pairs /\ HitOf(q, a) \in AllHits(q, m)
      /\ AllHits(q, m) \in SUBSET Pairs /\ IsFiniteSet(AllHits(q, m))
  BY <1>1, AllHitsAre DEF AllHits
<1>3. HitOf(q, a) \notin beyond(a) /\ beyond(a) \cup {HitOf(q, a)} \subseteq beyond(b)
  BY <1>2, BetterIsStrict, BetterIsTransitive
<1>4. IsFiniteSet(beyond(a)) /\ IsFiniteSet(beyond(b))
  BY <1>2, FS_Subset
<1> HIDE DEF beyond
<1>5. Cardinality(beyond(a) \cup {HitOf(q, a)}) = r - 1 + 1
  BY <1>1, <1>3, <1>4, FS_AddElement
<1>6. Cardinality(beyond(a) \cup {HitOf(q, a)}) <= Cardinality(beyond(b))
  BY <1>3, <1>4, FS_Subset
<1> QED
  BY <1>1, <1>5, <1>6

\* So there is one record at each rank, and the order of the ranks is that of the hits.
LEMMA RankIsUnique ==
  ASSUME NEW q \in Queries, NEW m \in Limits, NEW a, NEW b, NEW r \in Nat, NEW s \in Nat,
         RanksAt(q, m, a, r), RanksAt(q, m, b, s)
  PROVE  /\ a = b <=> r = s
         /\ r < s => Better(HitOf(q, a), HitOf(q, b))
<1>1. a \in 0..m-1 /\ b \in 0..m-1 /\ HitOf(q, a) \in Pairs /\ HitOf(q, b) \in Pairs
  BY AllHitsAre DEF RanksAt
<1>2. a = b => r = s
  BY DEF RanksAt
<1>3. HitOf(q, a) = HitOf(q, b) => a = b
  BY DEF HitOf
<1>4. a # b => r < s \/ s < r
  BY <1>1, <1>3, BetterIsTotal, BetterIsEarlier
<1>5. ASSUME r < s PROVE Better(HitOf(q, a), HitOf(q, b))
  <2>1. a # b
    BY <1>2, <1>5
  <2>2. ~Better(HitOf(q, b), HitOf(q, a))
    BY <1>5, BetterIsEarlier
  <2> QED
    BY <1>1, <1>3, <2>1, <2>2, BetterIsTotal
<1> QED
  BY <1>2, <1>4, <1>5

\* No two records share a rank.
LEMMA RankIsOnce ==
  ASSUME NEW q \in Queries, NEW m \in Limits, NEW a, NEW b, NEW r \in Nat,
         RanksAt(q, m, a, r), RanksAt(q, m, b, r)
  PROVE  a = b
<1>1. a = b <=> r = r
  BY RankIsUnique
<1> QED
  BY <1>1

\* What is ranked first, second and so on among more records is so among fewer,
\* if those are all there.
LEMMA FewerRankAlike ==
  ASSUME NEW q \in Queries, NEW m \in Limits, NEW M \in Limits, m <= M, NEW k \in Nat,
         NEW ids \in [1..k -> 0..m-1], \A p \in 1..k : RanksAt(q, M, ids[p], p)
  PROVE  \A p \in 1..k : RanksAt(q, m, ids[p], p)
<1> SUFFICES ASSUME NEW p \in 1..k PROVE RanksAt(q, m, ids[p], p)
  OBVIOUS
<1> DEFINE most == {h \in AllHits(q, M) : Better(h, HitOf(q, ids[p]))}
           few  == {h \in AllHits(q, m) : Better(h, HitOf(q, ids[p]))}
           g == [s \in 1..p-1 |-> HitOf(q, ids[s])]
<1>1. /\ Cardinality(most) = p - 1 /\ p - 1 \in Nat /\ few \subseteq most
      /\ IsFiniteSet(AllHits(q, M)) /\ IsFiniteSet(most)
  <2>1. 0..m-1 \subseteq 0..M-1
    BY TruthAssumption
  <2>2. IsFiniteSet(AllHits(q, M))
    BY AllHitsAre
  <2>3. IsFiniteSet(most)
    BY <2>2, FS_Subset
  <2>4. few \subseteq most
    BY <2>1 DEF AllHits
  <2>5. Cardinality(most) = p - 1
    BY DEF RanksAt
  <2> HIDE DEF few, most
  <2> QED
    BY <2>2, <2>3, <2>4, <2>5
<1>2. g \in Injection(1..p-1, few)
  <2>1. \A s \in 1..p-1 : s \in 1..k /\ s < p
    OBVIOUS
  <2>2. \A s \in 1..p-1 : Better(HitOf(q, ids[s]), HitOf(q, ids[p])) /\ HitOf(q, ids[s]) \in AllHits(q, m)
    BY <2>1, RankIsUnique DEF AllHits
  <2>3. g \in [1..p-1 -> few]
    BY <2>2
  <2>4. ASSUME NEW s \in 1..p-1, NEW u \in 1..p-1, g[s] = g[u] PROVE s = u
    <3>1. ids[s] = ids[u] /\ s \in 1..k /\ u \in 1..k /\ s \in Nat /\ u \in Nat
      BY <2>1, <2>4 DEF HitOf
    <3>2. RanksAt(q, M, ids[s], s) /\ RanksAt(q, M, ids[u], u)
      BY <3>1
    <3> HIDE DEF g, few, most
    <3>3. s - 1 = u - 1
      BY <3>1, <3>2 DEF RanksAt
    <3> QED
      BY <3>1, <3>3
  <2> HIDE DEF g, few
  <2> QED
    BY <2>3, <2>4 DEF Injection, IsInjective
<1>3. IsFiniteSet(few) /\ Cardinality(few) <= p - 1 /\ Cardinality(few) \in Nat
  <2> HIDE DEF few, most
  <2> QED
    BY <1>1, FS_Subset, FS_CardinalityType
<1>4. p - 1 <= Cardinality(few)
  <2>1. Cardinality(1..p-1) = p - 1
    BY <1>1, FS_Interval
  <2> HIDE DEF g, few
  <2> QED
    BY <1>2, <1>3, <2>1, FS_Injection
<1>5. Cardinality(few) = p - 1
  BY <1>1, <1>3, <1>4
<1> QED
  BY <1>5 DEF RanksAt


-----------------------------------------------------------------------------
(***************************************************************************)
(* Sequences: a function on 1..m is one, and a sequence of sequences is    *)
(* flattened into one.                                                     *)
(***************************************************************************)
\* A function on the first m numbers is a sequence.
LEMMA FunctionIsSeq ==
  ASSUME NEW S, NEW m \in Nat, NEW f \in [1..m -> S]
  PROVE  f \in Seq(S) /\ Len(f) = m
OBVIOUS

\* What Flatten keeps of the first j sequences.
Flat(ss, f, m) ==
  f = [j \in 1..m |-> IF j = 1 THEN ss[j] ELSE f[j-1] \o ss[j]]

\* The flattening of m sequences exists.
LEMMA FlatExists ==
  ASSUME NEW S, NEW N \in Nat, NEW ss \in [1..N -> Seq(S)], NEW m \in 0..N
  PROVE  \E f \in [1..m -> Seq(S)] : Flat(ss, f, m)
<1> DEFINE Bad == {j \in 0..N : ~\E f \in [1..j -> Seq(S)] : Flat(ss, f, j)}
<1> SUFFICES ASSUME Bad # {} PROVE FALSE
  OBVIOUS
<1>a. Bad \in SUBSET Nat /\ Bad \subseteq 0..N
  OBVIOUS
<1>1. PICK j \in Bad : \A y \in Bad : j <= y
  <2> HIDE DEF Bad
  <2> QED
    BY <1>a, LeastExists
<1>2. CASE j = 0
  <2> DEFINE f == [x \in 1..0 |-> <<>>]
  <2>1. f \in [1..0 -> Seq(S)] /\ Flat(ss, f, 0)
    BY DEF Flat
  <2> QED
    BY <1>1, <1>2, <2>1
<1>3. CASE j # 0
  <2>1. j \in 1..N /\ j - 1 \in 0..N /\ j - 1 \notin Bad
    <3> HIDE DEF Bad
    <3> QED
      BY <1>a, <1>1, <1>3
  <2>2. PICK f \in [1..j-1 -> Seq(S)] : Flat(ss, f, j - 1)
    BY <2>1
  <2> DEFINE last == IF j = 1 THEN ss[j] ELSE f[j-1] \o ss[j]
             g == [x \in 1..j |-> IF x = j THEN last ELSE f[x]]
  <2>3. last \in Seq(S)
    BY <2>1, ConcatProperties
  <2>4. g \in [1..j -> Seq(S)]
    BY <2>1, <2>3
  <2>5. \A x \in 1..j-1 : f[x] = IF x = 1 THEN ss[x] ELSE f[x-1] \o ss[x]
    BY <2>2 DEF Flat
  <2>6. \A x \in 1..j-1 : g[x] = f[x] /\ (x # 1 => g[x-1] = f[x-1])
    BY <2>1
  <2>7. g[j] = last /\ (j # 1 => g[j-1] = f[j-1])
    BY <2>1
  <2> HIDE DEF g
  <2>8. ASSUME NEW x \in 1..j PROVE g[x] = IF x = 1 THEN ss[x] ELSE g[x-1] \o ss[x]
    <3>1. x = j \/ x \in 1..j-1
      BY <2>1
    <3> QED
      BY <3>1, <2>5, <2>6, <2>7
  <2>9. Flat(ss, g, j)
    BY <2>4, <2>8 DEF Flat
  <2> QED
    BY <1>1, <2>4, <2>9
<1> QED
  BY <1>2, <1>3

\* Flattening sequences of elements of S gives a sequence of elements of S.
LEMMA FlattenIsSeq ==
  ASSUME NEW S, NEW N \in Nat, NEW ss \in [1..N -> Seq(S)]
  PROVE  FlattenSeq(ss) \in Seq(S)
<1>1. Len(ss) = N
  BY FunctionIsSeq
<1>2. CASE N = 0
  BY <1>1, <1>2 DEF FlattenSeq
<1>3. CASE N # 0
  <2> DEFINE flatten == CHOOSE f : Flat(ss, f, N)
  <2>1. FlattenSeq(ss) = flatten[N]
    BY <1>1, <1>3 DEF FlattenSeq, Flat
  <2>2. \E f : Flat(ss, f, N)
    BY FlatExists
  <2>3. Flat(ss, flatten, N)
    BY <2>2
  <2> HIDE DEF flatten
  <2>4. \A j \in 1..N : flatten[j] = IF j = 1 THEN ss[j] ELSE flatten[j-1] \o ss[j]
    BY <2>3 DEF Flat
  <2> DEFINE Bad == {j \in 1..N : flatten[j] \notin Seq(S)}
  <2>5. Bad = {}
    <3> SUFFICES ASSUME Bad # {} PROVE FALSE
      OBVIOUS
    <3>a. Bad \in SUBSET Nat /\ Bad \subseteq 1..N
      OBVIOUS
    <3>1. PICK j \in Bad : \A y \in Bad : j <= y
      <4> HIDE DEF Bad
      <4> QED
        BY <3>a, LeastExists
    <3>2. j \in 1..N /\ (j # 1 => j - 1 \in 1..N /\ j - 1 \notin Bad)
      <4> HIDE DEF Bad
      <4> QED
        BY <3>a, <3>1
    <3>3. flatten[j] \in Seq(S)
      <4>1. j = 1 \/ flatten[j-1] \in Seq(S)
        BY <3>2
      <4>2. ss[j] \in Seq(S) /\ (j # 1 => flatten[j-1] \o ss[j] \in Seq(S))
        BY <3>2, <4>1, ConcatProperties
      <4> QED
        BY <2>4, <3>2, <4>2
    <3> QED
      BY <3>1, <3>3
  <2>6. N \in 1..N
    BY <1>3
  <2> QED
    BY <2>1, <2>5, <2>6
<1> QED
  BY <1>2, <1>3


\* The k best of a query's hits, in order: k of them, each at its rank.
LEMMA RankedAreBest ==
  ASSUME NEW q \in Queries, NEW m \in Limits, NEW k \in Nat, k <= m
  PROVE  LET o == Ranked(Best(k, AllHits(q, m)))
         IN /\ o \in [1..k -> AllHits(q, m)]
            /\ \A r \in 1..k : RanksAt(q, m, o[r][2], r) /\ o[r] = HitOf(q, o[r][2])
            /\ \A a, b \in 1..k : a < b => Better(o[a], o[b])
<1> DEFINE O == AllHits(q, m)
           P == Best(k, O)
           o == Ranked(P)
<1>1. /\ m \in Nat /\ O \in SUBSET Pairs /\ IsFiniteSet(O) /\ Cardinality(O) = m
      /\ \A h \in O : h[2] \in 0..m-1 /\ h = HitOf(q, h[2])
  BY AllHitsAre DEF AllHits, HitOf
<1>2. IsTop(k, P, O)
  <2> HIDE DEF O
  <2> QED
    BY <1>1, BestIsTop
<1>3. Cardinality(P) = k /\ P \in SUBSET O /\ P \in SUBSET Pairs /\ IsFiniteSet(P)
  <2>1. P \in SUBSET O
    BY <1>2 DEF IsTop
  <2> HIDE DEF O, P
  <2> QED
    BY <1>1, <1>2, <2>1, TopSize, FS_Subset
<1>4. o \in [1..k -> P] /\ \A a, b \in 1..k : a < b => Better(o[a], o[b])
  <2> HIDE DEF O, P
  <2> QED
    BY <1>3, RankedIs
<1>5. ASSUME NEW r \in 1..k PROVE Cardinality(Above(O, o[r])) = r - 1
  <2> HIDE DEF O, P, o
  <2>1. o \in [1..Cardinality(P) -> P] /\ r \in 1..Cardinality(P)
    BY <1>3, <1>4
  <2>2. \A a, b \in 1..Cardinality(P) : a < b => Better(o[a], o[b])
    BY <1>3, <1>4
  <2>3. O \in SUBSET Pairs /\ IsFiniteSet(O)
    BY <1>1
  <2> QED
    BY <1>2, <2>1, <2>2, <2>3, PlaceIsRank
<1>6. ASSUME NEW r \in 1..k PROVE RanksAt(q, m, o[r][2], r) /\ o[r] = HitOf(q, o[r][2])
  <2>1. o[r] \in O
    BY <1>3, <1>4
  <2>2. o[r][2] \in 0..m-1 /\ o[r] = HitOf(q, o[r][2])
    BY <1>1, <2>1
  <2>3. Cardinality({h \in O : Better(h, HitOf(q, o[r][2]))}) = r - 1
    BY <1>5, <2>2 DEF Above
  <2> QED
    BY <2>2, <2>3 DEF RanksAt
<1> HIDE DEF P, o
<1>7. o \in [1..k -> O]
  BY <1>3, <1>4
<1> QED
  BY <1>4, <1>6, <1>7 DEF o, P


-----------------------------------------------------------------------------
(***************************************************************************)
(* The ground truth: what a run knows of the hits it has, from whichever   *)
(* side they came, and of the file that is left for the next run.          *)
(***************************************************************************)
\* The lines of a file whose hits were ranked on m records, any lines when m is 0;
\* one cut short may not parse.
FileLines(m) ==
  {l \in [q : Queries \cup {0}, rank : Nat, id : Int, score : Int] :
     l.id = -1 \/ (l.q \in Queries /\ (m > 0 => RanksAt(l.q, m, l.id, l.rank)))}

RunPart ==
  /\ phase \in {"ended", "exact", "read", "write"} /\ from \in Limits \cup {0}
  /\ phase # "ended" =>
       /\ n \in Limits /\ kmax \in KMaxes /\ kmax <= n
       /\ split \in Seq(Queries) /\ IsInjective(split)
       /\ truth \in [1..Len(split) -> Seq(Int \X Int)]

\* A hit that is taken over: near enough, after the one before it, and, where the scores
\* were computed, at the place that exact gives it.
HitFits(y, p) ==
  /\ truth[y][p][2] \in 0..n-1
  /\ Within(truth[y][p][1], ScoreOf[split[y]][truth[y][p][2]])
  /\ p > 1 => Better(truth[y][p - 1], truth[y][p])
  /\ from > 0 => RanksAt(split[y], from, truth[y][p][2], p)

HitsPart ==
  phase # "ended" =>
    \A y \in 1..Len(split) : Len(truth[y]) <= kmax /\ \A p \in 1..Len(truth[y]) : HitFits(y, p)

ScanPart ==
  phase = "exact" =>
    /\ z \in 1..Len(split) /\ scan = ScanOf(split[z], n, kmax) /\ from = n
    /\ \A y \in 1..z-1 : Len(truth[y]) = kmax

FilePart ==
  /\ phase \in {"ended", "read"} =>
       file \subseteq Seq(FileLines(from)) /\ \A s, u \in file : s = u
  /\ phase = "read" =>
       /\ lines \subseteq Seq(FileLines(from)) /\ \A s, u \in lines : s = u
       /\ lines = {} => from = 0

TInv == EInv /\ RunPart /\ HitsPart /\ ScanPart /\ FilePart /\ (phase = "write" => Complete)


\* A split names different queries, one at least.
LEMMA SplitIs ==
  ASSUME NEW sp \in Splits
  PROVE  /\ sp \in Seq(Queries) /\ Len(sp) \in Nat \ {0} /\ DOMAIN sp = 1..Len(sp)
         /\ IsInjective(sp) /\ sp[1] \in Queries
<1>1. Cardinality(Queries) \in Nat
  BY TruthAssumption, FS_CardinalityType DEF Queries
<1>2. PICK m \in 0..Cardinality(Queries) : sp \in [1..m -> Queries]
  BY DEF Splits, BoundedSeq, SeqOf
<1>3. m \in Nat
  BY <1>1, <1>2
<1>4. sp \in Seq(Queries) /\ sp # <<>> /\ IsInjective(sp)
  BY <1>2, <1>3, FunctionIsSeq DEF Splits
<1> QED
  BY <1>4, EmptySeq, LenProperties

\* A scan that starts has nothing yet.
LEMMA Afresh == Init' => EInv'
BY ScanInit, PTL

\* Before the first run there is no file.
LEMMA TruthInit == GInit => TInv
<1> SUFFICES ASSUME GInit PROVE TInv
  OBVIOUS
<1>1. EInv
  BY ScanInit, ScansOfTruth DEF GInit, Init
<1> QED
  BY <1>1 DEF GInit, TInv, RunPart, HitsPart, ScanPart, FilePart

\* A run starts without hits.
LEMMA RunStarts ==
  ASSUME NEW m \in Limits, NEW k \in KMaxes, NEW sp \in Splits, Start(m, k, sp),
         phase' \in {"exact", "read"}, from' \in Limits \cup {0}
  PROVE  RunPart' /\ HitsPart'
<1>1. /\ n' = m /\ kmax' = k /\ split' = sp /\ k <= m /\ k \in Nat /\ m \in Nat
      /\ truth' = [y \in 1..Len(sp) |-> <<>>]
  BY SplitIs, TruthAssumption DEF Start
<1>2. <<>> \in Seq(Int \X Int) /\ Len(<<>>) = 0
  BY EmptySeq
<1>3. RunPart'
  BY <1>1, <1>2, SplitIs DEF RunPart
<1>4. HitsPart'
  BY <1>1, <1>2 DEF HitsPart
<1> QED
  BY <1>3, <1>4

\* The scans of a run start, or a file is opened.
LEMMA StartStep ==
  ASSUME TInv, NEW m \in Limits, NEW k \in KMaxes, NEW sp \in Splits,
         StartExact(m, k, sp) \/ StartCached(m, k, sp)
  PROVE  TInv'
<1>1. CASE StartExact(m, k, sp)
  <2>1. /\ Start(m, k, sp) /\ phase' = "exact" /\ from' = m /\ z' = 1
        /\ scan' = ScanOf(sp[1], m, k) /\ i' = 0 /\ heap' = {}
    BY <1>1 DEF StartExact
  <2>2. RunPart' /\ HitsPart'
    BY <2>1, RunStarts
  <2>3. EInv'
    <3>1. scan' \in Scans
      BY <2>1, SplitIs, ScansOfTruth
    <3> QED
      BY <2>1, <3>1, Afresh DEF Init
  <2>4. ScanPart'
    BY <2>1, SplitIs DEF ScanPart, Start, ScanOf
  <2> QED
    BY <2>1, <2>2, <2>3, <2>4 DEF TInv, FilePart
<1>2. CASE StartCached(m, k, sp)
  <2>1. /\ Start(m, k, sp) /\ phase = "ended" /\ phase' = "read" /\ UNCHANGED <<vars, file>>
        /\ \/ lines' = file /\ file # {} /\ from' = from
           \/ lines' = {} /\ from' = 0
    BY <1>2 DEF StartCached, Start
  <2>2. RunPart' /\ HitsPart'
    BY <2>1, RunStarts DEF TInv, RunPart
  <2>3. EInv'
    BY <2>1 DEF TInv, EInv, vars, TypeOK, HeapIsTop, Seen, Hit
  <2>4. FilePart'
    <3>1. FileLines(from) \subseteq FileLines(0)
      BY DEF FileLines
    <3>2. file \subseteq Seq(FileLines(from)) /\ \A s, u \in file : s = u
      BY <2>1 DEF TInv, FilePart
    <3>3. file \subseteq Seq(FileLines(0))
      BY <3>1, <3>2, SeqMonotonic
    <3>4. CASE from' = from /\ lines' = file /\ file # {}
      BY <2>1, <3>2, <3>4 DEF FilePart, FileLines, RanksAt, AllHits, HitOf
    <3>5. CASE from' = 0 /\ lines' = {}
      BY <2>1, <3>2, <3>3, <3>5 DEF FilePart, FileLines
    <3> QED
      BY <2>1, <3>4, <3>5
  <2> QED
    BY <2>1, <2>2, <2>3, <2>4 DEF TInv, ScanPart
<1> QED
  BY <1>1, <1>2


\* A record that is met or skipped changes nothing else.
LEMMA RecordStep ==
  ASSUME TInv, ScanRecord
  PROVE  TInv'
<1>1. EInv'
  BY ScanStep DEF TInv, ScanRecord
<1>2. scan' = scan
  BY DEF ScanRecord, Next, SkipErased, Push
<1>3. phase = "exact" /\ UNCHANGED tvars
  BY DEF ScanRecord
<1>4. RunPart'
  BY <1>3 DEF tvars, TInv, RunPart
<1>5. HitsPart'
  <2>1. HitsPart
    BY DEF TInv
  <2> QED
    BY <1>3, <2>1 DEF tvars, HitsPart, HitFits
<1>6. ScanPart'
  BY <1>2, <1>3 DEF tvars, TInv, ScanPart, ScanOf
<1>7. FilePart'
  BY <1>3 DEF tvars, FilePart
<1> QED
  BY <1>1, <1>3, <1>4, <1>5, <1>6, <1>7 DEF tvars, TInv

\* The end of a scan gives its query the hits that exact returns.
LEMMA ScanEnds ==
  ASSUME TInv, EndScan
  PROVE  TInv'
<1> DEFINE q == split[z]
           o == Ranked(heap)
<1>1. /\ phase = "exact" /\ i = scan.n /\ truth' = [truth EXCEPT ![z] = o]
      /\ UNCHANGED <<runs, n, kmax, split, lines, file, from>>
      /\ z \in 1..Len(split) /\ scan = ScanOf(q, n, kmax) /\ from = n
      /\ \A y \in 1..z-1 : Len(truth[y]) = kmax
      /\ n \in Limits /\ kmax \in KMaxes /\ kmax <= n /\ n \in Nat /\ kmax \in Nat
      /\ split \in Seq(Queries) /\ IsInjective(split)
      /\ truth \in [1..Len(split) -> Seq(Int \X Int)]
  BY TruthAssumption DEF EndScan, TInv, RunPart, ScanPart
<1>2. q \in Queries /\ Len(split) \in Nat
  BY <1>1, LenProperties
<1>3. heap = Best(kmax, AllHits(q, n))
  <2>1. Seen = AllHits(q, n)
    <3>1. \A id \in 0..n-1 : Hit(id) = HitOf(q, id) /\ id < n
      BY <1>1 DEF Hit, HitOf, ScanOf
    <3>2. Seen = {Hit(id) : id \in 0..n-1}
      BY <1>1, <3>1 DEF Seen, ScanOf
    <3> QED
      BY <3>1, <3>2 DEF AllHits
  <2>2. IsTop(kmax, heap, AllHits(q, n))
    BY <1>1, <2>1 DEF TInv, EInv, HeapIsTop, ScanOf
  <2>3. AllHits(q, n) \in SUBSET Pairs /\ IsFiniteSet(AllHits(q, n))
    BY <1>1, <1>2, AllHitsAre
  <2> HIDE DEF q
  <2> QED
    BY <1>1, <2>2, <2>3, TopIsBest
<1>4. /\ o \in [1..kmax -> AllHits(q, n)]
      /\ \A r \in 1..kmax : RanksAt(q, n, o[r][2], r) /\ o[r] = HitOf(q, o[r][2])
      /\ \A a, b \in 1..kmax : a < b => Better(o[a], o[b])
  <2> HIDE DEF q
  <2> QED
    BY <1>1, <1>2, <1>3, RankedAreBest
<1> HIDE DEF q, o
<1>5. AllHits(q, n) \subseteq Int \X Int
  BY <1>1, <1>2, AllHitsAre DEF Pairs
<1>6. o \in Seq(Int \X Int) /\ Len(o) = kmax
  BY <1>1, <1>4, <1>5, FunctionIsSeq
<1>7. /\ truth'[z] = o /\ \A y \in 1..Len(split) : y # z => truth'[y] = truth[y]
      /\ truth' \in [1..Len(split) -> Seq(Int \X Int)]
  BY <1>1, <1>6
<1>8. phase' \in {"exact", "write"}
  BY <1>1 DEF EndScan
<1>9. RunPart'
  BY <1>1, <1>7, <1>8 DEF TInv, RunPart
<1>10. HitsPart'
  <2> SUFFICES ASSUME NEW y \in 1..Len(split)
               PROVE  Len(truth'[y]) <= kmax /\ \A p \in 1..Len(truth'[y]) : HitFits(y, p)'
    BY <1>1 DEF HitsPart
  <2>1. CASE y = z
    <3>1. Len(truth'[y]) = kmax /\ truth'[y] = o
      BY <1>6, <1>7, <2>1
    <3>2. ASSUME NEW p \in 1..kmax PROVE HitFits(y, p)'
      <4>1. /\ RanksAt(q, n, o[p][2], p) /\ o[p] = HitOf(q, o[p][2]) /\ o[p][2] \in 0..n-1
            /\ o[p][1] \in Int
        <5>1. o[p] \in Int \X Int
          BY <1>4, <1>5
        <5>2. RanksAt(q, n, o[p][2], p) /\ o[p] = HitOf(q, o[p][2])
          BY <1>4
        <5>3. o[p][2] \in 0..n-1
          BY <5>2 DEF RanksAt
        <5> QED
          BY <5>1, <5>2, <5>3
      <4>2. p > 1 => Better(o[p - 1], o[p])
        BY <1>1, <1>4
      <4>3. Within(o[p][1], ScoreOf[q][o[p][2]])
        <5>1. o[p][1] = ScoreOf[q][o[p][2]]
          BY <4>1 DEF HitOf
        <5> QED
          BY <4>1, <5>1, TruthAssumption DEF Within
      <4>4. RanksAt(q, from, o[p][2], p)
        BY <1>1, <4>1
      <4> QED
        BY <1>1, <2>1, <3>1, <4>1, <4>2, <4>3, <4>4
           DEF HitFits, q, RanksAt, AllHits, HitOf, Within
    <3>3. Len(truth'[y]) <= kmax /\ 1..Len(truth'[y]) = 1..kmax
      BY <1>1, <3>1
    <3> QED
      BY <3>2, <3>3
  <2>2. CASE y # z
    <3>1. truth'[y] = truth[y]
      BY <1>7, <2>2
    <3>2. Len(truth[y]) <= kmax /\ \A p \in 1..Len(truth[y]) : HitFits(y, p)
      BY <1>1 DEF TInv, HitsPart
    <3>3. ASSUME NEW p \in 1..Len(truth[y]) PROVE HitFits(y, p)'
      <4>1. HitFits(y, p)
        BY <3>2
      <4> QED
        BY <1>1, <3>1, <4>1 DEF HitFits
    <3> QED
      BY <1>1, <3>1, <3>2, <3>3
  <2> QED
    BY <2>1, <2>2
<1>11. CASE z < Len(split)
  <2>1. /\ phase' = "exact" /\ z' = z + 1 /\ scan' = ScanOf(split[z + 1], n, kmax)
        /\ i' = 0 /\ heap' = {}
    BY <1>1, <1>11 DEF EndScan
  <2>2. z + 1 \in 1..Len(split) /\ split[z + 1] \in Queries
    <3>1. z + 1 \in 1..Len(split)
      BY <1>1, <1>2, <1>11
    <3> QED
      BY <1>1, <3>1, ElementOfSeq
  <2>3. EInv'
    <3>1. scan' \in Scans
      BY <1>1, <2>1, <2>2, ScansOfTruth
    <3> QED
      BY <2>1, <3>1, Afresh DEF Init
  <2>4. \A y \in 1..z : Len(truth'[y]) = kmax
    <3>1. \A y \in 1..z : y = z \/ (y \in 1..z-1 /\ y \in 1..Len(split) /\ y # z)
      BY <1>1, <1>2
    <3> QED
      BY <1>1, <1>6, <1>7, <3>1
  <2>5. ScanPart'
    BY <1>1, <2>1, <2>2, <2>4 DEF ScanPart, ScanOf
  <2> QED
    BY <1>9, <1>10, <2>1, <2>3, <2>5 DEF TInv, FilePart
<1>12. CASE ~(z < Len(split))
  <2>1. phase' = "write" /\ scan' = Nothing /\ i' = 0 /\ heap' = {}
    BY <1>1, <1>12 DEF EndScan
  <2>2. EInv'
    BY <2>1, Afresh, ScansOfTruth DEF Init
  <2>3. Complete'
    <3>1. \A y \in 1..Len(split) : y = z \/ (y \in 1..z-1 /\ y # z)
      BY <1>1, <1>2, <1>12
    <3>2. DOMAIN truth' = 1..Len(split)
      BY <1>7
    <3> QED
      BY <1>1, <1>6, <1>7, <3>1, <3>2 DEF Complete
  <2> QED
    BY <1>9, <1>10, <2>1, <2>2, <2>3 DEF TInv, FilePart, ScanPart
<1> QED
  BY <1>11, <1>12


\* What is known of a run on its way.
LEMMA RunIs ==
  ASSUME TInv, phase # "ended"
  PROVE  /\ n \in Limits /\ n \in Nat \ {0} /\ kmax \in KMaxes /\ kmax \in Nat \ {0} /\ kmax <= n
         /\ from \in Limits \cup {0} /\ from \in Nat
         /\ split \in Seq(Queries) /\ Len(split) \in Nat /\ DOMAIN split = 1..Len(split)
         /\ truth \in [1..Len(split) -> Seq(Int \X Int)]
<1>1. /\ n \in Limits /\ kmax \in KMaxes /\ kmax <= n /\ from \in Limits \cup {0}
      /\ split \in Seq(Queries) /\ truth \in [1..Len(split) -> Seq(Int \X Int)]
  BY DEF TInv, RunPart
<1>2. n \in Nat \ {0} /\ kmax \in Nat \ {0} /\ from \in Nat
  BY <1>1, TruthAssumption
<1>3. Len(split) \in Nat /\ DOMAIN split = 1..Len(split)
  BY <1>1, LenProperties
<1> QED
  BY <1>1, <1>2, <1>3

\* What a run has that may write.
LEMMA HitsAre ==
  ASSUME TInv, phase = "write", NEW y \in 1..Len(split)
  PROVE  /\ split[y] \in Queries /\ truth[y] \in Seq(Int \X Int)
         /\ Len(truth[y]) = kmax /\ DOMAIN truth[y] = 1..kmax
         /\ \A p \in 1..kmax : HitFits(y, p)
<1>1. split \in Seq(Queries) /\ truth \in [1..Len(split) -> Seq(Int \X Int)]
  BY RunIs
<1>2. split[y] \in Queries /\ truth[y] \in Seq(Int \X Int)
  BY <1>1, ElementOfSeq
<1>3. Len(truth[y]) = kmax
  BY <1>1 DEF TInv, Complete
<1>4. DOMAIN truth[y] = 1..kmax
  BY <1>2, <1>3, LenProperties
<1>5. \A p \in 1..kmax : HitFits(y, p)
  BY <1>3 DEF TInv, HitsPart
<1> QED
  BY <1>2, <1>3, <1>4, <1>5

\* A line that may come next is what an earlier run wrote, or has no ranks to keep.
LEMMA UpcomingAre ==
  ASSUME TInv, phase = "read", NEW line \in Upcoming
  PROVE  /\ line.score \in Int /\ line.id \in Int
         /\ from > 0 /\ line.id # -1 => RanksAt(line.q, from, line.id, line.rank)
         /\ {Tail(s) : s \in lines} \subseteq Seq(FileLines(from))
         /\ \A s, u \in {Tail(v) : v \in lines} : s = u
         /\ {Tail(s) : s \in lines} = {} => from = 0
<1>1. /\ lines \subseteq Seq(FileLines(from)) /\ \A s, u \in lines : s = u
      /\ lines = {} => from = 0
  BY DEF TInv, FilePart
<1>2. CASE lines = {}
  <2>1. from = 0 /\ line \in [q : Queries, rank : 1..kmax+1, id : 0..n, score : FileScores]
    BY <1>1, <1>2 DEF Upcoming
  <2>2. line.score \in Int /\ line.id \in Int
    <3>1. FileScores \subseteq Int /\ n \in Nat
      BY TruthAssumption DEF TInv, RunPart
    <3>2. line.score \in FileScores /\ line.id \in 0..n
      BY <2>1
    <3>3. line.score \in Int
      BY <3>1, <3>2
    <3>4. line.id \in Int
      BY <3>1, <3>2
    <3> QED
      BY <3>3, <3>4
  <2> QED
    BY <1>2, <2>1, <2>2
<1>3. CASE lines # {}
  <2>1. PICK s \in lines \ {<<>>} : line = s[1]
    BY <1>3 DEF Upcoming
  <2>2. s \in Seq(FileLines(from)) /\ s # <<>>
    BY <1>1, <2>1
  <2>3. 1 \in 1..Len(s) /\ Tail(s) \in Seq(FileLines(from))
    BY <2>2, EmptySeq, LenProperties, HeadTailProperties
  <2>4. line \in FileLines(from)
    BY <2>1, <2>2, <2>3, ElementOfSeq
  <2>5. lines = {s}
    BY <1>1, <2>1
  <2>6. {Tail(u) : u \in lines} = {Tail(s)}
    BY <2>5
  <2>7. line \in [q : Queries \cup {0}, rank : Nat, id : Int, score : Int]
    BY <2>4 DEF FileLines
  <2>8. from > 0 /\ line.id # -1 => RanksAt(line.q, from, line.id, line.rank)
    BY <2>4 DEF FileLines
  <2> QED
    BY <2>3, <2>6, <2>7, <2>8
<1> QED
  BY <1>2, <1>3

\* The hits of a query of the split are at its position.
LEMMA PositionIs ==
  ASSUME NEW q \in ToSet(split), split \in Seq(Queries)
  PROVE  Position(q) \in 1..Len(split) /\ split[Position(q)] = q
<1>1. DOMAIN split = 1..Len(split)
  BY LenProperties
<1>2. \E y \in 1..Len(split) : split[y] = q
  BY <1>1 DEF ToSet
<1> QED
  BY <1>1, <1>2 DEF Position

\* A line that is taken is the next hit of its query.
LEMMA LineIsTaken ==
  ASSUME TInv, phase = "read", NEW line \in Upcoming, Take(line), UNCHANGED <<vars, runs, file, from>>
  PROVE  TInv'
<1> DEFINE y0 == Position(line.q)
           hit == <<line.score, line.id>>
<1>1. /\ n \in Limits /\ kmax \in KMaxes /\ kmax \in Nat /\ n \in Nat /\ from \in Limits \cup {0}
      /\ split \in Seq(Queries) /\ truth \in [1..Len(split) -> Seq(Int \X Int)]
      /\ kmax <= n /\ IsInjective(split)
  BY TruthAssumption DEF TInv, RunPart
<1>2. /\ line.id \in 0..n-1 /\ line.q \in ToSet(split) /\ Fits(line)
      /\ truth' = [truth EXCEPT ![y0] = Append(@, hit)]
      /\ lines' = {Tail(s) : s \in lines} /\ UNCHANGED <<phase, n, kmax, split, z>>
  BY DEF Take, Parses
<1>3. y0 \in 1..Len(split) /\ split[y0] = line.q
  BY <1>1, <1>2, PositionIs
<1>4. /\ line.rank = Len(truth[y0]) + 1 /\ line.rank <= kmax
      /\ Within(line.score, ScoreOf[line.q][line.id])
      /\ truth[y0] # <<>> => Better(Last(truth[y0]), hit)
  BY <1>2 DEF Fits, Sorted
<1>5. line.score \in Int /\ line.id \in Int /\ (from > 0 => RanksAt(line.q, from, line.id, line.rank))
  BY <1>1, <1>2, UpcomingAre
<1> HIDE DEF y0
<1>6. hit \in Int \X Int /\ truth[y0] \in Seq(Int \X Int) /\ Len(truth[y0]) \in Nat
  BY <1>1, <1>3, <1>5, LenProperties
<1>7. hit[1] = line.score /\ hit[2] = line.id
  OBVIOUS
<1> HIDE DEF hit
<1> DEFINE longer == Append(truth[y0], hit)
<1>8. /\ longer \in Seq(Int \X Int) /\ Len(longer) = Len(truth[y0]) + 1
      /\ \A p \in 1..Len(truth[y0]) : longer[p] = truth[y0][p]
      /\ longer[Len(truth[y0]) + 1] = hit
  BY <1>6, AppendProperties
<1> HIDE DEF longer
<1>9. truth' = [truth EXCEPT ![y0] = longer]
  BY <1>2 DEF longer
<1>10. RunPart'
  BY <1>1, <1>2, <1>8, <1>9 DEF TInv, RunPart
<1>11. HitsPart'
  <2> SUFFICES ASSUME NEW y \in 1..Len(split)
               PROVE  Len(truth'[y]) <= kmax /\ \A p \in 1..Len(truth'[y]) : HitFits(y, p)'
    BY <1>2 DEF HitsPart
  <2>1. Len(truth[y]) <= kmax /\ \A p \in 1..Len(truth[y]) : HitFits(y, p)
    BY DEF TInv, HitsPart
  <2>2. CASE y # y0
    <3>1. truth'[y] = truth[y]
      BY <1>1, <1>9, <2>2
    <3>2. ASSUME NEW p \in 1..Len(truth[y]) PROVE HitFits(y, p)'
      <4>1. HitFits(y, p)
        BY <2>1
      <4> QED
        BY <1>2, <3>1, <4>1 DEF HitFits
    <3> QED
      BY <1>2, <2>1, <3>1, <3>2
  <2>3. CASE y = y0
    <3>1. truth'[y] = longer
      BY <1>1, <1>9, <2>3
    <3>2. Len(truth'[y]) = Len(truth[y0]) + 1
      BY <1>8, <3>1
    <3>3. ASSUME NEW p \in 1..Len(truth[y0]) PROVE HitFits(y, p)'
      <4>1. HitFits(y, p)
        BY <2>1, <2>3
      <4>2. truth'[y][p] = truth[y][p] /\ (p > 1 => truth'[y][p - 1] = truth[y][p - 1])
        <5>1. p > 1 => p - 1 \in 1..Len(truth[y0])
          BY <1>6
        <5> QED
          BY <1>8, <2>3, <3>1, <5>1
      <4> QED
        BY <1>2, <4>1, <4>2 DEF HitFits
    <3>4. HitFits(y, line.rank)'
      <4>1. truth'[y][line.rank] = hit
        BY <1>4, <1>8, <3>1
      <4>2. line.rank > 1 => Better(truth'[y][line.rank - 1], hit)
        <5> SUFFICES ASSUME line.rank > 1 PROVE Better(truth'[y][line.rank - 1], hit)
          OBVIOUS
        <5>1. line.rank - 1 = Len(truth[y0]) /\ Len(truth[y0]) \in 1..Len(truth[y0])
          BY <1>4, <1>6
        <5>2. truth[y0] # <<>>
          BY <5>1, EmptySeq
        <5>3. Last(truth[y0]) = truth[y0][Len(truth[y0])]
          BY DEF Last
        <5> QED
          BY <1>4, <1>8, <3>1, <5>1, <5>2, <5>3
      <4> QED
        BY <1>2, <1>3, <1>4, <1>5, <1>7, <2>3, <4>1, <4>2 DEF HitFits
    <3>5. \A p \in 1..Len(truth'[y]) : p \in 1..Len(truth[y0]) \/ p = line.rank
      BY <1>4, <1>6, <3>2
    <3> QED
      BY <1>2, <1>4, <3>2, <3>3, <3>4, <3>5
  <2> QED
    BY <2>2, <2>3
<1>12. EInv'
  BY DEF TInv, EInv, vars, TypeOK, HeapIsTop, Seen, Hit
<1>13. FilePart'
  BY <1>2, UpcomingAre DEF TInv, FilePart
<1> QED
  BY <1>2, <1>10, <1>11, <1>12, <1>13 DEF TInv, ScanPart

\* A line that is not for this run changes nothing, one that does not fit ends it.
LEMMA LineStep ==
  ASSUME TInv, NEW line \in Upcoming, ReadLine(line)
  PROVE  TInv'
<1>1. phase = "read" /\ UNCHANGED <<vars, runs, file, from>>
  BY DEF ReadLine
<1>2. EInv'
  BY <1>1 DEF TInv, EInv, vars, TypeOK, HeapIsTop, Seen, Hit
<1>3. CASE Skip(line)
  <2>1. /\ lines' = {Tail(s) : s \in lines}
        /\ UNCHANGED <<phase, n, kmax, split, truth, z>>
    BY <1>3 DEF Skip
  <2>2. RunPart'
    BY <1>1, <2>1 DEF TInv, RunPart
  <2>3. HitsPart'
    <3>1. HitsPart
      BY DEF TInv
    <3> QED
      BY <1>1, <2>1, <3>1 DEF HitsPart, HitFits
  <2>4. FilePart'
    BY <1>1, <2>1, UpcomingAre DEF TInv, FilePart
  <2> QED
    BY <1>1, <1>2, <2>1, <2>2, <2>3, <2>4 DEF TInv, ScanPart
<1>4. CASE Take(line)
  BY <1>1, <1>4, LineIsTaken
<1>5. CASE Refuse(line)
  <2>1. phase' = "ended"
    BY <1>5 DEF Refuse, End
  <2>2. FilePart'
    BY <1>1, <2>1 DEF TInv, FilePart
  <2> QED
    BY <1>1, <1>2, <2>1, <2>2 DEF TInv, RunPart, HitsPart, ScanPart
<1> QED
  BY <1>3, <1>4, <1>5 DEF ReadLine

\* The end of the file ends the reading, and the run if a hit is missing.
LEMMA FileEnds ==
  ASSUME TInv, EndOfFile
  PROVE  TInv'
<1>1. phase = "read" /\ UNCHANGED <<vars, runs, file, from>>
  BY DEF EndOfFile
<1>2. EInv'
  BY <1>1 DEF TInv, EInv, vars, TypeOK, HeapIsTop, Seen, Hit
<1>3. CASE Complete
  <2>1. phase' = "write" /\ UNCHANGED <<n, kmax, split, truth, z>>
    BY <1>3 DEF EndOfFile
  <2>2. RunPart'
    BY <1>1, <2>1 DEF TInv, RunPart
  <2>3. HitsPart'
    <3>1. HitsPart
      BY DEF TInv
    <3> QED
      BY <1>1, <2>1, <3>1 DEF HitsPart, HitFits
  <2>4. Complete'
    BY <1>3, <2>1 DEF Complete
  <2> QED
    BY <1>2, <2>1, <2>2, <2>3, <2>4 DEF TInv, ScanPart, FilePart
<1>4. CASE ~Complete
  <2>1. phase' = "ended"
    BY <1>4 DEF EndOfFile, End
  <2>2. FilePart'
    BY <1>1, <2>1 DEF TInv, FilePart
  <2> QED
    BY <1>1, <1>2, <2>1, <2>2 DEF TInv, RunPart, HitsPart, ScanPart
<1> QED
  BY <1>3, <1>4


\* What a run has got it may write as the ranking of fewer records: those of its own, where
\* the file that it read was made on more.
LEMMA HitsRankFewer ==
  ASSUME TInv, phase = "write", from > 0, NEW y \in 1..Len(split), NEW p \in 1..kmax
  PROVE  RanksAt(split[y], Less(from, n), truth[y][p][2], p)
<1>1. /\ n \in Limits /\ from \in Limits \cup {0} /\ n \in Nat /\ from \in Nat /\ kmax \in Nat
      /\ \A r \in 1..kmax : HitFits(y, r)
  BY RunIs, HitsAre
<1>2. split[y] \in Queries /\ from \in Limits
  BY <1>1, HitsAre
<1>3. \A r \in 1..kmax : truth[y][r][2] \in 0..n-1 /\ RanksAt(split[y], from, truth[y][r][2], r)
  BY <1>1 DEF HitFits
<1>4. CASE from <= n
  <2>1. Less(from, n) = from
    BY <1>4 DEF Less
  <2> QED
    BY <1>3, <2>1
<1>5. CASE ~(from <= n)
  <2>1. Less(from, n) = n /\ n <= from
    BY <1>1, <1>5 DEF Less
  <2> DEFINE ids == [r \in 1..kmax |-> truth[y][r][2]]
  <2>2. ids \in [1..kmax -> 0..n-1] /\ \A r \in 1..kmax : RanksAt(split[y], from, ids[r], r)
    BY <1>3
  <2>3. ids[p] = truth[y][p][2]
    OBVIOUS
  <2> HIDE DEF ids
  <2>4. RanksAt(split[y], n, ids[p], p)
    BY <1>1, <1>2, <2>1, <2>2, FewerRankAlike
  <2> QED
    BY <2>1, <2>3, <2>4
<1> QED
  BY <1>4, <1>5

\* The lines of a run keep the ranks.
LEMMA LinesKeepRanks ==
  ASSUME TInv, phase = "write"
  PROVE  LinesOf(split, truth) \in Seq(FileLines(Less(from, n)))
<1> DEFINE m == Less(from, n)
           L == FileLines(m)
           lineOf(y, p) == [q |-> split[y], rank |-> p, id |-> truth[y][p][2], score |-> truth[y][p][1]]
           parts == [y \in DOMAIN split |-> [p \in DOMAIN truth[y] |-> lineOf(y, p)]]
<1>1. /\ split \in Seq(Queries) /\ Len(split) \in Nat /\ DOMAIN split = 1..Len(split)
      /\ kmax \in Nat /\ n \in Nat \ {0} /\ from \in Nat
      /\ \A y \in 1..Len(split) : truth[y] \in Seq(Int \X Int) /\ Len(truth[y]) = kmax
  BY RunIs, HitsAre
<1>2. ASSUME NEW y \in 1..Len(split), NEW p \in 1..kmax PROVE lineOf(y, p) \in L
  <2>1. split[y] \in Queries
    BY <1>1, ElementOfSeq
  <2>2. truth[y][p][2] \in Int /\ truth[y][p][1] \in Int
    <3>1. truth[y][p] \in Int \X Int
      BY <1>1, ElementOfSeq
    <3> QED
      BY <3>1
  <2>3. m > 0 => RanksAt(split[y], m, truth[y][p][2], p)
    <3>1. m > 0 => from > 0
      BY <1>1 DEF Less
    <3> HIDE DEF m
    <3> QED
      BY <3>1, HitsRankFewer DEF m
  <2> HIDE DEF m
  <2>4. lineOf(y, p) \in [q : Queries \cup {0}, rank : Nat, id : Int, score : Int]
    BY <2>1, <2>2
  <2>5. /\ lineOf(y, p).q = split[y] /\ lineOf(y, p).rank = p /\ lineOf(y, p).id = truth[y][p][2]
    OBVIOUS
  <2> HIDE DEF lineOf
  <2> QED
    BY <2>1, <2>3, <2>4, <2>5 DEF FileLines
<1> HIDE DEF L, lineOf
<1>3. ASSUME NEW y \in 1..Len(split) PROVE [p \in DOMAIN truth[y] |-> lineOf(y, p)] \in Seq(L)
  <2>1. DOMAIN truth[y] = 1..kmax
    BY <1>1, LenProperties
  <2>2. [p \in 1..kmax |-> lineOf(y, p)] \in [1..kmax -> L]
    BY <1>2
  <2> QED
    BY <1>1, <2>1, <2>2, FunctionIsSeq
<1>4. parts \in [1..Len(split) -> Seq(L)]
  BY <1>1, <1>3
<1> HIDE DEF parts
<1>5. FlattenSeq(parts) \in Seq(L)
  BY <1>1, <1>4, FlattenIsSeq
<1>6. LinesOf(split, truth) = FlattenSeq(parts)
  BY DEF LinesOf, parts, lineOf
<1> QED
  BY <1>5, <1>6 DEF L

\* So the file a run leaves, whole or not, may be relied on for as many records.
LEMMA FileIsWritten ==
  ASSUME TInv, Write
  PROVE  TInv'
<1>1. /\ phase = "write" /\ phase' = "ended" /\ from' = Less(from, n) /\ UNCHANGED <<vars, runs>>
      /\ n \in Limits /\ n \in Nat \ {0} /\ from \in Limits \cup {0}
  BY TruthAssumption DEF Write, End, TInv, RunPart
<1> DEFINE all == LinesOf(split, truth)
           L == FileLines(Less(from, n))
<1>2. all \in Seq(L) /\ Len(all) \in Nat
  BY <1>1, LinesKeepRanks, LenProperties
<1>3. PICK c \in 0..Len(all) :
        \/ file' = {SubSeq(all, 1, c)}
        \/ c > 0 /\ \E line \in {[all[c] EXCEPT !.score = @ - d] : d \in Digit} \cup {Garbled} :
             file' = {Append(SubSeq(all, 1, c - 1), line)}
  BY DEF Write
<1>4. Garbled \in L
  BY DEF Garbled, FileLines
<1>5. ASSUME c > 0, NEW d \in Digit PROVE [all[c] EXCEPT !.score = @ - d] \in L
  <2>1. all[c] \in L
    <3>1. c \in 1..Len(all)
      BY <1>2, <1>5
    <3> HIDE DEF all, L
    <3> QED
      BY <1>2, <3>1, ElementOfSeq
  <2>2. d \in Nat
    BY TruthAssumption
  <2> DEFINE was == all[c]
             now == [was EXCEPT !.score = @ - d]
  <2> HIDE DEF was
  <2>3. was \in L
    BY <2>1 DEF was
  <2>4. /\ was \in [q : Queries \cup {0}, rank : Nat, id : Int, score : Int]
        /\ was.id = -1 \/ (was.q \in Queries /\ (Less(from, n) > 0 => RanksAt(was.q, Less(from, n), was.id, was.rank)))
    BY <2>3 DEF FileLines
  <2>5. /\ now \in [q : Queries \cup {0}, rank : Nat, id : Int, score : Int]
        /\ now.id = was.id /\ now.q = was.q /\ now.rank = was.rank
    BY <2>2, <2>4
  <2>6. now \in L
    <3> HIDE DEF now
    <3> QED
      BY <2>4, <2>5 DEF FileLines
  <2> QED
    BY <2>6 DEF was
<1>6. \A x \in 0..Len(all) : SubSeq(all, 1, x) \in Seq(L)
  <2> HIDE DEF all, L
  <2>1. \A x \in 0..Len(all), j \in Int : j \in 1..x => all[j] \in L
    BY <1>2, ElementOfSeq
  <2> QED
    BY <1>2, <2>1, SubSeqProperties
<1>7. file' \subseteq Seq(L) /\ \A s, u \in file' : s = u
  <2>1. CASE file' = {SubSeq(all, 1, c)}
    <3> HIDE DEF all, L
    <3> QED
      BY <1>3, <1>6, <2>1
  <2>2. ASSUME c > 0, NEW line \in {[all[c] EXCEPT !.score = @ - d] : d \in Digit} \cup {Garbled},
               file' = {Append(SubSeq(all, 1, c - 1), line)}
        PROVE  file' \subseteq Seq(L) /\ \A s, u \in file' : s = u
    <3>1. line \in L
      BY <1>4, <1>5, <2>2
    <3>2. c - 1 \in 0..Len(all)
      BY <1>2, <1>3, <2>2
    <3> HIDE DEF all, L
    <3>3. Append(SubSeq(all, 1, c - 1), line) \in Seq(L)
      BY <1>6, <3>1, <3>2, AppendProperties
    <3> QED
      BY <2>2, <3>3
  <2> QED
    BY <1>3, <2>1, <2>2
<1>8. Less(from, n) \in Limits \cup {0}
  BY <1>1 DEF Less
<1>9. EInv'
  BY <1>1 DEF TInv, EInv, vars, TypeOK, HeapIsTop, Seen, Hit
<1>10. FilePart'
  <2>1. FileLines(from)' = L
    BY <1>1 DEF FileLines, RanksAt, AllHits, HitOf
  <2> HIDE DEF L
  <2> QED
    BY <1>1, <1>7, <2>1 DEF FilePart
<1> QED
  BY <1>1, <1>8, <1>9, <1>10 DEF TInv, RunPart, HitsPart, ScanPart

\* A step of the whole keeps all of it.
LEMMA TruthStep == TInv /\ [GNext]_<<vars, tvars>> => TInv'
<1> SUFFICES ASSUME TInv, [GNext]_<<vars, tvars>> PROVE TInv'
  OBVIOUS
<1>1. ASSUME NEW m \in Limits, NEW k \in KMaxes, NEW sp \in Splits,
             StartExact(m, k, sp) \/ StartCached(m, k, sp)
      PROVE  TInv'
  BY <1>1, StartStep
<1>2. CASE ScanRecord
  BY <1>2, RecordStep
<1>3. CASE EndScan
  BY <1>3, ScanEnds
<1>4. ASSUME NEW line \in Upcoming, ReadLine(line) PROVE TInv'
  BY <1>4, LineStep
<1>5. CASE EndOfFile
  BY <1>5, FileEnds
<1>6. CASE Write
  BY <1>6, FileIsWritten
<1>7. CASE UNCHANGED <<vars, tvars>>
  <2>1. EInv'
    BY <1>7 DEF TInv, EInv, vars, TypeOK, HeapIsTop, Seen, Hit
  <2>2. RunPart'
    BY <1>7 DEF tvars, TInv, RunPart
  <2>3. HitsPart'
    <3>1. HitsPart
      BY DEF TInv
    <3> QED
      BY <1>7, <3>1 DEF tvars, HitsPart, HitFits
  <2>4. ScanPart' /\ FilePart'
    BY <1>7 DEF vars, tvars, TInv, ScanPart, FilePart
  <2>5. phase' = "write" => Complete'
    BY <1>7 DEF tvars, TInv, Complete
  <2> QED
    BY <2>1, <2>2, <2>3, <2>4, <2>5 DEF TInv
<1> QED
  BY <1>1, <1>2, <1>3, <1>4, <1>5, <1>6, <1>7 DEF GNext

\* The invariant holds of the specification.
LEMMA TruthInv == GSpec => []TInv
BY TruthInit, TruthStep, PTL DEF GSpec

-----------------------------------------------------------------------------
\* Whatever file was read, a run goes on only with kmax ranked records for every query,
\* near enough, and no record twice where the scores were computed.
THEOREM TruthStaysRanked == GSpec => []TruthIsRanked
<1>1. ASSUME TInv PROVE TruthIsRanked
  <2> SUFFICES ASSUME phase = "write", NEW y \in DOMAIN split
               PROVE  /\ Len(truth[y]) = kmax /\ (from > 0 => IsInjective(IdsOf(truth[y])))
                      /\ \A p \in DOMAIN truth[y] :
                           /\ truth[y][p][2] \in 0..n-1
                           /\ Within(truth[y][p][1], ScoreOf[split[y]][truth[y][p][2]])
                           /\ p > 1 => Better(truth[y][p - 1], truth[y][p])
    BY DEF TruthIsRanked
  <2>1. y \in 1..Len(split) /\ from \in Limits \cup {0} /\ kmax \in Nat
    BY <1>1, RunIs
  <2>2. split[y] \in Queries
    BY <1>1, <2>1, HitsAre
  <2>3. Len(truth[y]) = kmax /\ DOMAIN truth[y] = 1..kmax
    BY <1>1, <2>1, HitsAre
  <2>4. \A p \in 1..kmax : HitFits(y, p)
    BY <1>1, <2>1, HitsAre
  <2>5. ASSUME from > 0 PROVE IsInjective(IdsOf(truth[y]))
    <3>1. \A p \in 1..kmax : RanksAt(split[y], from, truth[y][p][2], p)
      BY <2>4, <2>5 DEF HitFits
    <3>2. ASSUME NEW a \in 1..kmax, NEW b \in 1..kmax, truth[y][a][2] = truth[y][b][2] PROVE a = b
      <4>1. /\ RanksAt(split[y], from, truth[y][a][2], a) /\ RanksAt(split[y], from, truth[y][b][2], b)
            /\ a \in Nat /\ b \in Nat /\ from \in Limits
        BY <2>1, <2>5, <3>1
      <4>2. truth[y][a][2] = truth[y][b][2] <=> a = b
        BY ONLY <2>2, <4>1, RankIsUnique
      <4> QED
        BY <3>2, <4>2
    <3> QED
      BY <2>3, <3>2 DEF IsInjective, IdsOf
  <2> QED
    BY <2>3, <2>4, <2>5 DEF HitFits
<1> QED
  BY <1>1, TruthInv, PTL

\* A cache made on no fewer records than the run takes is refused or is the exact ranking.
THEOREM CacheStaysExact == GSpec => []CacheIsExact
<1>1. ASSUME TInv PROVE CacheIsExact
  <2> SUFFICES ASSUME phase = "write", from >= n, NEW y \in DOMAIN split
               PROVE  IdsOf(truth[y]) = IdsOf(ExactRanking(split[y]))
    BY DEF CacheIsExact
  <2> DEFINE q == split[y]
             o == ExactRanking(q)
  <2>1. /\ kmax \in Nat /\ kmax <= n /\ n \in Limits /\ n \in Nat \ {0} /\ from \in Nat
        /\ y \in 1..Len(split)
    BY <1>1, RunIs
  <2>2. q \in Queries
    BY <1>1, <2>1, HitsAre
  <2>3. DOMAIN truth[y] = 1..kmax
    BY <1>1, <2>1, HitsAre
  <2>4. Less(from, n) = n /\ from > 0
    BY <2>1 DEF Less
  <2>5. \A p \in 1..kmax : RanksAt(q, n, truth[y][p][2], p)
    BY <1>1, <2>1, <2>4, HitsRankFewer
  <2>6. o = Ranked(Best(kmax, AllHits(q, n)))
    BY DEF ExactRanking, AllHits, HitOf
  <2> HIDE DEF q, o
  <2>7. /\ o \in [1..kmax -> AllHits(q, n)]
        /\ \A r \in 1..kmax : RanksAt(q, n, o[r][2], r)
    BY <2>1, <2>2, <2>6, RankedAreBest
  <2>8. ASSUME NEW p \in 1..kmax PROVE truth[y][p][2] = o[p][2]
    <3>1. RanksAt(q, n, truth[y][p][2], p) /\ RanksAt(q, n, o[p][2], p) /\ p \in Nat
      BY <2>5, <2>7
    <3> QED
      BY <2>1, <2>2, <3>1, RankIsOnce
  <2>9. DOMAIN o = 1..kmax
    BY <2>7
  <2>10. IdsOf(truth[y]) = IdsOf(o)
    BY <2>3, <2>8, <2>9 DEF IdsOf
  <2> QED
    BY <2>10 DEF o, q
<1> QED
  BY <1>1, TruthInv, PTL

\* In an experiment too, exact returns the k best.
THEOREM TruthIsComputed == GSpec => []ExactIsBest
<1>1. TInv => HeapIsTop /\ EInv
  BY DEF TInv, EInv
<1>2. EInv => ExactIsBest
  BY EndIsBest
<1> QED
  BY <1>1, <1>2, TruthInv, PTL
=============================================================================
