--------------------------- MODULE Ranking_proofs ---------------------------
(***************************************************************************)
(* Facts about the order of candidates and about keeping the k best of a   *)
(* growing set one element at a time, for the pool, for top and for the    *)
(* exact search alike; and about finite sets of numbers, which the proofs  *)
(* about the index and the partition share.                                *)
(***************************************************************************)
EXTENDS Ranking, FiniteSetTheorems, TLAPS

Pairs == Int \X Int

\* The pair order is a strict total order.
LEMMA BetterIsTotal ==
  ASSUME NEW p \in Pairs, NEW q \in Pairs, p # q
  PROVE  Better(p, q) \/ Better(q, p)
BY DEF Pairs, Better

\* The pair order is transitive.
LEMMA BetterIsTransitive ==
  ASSUME NEW p \in Pairs, NEW q \in Pairs, NEW r \in Pairs,
         Better(p, q), Better(q, r)
  PROVE  Better(p, r)
BY DEF Pairs, Better

\* The pair order is asymmetric.
LEMMA BetterIsStrict ==
  ASSUME NEW p \in Pairs, NEW q \in Pairs, Better(p, q)
  PROVE  p # q /\ ~Better(q, p)
BY DEF Pairs, Better

-----------------------------------------------------------------------------
\* A full set keeps its contents when the new element does not beat its worst.
LEMMA TopKeepsOut ==
  ASSUME NEW k \in Nat, NEW O \in SUBSET Pairs, NEW P, NEW R \in SUBSET O,
         IsTop(k, P, O), NEW e \in Pairs, e \notin O \ R,
         Cardinality(P \ R) = k, NEW w, IsWorst(w, P \ R), ~Better(e, w)
  PROVE  IsTop(k, P \ R, (O \ R) \cup {e})
<1>1. P \subseteq O /\ \A p \in P, q \in O \ P : Better(p, q)
  BY DEF IsTop
<1>2. w \in P \ R /\ w \in Pairs /\ Better(w, e)
  BY <1>1, BetterIsTotal DEF IsWorst
<1>3. ASSUME NEW p \in P \ R PROVE Better(p, e)
  BY <1>1, <1>2, BetterIsTransitive DEF IsWorst
<1>4. ASSUME NEW p \in P \ R, NEW q \in ((O \ R) \cup {e}) \ (P \ R)
      PROVE  Better(p, q)
  BY <1>1, <1>3
<1>5. P \ R \subseteq (O \ R) \cup {e} /\ Cardinality(P \ R) <= k
  BY <1>1
<1> QED
  BY <1>4, <1>5 DEF IsTop

\* A full set that a better element enters loses its worst.
LEMMA TopReplacesWorst ==
  ASSUME NEW k \in Nat, NEW O \in SUBSET Pairs, NEW P, NEW R \in SUBSET O,
         IsTop(k, P, O), IsFiniteSet(P), NEW e \in Pairs, e \notin O \ R,
         Cardinality(P \ R) = k, NEW w, IsWorst(w, P \ R), Better(e, w)
  PROVE  IsTop(k, ((P \ R) \ {w}) \cup {e}, (O \ R) \cup {e})
<1> DEFINE S == (P \ R) \ {w}
<1>1. P \subseteq O /\ \A p \in P, q \in O \ P : Better(p, q)
  BY DEF IsTop
<1>2. w \in P \ R /\ w \in Pairs
  BY <1>1 DEF IsWorst
<1>3. IsFiniteSet(P \ R)
  BY FS_Subset
<1>4. IsFiniteSet(S) /\ Cardinality(S) = k - 1
  BY <1>2, <1>3, FS_RemoveElement
<1>5. e \notin S
  BY <1>1
<1>6. Cardinality(S \cup {e}) = k
  <2>1. Cardinality(S \cup {e}) = Cardinality(S) + 1
    BY <1>4, <1>5, FS_AddElement
  <2> QED
    BY <2>1, <1>4
<1>7. ASSUME NEW q \in (O \ R) \ P PROVE Better(e, q)
  BY <1>1, <1>2, BetterIsTransitive
<1>8. ASSUME NEW p \in S \cup {e}, NEW q \in ((O \ R) \cup {e}) \ (S \cup {e})
      PROVE  Better(p, q)
  <2>1. CASE q = w
    BY <2>1 DEF IsWorst
  <2>2. CASE q # w
    <3>1. q \in (O \ R) \ P
      BY <2>2
    <3> QED
      BY <3>1, <1>1, <1>7
  <2> QED
    BY <2>1, <2>2
<1> QED
  BY <1>1, <1>6, <1>8 DEF IsTop

\* A set with room takes the new element.  R holds at most the element's old
\* entry, which the new one beats.
LEMMA TopTakes ==
  ASSUME NEW k \in Nat, NEW O \in SUBSET Pairs, NEW P, NEW R \in SUBSET O,
         IsTop(k, P, O), IsFiniteSet(P), NEW e \in Pairs, e \notin O \ R,
         Cardinality(P \ R) # k,
         R = {} \/ \E r : R = {r} /\ Better(e, r)
  PROVE  IsTop(k, (P \ R) \cup {e}, (O \ R) \cup {e})
<1> DEFINE S == P \ R
<1>1. /\ P \subseteq O /\ \A p \in P, q \in O \ P : Better(p, q)
      /\ Cardinality(P) <= k
      /\ P # O => Cardinality(P) = k
  BY DEF IsTop
<1>2. IsFiniteSet(S) /\ Cardinality(S) \in Nat
  BY FS_Subset, FS_CardinalityType
<1>3. e \notin S
  BY <1>1
<1>4. Cardinality(S \cup {e}) = Cardinality(S) + 1
  BY <1>2, <1>3, FS_AddElement
<1>5. CASE S = P
  <2>1. P = O
    BY <1>1, <1>5
  <2>2. S \cup {e} = (O \ R) \cup {e}
    BY <2>1
  <2>3. Cardinality(S \cup {e}) <= k
    <3>1. Cardinality(S) # k /\ Cardinality(S) <= k
      BY <1>1, <1>5
    <3> QED
      BY <3>1, <1>2, <1>4
  <2> QED
    BY <2>2, <2>3 DEF IsTop
<1>6. CASE S # P
  <2>1. PICK r : R = {r} /\ r \in P /\ Better(e, r)
    BY <1>6
  <2>2. Cardinality(S) = Cardinality(P) - 1 /\ Cardinality(P) \in Nat
    BY <2>1, FS_RemoveElement, FS_CardinalityType
  <2>3. Cardinality(S \cup {e}) = Cardinality(P)
    BY <2>2, <1>4
  <2>4. ASSUME NEW q \in ((O \ R) \cup {e}) \ (S \cup {e}), NEW p \in S \cup {e}
        PROVE  Better(p, q)
    <3>1. q \in O \ P
      BY <2>1
    <3>2. Better(r, q)
      BY <3>1, <2>1, <1>1
    <3> QED
      BY <3>1, <3>2, <2>1, <1>1, BetterIsTransitive
  <2>5. S \cup {e} # (O \ R) \cup {e} => P # O
    BY <2>1
  <2> QED
    BY <2>3, <2>4, <2>5, <1>1 DEF IsTop
<1> QED
  BY <1>5, <1>6

\* What is left of a finite set when all but the k best are dropped is the k best of it.
LEMMA TopIsBest ==
  ASSUME NEW k \in Nat, NEW O \in SUBSET Pairs, IsFiniteSet(O), NEW P, IsTop(k, P, O)
  PROVE  P = Best(k, O)
<1> DEFINE Above(p) == {q \in O : Better(q, p)}
<1>1. /\ P \subseteq O /\ \A p \in P, q \in O \ P : Better(p, q)
      /\ Cardinality(P) <= k
      /\ P # O => Cardinality(P) = k
  BY DEF IsTop
<1>2. IsFiniteSet(P) /\ Cardinality(P) \in Nat
  BY <1>1, FS_Subset, FS_CardinalityType
<1>3. ASSUME NEW p \in P PROVE Cardinality(Above(p)) < k
  <2>1. Above(p) \subseteq P \ {p}
    BY <1>1, BetterIsStrict
  <2>2. IsFiniteSet(P \ {p}) /\ Cardinality(P \ {p}) = Cardinality(P) - 1
    BY <1>2, FS_RemoveElement
  <2>3. Cardinality(Above(p)) <= Cardinality(P \ {p}) /\ Cardinality(Above(p)) \in Nat
    BY <2>1, <2>2, FS_Subset, FS_CardinalityType
  <2> QED
    BY <1>1, <1>2, <2>2, <2>3
<1>4. ASSUME NEW p \in O \ P PROVE ~(Cardinality(Above(p)) < k)
  <2>1. P \subseteq Above(p)
    BY <1>1
  <2>2. IsFiniteSet(Above(p))
    BY FS_Subset
  <2>3. Cardinality(P) <= Cardinality(Above(p)) /\ Cardinality(Above(p)) \in Nat
    BY <2>1, <2>2, FS_Subset, FS_CardinalityType
  <2> QED
    BY <1>1, <2>3
<1> QED
  BY <1>1, <1>3, <1>4 DEF Best
-----------------------------------------------------------------------------
(***************************************************************************)
(* Every finite set of pairs has a worst and, for each k, k best: by a     *)
(* counterexample of least size.                                           *)
(***************************************************************************)

\* Every nonempty set of naturals has a least element.
LEMMA LeastExists ==
  ASSUME NEW T \in SUBSET Nat, T # {}
  PROVE  \E x \in T : \A y \in T : x <= y
<1> DEFINE Below(x) == 0..x-1
           B == {Below(x) : x \in T}
<1>1. B \subseteq FiniteSubsetsOf(Nat) /\ B # {}
  <2>1. \A x \in T : Below(x) \subseteq Nat /\ IsFiniteSet(Below(x))
    BY FS_Interval
  <2> QED
    BY <2>1 DEF FiniteSubsetsOf
<1>2. \E b \in B : \A c \in B : ~(<<c, b>> \in StrictSubsetOrdering(Nat))
  BY <1>1, FS_StrictSubsetOrderingWellFounded, WFMin
<1>3. PICK x \in T : \A c \in B : ~(<<c, Below(x)>> \in StrictSubsetOrdering(Nat))
  BY <1>2
<1>4. ASSUME NEW y \in T, ~(x <= y) PROVE FALSE
  <2>1. y \in Below(x) /\ y \notin Below(y) /\ Below(y) \subseteq Below(x)
    BY <1>4
  <2>2. <<Below(y), Below(x)>> \in StrictSubsetOrdering(Nat)
    BY <2>1 DEF StrictSubsetOrdering
  <2> QED
    BY <1>3, <2>2
<1> QED
  BY <1>4

\* If some finite subset of U is bad, one of them is bad of which every subset
\* with an element less is good.
LEMMA LeastBadSet ==
  ASSUME NEW Bad, NEW S \in Bad, IsFiniteSet(S)
  PROVE  \E T \in Bad : IsFiniteSet(T) /\ \A e \in T : T \ {e} \notin Bad
<1> DEFINE Sizes == {Cardinality(T) : T \in {R \in Bad : IsFiniteSet(R)}}
<1>1. Sizes \in SUBSET Nat /\ Sizes # {}
  BY FS_CardinalityType
<1>2. PICK n \in Sizes : \A m \in Sizes : n <= m
  <2> HIDE DEF Sizes
  <2> QED
    BY <1>1, LeastExists
<1>3. PICK T \in Bad : IsFiniteSet(T) /\ Cardinality(T) = n
  BY <1>2
<1>4. ASSUME NEW e \in T, T \ {e} \in Bad PROVE FALSE
  <2>1. IsFiniteSet(T \ {e}) /\ Cardinality(T \ {e}) = n - 1 /\ n \in Nat
    BY <1>3, FS_RemoveElement, FS_CardinalityType
  <2>2. n - 1 \in Sizes
    BY <1>4, <2>1
  <2> QED
    BY <1>2, <2>1, <2>2
<1> QED
  BY <1>3, <1>4

\* A finite set of pairs that is not empty has a worst.
LEMMA WorstExists ==
  ASSUME NEW S \in SUBSET Pairs, IsFiniteSet(S), S # {}
  PROVE  \E w : IsWorst(w, S)
<1> DEFINE Bad == {T \in SUBSET Pairs : T # {} /\ ~ \E w : IsWorst(w, T)}
<1>1. SUFFICES ASSUME S \in Bad PROVE FALSE
  OBVIOUS
<1>2. PICK T \in Bad : IsFiniteSet(T) /\ \A e \in T : T \ {e} \notin Bad
  <2> HIDE DEF Bad
  <2> QED
    BY <1>1, LeastBadSet
<1>3. PICK e \in T : TRUE
  OBVIOUS
<1>4. CASE T \ {e} = {}
  <2>1. IsWorst(e, T)
    BY <1>4 DEF IsWorst
  <2> QED
    BY <2>1
<1>5. CASE T \ {e} # {}
  <2>1. PICK w : IsWorst(w, T \ {e})
    BY <1>2, <1>5
  <2>2. w \in T /\ w # e /\ w \in Pairs /\ e \in Pairs
    BY <2>1 DEF IsWorst
  <2>3. CASE Better(e, w)
    <3>1. IsWorst(w, T)
      BY <2>1, <2>3 DEF IsWorst
    <3> QED
      BY <3>1
  <2>4. CASE Better(w, e)
    <3>1. \A p \in T : p = e \/ Better(p, e)
      BY <2>1, <2>2, <2>4, BetterIsTransitive DEF IsWorst
    <3>2. IsWorst(e, T)
      BY <3>1 DEF IsWorst
    <3> QED
      BY <3>2
  <2> QED
    BY <2>2, <2>3, <2>4, BetterIsTotal
<1> QED
  BY <1>4, <1>5

\* A finite set of pairs can be sorted.
LEMMA RankingExists ==
  ASSUME NEW S \in SUBSET Pairs, IsFiniteSet(S)
  PROVE  \E o \in [1..Cardinality(S) -> S] :
           \A s, u \in 1..Cardinality(S) : s < u => Better(o[s], o[u])
<1> DEFINE Sorted(T, o) ==
             /\ o \in [1..Cardinality(T) -> T]
             /\ \A s, u \in 1..Cardinality(T) : s < u => Better(o[s], o[u])
           Bad == {T \in SUBSET Pairs : ~ \E o : Sorted(T, o)}
<1>1. SUFFICES ASSUME S \in Bad PROVE FALSE
  OBVIOUS
<1>2. PICK T \in Bad : IsFiniteSet(T) /\ \A e \in T : T \ {e} \notin Bad
  <2> HIDE DEF Bad
  <2> QED
    BY <1>1, LeastBadSet
<1> DEFINE n == Cardinality(T)
<1>3. T # {} /\ n \in Nat
  <2>1. [s \in 1..0 |-> 0] \in [1..0 -> {}] /\ Cardinality({}) = 0
    BY FS_EmptySet
  <2>2. Sorted({}, [s \in 1..0 |-> 0])
    BY <2>1
  <2> HIDE DEF Sorted
  <2> QED
    BY <1>2, <2>2, FS_CardinalityType
<1>4. PICK w : IsWorst(w, T)
  BY <1>2, <1>3, WorstExists
<1>5. w \in T /\ \A p \in T \ {w} : Better(p, w)
  BY <1>4 DEF IsWorst
<1>6. Cardinality(T \ {w}) = n - 1 /\ n >= 1
  <2>1. Cardinality(T \ {w}) = n - 1 /\ IsFiniteSet(T \ {w})
    BY <1>2, <1>5, FS_RemoveElement
  <2>2. n - 1 \in Nat
    BY <2>1, FS_CardinalityType
  <2> QED
    BY <1>3, <2>1, <2>2
<1>7. PICK o : /\ o \in [1..n-1 -> T \ {w}]
               /\ \A s, u \in 1..n-1 : s < u => Better(o[s], o[u])
  BY <1>2, <1>5, <1>6
<1> DEFINE o2 == [s \in 1..n |-> IF s < n THEN o[s] ELSE w]
<1>8. \A s \in 1..n : s < n => s \in 1..n-1
  BY <1>3
<1> HIDE DEF n
<1>9. o2 \in [1..n -> T]
  BY <1>5, <1>7, <1>8
<1>10. \A s, u \in 1..n : s < u => Better(o2[s], o2[u])
  <2> SUFFICES ASSUME NEW s \in 1..n, NEW u \in 1..n, s < u PROVE Better(o2[s], o2[u])
    OBVIOUS
  <2>1. s < n /\ (u < n \/ u = n)
    BY <1>3
  <2>2. s \in 1..n-1 /\ o2[s] = o[s] /\ o[s] \in T \ {w}
    BY <1>7, <1>8, <2>1
  <2>3. CASE u < n
    BY <1>7, <1>8, <2>2, <2>3
  <2>4. CASE u = n
    BY <1>3, <1>5, <2>2, <2>4
  <2> QED
    BY <2>1, <2>3, <2>4
<1>11. Sorted(T, o2)
  BY <1>9, <1>10 DEF n
<1> HIDE DEF Sorted
<1> QED
  BY <1>2, <1>11

\* A finite set of pairs has k best for every k.
LEMMA TopExists ==
  ASSUME NEW k \in Nat, NEW S \in SUBSET Pairs, IsFiniteSet(S)
  PROVE  \E P : IsTop(k, P, S)
<1> DEFINE Bad == {T \in SUBSET Pairs : ~ \E P : IsTop(k, P, T)}
<1>1. SUFFICES ASSUME S \in Bad PROVE FALSE
  OBVIOUS
<1>2. PICK T \in Bad : IsFiniteSet(T) /\ \A e \in T : T \ {e} \notin Bad
  <2> HIDE DEF Bad
  <2> QED
    BY <1>1, LeastBadSet
<1>3. T # {} /\ k # 0
  <2>1. IsTop(k, {}, {}) /\ (k = 0 => IsTop(k, {}, T))
    BY FS_EmptySet DEF IsTop
  <2> QED
    BY <2>1
<1>4. PICK e \in T : TRUE
  BY <1>3
<1> DEFINE O == T \ {e}
<1>5. PICK P : IsTop(k, P, O)
  BY <1>2
<1>6. /\ O \in SUBSET Pairs /\ e \in Pairs /\ e \notin O /\ P \in SUBSET Pairs
      /\ IsFiniteSet(P) /\ O \cup {e} = T
  BY <1>2, <1>5, FS_Subset DEF IsTop
<1>7. P \ {} = P /\ O \ {} = O
  OBVIOUS
<1> HIDE DEF O
<1>8. CASE Cardinality(P) # k
  <2>1. IsTop(k, (P \ {}) \cup {e}, (O \ {}) \cup {e})
    BY <1>5, <1>6, <1>7, <1>8, TopTakes
  <2> QED
    BY <1>2, <1>6, <1>7, <2>1
<1>9. CASE Cardinality(P) = k
  <2>1. P # {}
    BY <1>3, <1>9, FS_EmptySet
  <2>2. PICK w : IsWorst(w, P)
    BY <1>6, <2>1, WorstExists
  <2>3. /\ IsTop(k, P, O) /\ {} \in SUBSET O /\ e \notin O \ {}
        /\ Cardinality(P \ {}) = k /\ IsWorst(w, P \ {})
    BY <1>5, <1>6, <1>7, <1>9, <2>2
  <2>4. CASE Better(e, w)
    <3>1. IsTop(k, ((P \ {}) \ {w}) \cup {e}, (O \ {}) \cup {e})
      BY <1>6, <2>3, <2>4, TopReplacesWorst
    <3> QED
      BY <1>2, <1>6, <1>7, <3>1
  <2>5. CASE ~Better(e, w)
    <3>1. IsTop(k, P \ {}, (O \ {}) \cup {e})
      BY <1>6, <2>3, <2>5, TopKeepsOut
    <3> QED
      BY <1>2, <1>6, <1>7, <3>1
  <2> QED
    BY <2>4, <2>5
<1> QED
  BY <1>8, <1>9

\* The first k of a finite set are k of them, or all where there are fewer.
LEMMA BestIsTop ==
  ASSUME NEW k \in Nat, NEW S \in SUBSET Pairs, IsFiniteSet(S)
  PROVE  IsTop(k, Best(k, S), S)
BY TopExists, TopIsBest

\* How many are left: k, or all where there are fewer.
LEMMA TopSize ==
  ASSUME NEW k \in Nat, NEW O, IsFiniteSet(O), NEW P, IsTop(k, P, O)
  PROVE  Cardinality(P) = IF k <= Cardinality(O) THEN k ELSE Cardinality(O)
<1>1. /\ P \subseteq O /\ Cardinality(P) <= k
      /\ P # O => Cardinality(P) = k
  BY DEF IsTop
<1>2. Cardinality(P) <= Cardinality(O) /\ Cardinality(P) \in Nat /\ Cardinality(O) \in Nat
  BY <1>1, FS_Subset, FS_CardinalityType
<1> QED
  BY <1>1, <1>2
\* a record has one entry; and every entry of D is replaced by a better one in R
OnePerRecord(O) == \A o, p \in O : o[2] = p[2] => o = p
BetterOf(D, R)  == \A o \in D : \E v \in R : v[2] = o[2] /\ v[1] > o[1]

\* Cutting to the k best may come before or after a merge that replaces entries
\* by better ones of the same record: what was cut stays beaten by k others.
LEMMA BestOfMerged ==
  ASSUME NEW k \in Nat, NEW O \in SUBSET Pairs, IsFiniteSet(O),
         NEW R \in SUBSET Pairs, IsFiniteSet(R), NEW D \in SUBSET O,
         OnePerRecord(O), BetterOf(D, R)
  PROVE  Best(k, (Best(k, O) \ D) \cup R) = Best(k, (O \ D) \cup R)
<1> DEFINE P  == Best(k, O)
           N  == (O \ D) \cup R
           Q  == Best(k, N)
           N2 == (P \ D) \cup R
<1>1. IsTop(k, P, O)
  BY BestIsTop
<1>2. P \in SUBSET O /\ \A p \in P, q \in O \ P : Better(p, q)
  BY <1>1 DEF IsTop
<1>3. /\ N \in SUBSET Pairs /\ N2 \in SUBSET Pairs /\ N2 \subseteq N
      /\ IsFiniteSet(N) /\ IsFiniteSet(N2)
  <2>1. IsFiniteSet(O \ D) /\ IsFiniteSet(P \ D)
    BY <1>2, FS_Subset
  <2>2. IsFiniteSet(N) /\ IsFiniteSet(N2)
    BY <2>1, FS_Union
  <2> QED
    BY <1>2, <2>2
<1>4. IsTop(k, Q, N)
  <2> HIDE DEF N
  <2> QED
    BY <1>3, BestIsTop
<1>5. ASSUME NEW q \in Q, q \notin N2 PROVE FALSE
  <2>1. q \in O /\ q \notin D /\ q \notin P
    BY <1>5 DEF Best
  <2>2. Cardinality(P) = k
    <3>1. P # O
      BY <2>1
    <3> QED
      BY <1>1, <3>1 DEF IsTop
  <2> DEFINE Above == {x \in N : Better(x, q)}
             f == [p \in P |-> IF p \in D THEN CHOOSE v \in R : v[2] = p[2] /\ v[1] > p[1]
                               ELSE p]
  <2>3. ASSUME NEW p \in P PROVE f[p] \in Above /\ f[p][2] = p[2]
    <3>1. p \in Pairs /\ q \in Pairs /\ Better(p, q)
      BY <1>2, <2>1
    <3>2. CASE p \in D
      <4>1. f[p] \in R /\ f[p][2] = p[2] /\ f[p][1] > p[1]
        BY <1>2, <3>2 DEF BetterOf
      <4>2. f[p] \in Pairs
        BY <4>1
      <4> HIDE DEF f
      <4>3. Better(f[p], q)
        BY <3>1, <4>1, <4>2 DEF Better, Pairs
      <4> QED
        BY <4>1, <4>3
    <3>3. CASE p \notin D
      BY <1>2, <3>1, <3>3
    <3> QED
      BY <3>2, <3>3
  <2>4. f \in Injection(P, Above)
    <3>1. f \in [P -> Above]
      BY <2>3
    <3>2. \A a, b \in P : f[a] = f[b] => a = b
      BY <1>2, <2>3 DEF OnePerRecord
    <3> HIDE DEF f
    <3> QED
      BY <3>1, <3>2 DEF Injection, IsInjective
  <2>5. IsFiniteSet(Above)
    BY <1>3, FS_Subset
  <2>6. Cardinality(P) <= Cardinality(Above) /\ Cardinality(Above) \in Nat
    <3> HIDE DEF f, Above, P
    <3> QED
      BY <2>4, <2>5, FS_Injection, FS_CardinalityType
  <2>7. Cardinality(Above) < k
    BY <1>5 DEF Best
  <2> QED
    BY <2>2, <2>6, <2>7
<1>6. IsTop(k, Q, N2)
  BY <1>3, <1>4, <1>5 DEF IsTop
<1> QED
  <2> HIDE DEF N2, N
  <2>1. Q = Best(k, N2)
    BY <1>3, <1>6, TopIsBest
  <2> QED
    BY <2>1 DEF N2, N
-----------------------------------------------------------------------------
(***************************************************************************)
(* Firsts, largest elements and sums over finite sets of numbers.          *)
(***************************************************************************)

\* Of the elements with the least value, one has the smallest number.
LEMMA FirstOfLeast ==
  ASSUME NEW S \in SUBSET Nat, S # {}, NEW f \in [S -> Nat]
  PROVE  \E c \in S : \A e \in S : f[c] < f[e] \/ (f[c] = f[e] /\ c <= e)
<1> DEFINE D == {f[c] : c \in S}
<1>1. PICK d \in D : \A e \in D : d <= e
  <2>1. D \in SUBSET Nat /\ D # {}
    OBVIOUS
  <2> HIDE DEF D
  <2> QED
    BY <2>1, LeastExists
<1> DEFINE T == {c \in S : f[c] = d}
<1>2. PICK c \in T : \A e \in T : c <= e
  <2>1. T \in SUBSET Nat /\ T # {}
    BY <1>1
  <2> HIDE DEF T
  <2> QED
    BY <2>1, LeastExists
<1>3. ASSUME NEW e \in S PROVE f[c] < f[e] \/ (f[c] = f[e] /\ c <= e)
  <2>1. d <= f[e] /\ d \in Nat /\ f[e] \in Nat /\ f[c] = d
    BY <1>1, <1>2
  <2> QED
    BY <1>2, <2>1
<1> QED
  BY <1>2, <1>3

\* Of the elements of a finite set with the largest value, one has the smallest number.
LEMMA FirstOfLargest ==
  ASSUME NEW S \in SUBSET Nat, IsFiniteSet(S), S # {}, NEW f \in [S -> Nat]
  PROVE  \E c \in S : \A e \in S : f[c] > f[e] \/ (f[c] = f[e] /\ c <= e)
<1> DEFINE g == [c \in S |-> <<-f[c], -c>>]
           T == {g[c] : c \in S}
<1>1. IsFiniteSet(T) /\ T # {} /\ T \in SUBSET Pairs
  <2>1. g \in Surjection(S, T) /\ T # {}
    BY DEF Surjection
  <2>2. \A c \in S : -f[c] \in Int /\ -c \in Int
    OBVIOUS
  <2>3. T \in SUBSET Pairs
    BY <2>2 DEF Pairs
  <2> HIDE DEF g, T
  <2> QED
    BY <2>1, <2>3, FS_Surjection
<1>2. PICK w : IsWorst(w, T)
  <2> HIDE DEF T
  <2> QED
    BY <1>1, WorstExists
<1>3. PICK c \in S : w = <<-f[c], -c>>
  BY <1>2 DEF IsWorst
<1>4. ASSUME NEW e \in S PROVE f[c] > f[e] \/ (f[c] = f[e] /\ c <= e)
  <2>1. <<-f[e], -e>> \in T
    OBVIOUS
  <2>2. <<-f[e], -e>> = <<-f[c], -c>> \/ Better(<<-f[e], -e>>, <<-f[c], -c>>)
    BY <1>2, <1>3, <2>1 DEF IsWorst
  <2>3. c \in Nat /\ e \in Nat /\ f[c] \in Nat /\ f[e] \in Nat
    OBVIOUS
  <2> QED
    BY <2>2, <2>3 DEF Better
<1> QED
  BY <1>4

\* Zero and the values of finitely many elements have a largest.
LEMMA LargestExists ==
  ASSUME NEW D, IsFiniteSet(D), NEW f \in [D -> Nat]
  PROVE  \E m \in {0} \cup {f[i] : i \in D} :
           m \in Nat /\ \A y \in {0} \cup {f[i] : i \in D} : y <= m
<1> DEFINE T == {f[i] : i \in D}
           S == T \cup {0}
           identity == [x \in S |-> x]
<1>1. IsFiniteSet(T)
  <2>1. f \in Surjection(D, T)
    BY DEF Surjection
  <2> HIDE DEF T
  <2> QED
    BY <2>1, FS_Surjection
<1>2. IsFiniteSet(S)
  BY <1>1, FS_AddElement
<1>3. S \in SUBSET Nat /\ S # {}
  OBVIOUS
<1>4. identity \in [S -> Nat] /\ \A x \in S : identity[x] = x
  BY <1>3
<1>5. PICK m \in S : \A e \in S : identity[m] > identity[e] \/ (identity[m] = identity[e] /\ m <= e)
  <2> HIDE DEF S, identity
  <2> QED
    BY <1>2, <1>3, <1>4, FirstOfLargest
<1>6. m \in Nat /\ \A y \in S : y <= m
  <2> HIDE DEF S, identity
  <2> QED
    BY <1>3, <1>4, <1>5
<1>7. S = {0} \cup {f[i] : i \in D}
  OBVIOUS
<1> HIDE DEF S
<1> QED
  BY <1>6, <1>7

(***************************************************************************)
(* The sums of the community modules take the elements of a set one by one *)
(* by a recursive function on its subsets.  That there is such a function, *)
(* and only one, is shown on a least set for which it fails.               *)
(***************************************************************************)

One(s) == CHOOSE x \in s : TRUE

IsSum(g, f, S) ==
  g = [s \in SUBSET S |-> IF s = {} THEN 0 ELSE f[One(s)] + g[s \ {One(s)}]]

\* What a sum over a set that is not empty adds.
LEMMA SumStep ==
  ASSUME NEW S, NEW f, NEW g, IsSum(g, f, S), NEW s \in SUBSET S
  PROVE  /\ s = {} => g[s] = 0
         /\ s # {} => /\ One(s) \in s
                      /\ s \ {One(s)} \in SUBSET S
                      /\ g[s] = f[One(s)] + g[s \ {One(s)}]
<1>1. s # {} => One(s) \in s
  BY DEF One
<1>2. g[s] = IF s = {} THEN 0 ELSE f[One(s)] + g[s \ {One(s)}]
  BY DEF IsSum
<1> QED
  BY <1>1, <1>2

\* Two sums of the same values agree on every set both are of.
LEMMA SumsAgree ==
  ASSUME NEW S, NEW T, NEW f, NEW g, NEW h, IsSum(g, f, S), IsSum(h, f, T),
         NEW R, R \subseteq S, R \subseteq T, IsFiniteSet(R)
  PROVE  g[R] = h[R]
<1> DEFINE Bad == {s \in SUBSET R : g[s] # h[s]}
<1>1. SUFFICES ASSUME g[R] # h[R] PROVE FALSE
  OBVIOUS
<1>2. PICK s \in Bad : IsFiniteSet(s) /\ \A e \in s : s \ {e} \notin Bad
  <2>1. R \in Bad
    BY <1>1
  <2> HIDE DEF Bad
  <2> QED
    BY <2>1, LeastBadSet
<1>3. s \in SUBSET S /\ s \in SUBSET T /\ s \in SUBSET R /\ g[s] # h[s]
  OBVIOUS
<1>4. s # {}
  BY <1>3, SumStep
<1>5. One(s) \in s /\ s \ {One(s)} \in SUBSET R
  BY <1>3, <1>4, SumStep
<1>6. g[s \ {One(s)}] = h[s \ {One(s)}]
  BY <1>2, <1>5
<1> HIDE DEF Bad
<1> QED
  BY <1>3, <1>4, <1>6, SumStep

\* A sum over a set is one over each of its subsets.
LEMMA SumRestricts ==
  ASSUME NEW S, NEW f, NEW g, IsSum(g, f, S), NEW T \in SUBSET S
  PROVE  IsSum([s \in SUBSET T |-> g[s]], f, T)
<1> DEFINE h == [s \in SUBSET T |-> g[s]]
<1>1. ASSUME NEW s \in SUBSET T
      PROVE  h[s] = IF s = {} THEN 0 ELSE f[One(s)] + h[s \ {One(s)}]
  <2>1. s \in SUBSET S /\ s \ {One(s)} \in SUBSET T
    OBVIOUS
  <2>2. h[s] = g[s] /\ h[s \ {One(s)}] = g[s \ {One(s)}]
    BY <2>1
  <2> HIDE DEF h
  <2> QED
    BY <2>1, <2>2, SumStep
<1>2. h = [s \in SUBSET T |-> h[s]]
  OBVIOUS
<1> HIDE DEF h
<1>3. h = [s \in SUBSET T |-> IF s = {} THEN 0 ELSE f[One(s)] + h[s \ {One(s)}]]
  BY <1>1, <1>2
<1>4. IsSum(h, f, T)
  BY <1>3 DEF IsSum
<1> QED
  BY <1>4 DEF h

\* The values of a finite set have a sum.
LEMMA SumExists ==
  ASSUME NEW S, IsFiniteSet(S), NEW f
  PROVE  \E g : IsSum(g, f, S)
<1> DEFINE Bad == {T \in SUBSET S : ~ \E g : IsSum(g, f, T)}
<1>1. SUFFICES ASSUME S \in Bad PROVE FALSE
  OBVIOUS
<1>2. PICK T \in Bad : IsFiniteSet(T) /\ \A e \in T : T \ {e} \notin Bad
  <2> HIDE DEF Bad
  <2> QED
    BY <1>1, LeastBadSet
<1>3. T \in SUBSET S /\ ~ \E g : IsSum(g, f, T)
  OBVIOUS
<1>4. ASSUME NEW U \in SUBSET T, U # T PROVE \E g : IsSum(g, f, U)
  <2>1. PICK e \in T : e \notin U
    BY <1>4
  <2>2. T \ {e} \in SUBSET S /\ U \in SUBSET (T \ {e})
    BY <1>3, <2>1
  <2>3. PICK g : IsSum(g, f, T \ {e})
    BY <1>2, <2>2
  <2> HIDE DEF Bad
  <2> QED
    BY <2>2, <2>3, SumRestricts
<1> HIDE DEF Bad
<1> DEFINE part(U) == CHOOSE g : IsSum(g, f, U)
           g == [U \in SUBSET T |->
                   IF U = T THEN IF T = {} THEN 0
                                 ELSE f[One(T)] + part(T \ {One(T)})[T \ {One(T)}]
                   ELSE part(U)[U]]
<1>5. ASSUME NEW U \in SUBSET T, U # T PROVE IsSum(part(U), f, U)
  BY <1>4, <1>5
<1>6. ASSUME NEW s \in SUBSET T
      PROVE  g[s] = IF s = {} THEN 0 ELSE f[One(s)] + g[s \ {One(s)}]
  <2> DEFINE r == s \ {One(s)}
  <2>1. s # {} => One(s) \in s
    BY DEF One
  <2>2. r \in SUBSET T /\ r \subseteq s /\ (s # {} => r # T /\ r # s)
    BY <2>1
  <2>3. s # {} => g[r] = part(r)[r]
    BY <2>2
  <2>4. CASE s = T
    <3>1. g[s] = IF s = {} THEN 0 ELSE f[One(s)] + part(r)[r]
      BY <2>4
    <3> HIDE DEF part, g, r
    <3>2. g[s] = IF s = {} THEN 0 ELSE f[One(s)] + g[r]
      BY <2>3, <3>1
    <3> QED
      BY <3>2 DEF r
  <2>5. CASE s # T
    <3>1. g[s] = part(s)[s]
      BY <2>5
    <3>2. IsSum(part(s), f, s)
      BY <1>5, <2>5
    <3>3. s # {} => IsSum(part(r), f, r)
      <4> HIDE DEF part, r
      <4> QED
        BY <1>5, <2>2
    <3>4. IsFiniteSet(r)
      BY <1>2, <2>2, FS_Subset
    <3> HIDE DEF part, g
    <3>5. s = {} => part(s)[s] = 0
      BY <3>2, SumStep
    <3>6. s # {} => part(s)[s] = f[One(s)] + part(s)[r]
      BY <3>2, SumStep
    <3> HIDE DEF r
    <3>7. s # {} => part(s)[r] = part(r)[r]
      BY <2>2, <3>2, <3>3, <3>4, SumsAgree
    <3>8. g[s] = IF s = {} THEN 0 ELSE f[One(s)] + g[r]
      BY <2>3, <3>1, <3>5, <3>6, <3>7
    <3> QED
      BY <3>8 DEF r
  <2> QED
    BY <2>4, <2>5
<1>7. g = [s \in SUBSET T |-> g[s]]
  OBVIOUS
<1> HIDE DEF g
<1>8. g = [s \in SUBSET T |-> IF s = {} THEN 0 ELSE f[One(s)] + g[s \ {One(s)}]]
  BY <1>6, <1>7
<1>9. IsSum(g, f, T)
  BY <1>8 DEF IsSum
<1> QED
  BY <1>3, <1>9

\* The sum of naturals is a natural.
LEMMA SumTyped ==
  ASSUME NEW S, IsFiniteSet(S), NEW f, \A i \in S : f[i] \in Nat, NEW g, IsSum(g, f, S)
  PROVE  g[S] \in Nat
<1> DEFINE Bad == {s \in SUBSET S : g[s] \notin Nat}
<1>1. SUFFICES ASSUME g[S] \notin Nat PROVE FALSE
  OBVIOUS
<1>2. PICK s \in Bad : IsFiniteSet(s) /\ \A e \in s : s \ {e} \notin Bad
  <2>1. S \in Bad
    BY <1>1
  <2> HIDE DEF Bad
  <2> QED
    BY <2>1, LeastBadSet
<1>3. s \in SUBSET S /\ g[s] \notin Nat
  OBVIOUS
<1>4. s # {}
  <2>1. s = {} => g[s] = 0
    BY <1>3, SumStep
  <2> HIDE DEF Bad
  <2> QED
    BY <1>3, <2>1
<1>5. One(s) \in s /\ s \ {One(s)} \in SUBSET S
  BY <1>3, <1>4, SumStep
<1>6. g[s \ {One(s)}] \in Nat /\ f[One(s)] \in Nat
  BY <1>2, <1>3, <1>5
<1>7. g[s] = f[One(s)] + g[s \ {One(s)}]
  BY <1>3, <1>4, SumStep
<1> HIDE DEF Bad
<1> QED
  BY <1>3, <1>6, <1>7


\* The sum of integers is an integer.
LEMMA SumIsInt ==
  ASSUME NEW S, NEW f, NEW g, IsSum(g, f, S), \A x \in S : f[x] \in Int,
         NEW R \in SUBSET S, IsFiniteSet(R)
  PROVE  g[R] \in Int
<1> DEFINE Bad == {s \in SUBSET R : g[s] \notin Int}
<1>1. SUFFICES ASSUME R \in Bad PROVE FALSE
  OBVIOUS
<1>2. PICK s \in Bad : IsFiniteSet(s) /\ \A e \in s : s \ {e} \notin Bad
  <2> HIDE DEF Bad
  <2> QED
    BY <1>1, LeastBadSet
<1>3. s \in SUBSET R /\ s \in SUBSET S /\ g[s] \notin Int
  OBVIOUS
<1>4. s # {}
  <2>1. s = {} => g[s] = 0
    BY <1>3, SumStep
  <2> HIDE DEF Bad
  <2> QED
    BY <1>3, <2>1
<1>5. One(s) \in s /\ s \ {One(s)} \in SUBSET R /\ g[s] = f[One(s)] + g[s \ {One(s)}]
  BY <1>3, <1>4, SumStep
<1>6. g[s \ {One(s)}] \in Int /\ f[One(s)] \in Int
  BY <1>2, <1>3, <1>5
<1> HIDE DEF Bad
<1> QED
  BY <1>3, <1>5, <1>6

\* Any element of a finite set may be the one that its sum takes first.
LEMMA SumTakesAny ==
  ASSUME NEW S, NEW f, NEW g, IsSum(g, f, S), \A x \in S : f[x] \in Int,
         NEW R \in SUBSET S, IsFiniteSet(R), NEW e \in R
  PROVE  g[R] = f[e] + g[R \ {e}]
<1> DEFINE Bad == {s \in SUBSET R : \E a \in s : g[s] # f[a] + g[s \ {a}]}
<1>1. SUFFICES ASSUME R \in Bad PROVE FALSE
  OBVIOUS
<1>2. PICK s \in Bad : IsFiniteSet(s) /\ \A a \in s : s \ {a} \notin Bad
  <2> HIDE DEF Bad
  <2> QED
    BY <1>1, LeastBadSet
<1>3. PICK a \in s : g[s] # f[a] + g[s \ {a}]
  OBVIOUS
<1>4. s \in SUBSET R /\ s \in SUBSET S
  OBVIOUS
<1>5. ASSUME NEW b \in s, NEW c \in s \ {b} PROVE g[s \ {b}] = f[c] + g[(s \ {b}) \ {c}]
  <2>1. s \ {b} \in SUBSET R
    BY <1>4
  <2> QED
    BY <1>2, <2>1
<1> HIDE DEF Bad
<1> DEFINE x == One(s)
<1>6. x \in s /\ g[s] = f[x] + g[s \ {x}]
  BY <1>3, <1>4, SumStep
<1> HIDE DEF x
<1>7. x # a
  BY <1>3, <1>6
<1>8. g[s \ {x}] = f[a] + g[(s \ {x}) \ {a}] /\ g[s \ {a}] = f[x] + g[(s \ {a}) \ {x}]
  BY <1>3, <1>5, <1>6, <1>7
<1>9. (s \ {x}) \ {a} = (s \ {a}) \ {x} /\ (s \ {x}) \ {a} \in SUBSET S /\ IsFiniteSet((s \ {x}) \ {a})
  <2>1. IsFiniteSet((s \ {x}) \ {a})
    BY <1>2, FS_Subset
  <2> QED
    BY <1>4, <2>1
<1>10. g[(s \ {x}) \ {a}] \in Int /\ f[a] \in Int /\ f[x] \in Int
  <2>1. g[(s \ {x}) \ {a}] \in Int
    BY <1>9, SumIsInt
  <2> QED
    BY <1>3, <1>4, <1>6, <2>1
<1>11. g[s \ {x}] = f[a] + g[(s \ {x}) \ {a}] /\ g[s \ {a}] = f[x] + g[(s \ {x}) \ {a}]
  BY <1>8, <1>9
<1>12. g[s] = f[a] + g[s \ {a}]
  BY <1>6, <1>10, <1>11
<1> QED
  BY <1>3, <1>12

\* What adds nothing may be left out.
LEMMA SumLeavesOut ==
  ASSUME NEW S, IsFiniteSet(S), NEW T \in SUBSET S,
         NEW f, NEW g, IsSum(g, f, S), \A x \in S : f[x] \in Int,
         NEW k, NEW h, IsSum(h, k, T),
         \A x \in T : f[x] = k[x], \A x \in S \ T : f[x] = 0
  PROVE  g[S] = h[T]
<1> DEFINE Bad == {s \in SUBSET S : g[s] # h[s \cap T]}
<1>1. SUFFICES ASSUME S \in Bad PROVE FALSE
  <2>1. S \cap T = T
    OBVIOUS
  <2> QED
    BY <2>1
<1>2. PICK s \in Bad : IsFiniteSet(s) /\ \A e \in s : s \ {e} \notin Bad
  <2> HIDE DEF Bad
  <2> QED
    BY <1>1, LeastBadSet
<1>3. s \in SUBSET S /\ g[s] # h[s \cap T]
  OBVIOUS
<1>4. s # {}
  <2>1. g[{}] = 0 /\ h[{}] = 0 /\ {} \cap T = {}
    <3>1. {} \in SUBSET S /\ {} \in SUBSET T /\ {} \cap T = {}
      OBVIOUS
    <3>2. g[{}] = IF {} = {} THEN 0 ELSE f[One({})] + g[{} \ {One({})}]
      BY ONLY <3>1, IsSum(g, f, S) DEF IsSum
    <3>3. h[{}] = IF {} = {} THEN 0 ELSE k[One({})] + h[{} \ {One({})}]
      BY ONLY <3>1, IsSum(h, k, T) DEF IsSum
    <3> QED
      BY <3>1, <3>2, <3>3
  <2> HIDE DEF Bad
  <2>2. s = {} => g[s] = h[s \cap T]
    BY <2>1
  <2> QED
    BY <1>3, <2>2
<1> DEFINE x == One(s)
           r == s \ {x}
           U == s \cap T
<1>5. x \in s /\ r \in SUBSET S /\ g[s] = f[x] + g[r]
  BY <1>3, <1>4, SumStep
<1>6. g[r] = h[r \cap T]
  BY <1>2, <1>5
<1>7. U \in SUBSET T /\ IsFiniteSet(U) /\ IsFiniteSet(r) /\ \A a \in T : k[a] \in Int
  <2>1. IsFiniteSet(U) /\ IsFiniteSet(r)
    BY <1>2, FS_Subset
  <2> HIDE DEF Bad, r
  <2>2. \A a \in T : k[a] \in Int
    OBVIOUS
  <2> QED
    BY <2>1, <2>2
<1>8. g[r] \in Int /\ g[s] # h[U] /\ x \in S
  <2>1. g[s] # h[U] /\ x \in S
    BY <1>3, <1>5
  <2> HIDE DEF Bad, r, U
  <2> QED
    BY <1>5, <1>7, <2>1, SumIsInt
<1> HIDE DEF Bad, x
<1>9. CASE x \in T
  <2>1. r \cap T = U \ {x} /\ x \in U
    BY <1>5, <1>9
  <2> HIDE DEF r, U
  <2>2. h[U] = k[x] + h[U \ {x}]
    BY ONLY IsSum(h, k, T), <1>7, <2>1, SumTakesAny
  <2>3. g[r] = h[U \ {x}] /\ f[x] = k[x]
    BY <1>6, <1>9, <2>1
  <2> QED
    BY <1>5, <1>8, <2>2, <2>3
<1>10. CASE x \notin T
  <2>1. r \cap T = U /\ f[x] = 0
    BY <1>8, <1>10
  <2> HIDE DEF r, U
  <2>2. g[r] = h[U]
    BY <1>6, <2>1
  <2> QED
    BY <1>5, <1>8, <2>1, <2>2
<1> QED
  BY <1>9, <1>10
=============================================================================
