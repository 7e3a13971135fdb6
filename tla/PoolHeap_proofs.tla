--------------------------- MODULE PoolHeap_proofs --------------------------
(***************************************************************************)
(* The heap keeps its order and its places, for every capacity and every   *)
(* number of records, and behaves as the set PoolSet.                      *)
(***************************************************************************)
EXTENDS PoolHeap, Ranking_proofs, SequenceTheorems, WellFoundedInduction, NaturalsInduction

\* What the runs check of the heap, inductive together.
HInv == TypeOK /\ PositionsTrue /\ OrderedButFor

Entries == Proxies \X Ids

-----------------------------------------------------------------------------
(***************************************************************************)
(* The tree in the array.                                                  *)
(***************************************************************************)

\* A place is one of the two children of its parent.
LEMMA ParentBounds ==
  ASSUME NEW p \in Nat \ {0}
  PROVE  /\ Parent(p) \in Nat
         /\ p = 2 * Parent(p) \/ p = 2 * Parent(p) + 1
         /\ p > 1 => Parent(p) \in 1..p-1
BY DEF Parent

\* Conversely, the children of a place have it as their parent.
LEMMA ChildParent ==
  ASSUME NEW p \in Nat \ {0}, NEW c \in Nat \ {0}
  PROVE  Parent(c) = p <=> c \in {2*p, 2*p + 1}
BY DEF Parent

\* The facts about a heap in a state of the invariant that the steps below use.
LEMMA HeapFacts ==
  ASSUME HInv
  PROVE  /\ values \in Seq(Proxies \X (0..n-1)) /\ Len(values) \in Nat
         /\ DOMAIN values = 1..Len(values)
         /\ n \in Nat /\ 0..n-1 \subseteq Ids
         /\ \A p \in DOMAIN values : values[p] \in Proxies \X (0..n-1) /\ values[p] \in Pairs
         /\ \A p, q \in DOMAIN values : values[p][2] = values[q][2] => p = q
<1>1. /\ values \in Seq(Proxies \X (0..n-1)) /\ n \in Sizes
      /\ \A p \in DOMAIN values : position[values[p][2]] = p
  BY DEF HInv, TypeOK, PositionsTrue
<1>2. n \in Nat /\ 0..n-1 \subseteq Ids
  BY <1>1, HeapAssumption DEF Ids
<1>3. Len(values) \in Nat /\ DOMAIN values = 1..Len(values)
  BY <1>1, LenProperties
<1>4. ASSUME NEW p \in DOMAIN values
      PROVE  values[p] \in Proxies \X (0..n-1) /\ values[p] \in Pairs
  <2>1. values[p] \in Proxies \X (0..n-1)
    BY <1>1, <1>3, ElementOfSeq
  <2>2. PICK v \in Proxies, id \in 0..n-1 : values[p] = <<v, id>>
    BY <2>1
  <2>3. v \in Int /\ id \in Int
    BY <1>2, HeapAssumption
  <2> QED
    BY <2>1, <2>2, <2>3 DEF Pairs
<1> QED
  BY <1>1, <1>2, <1>3, <1>4

\* A swap exchanges two entries and leaves the others.
LEMMA SwapFacts ==
  ASSUME NEW S, values \in Seq(S), NEW a \in 1..Len(values), NEW b \in 1..Len(values), a # b
  PROVE  /\ Swapped(a, b) \in Seq(S) /\ Len(Swapped(a, b)) = Len(values)
         /\ Swapped(a, b)[a] = values[b] /\ Swapped(a, b)[b] = values[a]
         /\ \A j \in 1..Len(values) : j # a /\ j # b => Swapped(a, b)[j] = values[j]
<1> DEFINE once == [values EXCEPT ![a] = values[b]]
<1>1. values[a] \in S /\ values[b] \in S
  BY ElementOfSeq
<1>2. /\ once \in Seq(S) /\ Len(once) = Len(values)
      /\ \A j \in 1..Len(values) : once[j] = IF j = a THEN values[b] ELSE values[j]
  BY <1>1, ExceptSeq
<1>3. /\ [once EXCEPT ![b] = values[a]] \in Seq(S)
      /\ Len([once EXCEPT ![b] = values[a]]) = Len(once)
      /\ \A j \in 1..Len(once) : [once EXCEPT ![b] = values[a]][j] = IF j = b THEN values[a] ELSE once[j]
  BY <1>1, <1>2, ExceptSeq
<1>4. Swapped(a, b) = [once EXCEPT ![b] = values[a]]
  BY DEF Swapped
<1> QED
  BY <1>2, <1>3, <1>4

-----------------------------------------------------------------------------
(***************************************************************************)
(* Order of pairs, seen from below.                                        *)
(***************************************************************************)

\* Not being better is transitive, the order being total.
LEMMA NotBetterIsTransitive ==
  ASSUME NEW p \in Pairs, NEW q \in Pairs, NEW r \in Pairs, ~Better(p, q), ~Better(q, r)
  PROVE  ~Better(p, r)
BY DEF Pairs, Better

\* What is better than something is better than all that is not better than that.
LEMMA BetterThanNotBetter ==
  ASSUME NEW p \in Pairs, NEW q \in Pairs, NEW r \in Pairs, Better(p, q), ~Better(p, r)
  PROVE  ~Better(q, r)
BY DEF Pairs, Better

\* On an idle heap no place is out of order.
LEMMA IdleOrder ==
  ASSUME HInv, sift = Idle, NEW q \in DOMAIN values, q > 1
  PROVE  ~Better(values[Parent(q)], values[q])
<1>1. sift.dir = "idle"
  BY DEF Idle
<1> QED
  BY <1>1 DEF HInv, OrderedButFor

-----------------------------------------------------------------------------
(***************************************************************************)
(* The sift loops keep the invariant.                                      *)
(***************************************************************************)

\* The worse child of a place that has children is one of them, and no other is worse.
LEMMA WorseChildFacts ==
  ASSUME HInv, NEW p \in DOMAIN values, Children(p) # {}
  PROVE  /\ WorseChild(p) \in DOMAIN values /\ Parent(WorseChild(p)) = p
         /\ WorseChild(p) > p
         /\ \A d \in DOMAIN values : Parent(d) = p /\ d # WorseChild(p) => Better(values[d], values[WorseChild(p)])
<1>1. /\ DOMAIN values = 1..Len(values) /\ Len(values) \in Nat /\ p \in Nat \ {0}
      /\ \A q \in DOMAIN values : values[q] \in Pairs
      /\ \A q, r \in DOMAIN values : values[q][2] = values[r][2] => q = r
  BY HeapFacts
<1>2. Children(p) \subseteq DOMAIN values /\ Children(p) \subseteq {2*p, 2*p + 1}
  BY DEF Children
<1>3. \E c \in Children(p) : \A d \in Children(p) : d = c \/ Better(values[d], values[c])
  <2>1. CASE 2*p \in Children(p) /\ 2*p + 1 \in Children(p)
    <3>1. values[2*p] # values[2*p + 1]
      BY <1>1, <1>2, <2>1
    <3>2. Better(values[2*p], values[2*p + 1]) \/ Better(values[2*p + 1], values[2*p])
      BY <1>1, <1>2, <2>1, <3>1, BetterIsTotal
    <3> QED
      BY <1>2, <2>1, <3>2
  <2>2. CASE ~(2*p \in Children(p) /\ 2*p + 1 \in Children(p))
    BY <1>2, <2>2
  <2> QED
    BY <2>1, <2>2
<1>4. /\ WorseChild(p) \in Children(p)
      /\ \A d \in Children(p) : d = WorseChild(p) \/ Better(values[d], values[WorseChild(p)])
  BY <1>3 DEF WorseChild
<1>5. \A d \in DOMAIN values : Parent(d) = p <=> d \in Children(p)
  BY <1>1, ChildParent DEF Children
<1> QED
  BY <1>1, <1>2, <1>4, <1>5

\* A swap leaves the arrays well formed, the places true and the pool what it was.
LEMMA SwapKeeps ==
  ASSUME HInv, NEW a \in DOMAIN values, NEW b \in DOMAIN values, a # b,
         SwapNodes(a, b), UNCHANGED n
  PROVE  /\ values' \in Seq(Proxies \X (0..n'-1)) /\ Len(values') = Len(values)
         /\ DOMAIN values' = DOMAIN values
         /\ values'[a] = values[b] /\ values'[b] = values[a]
         /\ \A j \in DOMAIN values : j # a /\ j # b => values'[j] = values[j]
         /\ position' \in [Ids -> Nat \ {0}]
         /\ PositionsTrue'
         /\ Held' = Held
<1>1. /\ values \in Seq(Proxies \X (0..n-1)) /\ DOMAIN values = 1..Len(values)
      /\ Len(values) \in Nat /\ 0..n-1 \subseteq Ids
      /\ \A p \in DOMAIN values : values[p] \in Proxies \X (0..n-1)
      /\ \A p, q \in DOMAIN values : values[p][2] = values[q][2] => p = q
  BY HeapFacts
<1>2. values' = Swapped(a, b)
      /\ position' = [position EXCEPT ![values[b][2]] = a, ![values[a][2]] = b]
  BY DEF SwapNodes
<1>3. /\ values' \in Seq(Proxies \X (0..n-1)) /\ Len(values') = Len(values)
      /\ values'[a] = values[b] /\ values'[b] = values[a]
      /\ \A j \in 1..Len(values) : j # a /\ j # b => values'[j] = values[j]
  <2> DEFINE S == Proxies \X (0..n-1)
  <2>1. values \in Seq(S) /\ a \in 1..Len(values) /\ b \in 1..Len(values)
    BY <1>1
  <2> HIDE DEF S
  <2>2. /\ Swapped(a, b) \in Seq(S) /\ Len(Swapped(a, b)) = Len(values)
        /\ Swapped(a, b)[a] = values[b] /\ Swapped(a, b)[b] = values[a]
        /\ \A j \in 1..Len(values) : j # a /\ j # b => Swapped(a, b)[j] = values[j]
    BY <2>1, SwapFacts
  <2> QED
    BY <1>2, <2>2 DEF S
<1>4. DOMAIN values' = DOMAIN values
  BY <1>1, <1>3, LenProperties
<1>5. position \in [Ids -> Nat \ {0}] /\ \A p \in DOMAIN values : position[values[p][2]] = p
  BY DEF HInv, TypeOK, PositionsTrue
<1>6. position' \in [Ids -> Nat \ {0}]
  BY <1>1, <1>2, <1>5
<1>7. PositionsTrue'
  <2>1. \A p \in DOMAIN values : values[p][2] \in Ids
    BY <1>1
  <2>2. SUFFICES ASSUME NEW p \in DOMAIN values PROVE position'[values'[p][2]] = p
    BY <1>4 DEF PositionsTrue
  <2>3. CASE p = a
    <3>1. values'[p] = values[b] /\ values[b][2] \in Ids /\ values[b][2] # values[a][2]
      BY <1>1, <1>3, <2>1, <2>3
    <3> QED
      BY <1>2, <1>5, <2>3, <3>1
  <2>4. CASE p = b
    BY <1>1, <1>2, <1>3, <1>5, <2>1, <2>4
  <2>5. CASE p # a /\ p # b
    <3>1. values'[p] = values[p] /\ values[p][2] # values[a][2] /\ values[p][2] # values[b][2]
      BY <1>1, <1>3, <2>5
    <3> QED
      BY <1>2, <1>5, <2>1, <3>1
  <2> QED
    BY <2>3, <2>4, <2>5
<1>8. Held' = Held
  <2>1. \A j \in DOMAIN values : \E k \in DOMAIN values : values'[j] = values[k]
    BY <1>1, <1>3
  <2>2. \A j \in DOMAIN values : \E k \in DOMAIN values : values[j] = values'[k]
    BY <1>1, <1>3
  <2> QED
    BY <1>4, <2>1, <2>2 DEF Held, Range
<1> QED
  BY <1>1, <1>3, <1>4, <1>6, <1>7, <1>8

\* One iteration of `up`.
LEMMA UpKeeps == ASSUME HInv, SiftUp PROVE HInv' /\ Held' = Held
<1> DEFINE p == sift.at
           g == Parent(p)
<1>1. /\ DOMAIN values = 1..Len(values) /\ Len(values) \in Nat
      /\ \A q \in DOMAIN values : values[q] \in Pairs
  BY HeapFacts
<1>2. sift.dir = "up" /\ sift # Idle /\ n' = n
  BY DEF SiftUp, Idle
<1>3. p \in DOMAIN values /\ p \in Nat \ {0}
  BY <1>1, <1>2 DEF HInv, TypeOK
<1>4. \A q \in DOMAIN values :
        /\ q > 1 /\ q # p => ~Better(values[Parent(q)], values[q])
        /\ Parent(q) = p /\ p > 1 => ~Better(values[g], values[q])
  BY <1>2 DEF HInv, OrderedButFor
<1>5. CASE p > 1 /\ Better(values[g], values[p])
  <2>1. g \in 1..p-1 /\ g \in DOMAIN values /\ g # p
    BY <1>1, <1>3, <1>5, ParentBounds
  <2>2. SwapNodes(g, p) /\ sift' = Up(g)
    BY <1>5 DEF SiftUp
  <2>3. /\ values' \in Seq(Proxies \X (0..n'-1)) /\ Len(values') = Len(values)
        /\ DOMAIN values' = DOMAIN values
        /\ values'[g] = values[p] /\ values'[p] = values[g]
        /\ \A j \in DOMAIN values : j # g /\ j # p => values'[j] = values[j]
        /\ position' \in [Ids -> Nat \ {0}] /\ PositionsTrue' /\ Held' = Held
    <3> HIDE DEF p, g
    <3> QED
      BY <1>2, <1>3, <2>1, <2>2, SwapKeeps
  <2>4. TypeOK'
    BY <1>2, <2>1, <2>2, <2>3 DEF HInv, TypeOK, Up
  <2>5. ASSUME NEW q \in DOMAIN values, q > 1, q # g
        PROVE  ~Better(values'[Parent(q)], values'[q])
    <3>1. Parent(q) \in DOMAIN values /\ Parent(q) # q
      BY <1>1, <2>5, ParentBounds
    <3>2. CASE q = p
      BY <1>1, <1>3, <1>5, <2>1, <2>3, <3>2, BetterIsStrict
    <3>3. CASE q # p /\ Parent(q) = g
      <4>1. ~Better(values[g], values[q])
        BY <1>4, <2>5, <3>3
      <4>2. ~Better(values[p], values[q])
        BY <1>1, <1>3, <1>5, <2>1, <4>1, BetterThanNotBetter
      <4> QED
        BY <2>3, <2>5, <3>3, <4>2
    <3>4. CASE q # p /\ Parent(q) = p
      BY <1>4, <1>5, <2>3, <2>5, <3>4
    <3>5. CASE q # p /\ Parent(q) # g /\ Parent(q) # p
      BY <1>4, <2>3, <2>5, <3>1, <3>5
    <3> QED
      BY <3>2, <3>3, <3>4, <3>5
  <2>6. ASSUME NEW q \in DOMAIN values, Parent(q) = g, g > 1
        PROVE  ~Better(values'[Parent(g)], values'[q])
    <3>1. g \in Nat \ {0} /\ q \in Nat \ {0} /\ Len(values) \in Nat
      BY <1>1, <2>1
    <3>2. Parent(g) \in 1..g-1 /\ g < q
      <4> HIDE DEF g
      <4>1. Parent(g) \in 1..g-1
        BY <2>6, <3>1, ParentBounds
      <4>2. q = 2 * g \/ q = 2 * g + 1
        BY <2>6, <3>1, ParentBounds
      <4> QED
        BY <3>1, <4>1, <4>2
    <3> DEFINE h == Parent(g)
    <3>3. h \in DOMAIN values /\ h # g /\ h # p /\ q > 1 /\ q # g
      <4>1. h \in Nat /\ 1 <= h /\ h < g /\ g < p /\ g < q /\ 1 <= g /\ g <= Len(values)
        BY <1>1, <1>3, <2>1, <3>1, <3>2
      <4> HIDE DEF h
      <4>2. h \in 1..Len(values) /\ h # g /\ h # p /\ q > 1 /\ q # g
        BY <1>3, <3>1, <4>1
      <4> QED
        BY <1>1, <4>2
    <3>4. values'[h] = values[h]
      BY <2>3, <3>3
    <3>5. ~Better(values[h], values[g])
      BY <1>4, <2>1, <2>6
    <3>6. CASE q = p
      BY <2>3, <3>4, <3>5, <3>6
    <3>7. CASE q # p
      <4>1. ~Better(values[g], values[q])
        BY <1>4, <2>6, <3>3, <3>7
      <4>2. ~Better(values[h], values[q])
        BY <1>1, <2>1, <3>3, <3>5, <4>1, NotBetterIsTransitive
      <4>3. values'[q] = values[q]
        BY <2>3, <3>3, <3>7
      <4> QED
        BY <3>4, <4>2, <4>3
    <3> QED
      BY <3>6, <3>7
  <2>7. sift'.dir = "up" /\ sift'.at = g
    BY <2>2 DEF Up
  <2>8. OrderedButFor'
    BY <2>3, <2>5, <2>6, <2>7 DEF OrderedButFor, Parent
  <2> QED
    BY <2>3, <2>4, <2>8 DEF HInv
<1>6. CASE ~(p > 1 /\ Better(values[g], values[p]))
  <2>1. sift' = Idle /\ values' = values /\ position' = position
    BY <1>6 DEF SiftUp
  <2>2. TypeOK' /\ PositionsTrue' /\ Held' = Held
    BY <1>2, <2>1 DEF HInv, TypeOK, PositionsTrue, Held
  <2>3. \A q \in DOMAIN values : q > 1 => ~Better(values[Parent(q)], values[q])
    BY <1>4, <1>6
  <2>4. OrderedButFor'
    BY <2>1, <2>3 DEF OrderedButFor, Idle, Parent
  <2> QED
    BY <2>2, <2>4 DEF HInv
<1> QED
  BY <1>5, <1>6

\* One iteration of `down`.
LEMMA DownKeeps == ASSUME HInv, SiftDown PROVE HInv' /\ Held' = Held
<1> DEFINE p == sift.at
           c == WorseChild(p)
<1>1. /\ DOMAIN values = 1..Len(values) /\ Len(values) \in Nat
      /\ \A q \in DOMAIN values : values[q] \in Pairs /\ q \in Nat \ {0}
  BY HeapFacts
<1>2. sift.dir = "down" /\ sift # Idle /\ n' = n
  BY DEF SiftDown, Idle
<1>3. p \in DOMAIN values /\ p \in Nat \ {0}
  BY <1>1, <1>2 DEF HInv, TypeOK
<1>4. \A q \in DOMAIN values :
        /\ q > 1 /\ Parent(q) # p => ~Better(values[Parent(q)], values[q])
        /\ Parent(q) = p /\ p > 1 => ~Better(values[Parent(p)], values[q])
  BY <1>2 DEF HInv, OrderedButFor
<1>5. CASE Children(p) # {} /\ Better(values[p], values[c])
  <2>1. /\ c \in DOMAIN values /\ Parent(c) = p /\ c > p /\ c # p /\ c > 1 /\ c \in Nat \ {0}
        /\ \A d \in DOMAIN values : Parent(d) = p /\ d # c => Better(values[d], values[c])
    BY <1>1, <1>3, <1>5, WorseChildFacts
  <2> HIDE DEF c
  <2>2. SwapNodes(p, c) /\ sift' = Down(c)
    BY <1>5 DEF SiftDown, c
  <2>3. /\ values' \in Seq(Proxies \X (0..n'-1)) /\ Len(values') = Len(values)
        /\ DOMAIN values' = DOMAIN values
        /\ values'[p] = values[c] /\ values'[c] = values[p]
        /\ \A j \in DOMAIN values : j # p /\ j # c => values'[j] = values[j]
        /\ position' \in [Ids -> Nat \ {0}] /\ PositionsTrue' /\ Held' = Held
    <3> HIDE DEF p
    <3> QED
      BY <1>2, <1>3, <2>1, <2>2, SwapKeeps
  <2>4. TypeOK'
    BY <1>2, <2>1, <2>2, <2>3 DEF HInv, TypeOK, Down
  <2>5. ASSUME NEW q \in DOMAIN values, q > 1, Parent(q) # c
        PROVE  ~Better(values'[Parent(q)], values'[q])
    <3>1. Parent(q) \in DOMAIN values /\ Parent(q) # q
      <4>1. q \in Nat \ {0} /\ q \in 1..Len(values)
        BY <1>1
      <4>2. Parent(q) \in 1..q-1
        BY <2>5, <4>1, ParentBounds
      <4> QED
        BY <1>1, <4>1, <4>2
    <3>2. CASE q = p
      <4>1. ~Better(values[Parent(p)], values[c])
        BY <1>4, <2>1, <2>5, <3>2
      <4>2. values'[Parent(q)] = values[Parent(p)] /\ values'[q] = values[c]
        BY <2>3, <2>5, <3>1, <3>2
      <4> QED
        BY <4>1, <4>2
    <3>3. CASE q = c
      BY <1>1, <1>3, <1>5, <2>1, <2>3, <3>3, BetterIsStrict DEF c
    <3>4. CASE q # p /\ q # c /\ Parent(q) = p
      <4>1. Better(values[q], values[c])
        BY <2>1, <3>4
      <4>2. ~Better(values[c], values[q])
        BY <1>1, <2>1, <4>1, BetterIsStrict
      <4> QED
        BY <2>3, <3>4, <4>2
    <3>5. CASE q # p /\ q # c /\ Parent(q) # p
      <4>1. ~Better(values[Parent(q)], values[q])
        BY <1>4, <2>5, <3>5
      <4>2. values'[Parent(q)] = values[Parent(q)] /\ values'[q] = values[q]
        BY <2>3, <2>5, <3>1, <3>5
      <4> QED
        BY <4>1, <4>2
    <3> QED
      BY <3>2, <3>3, <3>4, <3>5
  <2>6. ASSUME NEW q \in DOMAIN values, Parent(q) = c
        PROVE  ~Better(values'[Parent(c)], values'[q])
    <3>1. q \in Nat \ {0} /\ c \in Nat \ {0}
      BY <1>1, <2>1
    <3>2. q > c
      BY <2>6, <3>1, ParentBounds
    <3>3. q > 1 /\ q # c /\ q # p /\ Parent(q) # p
      BY <1>3, <2>1, <2>6, <3>1, <3>2
    <3>4. ~Better(values[c], values[q])
      BY <1>4, <2>6, <3>3
    <3> QED
      BY <2>1, <2>3, <3>3, <3>4
  <2>7. sift'.dir = "down" /\ sift'.at = c
    BY <2>2 DEF Down
  <2>8. OrderedButFor'
    BY <2>3, <2>5, <2>6, <2>7 DEF OrderedButFor, Parent
  <2> QED
    BY <2>3, <2>4, <2>8 DEF HInv
<1>6. CASE ~(Children(p) # {} /\ Better(values[p], values[c]))
  <2>1. sift' = Idle /\ values' = values /\ position' = position
    BY <1>6 DEF SiftDown
  <2>2. TypeOK' /\ PositionsTrue' /\ Held' = Held
    BY <1>2, <2>1 DEF HInv, TypeOK, PositionsTrue, Held
  <2>3. ASSUME NEW q \in DOMAIN values, Parent(q) = p
        PROVE  ~Better(values[p], values[q])
    <3>1. q \in Children(p)
      <4>1. q \in Nat \ {0}
        BY <1>1
      <4>2. q \in {2*p, 2*p + 1}
        BY <1>3, <2>3, <4>1, ChildParent
      <4> QED
        BY <4>2 DEF Children
    <3>2. ~Better(values[p], values[c])
      BY <1>6, <3>1
    <3>3. /\ c \in DOMAIN values
          /\ q # c => Better(values[q], values[c])
      BY <1>3, <2>3, <3>1, WorseChildFacts
    <3> HIDE DEF c
    <3>4. CASE q = c
      BY <3>2, <3>4
    <3>5. CASE q # c
      <4>1. values[p] \in Pairs /\ values[q] \in Pairs /\ values[c] \in Pairs
        BY <1>1, <1>3, <3>3
      <4>2. Better(values[q], values[c])
        BY <3>3, <3>5
      <4> QED
        BY <3>2, <4>1, <4>2 DEF Better, Pairs
    <3> QED
      BY <3>4, <3>5
  <2>4. \A q \in DOMAIN values : q > 1 => ~Better(values[Parent(q)], values[q])
    BY <1>4, <2>3
  <2>5. OrderedButFor'
    BY <2>1, <2>4 DEF OrderedButFor, Idle, Parent
  <2> QED
    BY <2>2, <2>5 DEF HInv
<1> QED
  BY <1>5, <1>6

-----------------------------------------------------------------------------
(***************************************************************************)
(* The operations keep the invariant.                                      *)
(***************************************************************************)

\* The next query starts with an empty heap.
LEMMA BeginKeeps ==
  ASSUME HInv, NEW size \in Sizes, Begin(size)
  PROVE  HInv' /\ n' = size /\ Held' = {} /\ asked' = Pool!Nothing
<1>1. n' = size /\ values' = <<>> /\ sift' = Idle /\ asked' = Pool!Nothing
  BY DEF Begin, Cleared
<1>2. position' \in [Ids -> Nat \ {0}]
  BY DEF Begin, HInv, TypeOK
<1>3. DOMAIN values' = {} /\ Len(values') = 0 /\ values' \in Seq(Proxies \X (0..n'-1))
  <2> DEFINE S == Proxies \X (0..n'-1)
  <2>1. <<>> \in Seq(S) /\ Len(<<>>) = 0 /\ DOMAIN <<>> = {}
    BY EmptySeq
  <2> QED
    BY <1>1, <2>1
<1>4. TypeOK'
  BY <1>1, <1>2, <1>3, HeapAssumption DEF TypeOK
<1>5. PositionsTrue' /\ OrderedButFor'
  BY <1>3 DEF PositionsTrue, OrderedButFor
<1>6. Held' = {}
  BY <1>3 DEF Held, Range
<1> QED
  BY <1>1, <1>4, <1>5, <1>6 DEF HInv

\* An insertion appends the entry; only its own place may be out of order.
LEMMA InsertKeeps ==
  ASSUME HInv, NEW e \in Proxies \X (0..n-1), Insert(e)
  PROVE  HInv' /\ Held' = Held \union {e}
<1> DEFINE m == Len(values) + 1
           S == Proxies \X (0..n-1)
<1>1. /\ values \in Seq(S) /\ DOMAIN values = 1..Len(values)
      /\ Len(values) \in Nat /\ 0..n-1 \subseteq Ids
      /\ \A p \in DOMAIN values : values[p] \in S
  BY HeapFacts
<1>2. /\ sift = Idle /\ Len(values) < Capacity /\ n' = n
      /\ \A f \in Held : f[2] # e[2]
      /\ position' = [position EXCEPT ![e[2]] = m]
      /\ values' = Append(values, e) /\ sift' = Up(m)
  BY DEF Insert
<1>3. e \in S
  OBVIOUS
<1> HIDE DEF S
<1>4. /\ values' \in Seq(S) /\ Len(values') = m
      /\ \A i \in 1..Len(values) : values'[i] = values[i]
      /\ values'[m] = e
  BY <1>1, <1>2, <1>3, AppendProperties
<1>5. DOMAIN values' = 1..m /\ m \in Nat \ {0}
  BY <1>1, <1>4, LenProperties
<1>6. \A i \in DOMAIN values : values[i][2] # e[2] /\ values[i][2] \in Ids
  <2>1. \A i \in DOMAIN values : values[i] \in Held
    BY DEF Held, Range
  <2> QED
    BY <1>1, <1>2, <2>1 DEF S
<1>7. /\ position \in [Ids -> Nat \ {0}] /\ e[2] \in Ids /\ n \in Sizes
      /\ \A i \in DOMAIN values : position[values[i][2]] = i
  BY <1>1, <1>3 DEF HInv, TypeOK, PositionsTrue, S
<1>8. TypeOK'
  <2>1. m <= Capacity
    BY <1>1, <1>2, HeapAssumption
  <2>2. position' \in [Ids -> Nat \ {0}]
    BY <1>2, <1>5, <1>7
  <2>3. sift'.dir = "up" /\ sift'.at = m /\ m \in DOMAIN values'
    BY <1>2, <1>5 DEF Up
  <2> QED
    BY <1>2, <1>4, <1>7, <2>1, <2>2, <2>3 DEF TypeOK, S
<1>9. PositionsTrue'
  <2>1. SUFFICES ASSUME NEW q \in 1..m PROVE position'[values'[q][2]] = q
    BY <1>5 DEF PositionsTrue
  <2>2. CASE q = m
    BY <1>2, <1>4, <1>7, <2>2
  <2>3. CASE q # m
    <3>1. q \in 1..Len(values)
      BY <1>1, <2>3
    <3> QED
      BY <1>1, <1>2, <1>4, <1>6, <1>7, <3>1
  <2> QED
    BY <2>2, <2>3
<1>10. OrderedButFor'
  <2>1. sift'.dir = "up" /\ sift'.at = m
    BY <1>2 DEF Up
  <2>2. ASSUME NEW q \in 1..m, q > 1, q # m
        PROVE  ~Better(values'[Parent(q)], values'[q])
    <3>1. q \in 1..Len(values) /\ q \in Nat \ {0}
      BY <1>1, <2>2
    <3>2. Parent(q) \in 1..q-1
      BY <2>2, <3>1, ParentBounds
    <3>3. Parent(q) \in 1..Len(values)
      BY <1>1, <3>1, <3>2
    <3>4. ~Better(values[Parent(q)], values[q])
      BY <1>1, <1>2, <2>2, <3>1, IdleOrder
    <3> QED
      BY <1>4, <3>1, <3>3, <3>4
  <2>3. ASSUME NEW q \in 1..m PROVE Parent(q) # m
    BY <1>1 DEF Parent
  <2> QED
    BY <1>5, <2>1, <2>2, <2>3 DEF OrderedButFor, Parent
<1>11. Held' = Held \union {e}
  <2>1. \A i \in 1..m : i \in 1..Len(values) \/ i = m
    BY <1>1
  <2>4. m \in 1..m /\ \A i \in 1..Len(values) : i \in 1..m
    BY <1>1
  <2>2. Held' = {values'[i] : i \in 1..m}
    BY <1>5 DEF Held, Range
  <2>3. Held = {values[i] : i \in 1..Len(values)}
    BY <1>1 DEF Held, Range
  <2> HIDE DEF m
  <2>5. \A f \in Held' : f \in Held \union {e}
    BY <1>4, <2>1, <2>2, <2>3
  <2>6. \A f \in Held : f \in Held'
    BY <1>4, <2>2, <2>3, <2>4
  <2>7. e \in Held'
    BY <1>4, <2>2, <2>4
  <2> QED
    BY <2>5, <2>6, <2>7
<1> QED
  BY <1>8, <1>9, <1>10, <1>11 DEF HInv

\* The heap without its last entry.
LEMMA FrontFacts ==
  ASSUME NEW S, values \in Seq(S), values # <<>>
  PROVE  LET front == SubSeq(values, 1, Len(values) - 1) IN
         /\ front \in Seq(S) /\ Len(front) = Len(values) - 1
         /\ \A i \in 1..Len(values)-1 : front[i] = values[i]
<1> DEFINE k == Len(values) - 1
<1>1. Len(values) \in Nat \ {0}
  BY LenProperties, EmptySeq
<1>2. k \in Nat /\ k - 1 + 1 = k /\ (~(1 <= k) => k = 0) /\ k <= Len(values)
  <2>1. \A l \in Nat \ {0} : l-1 \in Nat /\ l-1-1+1 = l-1 /\ (~(1 <= l-1) => l-1 = 0) /\ l-1 <= l
    OBVIOUS
  <2> QED
    BY <1>1, <2>1
<1>3. \A i \in 1..k : values[i] \in S /\ 1 + i - 1 = i
  BY <1>1, <1>2, ElementOfSeq
<1> HIDE DEF k
<1>4. /\ SubSeq(values, 1, k) \in Seq(S)
      /\ Len(SubSeq(values, 1, k)) = IF 1 <= k THEN k - 1 + 1 ELSE 0
      /\ \A i \in 1..k-1+1 : SubSeq(values, 1, k)[i] = values[1 + i - 1]
  BY <1>2, <1>3, SubSeqProperties
<1> QED
  BY <1>2, <1>3, <1>4 DEF k

\* A removal from place p takes that entry out, and leaves at most place p out of order.
LEMMA RemoveKeeps ==
  ASSUME HInv, sift = Idle, NEW p \in DOMAIN values, Remove(p)
  PROVE  HInv' /\ n' = n /\ Held' = Held \ {values[p]}
<1> DEFINE S == Proxies \X (0..n-1)
           last == Len(values)
           front == SubSeq(values, 1, last - 1)
<1>1. /\ values \in Seq(S) /\ DOMAIN values = 1..last
      /\ last \in Nat \ {0} /\ 0..n-1 \subseteq Ids /\ p \in 1..last
      /\ \A q \in 1..last : values[q] \in S /\ values[q] \in Pairs
      /\ \A q, r \in 1..last : values[q][2] = values[r][2] => q = r
  <2>1. /\ values \in Seq(S) /\ DOMAIN values = 1..last
        /\ last \in Nat /\ 0..n-1 \subseteq Ids
        /\ \A q \in 1..last : values[q] \in S /\ values[q] \in Pairs
        /\ \A q, r \in 1..last : values[q][2] = values[r][2] => q = r
    BY HeapFacts
  <2>2. p \in 1..last
    BY <2>1
  <2> HIDE DEF S, last
  <2> QED
    BY <2>1, <2>2
<1>2. /\ front \in Seq(S) /\ Len(front) = last - 1
      /\ \A i \in 1..last-1 : front[i] = values[i]
  <2>1. values # <<>>
    BY <1>1, EmptySeq
  <2> HIDE DEF S
  <2> QED
    BY <1>1, <2>1, FrontFacts
<1>3. /\ position \in [Ids -> Nat \ {0}] /\ n \in Sizes /\ last <= Capacity
      /\ \A q \in 1..last : position[values[q][2]] = q /\ values[q][2] \in Ids
  <2>1. \A q \in 1..last : values[q][2] \in Ids
    BY <1>1
  <2> QED
    BY <1>1, <2>1 DEF HInv, TypeOK, PositionsTrue
<1>4. \A q \in 2..last : Parent(q) \in 1..q-1 /\ Parent(q) \in 1..last
                          /\ ~Better(values[Parent(q)], values[q])
  <2>1. SUFFICES ASSUME NEW q \in 2..last
                 PROVE  /\ Parent(q) \in 1..q-1 /\ Parent(q) \in 1..last
                        /\ ~Better(values[Parent(q)], values[q])
    OBVIOUS
  <2>2. q \in Nat \ {0} /\ q > 1 /\ q \in 1..last
    BY <1>1
  <2>3. Parent(q) \in 1..q-1
    BY <2>2, ParentBounds
  <2>4. ~Better(values[Parent(q)], values[q])
    BY <1>1, <2>2, IdleOrder
  <2> HIDE DEF last
  <2> QED
    BY <1>1, <2>2, <2>3, <2>4
<1>5. n' = n
  BY DEF Remove
<1>6. Held = {values[i] : i \in 1..last}
  BY <1>1 DEF Held, Range
<1>7. CASE p = last
  <2>1. values' = front /\ position' = position /\ sift' = Idle
    BY <1>7 DEF Remove
  <2>2. DOMAIN values' = 1..last-1 /\ values' \in Seq(S) /\ Len(values') = last - 1
        /\ \A i \in 1..last-1 : values'[i] = values[i] /\ i \in 1..last
    BY <1>1, <1>2, <2>1, LenProperties
  <2>3. TypeOK'
    <3>1. Len(values') <= Capacity
      <4>1. Len(values') = last - 1 /\ last <= Capacity /\ last \in Nat
        BY <1>1, <1>3, <2>2
      <4> HIDE DEF last
      <4> QED
        BY <4>1, HeapAssumption
    <3> QED
      BY <1>3, <1>5, <2>1, <2>2, <3>1 DEF TypeOK
  <2>4. PositionsTrue'
    BY <1>1, <1>3, <2>1, <2>2 DEF PositionsTrue
  <2>5. ASSUME NEW q \in 1..last-1, q > 1
        PROVE  ~Better(values'[Parent(q)], values'[q])
    <3>1. q \in 2..last /\ Parent(q) \in 1..last-1
      <4> HIDE DEF last
      <4>1. q \in 2..last /\ q \in Nat /\ last \in Nat
        BY <1>1, <2>5
      <4>2. Parent(q) \in 1..q-1
        BY <1>4, <4>1
      <4> QED
        BY <4>1, <4>2, <2>5
    <3> QED
      BY <1>4, <2>2, <3>1
  <2>6. OrderedButFor'
    <3>1. sift'.dir = "idle" /\ sift'.at = 0
      BY <2>1 DEF Idle
    <3>2. SUFFICES ASSUME NEW q \in DOMAIN values'
                   PROVE  /\ ~(q > 1 /\ Better(values'[Parent(q)], values'[q]))
                          /\ ~(Parent(q) = sift'.at /\ sift'.at > 1)
      BY DEF OrderedButFor
    <3> HIDE DEF last
    <3> QED
      BY <2>2, <2>5, <3>1, <3>2
  <2>7. Held' = {values[i] : i \in 1..last-1}
    BY <2>2 DEF Held, Range
  <2>8. Held' = Held \ {values[p]}
    <3> HIDE DEF last
    <3>1. \A i \in 1..last : i \in 1..last-1 <=> i # p
      BY <1>1, <1>7
    <3>2. \A i \in 1..last-1 : i \in 1..last
      BY <1>1
    <3> QED
      BY <1>1, <1>6, <2>7, <3>1, <3>2
  <2> QED
    BY <1>5, <2>3, <2>4, <2>6, <2>8 DEF HInv
<1>8. CASE p # last
  <2>1. /\ values' = Filled(p) /\ position' = [position EXCEPT ![values[last][2]] = p]
        /\ sift' = Settling(Filled(p), p)
    BY <1>8 DEF Remove
  <2>2. p \in 1..last-1 /\ last \in 1..last
    BY <1>1, <1>8
  <2>3. /\ values' \in Seq(S) /\ Len(values') = last - 1
        /\ \A i \in 1..last-1 : values'[i] = IF i = p THEN values[last] ELSE values[i]
    <3>1. values[last] \in S /\ p \in 1..Len(front)
      BY <1>1, <1>2, <2>2
    <3>2. Filled(p) = [front EXCEPT ![p] = values[last]]
      BY DEF Filled
    <3> HIDE DEF front, S
    <3>3. /\ [front EXCEPT ![p] = values[last]] \in Seq(S)
          /\ Len([front EXCEPT ![p] = values[last]]) = Len(front)
          /\ \A i \in 1..Len(front) :
                [front EXCEPT ![p] = values[last]][i] = IF i = p THEN values[last] ELSE front[i]
      BY <1>2, <3>1, ExceptSeq
    <3> QED
      BY <1>2, <2>1, <3>2, <3>3
  <2>4. DOMAIN values' = 1..last-1 /\ \A i \in 1..last-1 : i \in 1..last /\ i # last
    <3>1. DOMAIN values' = 1..Len(values')
      <4> HIDE DEF S, last
      <4> QED
        BY <2>3, LenProperties
    <3> HIDE DEF last
    <3>2. \A i \in 1..last-1 : i \in 1..last /\ i # last
      BY <1>1
    <3> QED
      BY <2>3, <3>1, <3>2
  <2>5. position' \in [Ids -> Nat \ {0}]
    BY <1>1, <1>3, <2>1, <2>2
  <2>6. sift' \in {Up(p), Down(p)}
    BY <2>1 DEF Settling
  <2>7. TypeOK'
    <3>1. sift'.dir \in {"up", "down"} /\ sift'.at = p
      BY <2>6 DEF Up, Down
    <3>2. Len(values') <= Capacity
      <4>1. Len(values') = last - 1 /\ last <= Capacity /\ last \in Nat
        BY <1>1, <1>3, <2>3
      <4> HIDE DEF last
      <4> QED
        BY <4>1, HeapAssumption
    <3> QED
      BY <1>3, <1>5, <2>2, <2>3, <2>4, <2>5, <3>1, <3>2 DEF TypeOK
  <2>8. PositionsTrue'
    <3>1. SUFFICES ASSUME NEW q \in 1..last-1 PROVE position'[values'[q][2]] = q
      BY <2>4 DEF PositionsTrue
    <3>2. CASE q = p
      BY <1>3, <2>1, <2>2, <2>3, <3>2
    <3>3. CASE q # p
      <4>1. values'[q] = values[q] /\ values[q][2] # values[last][2]
        BY <1>1, <2>2, <2>3, <2>4, <3>3
      <4> QED
        BY <1>3, <2>1, <2>4, <4>1
    <3> QED
      BY <3>2, <3>3
  <2>9. ASSUME NEW q \in 1..last-1, q > 1, q # p, Parent(q) # p
        PROVE  ~Better(values'[Parent(q)], values'[q])
    <3>1. q \in 2..last /\ Parent(q) \in 1..last-1
      <4> HIDE DEF last
      <4>1. q \in 2..last /\ q \in Nat /\ last \in Nat
        BY <1>1, <2>9
      <4>2. Parent(q) \in 1..q-1
        BY <1>4, <4>1
      <4> QED
        BY <4>1, <4>2, <2>9
    <3> QED
      BY <1>4, <2>3, <2>9, <3>1
  <2>10. ASSUME NEW q \in 1..last-1, Parent(q) = p, p > 1
         PROVE  /\ ~Better(values'[Parent(p)], values'[q])
                /\ Better(values'[Parent(p)], values'[p]) => ~Better(values'[p], values'[q])
    <3> DEFINE g == Parent(p)
    <3>1. q > 1 /\ q # p
      <4> HIDE DEF last
      <4>1. q \in Nat \ {0} /\ p \in Nat \ {0}
        BY <1>1
      <4>2. q = 2 * p \/ q = 2 * p + 1
        BY <2>10, <4>1, ParentBounds
      <4> QED
        BY <4>1, <4>2
    <3>2. q \in 2..last /\ p \in 2..last /\ g \in 1..p-1
      <4> HIDE DEF last
      <4>1. q \in 2..last /\ p \in 2..last
        BY <1>1, <2>2, <2>10, <3>1
      <4> QED
        BY <1>4, <4>1
    <3> HIDE DEF g
    <3>3. g \in 1..last-1 /\ g # p
      <4> HIDE DEF last
      <4> QED
        BY <1>1, <2>2, <3>2
    <3>4. values'[g] = values[g] /\ values'[q] = values[q] /\ values'[p] = values[last]
      BY <2>2, <2>3, <3>1, <3>3
    <3>5. ~Better(values[g], values[p]) /\ ~Better(values[p], values[q])
      BY <1>4, <2>10, <3>2 DEF g
    <3>6. values[g] \in Pairs /\ values[p] \in Pairs /\ values[q] \in Pairs /\ values[last] \in Pairs
      BY <1>1, <2>2, <2>4, <3>3
    <3>7. ~Better(values[g], values[q])
      BY <3>5, <3>6, NotBetterIsTransitive
    <3>8. Better(values[g], values[last]) => ~Better(values[last], values[q])
      BY <3>6, <3>7, BetterThanNotBetter
    <3> QED
      BY <3>4, <3>7, <3>8 DEF g
  <2>11. OrderedButFor'
    <3>1. CASE p > 1 /\ Better(values'[Parent(p)], values'[p])
      <4>1. sift' = Up(p)
        BY <2>1, <3>1 DEF Settling
      <4>2. sift'.dir = "up" /\ sift'.at = p
        BY <4>1 DEF Up
      <4> QED
        BY <2>4, <2>9, <2>10, <3>1, <4>2 DEF OrderedButFor, Parent
    <3>2. CASE ~(p > 1 /\ Better(values'[Parent(p)], values'[p]))
      <4>1. sift' = Down(p)
        BY <2>1, <3>2 DEF Settling
      <4>2. sift'.dir = "down" /\ sift'.at = p
        BY <4>1 DEF Down
      <4> QED
        BY <2>4, <2>9, <2>10, <3>2, <4>2 DEF OrderedButFor, Parent
    <3> QED
      BY <3>1, <3>2
  <2>12. Held' = Held \ {values[p]}
    <3>1. Held' = {values'[i] : i \in 1..last-1}
      BY <2>4 DEF Held, Range
    <3> HIDE DEF last
    <3>2. \A i \in 1..last : i \in 1..last-1 \/ i = last
      BY <1>1
    <3>3. \A i \in 1..last : i # p => values[i] # values[p]
      BY <1>1
    <3> QED
      BY <1>6, <1>8, <2>2, <2>3, <2>4, <3>1, <3>2, <3>3
  <2> QED
    BY <1>5, <2>7, <2>8, <2>11, <2>12 DEF HInv
<1> QED
  BY <1>7, <1>8

\* `erase` removes the entry it was asked for, from the place stored for its record.
LEMMA EraseKeeps ==
  ASSUME HInv, NEW e \in Held, Erase(e)
  PROVE  HInv' /\ n' = n /\ Held' = Held \ {e}
<1>1. PICK p \in DOMAIN values : values[p] = e
  BY DEF Held, Range
<1>2. position[e[2]] = p
  BY <1>1 DEF HInv, PositionsTrue
<1>3. sift = Idle /\ Remove(p)
  BY <1>2 DEF Erase
<1> QED
  BY <1>1, <1>3, RemoveKeeps

\* `pop_worst` removes the entry in front.
LEMMA PopKeeps ==
  ASSUME HInv, PopWorst
  PROVE  HInv' /\ n' = n /\ 1 \in DOMAIN values /\ sift = Idle /\ Held' = Held \ {values[1]}
<1>1. sift = Idle /\ values # <<>> /\ Remove(1)
  BY DEF PopWorst
<1>2. values \in Seq(Proxies \X (0..n-1)) /\ DOMAIN values = 1..Len(values) /\ Len(values) \in Nat
  BY HeapFacts
<1>3. Len(values) # 0
  BY <1>1, <1>2, EmptySeq
<1>4. 1 \in DOMAIN values
  BY <1>2, <1>3
<1> QED
  BY <1>1, <1>4, RemoveKeeps

-----------------------------------------------------------------------------
(***************************************************************************)
(* The invariant of the heap.                                              *)
(***************************************************************************)

LEMMA HeapInit == Init => HInv /\ Held = {}
<1> SUFFICES ASSUME Init PROVE HInv /\ Held = {}
  OBVIOUS
<1>1. DOMAIN values = {} /\ Len(values) = 0 /\ values \in Seq(Proxies \X (0..n-1))
  <2> DEFINE S == Proxies \X (0..n-1)
  <2>1. <<>> \in Seq(S) /\ Len(<<>>) = 0 /\ DOMAIN <<>> = {}
    BY EmptySeq
  <2> QED
    BY <2>1 DEF Init
<1>2. TypeOK
  <2>1. position \in [Ids -> Nat \ {0}] /\ n \in Sizes /\ sift = Idle
    BY DEF Init
  <2> QED
    BY <1>1, <2>1, HeapAssumption DEF TypeOK
<1> QED
  BY <1>1, <1>2 DEF HInv, PositionsTrue, OrderedButFor, Held, Range

LEMMA HeapStep == HInv /\ [Next]_vars => HInv'
<1> SUFFICES ASSUME HInv, [Next]_vars PROVE HInv'
  OBVIOUS
<1>1. CASE SiftUp
  BY <1>1, UpKeeps
<1>2. CASE SiftDown
  BY <1>2, DownKeeps
<1>3. CASE \E size \in Sizes : Begin(size)
  BY <1>3, BeginKeeps
<1>4. ASSUME NEW v \in Proxies, NEW id \in 0..n-1, Insert(<<v, id>>) PROVE HInv'
  BY <1>4, InsertKeeps
<1>5. CASE \E e \in Held : Erase(e)
  BY <1>5, EraseKeeps
<1>6. CASE PopWorst
  BY <1>6, PopKeeps
<1>7. CASE UNCHANGED vars
  BY <1>7 DEF vars, HInv, TypeOK, PositionsTrue, OrderedButFor, Parent
<1> QED
  BY <1>1, <1>2, <1>3, <1>4, <1>5, <1>6, <1>7 DEF Next

\* HInv holds in every state of every run.
THEOREM HeapInvariant == Spec => []HInv
<1>1. Init => HInv
  BY HeapInit
<1> QED
  BY <1>1, HeapStep, PTL DEF Spec

\* The heap's arrays keep their types and the capacity, for every number of
\* records and every capacity.
THEOREM HeapTypes == Spec => []TypeOK
<1>1. HInv => TypeOK
  BY DEF HInv
<1> QED
  BY <1>1, HeapInvariant, PTL

\* The place stored for a record is where its entry lies, so `erase` never
\* throws "indexed pool stale position".
THEOREM PlacesAreTrue == Spec => []PositionsTrue
<1>1. HInv => PositionsTrue
  BY DEF HInv
<1> QED
  BY <1>1, HeapInvariant, PTL

\* Only the entry a sift moves is out of order, in every state of the loops.
THEOREM LoopKeepsOrder == Spec => []OrderedButFor
<1>1. HInv => OrderedButFor
  BY DEF HInv
<1> QED
  BY <1>1, HeapInvariant, PTL

\* In an idle heap the entry in front is the worst, by descent to the parent
\* from the least place that would contradict it.
LEMMA RootIsWorst ==
  ASSUME HInv, sift = Idle, 1 \in DOMAIN values
  PROVE  IsWorst(values[1], Held)
<1> DEFINE Bad == {q \in DOMAIN values : Better(values[1], values[q])}
<1>1. /\ DOMAIN values = 1..Len(values) /\ Len(values) \in Nat
      /\ \A q \in DOMAIN values : values[q] \in Pairs
  BY HeapFacts
<1>2. ASSUME Bad # {} PROVE FALSE
  <2>1. Bad \in SUBSET Nat
    BY <1>1
  <2>2. PICK q \in Bad : \A r \in Bad : q <= r
    BY <1>2, <2>1, LeastExists
  <2>3. q \in DOMAIN values /\ Better(values[1], values[q]) /\ q \in Nat \ {0}
    BY <1>1, <2>2
  <2>4. q # 1
    BY <1>1, <2>3, BetterIsStrict
  <2>5. Parent(q) \in 1..q-1
    BY <2>3, <2>4, ParentBounds
  <2> DEFINE g == Parent(q)
  <2> HIDE DEF g
  <2>6. g \in Nat /\ g < q /\ 1 <= g
    BY <2>3, <2>5 DEF g
  <2>7. g \in DOMAIN values /\ g \notin Bad
    <3>1. g \in DOMAIN values
      BY <1>1, <2>3, <2>6
    <3>2. g \notin Bad
      BY <2>2, <2>3, <2>6
    <3> QED
      BY <3>1, <3>2
  <2>8. ~Better(values[g], values[q])
    BY <2>3, <2>4, IdleOrder DEF g
  <2>9. ~Better(values[1], values[g])
    BY <2>7
  <2> QED
    BY <1>1, <2>3, <2>7, <2>8, <2>9, NotBetterIsTransitive
<1>3. \A q \in DOMAIN values : values[q] = values[1] \/ Better(values[q], values[1])
  BY <1>1, <1>2, BetterIsTotal
<1> QED
  BY <1>3 DEF IsWorst, Held, Range

\* `worst()` is the worst entry of the pool whenever no sift runs.
THEOREM FrontIsWorst == Spec => []WorstInFront
<1>1. HInv => WorstInFront
  <2>1. ASSUME HInv, sift = Idle, values # <<>> PROVE 1 \in DOMAIN values
    <3>1. values \in Seq(Proxies \X (0..n-1)) /\ DOMAIN values = 1..Len(values) /\ Len(values) \in Nat
      BY <2>1, HeapFacts
    <3>2. Len(values) # 0
      BY <2>1, <3>1, EmptySeq
    <3> QED
      BY <3>1, <3>2
  <2> QED
    BY <2>1, RootIsWorst DEF WorstInFront
<1> QED
  BY <1>1, HeapInvariant, PTL

-----------------------------------------------------------------------------
(***************************************************************************)
(* The heap implements the pool.                                           *)
(***************************************************************************)

\* The pool has no more members than the heap has places.
LEMMA HeldIsSmall ==
  ASSUME HInv
  PROVE  Cardinality(Held) \in Nat /\ Cardinality(Held) <= Len(values)
<1> DEFINE f == [i \in 1..Len(values) |-> values[i]]
<1>1. DOMAIN values = 1..Len(values) /\ Len(values) \in Nat
  BY HeapFacts
<1>2. f \in Surjection(1..Len(values), Held)
  BY <1>1 DEF Surjection, Held, Range
<1>3. IsFiniteSet(1..Len(values)) /\ Cardinality(1..Len(values)) = Len(values)
  <2>1. \A l \in Nat : IsFiniteSet(1..l) /\ Cardinality(1..l) = l
    BY FS_Interval
  <2> QED
    BY <1>1, <2>1
<1>4. IsFiniteSet(Held) /\ Cardinality(Held) <= Cardinality(1..Len(values))
  BY <1>2, <1>3, FS_Surjection
<1> QED
  BY <1>3, <1>4, FS_CardinalityType

\* Every step of the heap is a step of the pool or leaves it alone.
LEMMA PoolStep == HInv /\ [Next]_vars => [Pool!PNext]_(Pool!pvars)
<1> SUFFICES ASSUME HInv, [Next]_vars PROVE [Pool!PNext]_(Pool!pvars)
  OBVIOUS
<1>1. CASE SiftUp
  BY <1>1, UpKeeps DEF SiftUp, Pool!pvars
<1>2. CASE SiftDown
  BY <1>2, DownKeeps DEF SiftDown, Pool!pvars
<1>3. ASSUME NEW size \in Sizes, Begin(size) PROVE Pool!PNext
  BY <1>3, BeginKeeps DEF Pool!PNext, Pool!PClear
<1>4. ASSUME NEW v \in Proxies, NEW id \in 0..n-1, Insert(<<v, id>>) PROVE Pool!PNext
  <2>1. Held' = Held \union {<<v, id>>} /\ n' = n /\ asked' = Pool!Nothing
    BY <1>4, InsertKeeps DEF Insert
  <2>2. Len(values) < Capacity /\ \A h \in Held : h[2] # <<v, id>>[2]
    BY <1>4 DEF Insert
  <2>3. Cardinality(Held) < Capacity
    <3>1. Cardinality(Held) \in Nat /\ Cardinality(Held) <= Len(values) /\ Len(values) \in Nat
      BY HeldIsSmall, HeapFacts
    <3> QED
      BY <2>2, <3>1, HeapAssumption
  <2> DEFINE e == <<v, id>>
  <2>4. Held' = Held \union {e} /\ \A h \in Held : h[2] # e[2]
    BY <2>1, <2>2
  <2> HIDE DEF e
  <2>5. Pool!PInsert(e)
    <3>1. Pool!Cardinality(Held) = Cardinality(Held)
      BY DEF Cardinality, Pool!Cardinality, IsFiniteSet, Pool!IsFiniteSet
    <3> QED
      BY <2>1, <2>3, <2>4, <3>1 DEF Pool!PInsert
  <2> QED
    BY <2>5 DEF Pool!PNext, e
<1>5. ASSUME NEW e \in Held, Erase(e) PROVE Pool!PNext
  <2>1. asked' = e
    BY <1>5 DEF Erase
  <2> QED
    BY <1>5, <2>1, EraseKeeps DEF Pool!PNext, Pool!PErase
<1>6. CASE PopWorst
  <2>1. /\ n' = n /\ 1 \in DOMAIN values /\ sift = Idle
        /\ Held' = Held \ {values[1]} /\ asked' = values[1]
    BY <1>6, PopKeeps DEF PopWorst
  <2>2. IsWorst(values[1], Held)
    BY <2>1, RootIsWorst
  <2>3. values[1] \in Held
    BY <2>2 DEF IsWorst
  <2>4. Pool!PPopWorst
    BY <2>1, <2>2, <2>3 DEF Pool!PPopWorst, Pool!IsWorst, IsWorst, Pool!Better, Better
  <2> QED
    BY <2>4 DEF Pool!PNext
<1>7. CASE UNCHANGED vars
  BY <1>7 DEF vars, Pool!pvars, Held
<1> QED
  BY <1>1, <1>2, <1>3, <1>4, <1>5, <1>6, <1>7 DEF Next

\* The array with its swaps implements the set QueryWorkspace::update works with:
\* no operation loses or doubles an entry, and `pop_worst` removes the worst.
THEOREM HeapIsPool == Spec => ImplementsPool
<1>1. Init => Pool!PInit
  <2>1. Init => n \in Sizes /\ asked = Pool!Nothing
    BY DEF Init
  <2> QED
    BY <2>1, HeapInit DEF Pool!PInit
<1> QED
  BY <1>1, HeapInvariant, PoolStep, PTL DEF Spec, ImplementsPool, Pool!PSpec
=============================================================================
