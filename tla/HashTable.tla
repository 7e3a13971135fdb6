----------------------------- MODULE HashTable -----------------------------
(***************************************************************************)
(* A Minhash table (minhash/local_index.hpp): a bucket for each slot, laid *)
(* out in one array by counting, and the additions of later insertions     *)
(* (search/epoch_index.hpp 190).  build ranks the slots of the universe    *)
(* once, signature ranks those of one sketch; a query finds a record only  *)
(* if the two agree.                                                       *)
(***************************************************************************)
EXTENDS Integers, Sequences, FiniteSetsExt, SequencesExt

CONSTANTS
  Universe,     \* number of slots
  Identifiers,  \* identifiers a table may hold
  MaxAdded,     \* bound on the insertions explored
  TableSize     \* sizeof(Table), at least that of one offset

ASSUME TableAssumption ==
  /\ Universe \in Nat \ {0}
  /\ Identifiers \subseteq Nat /\ IsFiniteSet(Identifiers)
  /\ MaxAdded \in Nat
  /\ TableSize \in Nat /\ TableSize >= 4

Slots == 0..Universe-1
no_slot == Universe
Nowhere == [s \in Slots |-> 0]

VARIABLES
  rank,       \* mix(slot ^ seed): a permutation of the slots
  sketch,     \* the sketches of the records
  members,    \* the cluster's identifiers when the table is built, ascending
  progress,
  sigs,       \* signatures of the members
  keys, offsets, ids,  \* places count from 1
  cursor,     \* per slot, the next place in its bucket
  next,       \* the next member to be placed
  additions   \* per slot, a list

table == <<rank, sketch, members, progress, sigs, keys, offsets, ids, cursor, next, additions>>

\* the ascending list of a set of numbers
Ascending(S) == CHOOSE f \in [1..Cardinality(S) -> S] :
                  \A j, k \in DOMAIN f : j < k => f[j] < f[k]

\* the slot of least rank
Signature(slots) == IF slots = {} THEN no_slot
                    ELSE CHOOSE s \in slots : \A t \in slots : rank[s] <= rank[t]

TableInit ==
  /\ rank \in Bijection(Slots, Slots)
  /\ sketch \in [Identifiers -> SUBSET Slots]
  /\ \E S \in SUBSET Identifiers : members = Ascending(S)
  /\ progress = "sign"
  /\ sigs = <<>> /\ keys = <<>> /\ offsets = <<>> /\ ids = <<>>
  /\ cursor = Nowhere
  /\ next = 1
  /\ additions = [s \in Slots |-> <<>>]

-----------------------------------------------------------------------------
(***************************************************************************)
(* build                                                                   *)
(***************************************************************************)

Sign ==
  /\ progress = "sign"
  /\ sigs' = [j \in DOMAIN members |-> Signature(sketch[members[j]])]
  /\ progress' = "lay out"
  /\ UNCHANGED <<rank, sketch, members, keys, offsets, ids, cursor, next, additions>>

\* counts[s]
Count(s) == Cardinality({j \in DOMAIN sigs : sigs[j] = s})

\* the place of the first member of s, after all smaller slots
Start(s) == 1 + MapThenSumSet(Count, {t \in Slots : t < s})

LayOut ==
  /\ progress = "lay out"
  /\ keys' = Ascending({s \in Slots : Count(s) > 0})
  /\ offsets' = [k \in 1..Len(keys') + 1 |-> Start(IF k <= Len(keys') THEN keys'[k] ELSE Universe)]
  /\ ids' = [j \in 1..Start(Universe) - 1 |-> 0]
  /\ cursor' = [s \in Slots |-> IF Count(s) > 0 THEN Start(s) ELSE 0]
  /\ progress' = "place"
  /\ UNCHANGED <<rank, sketch, members, sigs, next, additions>>

Advanced(s) == [cursor EXCEPT ![s] = @ + 1]

\* members with an empty sketch are in no bucket
Place ==
  /\ progress = "place"
  /\ next <= Len(members)
  /\ next' = next + 1
  /\ IF sigs[next] = no_slot
     THEN UNCHANGED <<ids, cursor>>
     ELSE /\ ids' = [ids EXCEPT ![cursor[sigs[next]]] = members[next]]
          /\ cursor' = Advanced(sigs[next])
  /\ UNCHANGED <<rank, sketch, members, progress, sigs, keys, offsets, additions>>

Finish ==
  /\ progress = "place"
  /\ next > Len(members)
  /\ progress' = "built"
  /\ UNCHANGED <<rank, sketch, members, sigs, keys, offsets, ids, cursor, next, additions>>

Added == UNION {ToSet(additions[s]) : s \in Slots}

\* Index::insert of a record with a nonempty sketch
Add(id) ==
  /\ progress = "built"
  /\ Cardinality(Added) < MaxAdded
  /\ id \notin ToSet(members) \union Added
  /\ sketch[id] # {}
  /\ additions' = [additions EXCEPT ![Signature(sketch[id])] = Append(@, id)]
  /\ UNCHANGED <<rank, sketch, members, progress, sigs, keys, offsets, ids, cursor, next>>

TableNext == Sign \/ LayOut \/ Place \/ Finish \/ \E id \in Identifiers : Add(id)

TableSpec == TableInit /\ [][TableNext]_table

Bucket(k) == SubSeq(ids, offsets[k], offsets[k + 1] - 1)

\* mutant: additions only where the build has made a bucket
BuiltBuckets(key) ==
  IF key \in ToSet(keys)
  THEN Bucket(CHOOSE k \in DOMAIN keys : keys[k] = key) \o additions[key]
  ELSE <<>>

\* what `visit` calls its function on
Visit(key) ==
  IF key = no_slot THEN <<>>
  ELSE (IF key \in ToSet(keys) THEN Bucket(CHOOSE k \in DOMAIN keys : keys[k] = key) ELSE <<>>)
         \o additions[key]

\* push_back doubles the capacity when it is used up
Capacity(n) ==
  LET grown[k \in 0..n] ==
        IF k = 0 THEN 0
        ELSE LET c == grown[k - 1] IN IF c >= k THEN c ELSE Max({1, 2 * c})
  IN  grown[n]

\* ids is sized at once
Bytes == 4 * (Capacity(Len(keys)) + Capacity(Len(offsets)) + Len(ids))

\* mutant: the arrays as if they held what they need
TightEstimate ==
  4 * Len(members) + 8 * Min({Len(members), Universe}) + TableSize

\* a table's part of Index::estimate, the bound of the resource guard
Estimate ==
  4 * Len(members) + 16 * Min({Len(members), Universe}) + TableSize

-----------------------------------------------------------------------------
\* The bound that Index::estimate puts on a table before it is built holds for what
\* the build then keeps, the capacity its arrays have grown to included: the
\* tables of an index that passes the resource guard stay within it.
BytesWithinEstimate == progress = "built" => Bytes <= Estimate

\* A query with signature `key` meets exactly the records, built in or added, whose signature
\* it is, each of them once; with an empty sketch it meets none.
VisitsItsBucket ==
  progress = "built" =>
    \A key \in Slots \union {no_slot} :
      /\ ToSet(Visit(key)) =
           {id \in ToSet(members) \union Added : key # no_slot /\ Signature(sketch[id]) = key}
      /\ IsInjective(Visit(key))
=============================================================================
