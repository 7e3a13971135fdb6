------------------------------ MODULE PoolHeap ------------------------------
(***************************************************************************)
(* IndexedPoolHeap of search/query_workspace.hpp: the candidate pool as a  *)
(* binary heap with the worst entry in front and, for each record, the     *)
(* place of its entry.  Places count from 1 here, from 0 in the code.      *)
(*                                                                         *)
(* An operation is one step for its assignments and one step for each      *)
(* iteration of the sift loop it ends with.  Places of records that left   *)
(* the pool are not reset: they stay until the record is inserted again.   *)
(***************************************************************************)
EXTENDS Ranking, Sequences, Functions

CONSTANTS
  Sizes,    \* numbers of records of the collections that are searched
  Proxies,  \* values of an entry
  Capacity  \* largest number of entries, the B of update

ASSUME HeapAssumption == Sizes \subseteq Nat /\ Proxies \subseteq Int /\ Capacity \in Nat

VARIABLES
  n,         \* records in the collection of the running query
  values,    \* the heap
  position,  \* per record, the place of its entry
  sift,      \* the sift loop that runs, and the place it has come to
  asked      \* history: the entry the last call asked to have removed, if any

vars == <<n, values, position, sift, asked>>

Ids == UNION {0..size-1 : size \in Sizes}

Idle == [dir |-> "idle", at |-> 0]
Up(p) == [dir |-> "up", at |-> p]
Down(p) == [dir |-> "down", at |-> p]

Parent(p) == p \div 2
Held == Range(values)

Pool == INSTANCE PoolSet WITH held <- Held

Init ==
  /\ n \in Sizes
  /\ values = <<>>
  /\ position = [id \in Ids |-> 1]
  /\ sift = Idle
  /\ asked = Pool!Nothing

-----------------------------------------------------------------------------
(***************************************************************************)
(* The sift loops.  A parent may not be better than its child.             *)
(***************************************************************************)

Swapped(a, b) == [values EXCEPT ![a] = values[b], ![b] = values[a]]

\* mutant: the place of the entry that gives way is not stored
HalfSwap(a, b) ==
  /\ values' = Swapped(a, b)
  /\ position' = [position EXCEPT ![values[b][2]] = a]

SwapNodes(a, b) ==
  /\ values' = Swapped(a, b)
  /\ position' = [position EXCEPT ![values[b][2]] = a, ![values[a][2]] = b]

\* the children of p that exist
Children(p) == {2*p, 2*p + 1} \cap DOMAIN values

\* the child of p that `down` compares p with: the worse of them
WorseChild(p) ==
  CHOOSE c \in Children(p) : \A d \in Children(p) : d = c \/ Better(values[d], values[c])

SiftUp ==
  LET p == sift.at IN
  /\ sift.dir = "up"
  /\ IF p > 1 /\ Better(values[Parent(p)], values[p])
     THEN SwapNodes(Parent(p), p) /\ sift' = Up(Parent(p))
     ELSE sift' = Idle /\ UNCHANGED <<values, position>>
  /\ UNCHANGED <<n, asked>>

SiftDown ==
  LET p == sift.at IN
  /\ sift.dir = "down"
  /\ IF Children(p) # {} /\ Better(values[p], values[WorseChild(p)])
     THEN SwapNodes(p, WorseChild(p)) /\ sift' = Down(WorseChild(p))
     ELSE sift' = Idle /\ UNCHANGED <<values, position>>
  /\ UNCHANGED <<n, asked>>

-----------------------------------------------------------------------------
(***************************************************************************)
(* The operations, called by QueryWorkspace::update on an idle heap.       *)
(***************************************************************************)

Cleared == <<>>

\* QueryWorkspace::begin: ensure, which drops the places past the new size, then clear
Begin(size) ==
  /\ sift = Idle
  /\ n' = size
  /\ values' = Cleared
  /\ position' = [id \in Ids |-> IF id < n /\ id < size THEN position[id] ELSE 1]
  /\ asked' = Pool!Nothing
  /\ UNCHANGED sift

\* update inserts a record that is not in the pool, into a pool that is not full
Insert(e) ==
  /\ sift = Idle
  /\ Len(values) < Capacity
  /\ \A f \in Held : f[2] # e[2]
  /\ position' = [position EXCEPT ![e[2]] = Len(values) + 1]
  /\ values' = Append(values, e)
  /\ sift' = Up(Len(values) + 1)
  /\ asked' = Pool!Nothing
  /\ UNCHANGED n

\* mutant: a moved entry can only be too good for its place
DownOnly(s, p) == Down(p)

\* the loop that `remove` ends with when the last entry has come to place p
Settling(s, p) == IF p > 1 /\ Better(s[Parent(p)], s[p]) THEN Up(p) ELSE Down(p)

Filled(p) == [SubSeq(values, 1, Len(values) - 1) EXCEPT ![p] = values[Len(values)]]

Remove(p) ==
  LET last == Len(values) IN
  /\ IF p = last
     THEN values' = SubSeq(values, 1, last - 1) /\ UNCHANGED <<position, sift>>
     ELSE /\ values' = Filled(p)
          /\ position' = [position EXCEPT ![values[last][2]] = p]
          /\ sift' = Settling(Filled(p), p)
  /\ UNCHANGED n

\* whether `erase` throws "indexed pool stale position"
IsStale(e) == position[e[2]] \notin DOMAIN values \/ values[position[e[2]]] # e

\* update erases an entry that its membership stamp says is in the pool
Erase(e) ==
  /\ sift = Idle
  /\ e \in Held
  /\ ~IsStale(e)
  /\ Remove(position[e[2]])
  /\ asked' = e

\* mutant: take the last entry, which is bad but seldom the worst
PopLast ==
  /\ sift = Idle
  /\ values # <<>>
  /\ Remove(Len(values))
  /\ asked' = values[1]

\* update has read the entry with `worst` before
PopWorst ==
  /\ sift = Idle
  /\ values # <<>>
  /\ Remove(1)
  /\ asked' = values[1]

Next ==
  \/ SiftUp
  \/ SiftDown
  \/ \E size \in Sizes : Begin(size)
  \/ \E v \in Proxies, id \in 0..n-1 : Insert(<<v, id>>)
  \/ \E e \in Held : Erase(e)
  \/ PopWorst

Spec == Init /\ [][Next]_vars

-----------------------------------------------------------------------------
(***************************************************************************)
(* Properties.                                                             *)
(***************************************************************************)

\* The heap's arrays: entries of the running collection, a place per record, a loop inside the heap.
TypeOK ==
  /\ n \in Sizes
  /\ values \in Seq(Proxies \X (0..n-1))
  /\ Len(values) <= Capacity
  /\ position \in [Ids -> Nat \ {0}]
  /\ \/ sift = Idle
     \/ sift.dir \in {"up", "down"} /\ sift.at \in DOMAIN values

\* `worst()` reads the front entry as the worst of the pool: `update` decides on it whether a
\* candidate is admitted, and `pop_worst` drops it.  It must be the worst whenever no loop runs.
WorstInFront == sift = Idle /\ values # <<>> => IsWorst(values[1], Held)

\* `erase` finds an entry by the place stored for its record; swaps, moves of the last entry and
\* places left over from earlier members must never make it miss, or it throws `std::logic_error`.
PositionsTrue == \A p \in DOMAIN values : position[values[p][2]] = p

\* The loop invariant of both sifts: only the entry on the move may be out of order, and its
\* parent and its children are in order with each other.
OrderedButFor ==
  \A p \in DOMAIN values :
    /\ p > 1 /\ Better(values[Parent(p)], values[p]) =>
         \/ sift.dir = "up" /\ p = sift.at
         \/ sift.dir = "down" /\ Parent(p) = sift.at
    /\ Parent(p) = sift.at /\ sift.at > 1 => ~Better(values[Parent(sift.at)], values[p])

\* The array with its swaps behaves as the pool's set: no operation loses or doubles an entry,
\* `pop_worst` removes the worst and `erase` the one asked for, and the loops change nothing.
ImplementsPool == Pool!PSpec
=============================================================================
