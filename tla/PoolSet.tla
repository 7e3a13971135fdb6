------------------------------ MODULE PoolSet ------------------------------
(***************************************************************************)
(* What the candidate pool of a query promises to QueryWorkspace::update:  *)
(* a set of entries <<proxy, id>>, one per record, from which the caller   *)
(* takes a known entry or the worst one.                                   *)
(***************************************************************************)
EXTENDS Ranking

CONSTANTS
  Sizes,    \* numbers of records of the collections that are searched
  Proxies,  \* values of an entry
  Capacity  \* largest number of entries, the B of update

VARIABLES
  n,     \* records in the collection of the running query
  held,  \* entries in the pool
  asked  \* history: the entry the last call asked to have removed, if any

pvars == <<n, held, asked>>

Nothing == <<>>

PInit == n \in Sizes /\ held = {} /\ asked = Nothing

\* the next query
PClear(size) == n' = size /\ held' = {} /\ asked' = Nothing

PInsert(e) ==
  /\ Cardinality(held) < Capacity
  /\ \A f \in held : f[2] # e[2]
  /\ held' = held \union {e}
  /\ asked' = Nothing
  /\ UNCHANGED n

PErase(e) ==
  /\ e \in held
  /\ held' = held \ {e}
  /\ asked' = e
  /\ UNCHANGED n

PPopWorst ==
  /\ \E w \in held :
       /\ IsWorst(w, held)
       /\ held' = held \ {w}
       /\ asked' = w
  /\ UNCHANGED n

PNext ==
  \/ \E size \in Sizes : PClear(size)
  \/ \E v \in Proxies, id \in 0..n-1 : PInsert(<<v, id>>)
  \/ \E e \in held : PErase(e)
  \/ PPopWorst

PSpec == PInit /\ [][PNext]_pvars
=============================================================================
