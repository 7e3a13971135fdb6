----------------------------- MODULE MCPoolHeap -----------------------------
(* Six places are the fewest with which an entry moved by `remove` may have to rise. *)
EXTENDS PoolHeap

SizesVal == {1, 6}
ProxiesVal == {1, 2}
=============================================================================
