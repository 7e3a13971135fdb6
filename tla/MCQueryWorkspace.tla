-------------------------- MODULE MCQueryWorkspace --------------------------
EXTENDS DenseWorkspace

\* two indexes searched by one thread: two records that compete for one place in
\* the pool, and one record with a place to spare
Call(n, B) == [n |-> n, B |-> B, k |-> 1, weight |-> [i \in 0..n-1 |-> 1],
               active |-> {}, delta |-> {}, score |-> [i \in 0..n-1 |-> 0],
               route |-> <<>>, stopping |-> TRUE, empty |-> FALSE]

\* the dimensions of their collections, two and one
MCDim(c) == c.n

MCCalls == {Call(2, 1), Call(1, 2)}
=============================================================================
