------------------------- MODULE MCWorkspaceSearch -------------------------
EXTENDS SearchRefinement

Cluster(members, bound, tables) == [members |-> members, bound |-> bound, m |-> tables]

\* more candidates than the pool holds, two overlapping clusters, equal scores;
\* the second cluster's bound ties with the best scores
Crowded == [n |-> 3, B |-> 2, weight |-> [i \in 0..2 |-> IF i = 2 THEN 2 ELSE 1],
            active |-> 0..2, delta |-> {}, score |-> [i \in 0..2 |-> IF i = 0 THEN 3 ELSE 2],
            route |-> <<Cluster({0, 1, 2}, 3, 2), Cluster({1, 2}, 2, 1)>>,
            k |-> 2, stopping |-> TRUE, empty |-> FALSE]

\* delta records, a tombstone, and a fallback that is not always needed
Dynamic == [n |-> 3, B |-> 2, weight |-> [i \in 0..2 |-> i + 1],
            active |-> {1, 2}, delta |-> {2}, score |-> [i \in 0..2 |-> 3 - i],
            route |-> <<Cluster({0, 1}, 2, 1), Cluster({1}, 2, 1)>>,
            k |-> 2, stopping |-> TRUE, empty |-> FALSE]

\* the record in the delta list beats the bounds of both clusters: neither is probed
Early == [n |-> 2, B |-> 1, weight |-> [i \in 0..1 |-> 1],
          active |-> {0, 1}, delta |-> {1}, score |-> [i \in 0..1 |-> i],
          route |-> <<Cluster({0}, 0, 1), Cluster({0}, 0, 1)>>,
          k |-> 1, stopping |-> TRUE, empty |-> FALSE]

\* an erased record still in its bucket, and fewer active records than hits
\* wanted: the fallback scores what the hashing missed
Small == [n |-> 2, B |-> 2, weight |-> [i \in 0..1 |-> 1],
          active |-> {1}, delta |-> {}, score |-> [i \in 0..1 |-> i],
          route |-> <<Cluster({0, 1}, 1, 1)>>,
          k |-> 2, stopping |-> FALSE, empty |-> FALSE]

\* a query whose sketch is empty
Empty == [Early EXCEPT !.empty = TRUE]

MCCalls == {Crowded, Dynamic, Early, Small, Empty}
=============================================================================
