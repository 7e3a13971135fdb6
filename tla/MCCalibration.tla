---------------------------- MODULE MCCalibration ---------------------------
EXTENDS Calibration

RecordsVal == 0..2

Target(z, id, j) == [query |-> z, id |-> id, j |-> j]

\* three positive targets: K = 1, 2, 3; unlike similarities in one cluster
Wide == [queries |-> 1, weight |-> [id \in RecordsVal |-> id + 1],
         targets |-> <<Target(1, 0, 2), Target(1, 1, 3), Target(1, 2, 2)>>]
\* two queries with a common target, one target without similarity
Shared == [queries |-> 2, weight |-> [id \in RecordsVal |-> 1],
           targets |-> <<Target(1, 2, 2), Target(2, 2, 4), Target(2, 1, 0), Target(2, 0, 3)>>]
\* no positive target at all
Void == [queries |-> 1, weight |-> [id \in RecordsVal |-> 1], targets |-> <<Target(1, 0, 0)>>]
\* a similarity that needs more tables than there can be
Far == [queries |-> 1, weight |-> [id \in RecordsVal |-> 1], targets |-> <<Target(1, 0, 1)>>]

SetsVal == {Wide, Shared, Void, Far}

Split(K, p, s) == [K |-> K, primary |-> [id \in RecordsVal |-> p[id + 1]],
                            secondary |-> [id \in RecordsVal |-> s[id + 1]]]

\* with records in one cluster, in two, and at the borders of two
PartitionsVal ==
  {Split(1, <<1, 1, 1>>, <<0, 0, 0>>),
   Split(2, <<1, 1, 2>>, <<0, 2, 0>>), Split(2, <<2, 1, 1>>, <<1, 0, 2>>),
   Split(3, <<1, 2, 3>>, <<0, 1, 2>>)}
=============================================================================
