----------------------------- MODULE MCPartition ----------------------------
EXTENDS Partition

RecordsVal == 1..4
\* multiples of the sizes a cluster can have: means are exact
AnglesVal == {0, 12, 24, 48}
LoadsVal == {[i \in RecordsVal |-> [angle |-> a[i], length |-> IF i = 2 THEN 2 ELSE 1]] :
               a \in [RecordsVal -> AnglesVal]}
=============================================================================
