---------------------------- MODULE MCGroundTruth ----------------------------
EXTENDS GroundTruth

\* two queries over three records: the best record of the first is the last
\* record, those of the second are equal; a file may say 11 for 10
ScoresVal == <<[j \in 0..2 |-> <<10, 5, 20>>[j + 1]], [j \in 0..2 |-> 20]>>

ScansVal == {ScanOf(q, m, k) : q \in Queries, m \in Limits, k \in KMaxes} \cup {Nothing}
=============================================================================
