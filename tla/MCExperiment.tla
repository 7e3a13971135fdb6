---------------------------- MODULE MCExperiment ----------------------------
EXTENDS Experiment

CONSTANTS j1, j2

\* values in hundredths
Short == [dims |-> {j1}, max |-> 100, length |-> 100, angle |-> 0]
Long  == [dims |-> {j1, j2}, max |-> 200, length |-> 300, angle |-> 2]

\* copies of copies, as many as there are insertions, and one of each in the end
Shrunk(S) == S \cup {Copy(row, 9, 10) : row \in S}
InRange == Shrunk(Shrunk(Shrunk({Short, Long})))
AllRows == InRange \cup {Copy(row, 8, 10) : row \in InRange} \cup {Copy(row, 1000, 1) : row \in InRange}

OneOrTwo == {<<Short, Long>>, <<Long>>}
=============================================================================
