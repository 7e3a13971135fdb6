---------------------------- MODULE MCEpochIndex ----------------------------
(***************************************************************************)
(* Three rows along an arc.  Tall is out of range once the scale has been  *)
(* fixed without it.  Short, inserted later near the cluster of 1, widens  *)
(* its cover beyond the radius of the build.                               *)
(***************************************************************************)
EXTENDS IndexSearch

CONSTANTS j1, j2

Short == [dims |-> {j1}, max |-> 1, length |-> 1, angle |-> 0]
Long  == [dims |-> {j1, j2}, max |-> 1, length |-> 2, angle |-> 2]
Tall  == [dims |-> {j2}, max |-> 2, length |-> 2, angle |-> 1]

ThreeRows == {Short, Long, Tall}
TallAndLong == {<<Tall, Long>>}
Arc == {1, 2}

\* along the whole arc and beyond its last row
QueryArc == 0..3
Cosines == [d \in 0..3 |-> IF d = 0 THEN 10 ELSE IF d = 1 THEN 8 ELSE IF d = 2 THEN 4 ELSE 0]
=============================================================================
