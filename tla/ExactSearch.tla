---------------------------- MODULE ExactSearch ----------------------------
(***************************************************************************)
(* exact (io/ground_truth.hpp 6-16): one pass over the records, keeping    *)
(* the k best active ones in a heap with the worst on top.  Its result is  *)
(* the ground truth, the calibration targets and the answer for an empty   *)
(* sketch.                                                                 *)
(***************************************************************************)
EXTENDS Ranking

CONSTANT Scans  \* number of records, which are active, their scores, and k

ASSUME ScansAssumption ==
  \A s \in Scans :
    /\ s.n \in Nat /\ s.k \in Nat \ {0}
    /\ s.active \subseteq 0..s.n-1
    /\ s.score \in [0..s.n-1 -> Int]

VARIABLES
  scan,
  i,     \* the next record
  heap

vars == <<scan, i, heap>>

Hit(id) == <<scan.score[id], id>>
Seen == {Hit(id) : id \in {j \in scan.active : j < i}}

Init == scan \in Scans /\ i = 0 /\ heap = {}

Scored(id) == id \in scan.active

SkipErased ==
  /\ i < scan.n
  /\ ~Scored(i)
  /\ i' = i + 1
  /\ UNCHANGED <<scan, heap>>

\* mutant: at a tie the later hit, of the larger identifier, replaces the top
Strict(h, top) == h[1] > top[1] \/ (h[1] = top[1] /\ h[2] > top[2])

Beats(h, top) == Better(h, top)

Push ==
  /\ i < scan.n
  /\ Scored(i)
  /\ \/ /\ Cardinality(heap) < scan.k
        /\ heap' = heap \union {Hit(i)}
     \/ /\ Cardinality(heap) >= scan.k
        /\ \E top \in heap :
             /\ IsWorst(top, heap)
             /\ heap' = IF Beats(Hit(i), top) THEN (heap \ {top}) \union {Hit(i)} ELSE heap
  /\ i' = i + 1
  /\ UNCHANGED scan

Next == SkipErased \/ Push

Spec == Init /\ [][Next]_vars

-----------------------------------------------------------------------------
\* The heap's entries are hits of this scan.
TypeOK == i \in 0..scan.n /\ heap \subseteq Seen

\* After any number of records the heap is the k best of those met: no record dropped earlier
\* would be wanted again.
HeapIsTop == IsTop(scan.k, heap, Seen)

\* exact returns the k best active records, the smaller identifier first among equal scores.
ExactIsBest == i = scan.n => heap = Best(scan.k, {Hit(id) : id \in scan.active})
=============================================================================
