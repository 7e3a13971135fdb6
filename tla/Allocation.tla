----------------------------- MODULE Allocation -----------------------------
(***************************************************************************)
(* Expansion::allocate (sketch/adaptive_sos.hpp 6-26): the slots of the    *)
(* expanded universe are shared out over the dimensions by weight, by the  *)
(* largest remainder, with at least one slot for each.                     *)
(*                                                                         *)
(* Weights are integers, in a unit that makes them so: RarityWeight        *)
(* stands for 1 + log(n/df), a positive function that falls as df grows.   *)
(***************************************************************************)
EXTENDS Integers, FiniteSetsExt

CONSTANTS
  d,             \* dimensions
  Ells,          \* values of ell
  n,             \* active records
  RarityWeight,  \* the idf weight of each document frequency
  null_slot      \* the slots that can be named

ASSUME AllocationAssumption ==
  /\ d \in Nat \ {0} /\ n \in Nat
  /\ Ells \subseteq Nat
  /\ RarityWeight \in [1..n -> Nat \ {0}]
  /\ \A f, g \in 1..n : f < g => RarityWeight[f] > RarityWeight[g]
  /\ null_slot \in Nat

VARIABLES
  df, rule, ell,  \* the input
  lengths,        \* slots of each dimension
  taken,          \* the dimensions that got a slot for their remainder
  stage,
  offset          \* first slot of each dimension

allocation == <<df, rule, ell, lengths, taken, stage, offset>>

Dimensions == 1..d
\* every document frequency divides the n-th of these
multiple[k \in 0..n] == IF k = 0 THEN 1 ELSE k * multiple[k - 1]

weights == [j \in Dimensions |->
  CASE rule = "uniform" -> 1
    [] rule # "uniform" /\ df[j] = 0 -> 0
    [] rule = "inverse" /\ df[j] > 0 -> multiple[n] \div df[j]
    [] rule = "idf" /\ df[j] > 0 -> RarityWeight[df[j]]]

sum == MapThenSumSet(LAMBDA j : weights[j], Dimensions)
total == MapThenSumSet(LAMBDA j : lengths[j], Dimensions)
budget == d * ell

\* v - 1, in units of 1/sum, is the share of a dimension beyond its first slot
Share(j) == d * (ell - 1) * weights[j]
rem(j) == Share(j) % sum

AllocateInit ==
  /\ df \in [Dimensions -> 0..n]
  /\ rule \in {"uniform", "inverse", "idf"}
  /\ ell \in Ells
  /\ lengths = [j \in Dimensions |-> 1]
  /\ taken = {}
  /\ stage = "check"
  /\ offset = [j \in 1..d+1 |-> 0]

\* no records, a capacity below 1 or a universe that cannot be numbered; no dimension occurs
Refuse ==
  /\ stage = "check"
  /\ n = 0 \/ ell < 1 \/ budget >= null_slot \/ sum = 0
  /\ stage' = "refused"
  /\ UNCHANGED <<df, rule, ell, lengths, taken, offset>>

\* mutant: the share, rounded
Rounded(j) == 1 + (2 * Share(j) + sum) \div (2 * sum)

Floor(j) == 1 + Share(j) \div sum

FloorAll ==
  /\ stage = "check"
  /\ n > 0 /\ ell >= 1 /\ budget < null_slot /\ sum > 0
  /\ lengths' = [j \in Dimensions |-> Floor(j)]
  /\ stage' = "remainders"
  /\ UNCHANGED <<df, rule, ell, taken, offset>>

\* the dimension whose remainder is larger, the first of equals
Before(j, k) == rem(j) > rem(k) \/ (rem(j) = rem(k) /\ j < k)

TakeRemainder ==
  /\ stage = "remainders"
  /\ total < budget
  /\ \E j \in Dimensions \ taken :
       /\ \A k \in Dimensions \ (taken \union {j}) : Before(j, k)
       /\ lengths' = [lengths EXCEPT ![j] = @ + 1]
       /\ taken' = taken \union {j}
  /\ UNCHANGED <<df, rule, ell, stage, offset>>

SetOffsets ==
  /\ stage = "remainders"
  /\ total = budget
  /\ offset' = [j \in 1..d+1 |-> MapThenSumSet(LAMBDA k : lengths[k], 1..j-1)]
  /\ stage' = "allocated"
  /\ UNCHANGED <<df, rule, ell, lengths, taken>>

AllocateNext == Refuse \/ FloorAll \/ TakeRemainder \/ SetOffsets

AllocateSpec == AllocateInit /\ [][AllocateNext]_allocation

-----------------------------------------------------------------------------
\* "Rounding error" is never thrown: the floors do not exceed the budget, and what they leave is
\* shared out with at most one slot for each dimension.
RemaindersSuffice ==
  stage = "remainders" => total <= budget /\ budget - total <= Cardinality(Dimensions \ taken)

=============================================================================
