----------------------------- MODULE Partition -----------------------------
(***************************************************************************)
(* Partition::build (clustering/spherical_partition.hpp 23-87): Lloyd      *)
(* iterations with repair of empty clusters, within a budget, then the     *)
(* final assignment, the spillover and the bounds that `upper` uses.       *)
(*                                                                         *)
(* Directions lie on an arc of less than a right angle: the cosine of two  *)
(* falls as the distance of their numbers grows.  The direction of a sum   *)
(* of unit vectors is represented by their mean.  The parallel loops write *)
(* disjoint elements and join before anything is read: each is one step.   *)
(***************************************************************************)
EXTENDS Integers, FiniteSetsExt, Functions

CONSTANTS
  Records,        \* identifiers of the active records
  Loads,          \* their possible rows: a direction and a norm for each
  Queries,        \* directions of queries
  MaxIterations   \* opts.iterations, which main refuses when it is less than 1

ASSUME PartitionAssumption ==
  /\ Records \subseteq Nat /\ IsFiniteSet(Records) /\ Records # {}
  /\ Loads \subseteq [Records -> [angle : Nat, length : Nat \ {0}]]
  /\ Queries \subseteq Nat
  /\ MaxIterations \in Nat \ {0}

VARIABLES
  row,                 \* the rows, from Loads
  K,                   \* number of clusters asked for
  mu,                  \* the centroids
  primary, secondary,  \* per record, its clusters; 0 stands for -1
  counts,              \* per cluster, its records, while clusters are repaired
  changes,             \* whether the running iteration has moved a record
  iteration,
  moved,               \* history: whether the last iteration moved a centroid
  phase,
  ids, radius, cover, norm_bound  \* per cluster

vars == <<row, K, mu, primary, secondary, counts, changes, iteration,
          moved, phase, ids, radius, cover, norm_bound>>

data == <<row, K>>
bounds == <<ids, radius, cover, norm_bound>>

Clusters == 1..K
Dist(a, b) == IF a >= b THEN a - b ELSE b - a

\* the first of the clusters with the largest cosine
Nearest(a, among) ==
  CHOOSE c \in among : \A d \in among :
    Dist(a, mu[c]) < Dist(a, mu[d]) \/ (Dist(a, mu[c]) = Dist(a, mu[d]) /\ c <= d)

Primaries(assigned, c) == {i \in Records : assigned[i] = c}

\* the directions of K different records, in the order of the shuffle
Init ==
  /\ row \in Loads
  /\ K \in 1..Cardinality(Records)
  /\ mu \in {[c \in 1..K |-> row[s[c]].angle] : s \in Injection(1..K, Records)}
  /\ primary = [i \in Records |-> 0] /\ secondary = [i \in Records |-> 0]
  /\ counts = [c \in 1..K |-> 0] /\ changes = FALSE
  /\ iteration = 0 /\ moved = FALSE /\ phase = "assign"
  /\ ids = [c \in 1..K |-> {}]
  /\ radius = [c \in 1..K |-> 0] /\ cover = radius /\ norm_bound = radius

-----------------------------------------------------------------------------
(***************************************************************************)
(* One iteration: assign, repair, move the centroids.                      *)
(***************************************************************************)

Assign ==
  /\ phase = "assign"
  /\ iteration < MaxIterations
  /\ primary' = [i \in Records |-> Nearest(row[i].angle, Clusters)]
  /\ changes' = (primary' # primary)
  /\ counts' = [c \in Clusters |-> Cardinality(Primaries(primary', c))]
  /\ phase' = "repair"
  /\ UNCHANGED <<data, mu, secondary, iteration, moved, bounds>>

\* mutant: a cluster of two keeps both
SpareOfThree == {i \in Records : counts[primary[i]] > 2}

\* the records a cluster can spare
Spare == {i \in Records : counts[primary[i]] > 1}

FarFromOwn(i) == Dist(row[i].angle, mu[primary[i]])
\* the record with the smallest cosine to its centroid, the smallest id of these
Pick(among) ==
  CHOOSE i \in among : \A j \in among :
    FarFromOwn(i) > FarFromOwn(j) \/ (FarFromOwn(i) = FarFromOwn(j) /\ i <= j)

Empties == {c \in Clusters : counts[c] = 0}

Moved(pick, c) == [counts EXCEPT ![primary[pick]] = @ - 1, ![c] = 1]

\* the first empty cluster gets a record; repairs do not empty a cluster
Repair ==
  /\ phase = "repair"
  /\ Empties # {} /\ Spare # {}
  /\ LET pick == Pick(Spare)  c == Min(Empties) IN
       /\ primary' = [primary EXCEPT ![pick] = c]
       /\ counts' = Moved(pick, c)
  /\ changes' = TRUE
  /\ UNCHANGED <<data, mu, secondary, iteration, moved, phase, bounds>>

Mean(S) == MapThenSumSet(LAMBDA i : row[i].angle, S) \div Cardinality(S)

\* mutant: the loop ends when the centroids have come to rest
CentroidsMove == mu' # mu

\* the iteration without a change is the last one
GoesOn == changes

Recentre ==
  /\ phase = "repair"
  /\ Empties = {}
  /\ mu' = [c \in Clusters |-> Mean(Primaries(primary, c))]
  /\ iteration' = iteration + 1
  /\ moved' = (mu' # mu)
  /\ phase' = IF GoesOn THEN "assign" ELSE "converged"
  /\ UNCHANGED <<data, primary, secondary, counts, changes, bounds>>

-----------------------------------------------------------------------------
(***************************************************************************)
(* After the iterations.                                                   *)
(***************************************************************************)

BudgetSpent == phase = "assign" /\ iteration = MaxIterations

LoopIsOver == phase = "converged" \/ BudgetSpent

First(i) == Nearest(row[i].angle, Clusters)
Second(i) == IF K = 1 THEN 0 ELSE Nearest(row[i].angle, Clusters \ {First(i)})

Radius(c) == Max({0} \union {Dist(row[i].angle, mu[c]) : i \in {j \in Records : First(j) = c}})

FinalAssign ==
  /\ LoopIsOver
  /\ primary' = [i \in Records |-> First(i)]
  /\ secondary' = [i \in Records |-> Second(i)]
  /\ radius' = [c \in Clusters |-> Radius(c)]
  /\ phase' = IF \A c \in Clusters : Primaries(primary', c) # {} THEN "spill" ELSE "empty cluster"
  /\ UNCHANGED <<data, mu, counts, changes, iteration, moved, ids, cover, norm_bound>>

\* mutant: every record is in its second cluster too
SpillsAlways(i) == secondary[i] # 0

Spills(i) == secondary[i] # 0 /\ Dist(row[i].angle, mu[secondary[i]]) <= radius[secondary[i]]

LongestMember(c) == Max({0} \union {row[i].length : i \in ids'[c]})

Spill ==
  /\ phase = "spill"
  /\ secondary' = [i \in Records |-> IF Spills(i) THEN secondary[i] ELSE 0]
  /\ ids' = [c \in Clusters |-> {i \in Records : primary[i] = c \/ secondary'[i] = c}]
  /\ cover' = radius
  /\ norm_bound' = [c \in Clusters |-> LongestMember(c)]
  /\ phase' = "done"
  /\ UNCHANGED <<data, mu, primary, counts, changes, iteration, moved, radius>>

Next == Assign \/ Repair \/ Recentre \/ FinalAssign \/ Spill

Spec == Init /\ [][Next]_vars

-----------------------------------------------------------------------------
(***************************************************************************)
(* Properties.                                                             *)
(***************************************************************************)

\* With no more clusters than records a cluster that can spare a record is always found, so
\* "Cannot repair empty cluster" is never thrown, however many clusters are empty at once.
RepairSucceeds == phase = "repair" /\ Empties # {} => Spare # {}

\* An iteration without changes leaves centroids that reproduce its assignment: the final
\* assignment, done again without repair, finds no cluster empty unless the budget ended the loop.
ConvergedIsFinal == phase = "empty cluster" => changes /\ iteration = MaxIterations

\* what `upper` allows for: a distance from the query, a norm
Closest(a, c) == Max({0, Dist(a, mu[c]) - cover[c]})

\* The stopping rule takes `upper` as a bound on the score of every member, at home or spilled:
\* no member is closer to a query in angle, nor longer, than the cluster's bounds allow.
UpperIsSafe ==
  phase = "done" =>
    \A c \in Clusters : \A i \in ids[c] :
      row[i].length <= norm_bound[c] /\ \A q \in Queries : Closest(q, c) <= Dist(q, row[i].angle)

\* The exception asks for a larger budget: then the last iteration still moved a centroid, for
\* the one after an iteration that moved none repeats it.
BudgetCanHelp == phase = "empty cluster" => moved
=============================================================================
