------------------------------ MODULE Ranking ------------------------------
(***************************************************************************)
(* The order of records everywhere in the search: pairs <<value, id>>, the *)
(* larger value first, then the smaller id.                                *)
(***************************************************************************)
EXTENDS Integers, FiniteSets

\* std::pair{-v, id}: the larger proxy or score first, then the smaller id
Better(p, q) == p[1] > q[1] \/ (p[1] = q[1] /\ p[2] < q[2])

IsWorst(w, S) == w \in S /\ \A p \in S : p = w \/ Better(p, w)

\* P is what is left of O when everything after the k best is dropped
IsTop(k, P, O) ==
  /\ P \subseteq O
  /\ Cardinality(P) <= k
  /\ P # O => Cardinality(P) = k
  /\ \A p \in P, q \in O \ P : Better(p, q)

\* the first k in that order
Best(k, S) == {p \in S : Cardinality({q \in S : Better(q, p)}) < k}

(***************************************************************************)
(* What a search relies on in the index: no active member of a cluster     *)
(* scores above the cluster's bound, and every active record is in the     *)
(* delta list or in a cluster.                                             *)
(***************************************************************************)
SoundRoute(c) ==
  /\ \A s \in DOMAIN c.route : \A i \in c.route[s].members \cap c.active :
       c.score[i] <= c.route[s].bound
  /\ \A i \in c.active \ c.delta : \E s \in DOMAIN c.route : i \in c.route[s].members

\* j/(1+j)*(query_size+cardinal) with j = collisions/m, in units of 1/scale
ProxyOf(scale, collisions, m, weight) == (scale * collisions * weight) \div (m + collisions)
=============================================================================
