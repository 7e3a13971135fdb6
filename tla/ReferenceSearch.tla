--------------------------- MODULE ReferenceSearch --------------------------
(***************************************************************************)
(* reference_search (include/final_equivalence.hpp): the search the tests  *)
(* compare workspace_search with.  It has no generations, stamps or        *)
(* admissions: each cluster's counts are merged into the pool in one go,   *)
(* the pool is cut to its capacity afterwards, and all of it is verified.  *)
(***************************************************************************)
EXTENDS SearchCall

VARIABLES
  running, call,
  t,           \* position in the route
  stopped,
  fallback,
  observed,    \* best proxy of each observed record, as a set of <<proxy, id>>
  ordered,     \* the pool
  verified,    \* the records with an exact score
  answer

vars == <<running, call, t, stopped, fallback, observed, ordered, verified, answer>>

Init == /\ running = FALSE /\ call \in Calls
        /\ t = 1 /\ stopped = FALSE /\ fallback = FALSE
        /\ observed = {} /\ ordered = {} /\ verified = {} /\ answer = {}

top   == Best(call.k, Hits(call, verified))
Delta == call.delta \cap call.active

EmptyQuery(c) ==
  /\ ~running /\ c.empty
  /\ answer' = {[of |-> c, hits |-> ExactHits(c)]}
  /\ UNCHANGED <<running, call, t, stopped, fallback, observed, ordered, verified>>

Start(c) ==
  /\ ~running /\ ~c.empty
  /\ running' = TRUE /\ call' = c
  /\ t' = 1 /\ stopped' = FALSE /\ fallback' = FALSE
  /\ observed' = {} /\ ordered' = {} /\ verified' = {} /\ answer' = {}

VerifyDelta ==
  /\ running /\ t = 1 /\ ~(Delta \subseteq verified)
  /\ verified' = verified \cup Delta
  /\ UNCHANGED <<running, call, t, stopped, fallback, observed, ordered, answer>>

Routing == running /\ Delta \subseteq verified /\ ~stopped /\ ~fallback
             /\ t <= Len(call.route)

BoundTest ==
  /\ call.stopping
  /\ Cardinality(top) = call.k
  /\ \A s \in t..Len(call.route) : \A h \in top : call.route[s].bound < h[1]

Stop ==
  /\ Routing /\ BoundTest
  /\ stopped' = TRUE
  /\ UNCHANGED <<running, call, t, fallback, observed, ordered, verified, answer>>

\* reference_update: the counts of one cluster, merged into observed and ordered
Raised(values) ==
  {v \in values : \A o \in observed : o[2] = v[2] => o[1] < v[1]}
Replaced(raised) == {o \in observed : \E v \in raised : v[2] = o[2]}

Probe(counts) ==
  /\ Routing /\ ~BoundTest
  /\ LET values == {<<Proxy(counts[i], call.route[t].m, call.weight[i]), i>> :
                      i \in DOMAIN counts}
         raised == Raised(values)
     IN /\ observed' = (observed \ Replaced(raised)) \cup raised
        /\ ordered' = Best(call.B, (ordered \ Replaced(raised)) \cup raised)
        /\ verified' = verified \cup {p[2] : p \in ordered'}
  /\ t' = t + 1
  /\ UNCHANGED <<running, call, stopped, fallback, answer>>

LoopOver == running /\ Delta \subseteq verified /\ (stopped \/ t > Len(call.route))

Fallback ==
  /\ LoopOver /\ ~fallback /\ Cardinality(verified) < call.k
  /\ fallback' = TRUE /\ verified' = verified \cup call.active
  /\ UNCHANGED <<running, call, t, stopped, observed, ordered, answer>>

Finish ==
  /\ LoopOver /\ (fallback \/ Cardinality(verified) >= call.k)
  /\ running' = FALSE
  /\ answer' = {[of |-> call, hits |-> top]}
  /\ UNCHANGED <<call, t, stopped, fallback, observed, ordered, verified>>

\* an exception leaves the search; its local state is gone
Throw ==
  /\ running
  /\ running' = FALSE
  /\ UNCHANGED <<call, t, stopped, fallback, observed, ordered, verified, answer>>

Next ==
  \/ \E c \in Calls : EmptyQuery(c) \/ Start(c)
  \/ VerifyDelta \/ Stop \/ Fallback \/ Finish \/ Throw
  \/ /\ Routing
     /\ \E S \in SUBSET (call.route[t].members \cap call.active) :
          \E counts \in [S -> 1..call.route[t].m] : Probe(counts)

Spec == Init /\ [][Next]_vars
=============================================================================
