--------------------------- MODULE WorkspaceSearch --------------------------
(***************************************************************************)
(* workspace_search (search/query_workspace.hpp): the search for the k     *)
(* records of largest inner product, as Index::search runs it, one query   *)
(* after another on the thread's workspace.                                *)
(*                                                                         *)
(* Which records a bucket holds depends on the hash functions: any subset  *)
(* of the cluster's members may be in it.                                  *)
(***************************************************************************)
EXTENDS QueryWorkspace

VARIABLES
  t,         \* position in the route of the cluster to probe next
  stopped,   \* the bound test ended the loop over the clusters
  fallback,  \* s.fallback: too few candidates, every active record is scored
  top,       \* the k best verified records, as <<score, id>>
  answer     \* the answer of the last search as {[of |-> call, hits |-> ...]},
             \* {} when there is none

vars == <<wvars, t, stopped, fallback, top, answer>>

Init == /\ WInit
        /\ t = 1 /\ stopped = FALSE /\ fallback = FALSE
        /\ top = {} /\ answer = {}

-----------------------------------------------------------------------------
\* an empty query sketch goes to the exact search and leaves the workspace alone
EmptyQuery(c) ==
  /\ phase = "idle" /\ c.empty
  /\ answer' = {[of |-> c, hits |-> ExactHits(c)]}
  /\ UNCHANGED <<wvars, t, stopped, fallback, top>>

BeginQuery(c) ==
  /\ ~c.empty
  /\ Begin(c)
  /\ t' = 1 /\ stopped' = FALSE /\ fallback' = FALSE
  /\ top' = {} /\ answer' = {}

\* mutant: ties are not settled by the identifier
OfferByScore(h) ==
  \/ Cardinality(top) < call.k /\ top' = top \cup {h}
  \/ /\ Cardinality(top) = call.k
     /\ \E w \in top :
          /\ IsWorst(w, top)
          /\ top' = IF h[1] > w[1] THEN (top \ {w}) \cup {h} ELSE top

\* top.insert, then drop the worst when there are more than k
Offer(h) ==
  \/ /\ Cardinality(top) < call.k
     /\ top' = top \cup {h}
  \/ /\ Cardinality(top) = call.k
     /\ \E w \in top :
          /\ IsWorst(w, top)
          /\ top' = IF Better(h, w) THEN (top \ {w}) \cup {h} ELSE top

VerifyRecord(i) ==
  /\ Verify(i)
  /\ Offer(Scored(call, i))
  /\ UNCHANGED <<t, stopped, fallback, answer>>

\* out-of-range records wait in the delta list and are always scored, first
VerifyDelta(i) ==
  /\ phase = "ready" /\ t = 1 /\ ~fallback
  /\ i \in call.delta \cap call.active
  /\ VerifyRecord(i)

\* mutant: the route is not held back by the delta list
NoDelta == TRUE

DeltaDone == call.delta \cap call.active \subseteq verified

Routing == phase = "ready" /\ DeltaDone /\ ~stopped /\ ~fallback /\ t <= Len(call.route)

\* mutant: stops at a bound that equals the worst score
BoundTestTied ==
  /\ call.stopping
  /\ Cardinality(top) = call.k
  /\ \E w \in top :
       /\ IsWorst(w, top)
       /\ \A s \in t..Len(call.route) : call.route[s].bound <= w[1]

\* gamma is -infinity below k hits; suffix[t] < gamma is a strict test on the
\* largest bound from position t on
BoundTest ==
  /\ call.stopping
  /\ Cardinality(top) = call.k
  /\ \E w \in top :
       /\ IsWorst(w, top)
       /\ \A s \in t..Len(call.route) : call.route[s].bound < w[1]

Stop ==
  /\ Routing /\ BoundTest
  /\ stopped' = TRUE
  /\ UNCHANGED <<wvars, t, fallback, top, answer>>

Probe ==
  /\ Routing /\ ~BoundTest
  /\ StartCluster(call.route[t].m)
  /\ UNCHANGED <<t, stopped, fallback, top, answer>>

\* the bucket may list erased records: only the active ones are counted
VisitBucket(bucket) ==
  /\ ScanTable(bucket \cap call.active)
  /\ UNCHANGED <<t, stopped, fallback, top, answer>>

OfferCounted(i) ==
  /\ Update(i)
  /\ UNCHANGED <<t, stopped, fallback, top, answer>>

NextLoop ==
  /\ StartUpdate \/ StartVerify
  /\ UNCHANGED <<t, stopped, fallback, top, answer>>

VerifyAdmission(i) ==
  /\ phase = "verify" /\ i \in Surviving
  /\ VerifyRecord(i)

\* mutant: the same cluster again
EndProbeAgain == EndCluster /\ UNCHANGED <<t, stopped, fallback, top, answer>>

EndProbe ==
  /\ EndCluster
  /\ t' = t + 1
  /\ UNCHANGED <<stopped, fallback, top, answer>>

LoopOver == phase = "ready" /\ DeltaDone /\ (stopped \/ t > Len(call.route))

StartFallback ==
  /\ LoopOver /\ ~fallback /\ Cardinality(verified) < call.k
  /\ fallback' = TRUE
  /\ UNCHANGED <<wvars, t, stopped, top, answer>>

VerifyFallback(i) ==
  /\ phase = "ready" /\ fallback /\ i \in call.active
  /\ VerifyRecord(i)

\* mutant: answers with what there is
FinishShort ==
  /\ LoopOver /\ End
  /\ answer' = {[of |-> call, hits |-> top]} /\ top' = {}
  /\ UNCHANGED <<t, stopped, fallback>>

Finish ==
  /\ LoopOver
  /\ IF fallback THEN call.active \subseteq verified
                 ELSE Cardinality(verified) >= call.k
  /\ End
  /\ answer' = {[of |-> call, hits |-> top]} /\ top' = {}
  /\ UNCHANGED <<t, stopped, fallback>>

\* top keeps what it held: the next BeginQuery clears it
Throw == Abort /\ UNCHANGED <<t, stopped, fallback, top, answer>>

SearchStep ==
  \/ \E i \in Ids : \/ VerifyDelta(i) \/ OfferCounted(i)
                    \/ VerifyAdmission(i) \/ VerifyFallback(i)
  \/ Stop \/ Probe
  \/ phase = "scan" /\ \E bucket \in SUBSET call.route[t].members : VisitBucket(bucket)
  \/ NextLoop \/ EndProbe \/ StartFallback \/ Finish

Next ==
  \/ \E c \in Calls : EmptyQuery(c) \/ BeginQuery(c)
  \/ SearchStep
  \/ Throw

\* the thread runs the search to its end; nothing makes it ask again or fail
Spec == Init /\ [][Next]_vars /\ WF_vars(SearchStep)

-----------------------------------------------------------------------------
\* Type correctness: what is offered to top, and answered, are the scored active
\* records of the call, and the position never leaves the route.
TypeOK ==
  /\ WTypeOK
  /\ t \in 1..Len(call.route) + 1
  /\ stopped \in BOOLEAN /\ fallback \in BOOLEAN
  /\ top \subseteq Hits(call, call.active)
  /\ \A a \in answer : a.of \in Calls /\ a.hits \subseteq Hits(a.of, a.of.active)

\* Only active records are ever scored: an erased record stays in its buckets,
\* and no path (bucket, delta list, fallback) lets it through.
OnlyActiveVerified ==
  phase # "idle" => touched \cup verified \subseteq call.active

\* top holds the k best of all records verified so far, whatever the order in
\* which the delta list, the batches and the fallback verified them.
TopIsBestOfVerified ==
  phase # "idle" => IsTop(call.k, top, Hits(call, verified))

\* Stopping early loses nothing: no active record of a cluster left unprobed,
\* nor one of equal score with a smaller id, could have entered the answer.
StopIsSafe ==
  phase # "idle" /\ stopped =>
    \A s \in t..Len(call.route) : \A i \in call.route[s].members \cap call.active :
      Scored(call, i) \in top \/ \A p \in top : Better(p, Scored(call, i))

\* Every search that answers returns min(k, active) hits, all of active records
\* and with their exact scores: the fallback makes up for what hashing missed.
AnswerIsFull ==
  \A a \in answer :
    /\ a.hits \subseteq Hits(a.of, a.of.active)
    /\ LET n == Cardinality(a.of.active)
       IN Cardinality(a.hits) = IF a.of.k <= n THEN a.of.k ELSE n

\* A record inserted out of range is in no table; if it belongs in the exact
\* answer, the search finds it all the same.
DeltaIsNeverMissed ==
  \A a \in answer : \A i \in a.of.delta \cap a.of.active :
    Scored(a.of, i) \in ExactHits(a.of) => Scored(a.of, i) \in a.hits

\* Every search ends, with an answer or by an exception.
SearchEnds == phase # "idle" ~> phase = "idle"
=============================================================================
