-------------------------- MODULE SearchRefinement --------------------------
(***************************************************************************)
(* workspace_search gives what reference_search gives, cluster by cluster. *)
(* The reference verifies the delta list, a whole batch or the fallback in *)
(* one step; while the workspace search is in the middle of one of these,  *)
(* the reference is still where it was before it.  settled is a history    *)
(* variable that remembers that state.                                     *)
(***************************************************************************)
EXTENDS WorkspaceSearch

VARIABLE settled

Fresh   == [observed |-> {}, ordered |-> {}, verified |-> {}]
Current == [observed |-> Observed, ordered |-> pool, verified |-> verified]

\* between two of the reference's steps
Settled == /\ phase = "ready" /\ DeltaDone
           /\ fallback => call.active \subseteq verified

HInit == Init /\ settled = Fresh

HNext == /\ Next
         /\ settled' = IF Settled' THEN Current'
                       ELSE IF phase = "idle" /\ phase' = "ready" THEN Fresh
                       ELSE settled

HSpec == HInit /\ [][HNext]_<<vars, settled>> /\ WF_vars(SearchStep)

Reference == INSTANCE ReferenceSearch WITH
  running  <- phase # "idle",
  fallback <- fallback /\ call.active \subseteq verified,
  observed <- settled.observed,
  ordered  <- settled.ordered,
  verified <- settled.verified

\* Incremental eviction, stamps and admissions change nothing: routing, stopping,
\* the observed proxies, the pool and the verified records after every cluster,
\* the fallback and the answer are those of the reference search, for every
\* order in which a batch is offered.
ImplementsReference == Reference!Spec
=============================================================================
