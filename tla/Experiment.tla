----------------------------- MODULE Experiment -----------------------------
(***************************************************************************)
(* The program's use of the index (main.cpp, experiment): the commands     *)
(* preflight, run and dynamic build an index over the loaded collection;   *)
(* dynamic then inserts, updates and erases copies of its own records and  *)
(* refreshes.  The searches in between change nothing in the index and are *)
(* left out.  An exception ends the program.                               *)
(***************************************************************************)
EXTENDS EpochIndex

CONSTANT MaxOperations  \* bound on --dynamic-operations explored

ASSUME OperationsAssumption == MaxOperations \in Nat \ {0}

VARIABLES
  command, keep_cache, operations,  \* command line
  pc,
  loaded,    \* history: the collection as it was loaded
  inserted,  \* identifiers, as a sequence
  delta, updated,
  erased     \* how many of the records to erase are erased

program == <<command, keep_cache, operations, loaded>>
pvars   == <<program, pc, inserted, delta, updated, erased>>

\* copy_row: the values scaled by num / den
Copy(row, num, den) ==
  [row EXCEPT !.max = (@ * num) \div den, !.length = (@ * num) \div den]

PInit ==
  /\ Init
  /\ command \in {"preflight", "run", "dynamic"}
  /\ keep_cache \in BOOLEAN /\ operations \in 1..MaxOperations
  /\ pc = "build" /\ loaded = data
  /\ inserted = <<>> /\ delta = 0 /\ updated = 0 /\ erased = 0

-----------------------------------------------------------------------------
Completes(construction, full, mu) ==
  \/ construction = "preflight" /\ RebuildStopped(full, mu)
  \/ construction = "rebuild" /\ RebuildDone(full, mu)
  \/ construction = "refresh" /\ RefreshDone(full, mu)

\* it ends with all done, or with an exception at a partition or at the resource
\* guard.  No target is stale: exact found them.
Constructed(construction, then, thrown) ==
  \E full \in SUBSET Active :
    \E K \in UNION {Candidates(distinct) : distinct \in 0..Cardinality(full)} :
      \E mu \in [1..K -> Angles] :
        \/ Completes(construction, full, mu) /\ pc' = then
        \/ RebuildUnfilled(full, mu) /\ pc' = thrown
        \/ RebuildStopped(full, mu) /\ pc' = thrown

Preflight ==
  /\ pc = "build" /\ command = "preflight"
  /\ Constructed("preflight", "done", "failed")
  /\ UNCHANGED <<program, inserted, delta, updated, erased>>

AfterBuild == IF command = "run" /\ ~keep_cache THEN "release" ELSE "query"

\* mutant: the handler that writes the candidates does not throw on
BuildCaught ==
  /\ pc = "build" /\ command # "preflight"
  /\ Constructed("rebuild", AfterBuild, AfterBuild)
  /\ UNCHANGED <<program, inserted, delta, updated, erased>>

Build ==
  /\ pc = "build" /\ command # "preflight"
  /\ Constructed("rebuild", AfterBuild, "failed")
  /\ UNCHANGED <<program, inserted, delta, updated, erased>>

Release ==
  /\ pc = "release" /\ ReleaseSketchCache
  /\ pc' = "query"
  /\ UNCHANGED <<program, inserted, delta, updated, erased>>

Query ==
  /\ pc = "query"
  /\ pc' = IF command = "dynamic" THEN "insert" ELSE "done"
  /\ UNCHANGED <<vars, program, inserted, delta, updated, erased>>

-----------------------------------------------------------------------------
\* a row of the model is one that append accepts: only identifiers run out
Rejected(row) == ~Accepts(data, row) /\ pc' = "failed" /\ UNCHANGED vars

\* the i-th copy is of the i-th record, which may be a copy itself
InsertCopy ==
  /\ pc = "insert" /\ Len(inserted) < operations
  /\ LET row == Copy(Row(Len(inserted) + 1), 9, 10)
     IN \/ /\ Insert(row)
           /\ inserted' = Append(inserted, Size + 1)
           /\ pc' = IF Len(inserted') = operations THEN "delta" ELSE "insert"
        \/ Rejected(row) /\ UNCHANGED inserted
  /\ UNCHANGED <<program, delta, updated, erased>>

InsertLarge ==
  /\ pc = "delta"
  /\ LET row == Copy(Row(1), 1000, 1)
     IN \/ Insert(row) /\ delta' = Size + 1 /\ pc' = "update"
        \/ Rejected(row) /\ UNCHANGED delta
  /\ UNCHANGED <<program, inserted, updated, erased>>

UpdateFirst ==
  /\ pc = "update"
  /\ LET row == Copy(Row(2), 8, 10)
     IN /\ Update(inserted[1], row)
        /\ IF Accepts(data, row) THEN updated' = Size + 1 /\ pc' = "erase"
                                 ELSE pc' = "failed" /\ UNCHANGED updated
  /\ UNCHANGED <<program, inserted, delta, erased>>

\* mutants: the updated record is erased again, its successor is forgotten
VictimsFromFirst  == <<delta>> \o inserted \o <<updated>>
VictimsButUpdated == <<delta>> \o Tail(inserted)

\* the first of the inserted records is gone since its update
Victims == <<delta>> \o Tail(inserted) \o <<updated>>

EraseNext ==
  /\ pc = "erase"
  /\ LET victim == Victims[erased + 1]
     IN \/ /\ Erase(victim)
           /\ erased' = erased + 1
           /\ pc' = IF erased' = Len(Victims) THEN "refresh" ELSE "erase"
        \/ ~IsActive(data, victim) /\ pc' = "failed" /\ UNCHANGED <<vars, erased>>
  /\ UNCHANGED <<program, inserted, delta, updated>>

Refresh ==
  /\ pc = "refresh"
  /\ Constructed("refresh", "done", "failed")
  /\ UNCHANGED <<program, inserted, delta, updated, erased>>

\* the process is gone
Ended == pc \in {"done", "failed"} /\ UNCHANGED <<vars, pvars>>

PNext == \/ Preflight \/ Build \/ Release \/ Query
         \/ InsertCopy \/ InsertLarge \/ UpdateFirst \/ EraseNext \/ Refresh
         \/ Ended

PSpec == PInit /\ [][PNext]_<<vars, pvars>>

-----------------------------------------------------------------------------
\* insert() indexes the tables by the clusters and does not ask whether a build
\* left tables behind: the program gets there only with a table per cluster.
InsertsFindTables ==
  pc \in {"insert", "delta", "update"} => Built /\ Len(tables) = Len(clusters)

\* erase() throws on a record that is erased already: after insertions, some of
\* copies, and an update that gave one of them another identifier, each
\* identifier the program erases is that of an active record.
ErasesFindRecords == pc = "erase" => IsActive(data, Victims[erased + 1])

\* The refresh recomputes its targets for the records it finds: these are those
\* loaded, with the document frequencies of the load, whatever was inserted out
\* of range, updated and erased before it, and the tables it leaves hold no other.
LeavesTheLoaded ==
  /\ pc = "refresh" =>
       /\ Active = ActiveIds(loaded) /\ delta_ids = {}
       /\ data.df = loaded.df /\ data.active = loaded.active
       /\ \A i \in Active : data.records[i] = loaded.records[i]
  /\ pc = "done" /\ command = "dynamic" =>
       \A c \in DOMAIN tables :
         /\ clusters[c].ids \subseteq ActiveIds(loaded)
         /\ tables[c] \subseteq ActiveIds(loaded) \X {epoch}
=============================================================================
