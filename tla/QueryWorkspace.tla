--------------------------- MODULE QueryWorkspace ---------------------------
(***************************************************************************)
(* The thread-local scratch state of one search thread                     *)
(* (search/query_workspace.hpp, struct QueryWorkspace).  It outlives the   *)
(* queries that use it: the per-record arrays are never cleared, a record  *)
(* is "observed", "verified", "a pool member" or "counted" only when its   *)
(* stamp equals the current generation.  The counters are 64-bit and are   *)
(* handled when they wrap; here they count modulo GenMod.                  *)
(*                                                                         *)
(* Next lets the caller use the operations in any order the search         *)
(* protocol allows, with collections of different sizes and pools of       *)
(* different capacities sharing the workspace.  WorkspaceSearch extends    *)
(* this module with the search that really calls them.                     *)
(***************************************************************************)
EXTENDS SearchCall

CONSTANT GenMod  \* the generation counters count modulo GenMod (2^64 in the code)

ASSUME GenModAssumption == GenMod \in Nat \ {0, 1}

VARIABLES
  call,                \* the call being answered, or the last one
  phase,               \* where in the search the thread is
  generation, cluster_generation,
  observed_stamp, verified_stamp, member_stamp, count_stamp,
  proxy, collisions,
  counted, touched, verified, admissions,
  pool,                \* the indexed heap, as the set of its <<proxy, id>> values
  m, scanned,          \* tables of the cluster being probed, and those read so far
  pending              \* the part of counted that update() has still to process

arrays == <<observed_stamp, verified_stamp, member_stamp, count_stamp,
            proxy, collisions>>
wvars == <<call, phase, generation, cluster_generation, arrays,
           counted, touched, verified, admissions, pool, m, scanned, pending>>

Ids == 0 .. call.n - 1

Entry(i)    == <<proxy[i], i>>
IsMember(i) == member_stamp[i] = generation
Seen(i)     == observed_stamp[i] = generation

-----------------------------------------------------------------------------
\* vector::resize keeps the common prefix and zero-fills what it adds
Resize(f, n) == [i \in 0..n-1 |-> IF i \in DOMAIN f THEN f[i] ELSE 0]
Zeros(n)     == [i \in 0..n-1 |-> 0]

\* ++counter on the unsigned type
Bump(counter) == IF counter = GenMod - 1 THEN 0 ELSE counter + 1
Wraps(counter) == Bump(counter) = 0

\* mutant: 0, the stamp of a record never seen, becomes a generation
ToZero(counter) == Bump(counter)

\* a wrapped counter goes on from 1
NextGeneration(counter) == IF Wraps(counter) THEN 1 ELSE Bump(counter)

\* the stamps guarded by a counter are refilled when it wraps
Restamped(f, counter, n) == IF Wraps(counter) THEN Zeros(n) ELSE Resize(f, n)

WInit ==
  /\ call \in Calls
  /\ phase = "idle"
  /\ generation = 0 /\ cluster_generation = 0
  /\ observed_stamp = Zeros(0) /\ verified_stamp = Zeros(0)
  /\ member_stamp = Zeros(0) /\ count_stamp = Zeros(0)
  /\ proxy = Zeros(0) /\ collisions = Zeros(0)
  /\ counted = {} /\ touched = {} /\ verified = {} /\ admissions = {}
  /\ pool = {} /\ m = 1 /\ scanned = 0 /\ pending = {}

\* begin(n): the arrays follow the collection's size; the generation guards
\* three of the stamp arrays
Begin(c) ==
  /\ phase = "idle"
  /\ call' = c /\ phase' = "ready"
  /\ generation' = NextGeneration(generation)
  /\ observed_stamp' = Restamped(observed_stamp, generation, c.n)
  /\ verified_stamp' = Restamped(verified_stamp, generation, c.n)
  /\ member_stamp'   = Restamped(member_stamp, generation, c.n)
  /\ count_stamp' = Resize(count_stamp, c.n)
  /\ proxy' = Resize(proxy, c.n)
  /\ collisions' = Resize(collisions, c.n)
  /\ counted' = {} /\ touched' = {} /\ verified' = {} /\ admissions' = {}
  /\ pool' = {} /\ pending' = {}
  /\ UNCHANGED <<cluster_generation, m, scanned>>

\* cluster(): a fresh cluster generation empties the collision counts
StartCluster(tables) ==
  /\ phase = "ready"
  /\ phase' = "scan"
  /\ m' = tables /\ scanned' = 0
  /\ counted' = {} /\ admissions' = {}
  /\ cluster_generation' = NextGeneration(cluster_generation)
  /\ count_stamp' = IF Wraps(cluster_generation) THEN Zeros(call.n) ELSE count_stamp
  /\ UNCHANGED <<call, generation, observed_stamp, verified_stamp, member_stamp,
                 proxy, collisions, touched, verified, pool, pending>>

\* mutant: collide() goes on from the count an earlier cluster left
Continued(i) == collisions[i] + 1

Collided(i) == IF count_stamp[i] = cluster_generation THEN collisions[i] + 1 ELSE 1

\* one table of the cluster: collide(id) for every active id of the bucket;
\* a bucket lists an id at most once
ScanTable(bucket) ==
  /\ phase = "scan" /\ scanned < m
  /\ scanned' = scanned + 1
  /\ collisions' = [i \in Ids |-> IF i \in bucket THEN Collided(i) ELSE collisions[i]]
  /\ count_stamp' = [i \in Ids |->
       IF i \in bucket THEN cluster_generation ELSE count_stamp[i]]
  /\ counted' = counted \cup
       {i \in bucket : count_stamp[i] # cluster_generation}
  /\ UNCHANGED <<call, phase, generation, cluster_generation, observed_stamp,
                 verified_stamp, member_stamp, proxy, touched, verified,
                 admissions, pool, m, pending>>

StartUpdate ==
  /\ phase = "scan" /\ scanned = m
  /\ phase' = "update" /\ pending' = counted
  /\ UNCHANGED <<call, generation, cluster_generation, arrays, counted, touched,
                 verified, admissions, pool, m, scanned>>

-----------------------------------------------------------------------------
\* update(): one iteration of its loop over counted, split by its branches

NewEntry(i) == <<Proxy(collisions[i], m, call.weight[i]), i>>

\* mutants: the erase comes after proxy[id] has changed, or is forgotten
PoolWithoutNew(i) == IF IsMember(i) THEN pool \ {NewEntry(i)} ELSE pool
PoolWithOld(i) == pool

\* pool.erase({-proxy[id], id}) is called before proxy[id] changes
PoolWithout(i) == IF IsMember(i) THEN pool \ {Entry(i)} ELSE pool

Improves(i) == ~Seen(i) \/ proxy[i] < NewEntry(i)[1]

Skip(i) ==
  /\ ~Improves(i)
  /\ UNCHANGED <<observed_stamp, touched, proxy, member_stamp, pool, admissions>>

\* what every improving offer does before the capacity test
Observe(i) ==
  /\ Improves(i)
  /\ observed_stamp' = [observed_stamp EXCEPT ![i] = generation]
  /\ touched' = touched \cup {i}
  /\ proxy' = [proxy EXCEPT ![i] = NewEntry(i)[1]]

\* mutant: a record observed before is not admitted again
AdmitUnseen(i) == admissions' = IF Seen(i) THEN admissions ELSE admissions \cup {i}

Admit(i) == admissions' = IF IsMember(i) THEN admissions ELSE admissions \cup {i}

\* the pool is full of better entries: the offer is only observed
Drop(i) ==
  /\ Observe(i)
  /\ Cardinality(PoolWithout(i)) = call.B
  /\ \E w \in PoolWithout(i) :
       IsWorst(w, PoolWithout(i)) /\ ~Better(NewEntry(i), w)
  /\ pool' = PoolWithout(i)
  /\ UNCHANGED <<member_stamp, admissions>>

\* the pool is full and its worst entry makes room
Evict(i) ==
  /\ Observe(i)
  /\ Cardinality(PoolWithout(i)) = call.B
  /\ \E w \in PoolWithout(i) :
       /\ IsWorst(w, PoolWithout(i)) /\ Better(NewEntry(i), w)
       /\ pool' = (PoolWithout(i) \ {w}) \cup {NewEntry(i)}
       /\ member_stamp' =
            [member_stamp EXCEPT ![w[2]] = 0, ![i] = generation]
  /\ Admit(i)

Insert(i) ==
  /\ Observe(i)
  /\ Cardinality(PoolWithout(i)) # call.B
  /\ pool' = PoolWithout(i) \cup {NewEntry(i)}
  /\ member_stamp' = [member_stamp EXCEPT ![i] = generation]
  /\ Admit(i)

Update(i) ==
  /\ phase = "update" /\ i \in pending
  /\ Skip(i) \/ Drop(i) \/ Evict(i) \/ Insert(i)
  /\ pending' = pending \ {i}
  /\ UNCHANGED <<call, phase, generation, cluster_generation, verified_stamp,
                 count_stamp, collisions, counted, verified, m, scanned>>

-----------------------------------------------------------------------------
StartVerify ==
  /\ phase = "update" /\ pending = {}
  /\ phase' = "verify"
  /\ UNCHANGED <<call, generation, cluster_generation, arrays, counted, touched,
                 verified, admissions, pool, m, scanned, pending>>

\* the stamp part of the verify lambda, for a record not verified before
Verify(i) ==
  /\ phase \in {"ready", "verify"}
  /\ verified_stamp[i] # generation
  /\ verified_stamp' = [verified_stamp EXCEPT ![i] = generation]
  /\ verified' = verified \cup {i}
  /\ UNCHANGED <<call, phase, generation, cluster_generation, observed_stamp,
                 member_stamp, count_stamp, proxy, collisions, counted, touched,
                 admissions, pool, m, scanned, pending>>

\* mutant: all of the batch is verified
Admitted == admissions

\* the loop over the admissions skips those evicted again by the same batch
Surviving == {i \in admissions : IsMember(i)}

EndCluster ==
  /\ phase = "verify"
  /\ \A i \in Surviving : verified_stamp[i] = generation
  /\ phase' = "ready"
  /\ UNCHANGED <<call, generation, cluster_generation, arrays, counted, touched,
                 verified, admissions, pool, m, scanned, pending>>

\* the answer is out: only the pool (and top) are cleared
End ==
  /\ phase = "ready"
  /\ phase' = "idle" /\ pool' = {}
  /\ UNCHANGED <<call, generation, cluster_generation, arrays, counted, touched,
                 verified, admissions, m, scanned, pending>>

\* an exception (a failed allocation, a throwing hook) leaves the search and
\* everything it had in the workspace; pending is a loop's position
Abort ==
  /\ phase # "idle"
  /\ phase' = "idle" /\ pending' = {}
  /\ UNCHANGED <<call, generation, cluster_generation, arrays, counted, touched,
                 verified, admissions, pool, m, scanned>>

WStep ==
  \/ \E tables \in 1..MaxTables : StartCluster(tables)
  \/ \E bucket \in SUBSET Ids : ScanTable(bucket)
  \/ StartUpdate
  \/ \E i \in Ids : Update(i)
  \/ StartVerify
  \/ \E i \in Ids : Verify(i)
  \/ EndCluster
  \/ End
  \/ Abort

WNext == (\E c \in Calls : Begin(c)) \/ WStep

WSpec == WInit /\ [][WNext]_wvars

-----------------------------------------------------------------------------
Cells == DOMAIN proxy
Stamp == 0..GenMod-1

\* Type correctness: the six arrays always have the same cells, one per record
\* of the collection while it is being searched, and every list holds ids of
\* that collection.
WTypeOK ==
  /\ call \in Calls
  /\ phase \in {"idle", "ready", "scan", "update", "verify"}
  /\ phase # "idle" => Cells = Ids
  /\ generation \in Stamp /\ cluster_generation \in Stamp
  /\ observed_stamp \in [Cells -> Stamp] /\ verified_stamp \in [Cells -> Stamp]
  /\ member_stamp \in [Cells -> Stamp] /\ count_stamp \in [Cells -> Stamp]
  /\ proxy \in [Cells -> Nat] /\ collisions \in [Cells -> Nat]
  /\ counted \subseteq Cells /\ touched \subseteq Cells
  /\ verified \subseteq Cells /\ admissions \subseteq Cells
  /\ pool \subseteq Nat \X Cells
  /\ m \in 1..MaxTables /\ scanned \in 0..m
  /\ pending \subseteq counted /\ (phase # "update" => pending = {})

-----------------------------------------------------------------------------
(***************************************************************************)
(* Stamps.  Nothing clears the arrays between queries, so a record's state *)
(* in this query is right only if no stamp of an earlier query, of another *)
(* collection, or of before a wrap can equal the current generation.       *)
(***************************************************************************)

\* No stamp runs ahead of its counter: what makes the next ++generation fresh.
StampsBounded ==
  \A i \in Cells :
    /\ observed_stamp[i] <= generation /\ verified_stamp[i] <= generation
    /\ member_stamp[i] <= generation /\ count_stamp[i] <= cluster_generation

\* During a query the stamps and the lists say the same: a record is touched,
\* verified or in the pool exactly when its stamp is the current generation.
StampsAgree ==
  phase # "idle" =>
    /\ generation > 0
    /\ \A i \in Ids : /\ observed_stamp[i] = generation <=> i \in touched
                      /\ verified_stamp[i] = generation <=> i \in verified
                      /\ member_stamp[i] = generation <=> Entry(i) \in pool

\* While a cluster is scanned and offered, the counts are this cluster's: a
\* count left by another cluster or query is never read.
CountsAreFresh ==
  phase \in {"scan", "update", "verify"} =>
    /\ cluster_generation > 0
    /\ \A i \in Ids : count_stamp[i] = cluster_generation <=> i \in counted
    /\ \A i \in counted : collisions[i] \in 1..scanned

\* Every pool entry carries its record's current proxy, so that
\* pool.erase({-proxy[id], id}) always finds what it is asked to remove and the
\* "indexed pool stale position" error of IndexedPoolHeap::erase cannot be raised.
NoStalePosition ==
  phase # "idle" => \A p \in pool : p = Entry(p[2]) /\ IsMember(p[2])

-----------------------------------------------------------------------------
(***************************************************************************)
(* The pool.  update() evicts as it goes, in the order of the collisions;  *)
(* what it keeps must not depend on that order.                            *)
(***************************************************************************)
Observed == {Entry(i) : i \in touched}

\* After every single offer the pool holds the B best of all the entries
\* observed in this query: no observed entry outside it beats one inside, and
\* it leaves room unused only when nothing at all was turned away.
PoolIsTopB ==
  phase # "idle" => IsTop(call.B, pool, Observed)

\* Every pool member is verified or about to be: a record that entered the pool
\* in some batch and stayed is never forgotten, however often it was evicted and
\* admitted again, and between clusters the whole pool has exact scores.
PoolGetsVerified ==
  /\ phase \in {"ready", "scan"} => \A p \in pool : p[2] \in verified
  /\ phase \in {"update", "verify"} =>
       \A p \in pool : p[2] \in verified \cup admissions

\* Within a query an observed proxy never falls and nothing observed or verified
\* is forgotten, through any number of clusters, evictions and re-admissions.
ProxiesOnlyRise ==
  [][phase # "idle" =>
       /\ touched \subseteq touched' /\ verified \subseteq verified'
       /\ \A i \in touched : proxy'[i] >= proxy[i]]_wvars
=============================================================================
