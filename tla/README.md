# CABS: a verification project

CABS is a C++ header library that answers maximum-inner-product queries over
sparse non-negative vectors approximately: vectors are expanded to random slot
sets ("sketches"), partitioned into spherical clusters, hashed per cluster by
Minhash, and a query verifies the exact scores of the candidates that collide
most. This directory holds TLA+ models of its core and of the programs around it, TLC
configurations that check them on small instances, and TLAPS proofs.

Line references are to the repository: headers in `include/cabs/`, the reference
search in `include/final_equivalence.hpp`, the program in `src/main.cpp`, the pipeline in
`scripts/`.

## 1. Inventory

| Component | State | Operations | What makes it correct |
|---|---|---|---|
| Query workspace `search/query_workspace.hpp` 9-71 | generation counters, six per-record arrays, four id lists, the pool heap, the dense query | `begin`, `cluster`, `collide`, `update`, `prepare_query` | nothing of an earlier query, collection or cluster is read; the pool is the best B |
| Workspace search `search/query_workspace.hpp` 74-124 | position in the route, top, statistics | `workspace_search` | active records only, top is the best of the verified, stopping is safe, the answer is full, it ends |
| Reference search `final_equivalence.hpp`, `search/working_pool.hpp` | a pool and a verified set of one query | `reference_search`, `reference_update`, `Pool::update`, `BoundedPool::update` | same routing, pools, verified records and answers as the workspace search |
| Record store `io/dataset_loader.hpp` 47-78 | records, document frequencies, active count | load, `append`, `erase` | conservation of the counts, fresh identifiers |
| Dynamic index `search/epoch_index.hpp` | epoch, scale, sketches, cardinalities, tables, delta list | `rebuild`, `refresh`, `insert`, `erase`, `update`, `release_sketch_cache`, `search` | every active record can be reached, bounds cover members, one epoch everywhere |
| Calibration `search/epoch_index.hpp` 23-52, 67-107, `calibration/configuration.hpp` | calibration queries, targets, B, floors, m | `configure_floors`, `hash_count`, `candidate_cost`, `calibrate_pool`, `estimate` | smallest B that keeps the reachable targets, m never 0, a conservative bound on memory |
| Partition `clustering/spherical_partition.hpp` | clusters with centroid, members, radius, cover, norm bound | `build`, `order`, `upper` | each record in its nearest cluster, bounds above the score of every member |
| Expansion, sketches `sketch/adaptive_sos.hpp` | slots per dimension, sketch sets | `allocate`, `encode`, `build` | exact slot budget, probabilities at most one |
| Minhash tables `minhash/local_index.hpp` | keys, offsets, ids, additions | `build`, `visit`, `signature` | a bucket holds exactly the members with its signature, once |
| Exact search `io/ground_truth.hpp` | a bounded heap | `exact` | the k best active records |
| Program `src/main.cpp` 109-264 | the command at hand, the ground truth and its cache file, identifiers of the dynamic command | `experiment`: ground truth, preflight, run, dynamic | a cache that is accepted is right; the index is used only as it allows |
| Data preparation `scripts/prepare_data.py` | the file NAME and NAME.part in a shared directory | `prepare`, `inspect`, `sha256` | a verified file stays whole, whoever else downloads or is interrupted |
| Reproduction `scripts/reproduce.py` | manifest, sources, build directory, complete.json | `main` | no run accepted whose inputs, sources or executable changed; a rerun completes |
| Data reader, reporting, self-test, audits, benchmarks | files | CSR reader, CSV, percentiles | input validation and computations on stored files; not core logic |

How they interact. `Index` owns a reference to the `Collection` and its own
sketches, partition and tables. `Index::search` calls `workspace_search`, which
only reads the index and writes one `thread_local QueryWorkspace`: the same
workspace serves every index and every query of the thread, one after another.
`rebuild` runs the calibration, which partitions the active records once per
candidate K and hashes them into temporary tables. The mutating operations are
sequential; `docs/METHOD.md:12` says that neither concurrent nor crash-consistent
service is implemented, so no interleaving of mutations, and no crash recovery of an
index, is modelled. What is hard in the library is state that outlives the operation that
made it: lazy clearing by stamps, tombstones, widened bounds, delta flags, epochs,
released caches, and exceptions halfway.

The program runs one command on one index: it computes the ground truth or reads the file an
earlier run left, builds, searches, and in `dynamic` inserts copies of its own records,
updates, erases and refreshes. Around it the pipeline downloads data, hashes sources, builds, measures and
writes a manifest. Here there is concurrency: several processes may prepare data in one directory, a developer edits and
builds while a run is on its way, and any of them may fail or be interrupted and be started again over the files it left.

`PROJECT.json` lists the hazards at the lines where they bite, with the
properties that would catch each going wrong.

## 2. Modules

    Ranking                   the order of records, proxies, the k best
      SearchCall              what a search reads
        QueryWorkspace        the thread's scratch state, used in any legal order
          DenseWorkspace      ... with the dense copy of the query
          WorkspaceSearch     the search that uses it
            SearchRefinement  ... refines ReferenceSearch
        ReferenceSearch       the search the tests compare with
      PoolSet                 what the pool promises
        PoolHeap              ... implemented by the heap with its positions
      ExactSearch             the bounded heap of exact()
        GroundTruth           the ground truth of an experiment and its cache file
      Calibration             K, floors, numbers of tables, B
    Collection                the record store (operators on a store value)
      EpochIndex              the dynamic index on it
        IndexSearch           ... and the routes and bounds its searches find
        Experiment            the program that uses it
    Partition                 Lloyd iterations, repair, spillover, bounds
    Allocation                slots by the largest remainder
    HashTable                 one Minhash table
    PrepareData               downloads that share a directory
      Reproduce               a reproduction run beside them
    Ranking_proofs <- WorkspaceSearch_proofs (with the workspace, the dense query and the refinement)
                   <- PoolHeap_proofs
                   <- Rebuild_proofs (Calibration, Allocation and HashTable)
                   <- ExactSearch_proofs (with GroundTruth)
                   <- EpochIndex_proofs (with IndexSearch and Experiment)
                   <- Partition_proofs
    Reproduce_proofs (with PrepareData)

`MC*` modules give the constants of a run their values. The three modules of a rebuild name their specifications apart (`Spec`, `AllocateSpec`,
`TableSpec`), so that `Rebuild_proofs` can extend all of them.

**SearchCall.** The index is constant during a search, so a search call is a
record of what it reads: activity, delta list, weights, exact scores, the route
with members, number of tables and bound of each cluster. `RouteAssumption` says that each call is a
`SoundRoute`, which is what the search takes for granted: a bound is above the score of every active member,
and every active record is in a cluster or in the delta list. That the index provides it is
`RoutesAreSound` of `IndexSearch`: the same operator, on the call a search would make between any two operations. Proxies `j/(1+j)*w` with `j = c/m` are
`c*w/(m+c)`, kept as integers in units of 1/Scale; TLC uses Scale = 6 so that the
fractions it meets with m <= 2 keep their order and their ties.

**QueryWorkspace.** One action per operation: `Begin` (`begin`, with `resize` and the
refill on wrap), `StartCluster` (`cluster`), `ScanTable` (the `collide` calls of a
table), `Update` (one iteration of `update`, split by its branches into `Skip`,
`Drop`, `Evict`, `Insert`), `Verify` (the stamps of the verify lambda), `EndCluster`,
`End`, and `Abort` for an exception anywhere. The 64-bit counters count modulo
`GenMod`, so that TLC meets the wrap within three queries. Here the heap is the set of
its values, with the worst the one all others precede; `PoolHeap` justifies that. The order in which
`counted` is worked off is free, which includes the order of the code.

**DenseWorkspace** adds the dense query: `prepare_query` clears the coordinates of the query before, resizes to the
collection's dimension and fills in the new ones; `exact_dense_dot` leaves its loop after the largest coordinate of the query. A collection
of another dimension, and a search left by an exception, lie between two queries.

**WorkspaceSearch** adds the control of `workspace_search`: delta list first, then the
route with the bound test, per cluster scan, update and verification of the surviving
admissions, the fallback, the answer. Which records a bucket holds depends on hashing: any
subset of the members. Verifications of a batch come in any order (the code sorts).
Counters for statistics, timings and the diagnostics hook are left out.

**ReferenceSearch / SearchRefinement.** `reference_search` verifies delta list, batch
and fallback in one step each, and cuts its pool after each batch. The refinement mapping
shows the reference the last settled state while the workspace search is inside such
a group; `settled` is a history variable that remembers it.

**Collection, EpochIndex.** A row is abstracted to its positive dimensions, its largest
value, its norm and an angle on an arc: the distance to a centroid is a difference of
two numbers. A sketch is the epoch whose seed made it, 0 if empty (`encode` may return the empty
set for any row, so this is a choice). Tables are sets of `<<id, epoch>>`. `rebuild`
is one action per outcome: empty collection (114), stale target (125),
partition without a row for some centroid (77), stopped by the resource guard, by an unrepresentable
hash count or by preflight (56, 38, 155), done; `refresh` the same with its clean-up (199-202). Which centroids the Lloyd
iterations end with is open: any in `Angles`. `insert` is split into the delta and the indexed case, `update`
is `erase` then `insert`, with the erasure staying when the row is rejected.
An insertion that would index `tables` outside its range (after a failed rebuild) is
left out: the code leaves it undefined. `Experiment` shows that the program does not get there.
After a rebuild that threw, `CacheIsTrue` and `RoutesAreSound` say nothing until one ends well (`Built`); `DeltaCoherent` holds all the while.
`Bounded` stops the exploration at `MaxWork`, counted in records and epochs.

**IndexSearch** adds what a query finds: the route of `Partition::order`, sorted by the inner product with the centroids, and the bound of
`Partition::upper` from cover and norm bound, for queries along the arc. The route is the one sorted list of the clusters, ties by number. It only defines operators on the state of `EpochIndex`.

**Experiment** is `experiment` of `main.cpp` as a user of the index: which operations the commands call, in which order, on
which identifiers, and what an exception leaves. The i-th copy the dynamic command inserts is of record i, which is itself a copy
when the collection is small. Insertions, updates and erasures are those of `EpochIndex`, and values are in hundredths, so that the factors
0.9, 0.8 and 1000 of the code are exact enough. `Constructed` gives the outcomes of a rebuild without the stale target (125): `exact`
has just computed the targets.

**GroundTruth** is `main.cpp` 130-168 over several runs: `exact` for every query of the split, or the file `ground_truth.csv` read line by
line, with the checks on rank, identifier, score and order; then the file is written in place, whole or up to some line, the last one cut
short or not. A run differs from the one before in split, `kmax` and the part of the corpus (`--limit`). The file given may also be
no such file at all: then any line may follow, with any of the scores `FileScores`.

**PoolSet, PoolHeap.** `PoolHeap` is `IndexedPoolHeap` array by array: `values`, the
`position` of each record (kept when a record leaves), and the sift loop that runs.
An operation is one step for its assignments and one for each iteration of its loop, so the
loop invariant `OrderedButFor`, on which the proofs rest, speaks of the states between. `PoolSet` is the
set of entries `QueryWorkspace::update` believes in; `ImplementsPool` maps `held`
to the range of `values`. The history variable `asked` is the entry the caller
wants removed, so that removing another one is not mistaken for it.

**ExactSearch** is the loop of `exact`, a record a step.

**Calibration** is the part of `rebuild` after the sketches: the candidates K, `configure_floors` target by
target, `hash_count`, the cheapest candidate, `calibrate_pool` cluster by cluster. Similarities are j/Unit
and delta_h is a fraction, so that `Suffices` (a power of 1 - j at most delta_h) is exact. What a partition and
a table return, and what a measurement says, is any value of the constants. `GiveUp` stands for
the points where it throws: a cluster empty in the end (`PartitionThrows`), a hash count that cannot be represented (`HashCountThrows`), the resource
guard (`GuardThrows`).

**Partition** is `Partition::build`: directions are points of an arc (the cosine falls with the distance), the centroid is the mean of its
members, and the parallel loops are one step each, since they write disjoint elements.
`UpperIsSafe` states in distances and norms what `upper` computes.

**HashTable** is `signature`, `Table::build`, `visit` and the additions of `Index::insert`; the hash is any permutation of the slots.
`Ascending` lists a set of numbers in order, as the loops over slots do, and `Capacity` is what `push_back` has grown an array to.
`Bytes` is what the arrays keep, with the capacity `push_back` grows them to, `Estimate` the table's part of `Index::estimate`.

**Allocation** is `Expansion::allocate` in exact arithmetic; the remainders are handed out one a step.

**PrepareData** is `prepare` for one file: look, download into `NAME.part`, inspect and hash it, rename, inspect and hash again. The directory has
names that refer to inodes: opening for writing truncates the inode a name has at that moment, and a process goes on with the inode it opened, whatever
becomes of the name. Reading and writing is block by block, and every process may be interrupted between any two steps. The history
variables `verified` and `overlap` remember that some process found the file good under its final name, and that two
downloaded at the same time.

**Reproduce** makes one of these processes go on as `reproduce.py` does: the new output directory, hashes of the sources and of the
pipeline files file by file, a clean build file by file, the check of the sources after the build, those of sources and pipeline after the measurement, the manifest and `complete.json` written in place. Beside it a
developer edits these files and runs `make` in the build directory (one step) at any moment. `Refuses` is a check that fails, `Fail` an exception that the
script catches, `Die` a death that it does not, which leaves a torn file if it was writing one. The build reads sources and pipeline files; of the latter this is true of `CMakeLists.txt`
only, so scripts and configurations, hashed with it, are left out. An edit of `CMakeLists.txt` during the build is noticed after the measurement only.

The definitions commented as mutants are not part of a model; each is the plausible
mistake that a property is shown to notice.

## 3. Runs

| Run | Checks | Bounds and why they suffice |
|---|---|---|
| `query_workspace` | `StampsAgree`, `CountsAreFresh`, `NoStalePosition`, `PoolGetsVerified`, `DenseIsSparse` | collections of 1 and 2 records and dimensions alternate, B = 1 with 2 records forces eviction and re-admission, counters wrap at 3, m <= 2; any legal use, exceptions anywhere |
| `workspace_search` | `PoolIsTopB`, `TopIsBestOfVerified`, `StopIsSafe`, `AnswerIsFull`, `DeltaIsNeverMissed`, `ImplementsReference`, `SearchEnds` | five calls, one after another on one workspace: more candidates than pool places with overlapping clusters, tied scores and a bound that ties with the k-th; delta, tombstone and fallback; a delta record that stops the search at once; fewer active records than k with an erased one in the bucket; empty sketch; exceptions anywhere |
| `epoch_index` | `StoreCounts`, `DeltaCoherent`, `Reachable`, `CacheIsTrue`, `RoutesAreSound`, `InsertedAsBuilt`, `BoundsGrowWithinEpoch` | two rows loaded, identifiers up to 4 (so `append` also runs out of them, and the second insertion after a build is decided where the first has widened a cover), two epochs, one or two clusters, queries on and beyond the arc of the rows |
| `pool_heap` | `WorstInFront`, `PositionsTrue`, `ImplementsPool` | up to six entries: the fewest with which an entry moved into a hole has to rise; two proxies, so ties by identifier occur; collections of 1 and 6 |
| `calibration` | `FloorsGuaranteeRecall`, `PoolSuffices`, `PoolIsLeast` | three records, four target sets: unlike similarities in one cluster, a target shared by two queries, none positive, one that needs too many tables; K up to 3, two costs |
| `partition` | `RepairSucceeds`, `ConvergedIsFinal`, `UpperIsSafe` | four records on four directions (duplicates, ties), K up to 4, so that three clusters can be empty at once; three iterations |
| `lloyd_budget` | `BudgetCanHelp`, violated | as `partition` |
| `ground_truth` | `ExactIsBest`, `TruthIsRanked`, `CacheIsExact` | two queries, one with tied scores and one whose best record is outside the smaller corpus, corpora of 2 and 3, kmax 1 and 2, every split; a file from elsewhere may say 11 for 10, so that a record can be listed with two scores that are near enough; three runs, so that a cache is written from a cache and read again |
| `hash_table` | `VisitsItsBucket`, `BytesWithinEstimate` | three slots in every order, three records with any sketch, up to two added later; `TableSize` is the least `Estimate` can rely on |
| `allocation` | `RemaindersSuffice` | four dimensions, frequencies 0 to 4, ell from 0 to 5, a universe that ell = 5 exceeds |
| `experiment` | `InsertsFindTables`, `ErasesFindRecords`, `LeavesTheLoaded` | one or two records loaded and up to three operations: copies of copies and of both rows, identifiers that run out, every outcome of build and refresh |
| `reproduce` | `VerifiedStaysWhole`, `AcceptedIsRecorded`, `RerunCompletes` | two processes, two blocks (so that a file can lack its first or its last), two sources and one pipeline file, one edit, any number of `make`, one interruption anywhere, any number of reruns |

Bounds, by name: `Calls` (the searches), `MaxTables`, `Scale`, `GenMod`, `DimOf`, `Values`; `Rows`, `Loads`,
`Dims`, `NullSlot`, `Angles`, `MaxEpoch`, `MaxWork`, `QueryAngles`, `Cos`, `MaxOperations`; `Sizes`, `Proxies`, `Capacity`; `Sets`, `Partitions`,
`Costs`, `Scans`, `ScoreOf`, `Limits`, `KMaxes`, `FileScores`, `Tol`, `Digit`, `MaxRuns`; `MaxIterations`, `Queries`, `MaxAdded`, `TableSize`, `Ells`;
`Procs`, `Runner`, `Blocks`, `MaxInterrupts`, `Sources`, `MaxEdits`. Deadlock checking is off where what is modelled
ends (`partition`, `lloyd_budget`, `calibration`, `ground_truth`, `hash_table`, `allocation`); a program that has ended stutters in `experiment`.

`lloyd_budget` is the one finding. When the final assignment leaves a cluster empty, the code throws "Empty final
primary cluster; increase Lloyd iteration budget" (`clustering/spherical_partition.hpp:77`). `BudgetCanHelp` says
that in that case the last iteration still moved a centroid. With records of
equal direction in more clusters than there are directions this is false: all of them are assigned to the first of
the equal centroids, repair moves one to the empty cluster, no centroid moves, and the next iteration
does the same again; the final assignment does not repair. Calibration can meet this with duplicate rows, since its largest
candidate K is the number of distinct positive targets.

Four limits of the code that the properties of the pipeline and of the cache show by the condition they need:

- `CacheIsExact` asks for `from >= n`. A cache computed under a smaller `--limit` passes every check of the reader (ranks, identifiers, scores, order) though
  better records have come in; `docs/REPRODUCIBILITY.md:103` says that ground truth is corpus-specific, and nothing in the file records which corpus.
- `TruthIsRanked` asks for different records only where the scores were computed (`from > 0`). Each line of a cache is compared with the line before,
  and its score with the record's up to a tolerance (`main.cpp:155-157`); a file from elsewhere that lists a record twice, with a slightly lower score the second
  time, is therefore taken, although line 157 reports a "sorting/duplicate error". The attempt to prove the property found this.
- `VerifiedStaysWhole` is for two processes at a time. With three, one can truncate, as `.part`, the inode that a second has verified and a third renames.
- `RerunCompletes` is for behaviours without overlapping downloads. Two of them can leave a broken file under the final name;
  every later run then finds it there, refuses it and never downloads it again.

What is on record can also be less than it says in three ways. An edit that is undone between two of the hashes is not seen (an edit here gives a
version that never was before, so the models leave this out), and the configuration is read (`reproduce.py:39`) before it is hashed (64; left out too). A failure
after the last save leaves a `complete.json` with the hash of a manifest that has since become "failed"; the model has it, and `AcceptedIsRecorded` allows it.

Fairness. `HSpec` has weak fairness of `SearchStep` only, as `Spec` of `WorkspaceSearch` has: the thread that runs a
search executes its next statement. It does not make anyone begin a query nor any exception happen. `Spec` of `Reproduce` has weak
fairness of each process's `Prepare` and of `RunStep`, for processes that are not stopped go on, and strong fairness of the runner's
start with the network: someone starts the run again whenever it has ended. Interruptions and edits are bounded and nothing makes them happen.
No other specification has fairness.

## 4. Proofs

TLAPS checks everything below, for every value of the constants that the modules' named assumptions allow. A proof follows one pattern:
an inductive invariant, named `...Inv`, of the named parts; a lemma per action; and the checked property as a consequence.

`Ranking_proofs`: the pair order is a strict total order, and cutting a set to its best n one element at a time keeps it the
best n of everything seen (`TopKeepsOut`, `TopReplacesWorst`, `TopTakes`). Pool, top and the heap of `exact` rest on these three;
`RankingExists` and the lemmas around it, that a finite set can be sorted, on the least-element principle alone.

| Module | Theorems | Property of a run |
|---|---|---|
| `WorkspaceSearch_proofs` | `StampsNeverStale`, `NoStaleErase`, `PoolKeepsTheBest`, `AdmissionsSuffice`, `NoStaleCounts`, `DenseScoresAreExact` | `StampsAgree`, `NoStalePosition`, `PoolIsTopB`, `PoolGetsVerified`, `CountsAreFresh`, `DenseIsSparse` |
| | `WorkspaceTypes`, `ProxiesNeverFall` | types, and that a proxy only rises |
| | `TopKeepsTheBest`, `StoppingIsSafe`, `AnswersAreFull`, `DeltaIsAlwaysFound`, `SearchIsReference` | `TopIsBestOfVerified`, `StopIsSafe`, `AnswerIsFull`, `DeltaIsNeverMissed`, `ImplementsReference` |
| | `SearchKeepsProtocol`, `SearchTypes`, `ErasedNeverVerified` | the search uses the workspace legally; only active records are verified |
| `PoolHeap_proofs` | `PlacesAreTrue`, `FrontIsWorst`, `HeapIsPool`; `LoopKeepsOrder` | `PositionsTrue`, `WorstInFront`, `ImplementsPool` |
| `ExactSearch_proofs` | `ExactReturnsTheBest`, `TruthIsComputed`, `TruthStaysRanked`, `CacheStaysExact`; `HeapKeepsTheBest` | `ExactIsBest` (alone and in an experiment), `TruthIsRanked`, `CacheIsExact` |
| `EpochIndex_proofs` | `CountsAreRight`, `DeltaListIsRight`, `RecordsAreReachable`, `InsertsLikeBuild`, `CacheStaysTrue`, `IndexIsSearchable`, `PartitionOnlyGrows` | `StoreCounts`, `DeltaCoherent`, `Reachable`, `InsertedAsBuilt`, `CacheIsTrue`, `RoutesAreSound`, `BoundsGrowWithinEpoch` |
| | `ProgramHasTables`, `ProgramErasesActive`, `ProgramLeavesTheLoaded` | `InsertsFindTables`, `ErasesFindRecords`, `LeavesTheLoaded` |
| `Partition_proofs` | `RepairsSucceed`, `RestIsFinal`, `UpperBoundsHold` | `RepairSucceeds`, `ConvergedIsFinal`, `UpperIsSafe` |
| `Rebuild_proofs` | `TablesRecallTargets`, `CalibratedPoolSuffices`, `CalibratedPoolIsLeast` | `FloorsGuaranteeRecall`, `PoolSuffices`, `PoolIsLeast` |
| | `LookupsMeetTheirBucket`, `TablesWithinEstimate`, `FloorsLeaveRemainders` | `VisitsItsBucket`, `BytesWithinEstimate`, `RemaindersSuffice` |
| `Reproduce_proofs` | `VerifiedIsWhole`, `AcceptedIsMeasured` | `VerifiedStaysWhole`, `AcceptedIsRecorded` |

Why the invariants are as strong as they are:

- *Workspace* (`WInv`). The pool is the best B of what is observed only because each pool value is its record's current proxy
  (`NoStalePosition`), which holds only because membership stamps agree with the pool (`StampsAgree`), which survives the next `begin` only
  because no stamp is ahead of its counter (`StampsBounded`).
- *Dense query* (`DenseInv`). Between searches all that is known of the array is that it is zero outside the coordinates it was last given; a new query
  takes back those and no others. The two inner products are sums over different sets of coordinates, and the terms that only one has are zero (`SumLeavesOut`).
- *Search* (`SInv`). Every step of the search is a step of `WNext` or leaves the workspace alone, so the workspace's theorems hold of the search.
  Added are: only active records are counted, admitted or verified; top is the best of the verified; once stopped, position and top stay. That an
  answer is full needs where each record was verified: what the delta list, the clusters before the present one and the fallback have left.
- *Refinement* (`RInv`). The reference takes the delta list, a batch or the fallback at once. Each step of the workspace search is either inside such a
  group, when the mapping shows what `settled` remembers, or ends one: then what it verified is what the reference verifies, and the pools,
  cut at different times, are the same k best.
- *Heap* (`HInv`). The order in the array alone is not inductive: positions must be true for `erase` to remove from the place it means, and only one place may be
  out of order for the sifts to mend it, with its parent and its children in order with each other. One lemma per loop and operation
  says what it does to the set of entries. `FrontIsWorst` descends to the parent from the least place that would be worse than the root.
- *Ground truth* (`TInv`). A hit that was computed, in this run or an earlier one, stands at its exact rank among the first `from` records
  (`RanksAt`: so many hits are better). That is what survives being written, cut short, read under another split or kmax and written again; ranks among more
  records are ranks among fewer if those hits are all there (`FewerRankAlike`), and no two records share one (`RankIsUnique`), so equal ranks
  give equal lists. The lines of the file carry the same claim (`FileLines`).
- *Index* (`IndexInv`). Counts, delta list and flags, one epoch in sketches, tables and clusters, covers and norm bounds above every
  member, radii of the build: none is inductive without the others, since `insert` reads the bounds that decide between table and delta list, and `erase` the
  flags. Routes are sound from it and `CosAssumption`.
- *Program* (`ProgramInv`, on top of it). Which identifiers are copies, which the update replaced, and that records up to the load are untouched.
- *Partition* (`PInv`). Counts are those of `primary`, and every cluster that was filled stays so; sums over clusters are compared by a least
  counterexample, as there is no induction to use. `PartitionAssumption` asks for one iteration at least, as `main.cpp:119` does.
- *Calibration* (`CalibrationInv`). `min_rank` is the least rank a target of the current query had in any prefix, 0 while it was not met; for queries whose
  last cluster was visited the capacity is at least that of each target, and above kmax it is exactly that of one. That ranks are
  defined at all needs a number of tables in every cluster of the selected partition (`Selected`), so that every proxy is a number.
- *Floors* (`FloorInv`). A floor is below the similarity of every target seen so far in its cluster, and what suffices at the floor
  suffices above it, since powers grow with their base (`PowersGrow`). The prover knows nothing of `^`, so the model's `power` is a recursive function.
- *Table* (`TableInv`). A member's place is one more than the number of members ahead of it: those of smaller signatures, and earlier ones of the same
  (`PlaceOf`). Cursors alone are not inductive; that a cursor stands at its bucket's start plus the members of the bucket placed so far (`Filled`) is,
  so the next member goes to its place (`CursorAt`), which no other has (`PlacesApart`). When all are placed, the places between two offsets
  are those of one signature, each taken, by counting (`BucketIsFull`). Additions keep to records that are not members.
- *Bytes of a table*. There are at most as many keys as members and as slots (`KeysBounded`), and an array that `push_back` has grown to n > 1 entries has room for
  at most 2n - 2 (`CapacityIs`), so the two arrays stay within the 16 bytes a key; with no keys at all the one offset is within `sizeof(Table)`.
- *Allocation* (`AllocationInv`). The shares add up to the extra slots, so what the floors leave is the sum of the remainders, each less than one slot
  (`LeftByFloors`); a slot for a remainder then takes one from the budget and one dimension from those without (`RemainderLeaves`). Sums over a set do not depend on the element
  that is taken first (`SumOfTakes`).
- *Pipeline* (`DataInv`, `RunInv`). Which inode each process holds, what of it may still be written, and by whom; for the run, that hash, build, check
  and measurement came in that order, so that a change in between shows in the version. Both theorems assume `Cardinality(Procs) <= 2`: with three
  processes the property fails (section 3).

Left to TLC: liveness (`SearchEnds`, `RerunCompletes`), which is out of the prover's reach, and `BudgetCanHelp`, which is false. Every other property of a run is a theorem. Of
recursive functions (the flattening of a file's lines, the powers, the growth of an array) existence, membership, order and bounds are proved, by the least index at which they
would fail. The proofs about tables and slots are for exact arithmetic and for counts without a width, as their models are.

## 5. Not modelled

Floating-point rounding (`outward` widening is taken to work), hashing quality and recall (probabilistic; `encode` draws random slots),
statistics and timing, the CSR reader (it maps and validates a file and keeps no state of its own), options, measuring loops and output files of
the program, its self-test, reporting, benchmarks, examples. The parallel loops write disjoint elements and join before their results are read; they are taken as one step.
Calibration is an open choice in `EpochIndex`. Of the byte estimate of the resource guard only the tables' part is modelled, not that of sketches and centroids;
elsewhere the guard may refuse or not. The two pools that only the tests run beside the
reference (`BoundedPool`, the incremental `Pool`) are left out. In the pipeline, the audits (`evaluate.py`, `verify_artifacts.py`, `audit_calibration.py`) and the pilot
compute on stored files; a second reproduction run in the same build directory and a `make` that stops half-way are not modelled.

## 6. Plan

1. *Composition.* `EpochIndex` with `Calibration` and `Partition` in place of its open choices; `QueryWorkspace` on `PoolHeap`.
2. *Pools of the tests.* `BoundedPool` and the incremental `Pool` against the pool of the reference.
