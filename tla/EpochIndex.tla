----------------------------- MODULE EpochIndex -----------------------------
(***************************************************************************)
(* The dynamic index (search/epoch_index.hpp, class Index): build, insert, *)
(* erase, update, refresh and release of the sketch cache, with the points *)
(* at which they throw.                                                    *)
(*                                                                         *)
(* A sketch is represented by the epoch whose seed and scale encoded it, 0 *)
(* for the empty sketch; which rows hash to an empty sketch is open.  A    *)
(* cluster's hash tables are represented by the set of <<id, epoch>> of    *)
(* the sketches they were filled from.  Directions lie on an arc, so that  *)
(* the angle between a row and a centroid is the distance of two numbers.  *)
(***************************************************************************)
EXTENDS Collection

CONSTANTS
  Loads,     \* the sequences of rows a collection is loaded with
  Angles,    \* the angles centroids are drawn from
  MaxEpoch,  \* bound on the number of rebuilds explored
  MaxWork    \* bound on records and rebuilds together

ASSUME EpochAssumption ==
  /\ Loads \subseteq Seq(Rows)
  /\ Angles \subseteq Nat /\ Angles # {}
  /\ MaxEpoch \in Nat /\ MaxWork \in Nat

VARIABLES
  data,            \* the Collection
  epoch, scale,    \* expansion.seed is derived from epoch
  sketch,          \* sketches.sets
  complete,        \* sketch_cache_complete
  cardinal,        \* per record, the epoch of the sketch whose size it holds
  clusters, primary, secondary,  \* the Partition; 0 stands for -1
  tables,          \* one set of entries per cluster, <<>> when there are none
  delta_ids

vars == <<data, epoch, scale, sketch, complete, cardinal, clusters, primary,
          secondary, tables, delta_ids>>

Size == Len(data.records)
Row(i) == data.records[i].row
Active == ActiveIds(data)
Built == tables # <<>>
Bounded == Size + epoch < MaxWork

SetMax(S) == CHOOSE x \in S : \A y \in S : y <= x
Larger(a, b) == IF a >= b THEN a ELSE b
Dist(a, b) == IF a >= b THEN a - b ELSE b - a

\* vector::resize of a per-record array
Padded(f, n, zero) == [i \in 1..n |-> IF i \in DOMAIN f THEN f[i] ELSE zero]

\* the centroid with the largest cosine, the first of them on a tie
Nearest(angle, mu, among) ==
  CHOOSE c \in among : \A d \in among :
    Dist(angle, mu[c]) < Dist(angle, mu[d])
      \/ (Dist(angle, mu[c]) = Dist(angle, mu[d]) /\ c <= d)
First(angle, mu)  == Nearest(angle, mu, DOMAIN mu)
Second(angle, mu) == LET others == DOMAIN mu \ {First(angle, mu)}
                     IN IF others = {} THEN 0 ELSE Nearest(angle, mu, others)

Init ==
  /\ data \in {Loaded(rows) : rows \in Loads}
  /\ epoch = 0 /\ scale = 0
  /\ sketch = <<>> /\ complete = TRUE /\ cardinal = <<>>
  /\ clusters = <<>> /\ primary = <<>> /\ secondary = <<>>
  /\ tables = <<>> /\ delta_ids = {}

-----------------------------------------------------------------------------
(***************************************************************************)
(* Partition::build on the active records, for the centroids its Lloyd     *)
(* iterations end with.                                                    *)
(***************************************************************************)
Primaries(mu, c) == {i \in Active : First(Row(i).angle, mu) = c}
Radius(mu, c)    == SetMax({0} \cup {Dist(Row(i).angle, mu[c]) : i \in Primaries(mu, c)})

\* spillover: the second nearest cluster too, when the row is within its radius
Spills(mu, i) ==
  LET b == Second(Row(i).angle, mu)
  IN b # 0 /\ Dist(Row(i).angle, mu[b]) <= Radius(mu, b)
SecondaryOf(mu, i) == IF Spills(mu, i) THEN Second(Row(i).angle, mu) ELSE 0
MembersOf(mu, c) ==
  Primaries(mu, c) \cup {i \in Active : SecondaryOf(mu, i) = c}

Filled(mu) == \A c \in DOMAIN mu : Primaries(mu, c) # {}

PartitionBuilt(mu) ==
  /\ Filled(mu)
  /\ clusters' = [c \in DOMAIN mu |->
       [mu |-> mu[c], ids |-> MembersOf(mu, c),
        radius |-> Radius(mu, c), cover |-> Radius(mu, c),
        norm |-> SetMax({0} \cup {Row(i).length : i \in MembersOf(mu, c)})]]
  /\ primary' = [i \in 1..Size |-> IF i \in Active THEN First(Row(i).angle, mu) ELSE 0]
  /\ secondary' = [i \in 1..Size |-> IF i \in Active THEN SecondaryOf(mu, i) ELSE 0]

\* "Empty final primary cluster": thrown before any id is listed
PartitionFailed(mu) ==
  /\ ~Filled(mu)
  /\ clusters' = [c \in DOMAIN mu |->
       [mu |-> mu[c], ids |-> {}, radius |-> Radius(mu, c), cover |-> 0, norm |-> 0]]
  /\ primary' = [i \in 1..Size |-> IF i \in Active THEN First(Row(i).angle, mu) ELSE 0]
  /\ secondary' = [i \in 1..Size |-> IF i \in Active THEN Second(Row(i).angle, mu) ELSE 0]

-----------------------------------------------------------------------------
(***************************************************************************)
(* rebuild.  The old tables go first and the epoch advances; the delta     *)
(* list is emptied last.  An exception in between leaves the index with    *)
(* no tables.                                                              *)
(***************************************************************************)
StartEpoch ==
  /\ epoch < MaxEpoch /\ Bounded
  /\ epoch' = epoch + 1
  /\ scale' = SetMax({0} \cup {Row(i).max : i \in Active})

\* expansion.allocate throws on an empty collection
RebuildEmpty ==
  /\ data.active = 0
  /\ StartEpoch /\ tables' = <<>>
  /\ UNCHANGED <<data, sketch, complete, cardinal, clusters, primary, secondary, delta_ids>>

\* sketches.build encodes the active records; the sets of the others stay
Encode(full) ==
  /\ data.active > 0
  /\ sketch' = [i \in 1..Size |->
       IF i \in full THEN epoch'
       ELSE IF i \in Active \/ i \notin DOMAIN sketch THEN 0 ELSE sketch[i]]
  /\ cardinal' = sketch'
  /\ complete' = TRUE

\* "Stale calibration target": a supplied target is erased or unknown
RebuildStale(full) ==
  /\ StartEpoch /\ Encode(full) /\ tables' = <<>>
  /\ UNCHANGED <<data, clusters, primary, secondary, delta_ids>>

\* the candidate numbers of clusters for this many positive targets
Candidates(distinct) ==
  {1} \cup {k \in {2^e : e \in 1..3} : k < distinct}
      \cup (IF distinct > 1 THEN {distinct} ELSE {})

\* a candidate's partition fails
RebuildUnfilled(full, mu) ==
  /\ StartEpoch /\ Encode(full) /\ PartitionFailed(mu) /\ tables' = <<>>
  /\ UNCHANGED <<data, delta_ids>>

\* the resource guard refuses the tables, or preflight was asked for
RebuildStopped(full, mu) ==
  /\ StartEpoch /\ Encode(full) /\ PartitionBuilt(mu) /\ tables' = <<>>
  /\ UNCHANGED <<data, delta_ids>>

\* build_tables: a member without a sketch has no signature and is in no bucket
BuiltTables(mu, sketches) ==
  [c \in DOMAIN mu |->
    {<<i, sketches[i]>> : i \in {i \in MembersOf(mu, c) : sketches[i] # 0}}]

\* the last loop over the records
DeltaAbsorbed ==
  [data EXCEPT !.records = [i \in 1..Size |->
     IF i \in Active THEN [data.records[i] EXCEPT !.delta = FALSE] ELSE data.records[i]]]

RebuildDone(full, mu) ==
  /\ StartEpoch /\ Encode(full) /\ PartitionBuilt(mu)
  /\ tables' = BuiltTables(mu, sketch')
  /\ data' = DeltaAbsorbed /\ delta_ids' = {}

\* refresh() also releases the sketches of the erased records
RefreshDone(full, mu) ==
  /\ StartEpoch /\ PartitionBuilt(mu)
  /\ data.active > 0 /\ complete' = TRUE
  /\ sketch' = [i \in 1..Size |-> IF i \in full THEN epoch' ELSE 0]
  /\ cardinal' = [i \in 1..Size |->
       IF i \in full THEN epoch'
       ELSE IF i \in Active \/ i \notin DOMAIN sketch THEN 0 ELSE sketch[i]]
  /\ tables' = BuiltTables(mu, sketch')
  /\ data' = DeltaAbsorbed /\ delta_ids' = {}

\* the targets, any active records, decide the candidates by how many of them
\* have a positive similarity
Rebuild ==
  \/ RebuildEmpty
  \/ \E full \in SUBSET Active :
       \/ RebuildStale(full)
       \/ \E K \in UNION {Candidates(distinct) : distinct \in 0..Cardinality(full)} :
            \E mu \in [1..K -> Angles] :
              \/ RebuildUnfilled(full, mu) \/ RebuildStopped(full, mu)
              \/ RebuildDone(full, mu) \/ RefreshDone(full, mu)

-----------------------------------------------------------------------------
\* mutant: the cache is released and still marked complete
ReleaseSilently ==
  /\ sketch' = <<>>
  /\ UNCHANGED <<data, epoch, scale, complete, cardinal, clusters, primary, secondary,
                 tables, delta_ids>>

ReleaseSketchCache ==
  /\ sketch' = <<>> /\ complete' = FALSE
  /\ UNCHANGED <<data, epoch, scale, cardinal, clusters, primary, secondary, tables, delta_ids>>

\* insert(), from the store and delta list it finds
OutOfRange(row) == row.max > scale

\* mutant: the cover that insertions have widened decides
Covers(row, b) == b # 0 /\ Dist(row.angle, clusters[b].mu) <= clusters[b].cover

Reaches(row, b) == b # 0 /\ Dist(row.angle, clusters[b].mu) <= clusters[b].radius

\* mutant: the primary cluster only
JoinsFirst(a, spill) == {a} \ {0}

Joins(a, spill) == {a, spill} \ {0}

\* mutants: the norm bound is left alone, the cover follows the last row
JoinedShort(cl, id, row) ==
  [cl EXCEPT !.ids = @ \cup {id}, !.cover = Larger(@, Dist(row.angle, cl.mu))]
JoinedNarrow(cl, id, row) ==
  [cl EXCEPT !.ids = @ \cup {id}, !.norm = Larger(@, row.length),
             !.cover = Dist(row.angle, cl.mu)]

Joined(cl, id, row) ==
  [cl EXCEPT !.ids = @ \cup {id}, !.norm = Larger(@, row.length),
             !.cover = Larger(@, Dist(row.angle, cl.mu))]

InsertDelta(store, deltas, row) ==
  /\ Accepts(store, row) /\ OutOfRange(row)
  /\ LET id == Len(store.records) + 1
     IN /\ data' = [Appended(store, row) EXCEPT !.records[id].delta = TRUE]
        /\ delta_ids' = deltas \cup {id}
        /\ sketch' = Padded(sketch, id, 0) /\ cardinal' = Padded(cardinal, id, 0)
        /\ primary' = Padded(primary, id, 0) /\ secondary' = Padded(secondary, id, 0)
  /\ UNCHANGED <<epoch, scale, complete, clusters, tables>>

\* tables[c] is read for every cluster c of a row with a sketch: there must be tables
InsertIndexed(store, deltas, row, full) ==
  /\ Accepts(store, row) /\ ~OutOfRange(row)
  /\ full => Len(tables) = Len(clusters)
  /\ LET id == Len(store.records) + 1
         mu == [c \in DOMAIN clusters |-> clusters[c].mu]
         a  == IF clusters = <<>> THEN 0 ELSE First(row.angle, mu)
         b  == IF clusters = <<>> THEN 0 ELSE Second(row.angle, mu)
         spill == IF Reaches(row, b) THEN b ELSE 0
         joins == Joins(a, spill)
         at == IF full THEN epoch ELSE 0
     IN /\ data' = Appended(store, row)
        /\ delta_ids' = deltas
        /\ sketch' = [Padded(sketch, id, 0) EXCEPT ![id] = at]
        /\ cardinal' = [Padded(cardinal, id, 0) EXCEPT ![id] = at]
        /\ primary' = [Padded(primary, id, 0) EXCEPT ![id] = a]
        /\ secondary' = [Padded(secondary, id, 0) EXCEPT ![id] = spill]
        /\ clusters' = [c \in DOMAIN clusters |->
             IF c \in joins THEN Joined(clusters[c], id, row) ELSE clusters[c]]
        /\ tables' = [c \in DOMAIN tables |->
             IF c \in joins /\ full THEN tables[c] \cup {<<id, at>>} ELSE tables[c]]
  /\ UNCHANGED <<epoch, scale, complete>>

Insert(row) ==
  \/ InsertDelta(data, delta_ids, row)
  \/ \E full \in BOOLEAN : InsertIndexed(data, delta_ids, row, full)

\* mutant: the identifier stays in the delta list
EraseRecordOnly(i) ==
  /\ IsActive(data, i)
  /\ data' = Erased(data, i)
  /\ UNCHANGED <<epoch, scale, sketch, complete, cardinal, clusters, primary, secondary,
                 tables, delta_ids>>

Erase(i) ==
  /\ IsActive(data, i)
  /\ data' = Erased(data, i)
  /\ delta_ids' = delta_ids \ {i}
  /\ UNCHANGED <<epoch, scale, sketch, complete, cardinal, clusters, primary, secondary, tables>>

\* update() is erase() then insert(): a rejected row leaves the erasure behind
Update(i, row) ==
  /\ IsActive(data, i)
  /\ LET store == Erased(data, i)
         deltas == delta_ids \ {i}
     IN \/ InsertDelta(store, deltas, row)
        \/ \E full \in BOOLEAN : InsertIndexed(store, deltas, row, full)
        \/ ~Accepts(store, row) /\ Erase(i)

Next ==
  \/ Rebuild
  \/ ReleaseSketchCache
  \/ \E row \in Rows : Bounded /\ Insert(row)
  \/ \E i \in 1..Size : Erase(i)
  \/ \E i \in 1..Size, row \in Rows \cup {Invalid} :
       (Bounded \/ Size = NullSlot) /\ Update(i, row)

Spec == Init /\ [][Next]_vars

-----------------------------------------------------------------------------
Indexed == {i \in Active : ~data.records[i].delta}

\* The document frequencies and the active count, kept by increments and
\* decrements over every append, erase and half-done update, are those of the
\* active records: expansion.allocate divides by the one and weighs by the other.
StoreCounts ==
  /\ data.active = Cardinality(Active)
  /\ \A j \in Dims : data.df[j] = Cardinality(Positive(data.records, j))

\* A record is in the delta list, which every search scans in full, exactly when
\* it is active and flagged; the two are kept by insert, erase and rebuild apart.
DeltaCoherent == delta_ids = {i \in Active : data.records[i].delta}

\* While the index has tables, an active record is either in the delta list or
\* in its primary cluster, and in the tables of each cluster it belongs to under
\* the very sketch its cardinality is of: no accepted row is out of reach, and
\* no entry was hashed under another epoch's seed.
Reachable ==
  Built => \A i \in Indexed :
    /\ primary[i] # 0
    /\ \A c \in {primary[i], secondary[i]} \ {0} :
         /\ i \in clusters[c].ids
         /\ {at \in 1..MaxEpoch : <<i, at>> \in tables[c]} = {cardinal[i]} \ {0}
         /\ cardinal[i] \in {0, epoch}

\* Inserting files a record as building would have: nearest centroid first, and
\* the second nearest exactly when within that cluster's radius of the build,
\* not within the cover that earlier insertions have widened.
InsertedAsBuilt ==
  Built => \A i \in Indexed :
    LET mu == [c \in DOMAIN clusters |-> clusters[c].mu]
        b  == Second(Row(i).angle, mu)
    IN /\ primary[i] = First(Row(i).angle, mu)
       /\ secondary[i] = IF b # 0 /\ Dist(Row(i).angle, mu[b]) <= clusters[b].radius
                         THEN b ELSE 0

\* While the cache is marked complete, the sketch held for an indexed record is
\* the one it was hashed and counted with: what the guards on the flag promise
\* to floor, table and pool calibration.
CacheIsTrue ==
  Built /\ complete =>
    Len(sketch) = Size /\ \A i \in Indexed : sketch[i] = cardinal[i]

\* Within an epoch a cluster keeps its centroid and its radius, and its cover,
\* norm bound and members only grow: a search between two updates may rely on
\* them, and an erasure never shrinks a bound.
BoundsGrowWithinEpoch ==
  [][epoch' = epoch =>
       /\ DOMAIN clusters' = DOMAIN clusters
       /\ \A c \in DOMAIN clusters :
            /\ clusters'[c].mu = clusters[c].mu /\ clusters'[c].radius = clusters[c].radius
            /\ clusters'[c].cover >= clusters[c].cover /\ clusters'[c].norm >= clusters[c].norm
            /\ clusters[c].ids \subseteq clusters'[c].ids]_vars

=============================================================================
