----------------------- MODULE WorkspaceSearch_proofs -----------------------
(***************************************************************************)
(* The query workspace and the search that uses it, for every set of       *)
(* calls, every modulus of the generation counters and every number of     *)
(* hash tables.  First the workspace on its own, with the operations in    *)
(* any order QueryWorkspace allows; then the dense query; then the search. *)
(* It uses the workspace as QueryWorkspace allows, so everything proved of *)
(* that holds of it; its answer is the best of what it verified, with      *)
(* early stopping losing nothing; and every step of it is a step of the    *)
(* reference search or leaves the reference's state alone, whatever the    *)
(* workspace was left by earlier queries and in whatever order the offers  *)
(* come.                                                                   *)
(***************************************************************************)
EXTENDS SearchRefinement, DenseWorkspace, Ranking_proofs

\* Integer division of a natural number by a positive one is a natural number.
LEMMA DivisionIsNat ==
  ASSUME NEW a \in Nat, NEW b \in Nat \ {0}
  PROVE  a \div b \in Nat
OBVIOUS

\* So is the product of two natural numbers.
LEMMA ProductIsNat ==
  ASSUME NEW a \in Nat, NEW b \in Nat
  PROVE  a * b \in Nat
OBVIOUS

\* The proxy of a counted record is a natural number.
LEMMA ProxyIsNat ==
  ASSUME NEW count \in Nat, NEW tables \in Nat \ {0}, NEW weight \in Nat
  PROVE  Proxy(count, tables, weight) \in Nat
<1>1. Scale * count * weight \in Nat
  BY ProductIsNat, BoundsAssumption
<1>2. tables + count \in Nat \ {0}
  OBVIOUS
<1> QED
  BY <1>1, <1>2, DivisionIsNat DEF Proxy, ProxyOf

-----------------------------------------------------------------------------
(***************************************************************************)
(* Type correctness.                                                       *)
(***************************************************************************)

\* What CallsAssumption says of one call.
LEMMA CallTypes ==
  ASSUME NEW c \in Calls
  PROVE  /\ c.n \in Nat /\ c.B \in Nat /\ c.k \in 1..c.B
         /\ c.weight \in [0..c.n-1 -> Nat]
BY CallsAssumption

\* The entry update() computes for a counted record is a pool value.
LEMMA NewEntryType ==
  ASSUME WTypeOK, phase # "idle", NEW i \in Ids
  PROVE  NewEntry(i) \in Nat \X Ids
<1>1. collisions[i] \in Nat /\ m \in Nat \ {0} /\ call.weight[i] \in Nat
  BY CallTypes, BoundsAssumption DEF WTypeOK, Ids
<1> QED
  BY <1>1, ProxyIsNat DEF NewEntry

\* resize keeps the type of an array and gives it the new length.
LEMMA ResizeType ==
  ASSUME NEW T, 0 \in T, NEW n \in Nat, NEW f, NEW D, f \in [D -> T]
  PROVE  Resize(f, n) \in [0..n-1 -> T]
BY DEF Resize

\* A refilled array has the type of a fresh one.
LEMMA ZerosType ==
  ASSUME NEW T, 0 \in T, NEW n \in Nat
  PROVE  Zeros(n) \in [0..n-1 -> T]
BY DEF Zeros

\* Counting stays in the range of the counter, and goes up unless it wraps.
LEMMA BumpType ==
  ASSUME NEW g \in Stamp
  PROVE  /\ Bump(g) \in Stamp /\ 0 \in Stamp /\ 1 \in Stamp
         /\ Bump(g) # 0 => Bump(g) = g + 1
BY GenModAssumption DEF Bump, Stamp

\* A new workspace has no cells.
LEMMA TypeInit == WInit => WTypeOK
<1> SUFFICES ASSUME WInit PROVE WTypeOK
  OBVIOUS
<1>1. 0 \in Stamp /\ 1 \in 1..MaxTables
  BY GenModAssumption, BoundsAssumption DEF Stamp
<1>2. Cells = 0..(0-1)
  BY DEF WInit, Cells, Zeros
<1> QED
  BY <1>1, <1>2 DEF WInit, WTypeOK, Zeros

\* begin() leaves six arrays of the new collection's length.
LEMMA TypeBegin ==
  ASSUME WTypeOK, NEW c \in Calls, Begin(c)
  PROVE  WTypeOK'
<1>1. c.n \in Nat /\ 0 \in Stamp /\ 1 \in Stamp /\ Bump(generation) \in Stamp
  BY CallTypes, BumpType DEF WTypeOK
<1>2. /\ observed_stamp' \in [0..c.n-1 -> Stamp] /\ verified_stamp' \in [0..c.n-1 -> Stamp]
      /\ member_stamp' \in [0..c.n-1 -> Stamp] /\ count_stamp' \in [0..c.n-1 -> Stamp]
      /\ generation' \in Stamp
  BY <1>1, ResizeType, ZerosType DEF Begin, WTypeOK, NextGeneration, Restamped, Wraps
<1>3. proxy' \in [0..c.n-1 -> Nat] /\ collisions' \in [0..c.n-1 -> Nat]
  BY <1>1, ResizeType, ZerosType DEF Begin, WTypeOK
<1>4. Cells' = 0..c.n-1 /\ Ids' = 0..c.n-1
  BY <1>3 DEF Begin, Cells, Ids
<1> QED
  BY <1>2, <1>3, <1>4 DEF Begin, WTypeOK

\* cluster() keeps the cells of the arrays.
LEMMA TypeStartCluster ==
  ASSUME WTypeOK, NEW tables \in 1..MaxTables, StartCluster(tables)
  PROVE  WTypeOK'
<1>1. call.n \in Nat /\ 0 \in Stamp /\ 1 \in Stamp /\ Bump(cluster_generation) \in Stamp
  BY CallTypes, BumpType DEF WTypeOK
<1>2. Cells = Ids /\ Cells' = Cells /\ Ids' = Ids
  BY DEF StartCluster, WTypeOK, Cells, Ids
<1>3. cluster_generation' \in Stamp /\ count_stamp' \in [Cells -> Stamp]
  <2>1. Zeros(call.n) \in [Cells -> Stamp]
    BY <1>1, <1>2, ZerosType DEF Ids
  <2> QED
    BY <1>1, <2>1 DEF StartCluster, WTypeOK, NextGeneration, Wraps
<1>4. m' \in 1..MaxTables /\ scanned' \in 0..m'
  BY BoundsAssumption DEF StartCluster
<1> QED
  BY <1>2, <1>3, <1>4 DEF StartCluster, WTypeOK

\* Counting a bucket keeps the cells of the arrays.
LEMMA TypeScanTable ==
  ASSUME WTypeOK, NEW bucket \in SUBSET Ids, ScanTable(bucket)
  PROVE  WTypeOK'
<1>1. Cells = Ids /\ Cells' = Cells /\ Ids' = Ids
  BY DEF ScanTable, WTypeOK, Cells, Ids
<1>2. collisions' \in [Cells -> Nat] /\ count_stamp' \in [Cells -> Stamp]
  BY <1>1 DEF ScanTable, WTypeOK, Collided
<1>3. counted' \subseteq Cells /\ pending' \subseteq counted'
  BY <1>1 DEF ScanTable, WTypeOK
<1>4. m' \in 1..MaxTables /\ scanned' \in 0..m'
  BY BoundsAssumption DEF ScanTable, WTypeOK
<1> QED
  BY <1>1, <1>2, <1>3, <1>4 DEF ScanTable, WTypeOK

\* An offer to the pool keeps the types, whichever branch it takes.
LEMMA TypeUpdate ==
  ASSUME WTypeOK, NEW i \in Ids, Update(i)
  PROVE  WTypeOK'
<1>1. NewEntry(i) \in Nat \X Ids /\ generation \in Stamp /\ 0 \in Stamp
  BY NewEntryType, BumpType DEF Update, WTypeOK
<1>2. Cells = Ids /\ Ids' = Ids
  BY DEF Update, WTypeOK, Ids
<1>3. CASE Skip(i)
  BY <1>2, <1>3 DEF Update, Skip, WTypeOK, Cells
<1>4. CASE Observe(i) /\ (Drop(i) \/ Evict(i) \/ Insert(i))
  <2>1. /\ observed_stamp' \in [Ids -> Stamp] /\ touched' \subseteq Ids
        /\ proxy' \in [Ids -> Nat] /\ Cells' = Ids
    BY <1>1, <1>2, <1>4 DEF Observe, WTypeOK, Cells
  <2>2. PoolWithout(i) \subseteq Nat \X Ids
    BY <1>2 DEF PoolWithout, WTypeOK
  <2>3. /\ member_stamp' \in [Ids -> Stamp] /\ pool' \subseteq Nat \X Ids
        /\ admissions' \subseteq Ids
    <3>1. CASE Drop(i)
      BY <1>2, <2>2, <3>1 DEF Drop, WTypeOK
    <3>2. CASE Evict(i)
      BY <1>1, <1>2, <2>2, <3>2 DEF Evict, Admit, WTypeOK
    <3>3. CASE Insert(i)
      BY <1>1, <1>2, <2>2, <3>3 DEF Insert, Admit, WTypeOK
    <3> QED
      BY <1>4, <3>1, <3>2, <3>3
  <2> QED
    BY <1>2, <2>1, <2>3 DEF Update, WTypeOK
<1> QED
  BY <1>3, <1>4 DEF Update, Drop, Evict, Insert

\* Stamping a record as verified keeps the types.
LEMMA TypeVerify ==
  ASSUME WTypeOK, NEW i \in Ids, Verify(i)
  PROVE  WTypeOK'
<1>1. Cells = Ids /\ Ids' = Ids /\ Cells' = Cells
  BY DEF Verify, WTypeOK, Ids, Cells
<1> QED
  BY <1>1 DEF Verify, WTypeOK

\* Every step keeps the types.
LEMMA TypeStep == WTypeOK /\ [WNext]_wvars => WTypeOK'
<1> SUFFICES ASSUME WTypeOK, [WNext]_wvars PROVE WTypeOK'
  OBVIOUS
<1>1. ASSUME NEW c \in Calls, Begin(c) PROVE WTypeOK'
  BY <1>1, TypeBegin
<1>2. ASSUME NEW tables \in 1..MaxTables, StartCluster(tables) PROVE WTypeOK'
  BY <1>2, TypeStartCluster
<1>3. ASSUME NEW bucket \in SUBSET Ids, ScanTable(bucket) PROVE WTypeOK'
  BY <1>3, TypeScanTable
<1>4. CASE StartUpdate
  BY <1>4 DEF StartUpdate, WTypeOK, arrays, Cells, Ids
<1>5. ASSUME NEW i \in Ids, Update(i) PROVE WTypeOK'
  BY <1>5, TypeUpdate
<1>6. CASE StartVerify
  BY <1>6 DEF StartVerify, WTypeOK, arrays, Cells, Ids
<1>7. ASSUME NEW i \in Ids, Verify(i) PROVE WTypeOK'
  BY <1>7, TypeVerify
<1>8. CASE EndCluster
  BY <1>8 DEF EndCluster, WTypeOK, arrays, Cells, Ids
<1>9. CASE End
  BY <1>9 DEF End, WTypeOK, arrays, Cells, Ids
<1>10. CASE Abort
  BY <1>10 DEF Abort, WTypeOK, arrays, Cells, Ids
<1>11. CASE UNCHANGED wvars
  BY <1>11 DEF wvars, WTypeOK, arrays, Cells, Ids
<1> QED
  BY <1>1, <1>2, <1>3, <1>4, <1>5, <1>6, <1>7, <1>8, <1>9, <1>10, <1>11 DEF WNext, WStep

\* Every array always has one cell per record of the collection being searched,
\* and every id in the workspace's lists and pool is one of them: resizing at
\* the start of a query is enough, whatever collections the thread searched.
THEOREM WorkspaceTypes == WSpec => []WTypeOK
BY TypeInit, TypeStep, PTL DEF WSpec

-----------------------------------------------------------------------------
(***************************************************************************)
(* The inductive invariant.  The parts need each other: an offer that the  *)
(* full pool turns away leaves the member stamp alone, which is right only *)
(* because a pool that just lost the record's old entry is not full, so    *)
(* the stamps depend on the pool's size; and the pool loses the right      *)
(* entry only because the stamps and the stored proxies are current.       *)
(***************************************************************************)
WInv == /\ WTypeOK /\ StampsBounded /\ StampsAgree /\ CountsAreFresh
        /\ NoStalePosition /\ PoolIsTopB /\ PoolGetsVerified
        /\ IsFiniteSet(pool)

\* A new workspace satisfies the invariant: it has no stamps and no pool.
LEMMA InvInit == WInit => WInv
<1> SUFFICES ASSUME WInit PROVE WInv
  OBVIOUS
<1>1. WTypeOK
  BY TypeInit
<1>2. Cells = 0..(0-1) /\ IsFiniteSet(pool)
  BY FS_EmptySet DEF WInit, Cells, Zeros
<1> QED
  BY <1>1, <1>2 DEF WInit, WInv, StampsBounded, StampsAgree, CountsAreFresh,
     NoStalePosition, PoolIsTopB, PoolGetsVerified

\* begin: the new generation is above every stamp, so nothing is observed,
\* verified or in the pool, and the pool is empty
LEMMA InvBegin ==
  ASSUME WInv, NEW c \in Calls, Begin(c)
  PROVE  WInv'
<1>1. WTypeOK'
  BY TypeBegin DEF WInv
<1>2. c.n \in Nat /\ Ids' = 0..c.n-1 /\ Cells' = 0..c.n-1 /\ c.B \in Nat
  BY <1>1, CallTypes DEF Begin, WTypeOK, Ids
<1>3. /\ generation \in Stamp /\ Bump(generation) \in Stamp
      /\ Bump(generation) # 0 => Bump(generation) = generation + 1
  BY BumpType DEF WInv, WTypeOK
<1>4. \A i \in 0..c.n-1 :
        /\ observed_stamp'[i] < generation' /\ verified_stamp'[i] < generation'
        /\ member_stamp'[i] < generation'
        /\ 0 <= observed_stamp'[i] /\ 0 <= verified_stamp'[i] /\ 0 <= member_stamp'[i]
  <2>1. CASE Bump(generation) = 0
    BY <2>1 DEF Begin, Zeros, NextGeneration, Restamped, Wraps
  <2>2. CASE Bump(generation) # 0
    BY <2>2, <1>3 DEF Begin, Resize, WInv, StampsBounded, WTypeOK, Stamp,
       NextGeneration, Restamped, Wraps
  <2> QED
    BY <2>1, <2>2
<1>5. \A i \in 0..c.n-1 : count_stamp'[i] <= cluster_generation'
  BY DEF Begin, Resize, WInv, StampsBounded, WTypeOK, Stamp
<1>6. StampsBounded'
  <2>1. \A i \in Cells' : /\ observed_stamp'[i] \in Int /\ verified_stamp'[i] \in Int
                          /\ member_stamp'[i] \in Int /\ generation' \in Int
    BY <1>1, GenModAssumption DEF WTypeOK, Stamp
  <2> QED
    BY <2>1, <1>2, <1>4, <1>5 DEF StampsBounded
<1>7. generation' > 0
  BY <1>3 DEF Begin, Stamp, NextGeneration, Wraps
<1>8. StampsAgree'
  BY <1>1, <1>2, <1>4, <1>7 DEF StampsAgree, Begin, WTypeOK, Stamp
<1>9. PoolIsTopB' /\ IsFiniteSet(pool')
  <2>1. pool' = {} /\ Observed' = {} /\ call'.B \in Nat
    BY <1>2 DEF Begin, Observed
  <2> QED
    BY <2>1, FS_EmptySet DEF PoolIsTopB, IsTop
<1>10. CountsAreFresh' /\ NoStalePosition' /\ PoolGetsVerified'
  BY DEF Begin, CountsAreFresh, NoStalePosition, PoolGetsVerified
<1> QED
  BY <1>1, <1>6, <1>8, <1>9, <1>10 DEF WInv

\* the parts that depend on the pool only are kept when the pool is
LEMMA PoolPartUnchanged ==
  ASSUME WInv, phase # "idle",
         UNCHANGED <<call, generation, observed_stamp, member_stamp, proxy, touched, pool>>
  PROVE  NoStalePosition' /\ PoolIsTopB' /\ IsFiniteSet(pool')
<1>1. Observed' = Observed
  BY DEF Observed, Entry
<1> QED
  BY <1>1 DEF WInv, NoStalePosition, PoolIsTopB, IsMember, Entry

\* cluster(): the new cluster generation is above every count stamp
LEMMA InvStartCluster ==
  ASSUME WInv, NEW tables \in 1..MaxTables, StartCluster(tables)
  PROVE  WInv'
<1>1. WTypeOK'
  BY TypeStartCluster DEF WInv
<1>2. Cells = Ids /\ Cells' = Ids /\ Ids' = Ids /\ phase = "ready" /\ phase' = "scan"
  BY DEF StartCluster, WInv, WTypeOK, Cells, Ids
<1>3. /\ cluster_generation \in Stamp /\ Bump(cluster_generation) \in Stamp
      /\ Bump(cluster_generation) # 0 => Bump(cluster_generation) = cluster_generation + 1
  BY BumpType DEF WInv, WTypeOK
<1>4. cluster_generation' > 0 /\ \A i \in Ids : count_stamp'[i] < cluster_generation'
  <2>1. CASE Bump(cluster_generation) = 0
    BY <2>1 DEF StartCluster, Zeros, Ids, NextGeneration, Wraps
  <2>2. CASE Bump(cluster_generation) # 0
    BY <2>2, <1>2, <1>3 DEF StartCluster, WInv, StampsBounded, WTypeOK, Stamp,
       NextGeneration, Wraps
  <2> QED
    BY <2>1, <2>2
<1>5. StampsBounded'
  BY <1>1, <1>2, <1>4 DEF StartCluster, WInv, StampsBounded, WTypeOK, Stamp
<1>6. StampsAgree'
  BY <1>2 DEF StartCluster, WInv, StampsAgree, Entry
<1>7. CountsAreFresh'
  BY <1>1, <1>2, <1>4 DEF StartCluster, CountsAreFresh, WTypeOK, Stamp
<1>8. NoStalePosition' /\ PoolIsTopB' /\ IsFiniteSet(pool')
  BY <1>2, PoolPartUnchanged DEF StartCluster
<1>9. PoolGetsVerified'
  BY <1>2 DEF StartCluster, WInv, PoolGetsVerified
<1> QED
  BY <1>1, <1>5, <1>6, <1>7, <1>8, <1>9 DEF WInv

\* Counting a bucket stamps exactly the records it counts.
LEMMA InvScanTable ==
  ASSUME WInv, NEW bucket \in SUBSET Ids, ScanTable(bucket)
  PROVE  WInv'
<1>1. WTypeOK'
  BY TypeScanTable DEF WInv
<1>2. Cells = Ids /\ Cells' = Ids /\ Ids' = Ids /\ phase = "scan" /\ phase' = "scan"
  BY DEF ScanTable, WInv, WTypeOK, Cells, Ids
<1>3. StampsBounded'
  BY <1>1, <1>2 DEF ScanTable, WInv, StampsBounded, WTypeOK, Stamp
<1>4. StampsAgree'
  BY <1>2 DEF ScanTable, WInv, StampsAgree, Entry
<1>5. CountsAreFresh'
  BY <1>1, <1>2 DEF ScanTable, WInv, CountsAreFresh, WTypeOK, Collided
<1>6. NoStalePosition' /\ PoolIsTopB' /\ IsFiniteSet(pool')
  BY <1>2, PoolPartUnchanged DEF ScanTable
<1>7. PoolGetsVerified'
  BY <1>2 DEF ScanTable, WInv, PoolGetsVerified
<1> QED
  BY <1>1, <1>3, <1>4, <1>5, <1>6, <1>7 DEF WInv

-----------------------------------------------------------------------------
(***************************************************************************)
(* One offer to the pool.                                                  *)
(***************************************************************************)

\* the entry an improving offer of record i takes the place of, if any
OldEntry(i) == IF Seen(i) THEN {Entry(i)} ELSE {}

\* update()'s test for removing the record's old entry from the pool removes
\* exactly that entry, and observing the offer replaces it
LEMMA OfferFacts ==
  ASSUME WInv, phase = "update", NEW i \in Ids, Observe(i)
  PROVE  /\ PoolWithout(i) = pool \ OldEntry(i)
         /\ Observed \in SUBSET Pairs /\ OldEntry(i) \in SUBSET Observed
         /\ NewEntry(i) \in Pairs /\ NewEntry(i) \notin Observed \ OldEntry(i)
         /\ OldEntry(i) = {} \/ \E r : OldEntry(i) = {r} /\ Better(NewEntry(i), r)
         /\ Observed' = (Observed \ OldEntry(i)) \cup {NewEntry(i)}
         /\ \A p \in PoolWithout(i) : p[2] \in Ids /\ p[2] # i
<1>1. Cells = Ids /\ touched \subseteq Ids /\ proxy \in [Ids -> Nat]
      /\ NewEntry(i) \in Nat \X Ids /\ Ids \subseteq Int
  <2>1. Cells = Ids /\ touched \subseteq Ids /\ proxy \in [Ids -> Nat] /\ call \in Calls
    BY DEF WInv, WTypeOK
  <2>2. Ids \subseteq Int
    BY <2>1, CallTypes DEF Ids
  <2> QED
    BY <2>1, <2>2, NewEntryType DEF WInv
<1>2. pool \subseteq Observed /\ (Seen(i) <=> i \in touched)
  BY DEF WInv, PoolIsTopB, IsTop, StampsAgree, Seen
<1>3. IsMember(i) <=> Entry(i) \in pool
  BY DEF WInv, StampsAgree, IsMember
<1>4. NewEntry(i)[2] = i /\ NewEntry(i) \in Pairs
  BY <1>1 DEF NewEntry, Pairs
<1>5. Observed \in SUBSET Pairs /\ \A p \in Observed : p[2] \in Ids /\ p = Entry(p[2])
  BY <1>1 DEF Observed, Entry, Pairs
<1>6. OldEntry(i) \in SUBSET Observed
  BY <1>2 DEF OldEntry, Observed
<1>7. PoolWithout(i) = pool \ OldEntry(i)
  <2>1. ~Seen(i) => Entry(i) \notin pool
    BY <1>2 DEF Observed, Entry
  <2> QED
    BY <2>1, <1>3 DEF PoolWithout, OldEntry
<1>8. \A p \in PoolWithout(i) : p[2] \in Ids /\ p[2] # i
  <2> SUFFICES ASSUME NEW p \in pool, p[2] = i PROVE p \in OldEntry(i)
    BY <1>2, <1>5, <1>7
  <2>1. p = Entry(i) /\ i \in touched
    BY <1>2, <1>5 DEF Observed, Entry
  <2> QED
    BY <2>1, <1>2 DEF OldEntry
<1>9. NewEntry(i) \notin Observed \ OldEntry(i)
  <2> SUFFICES ASSUME NewEntry(i) \in Observed PROVE NewEntry(i) \in OldEntry(i)
    OBVIOUS
  <2>1. NewEntry(i) = Entry(i) /\ i \in touched
    BY <1>4, <1>5 DEF Observed, Entry
  <2> QED
    BY <2>1, <1>2 DEF OldEntry
<1>10. OldEntry(i) = {} \/ \E r : OldEntry(i) = {r} /\ Better(NewEntry(i), r)
  <2>1. Seen(i) => Better(NewEntry(i), Entry(i))
    BY <1>1 DEF Observe, Improves, Better, Entry
  <2> QED
    BY <2>1 DEF OldEntry
<1>11. Observed' = (Observed \ OldEntry(i)) \cup {NewEntry(i)}
  <2>1. \A j \in Ids : Entry(j)' = IF j = i THEN NewEntry(i) ELSE Entry(j)
    BY <1>1, <1>4 DEF Observe, Entry, NewEntry
  <2>2. ASSUME NEW q \in Observed' PROVE q \in (Observed \ OldEntry(i)) \cup {NewEntry(i)}
    <3>1. PICK j \in touched \cup {i} : q = Entry(j)'
      BY <2>2 DEF Observed, Observe
    <3>2. CASE j = i
      BY <3>1, <3>2, <2>1
    <3>3. CASE j # i
      BY <3>1, <3>3, <2>1, <1>1 DEF Observed, OldEntry, Entry
    <3> QED
      BY <3>2, <3>3
  <2>3. ASSUME NEW q \in Observed \ OldEntry(i) PROVE q \in Observed'
    <3>1. q[2] \in touched /\ q = Entry(q[2])
      BY <2>3 DEF Observed, Entry
    <3>2. q[2] # i
      BY <3>1, <1>2 DEF OldEntry
    <3> QED
      BY <3>1, <3>2, <2>1, <1>1 DEF Observed, Observe
  <2>4. NewEntry(i) \in Observed'
    BY <2>1 DEF Observed, Observe
  <2> QED
    BY <2>2, <2>3, <2>4
<1> QED
  BY <1>4, <1>5, <1>6, <1>7, <1>8, <1>9, <1>10, <1>11

\* A pool that lost the record's old entry is not full.
LEMMA FullMeansNotMember ==
  ASSUME WInv, phase = "update", NEW i \in Ids,
         Cardinality(PoolWithout(i)) = call.B
  PROVE  ~IsMember(i)
<1> SUFFICES ASSUME IsMember(i) PROVE FALSE
  OBVIOUS
<1>1. Entry(i) \in pool /\ PoolWithout(i) = pool \ {Entry(i)}
  BY DEF WInv, StampsAgree, IsMember, PoolWithout
<1>2. Cardinality(pool) <= call.B /\ IsFiniteSet(pool) /\ call.B \in Nat
  BY CallTypes DEF WInv, PoolIsTopB, IsTop, WTypeOK
<1>3. Cardinality(pool) \in Nat /\ Cardinality(PoolWithout(i)) = Cardinality(pool) - 1
  BY <1>1, <1>2, FS_RemoveElement, FS_CardinalityType
<1> QED
  BY <1>2, <1>3

\* what Update leaves alone, and the parts of the invariant that rest on it
LEMMA UpdateFrame ==
  ASSUME WInv, NEW i \in Ids, Update(i)
  PROVE  /\ WTypeOK' /\ phase = "update" /\ phase' = "update" /\ Ids' = Ids
         /\ Cells = Ids /\ Cells' = Ids /\ generation' = generation /\ call' = call
         /\ verified' = verified /\ CountsAreFresh'
         /\ generation \in Nat /\ generation > 0
<1>1. WTypeOK'
  BY TypeUpdate DEF WInv
<1>2. /\ phase = "update" /\ phase' = "update" /\ Ids' = Ids
      /\ generation' = generation /\ call' = call /\ verified' = verified
  BY DEF Update, Ids
<1>3. Cells = Ids /\ Cells' = Ids
  BY <1>1, <1>2 DEF WInv, WTypeOK
<1>4. CountsAreFresh'
  BY <1>2 DEF Update, WInv, CountsAreFresh
<1>5. generation \in Nat /\ generation > 0
  BY <1>2, GenModAssumption DEF WInv, WTypeOK, Stamp, StampsAgree
<1> QED
  BY <1>1, <1>2, <1>3, <1>4, <1>5

\* An offer no better than the proxy observed changes nothing.
LEMMA InvSkip ==
  ASSUME WInv, NEW i \in Ids, Update(i), Skip(i)
  PROVE  WInv'
<1>1. phase = "update" /\ phase' = "update" /\ Ids' = Ids /\ Cells' = Cells
  BY UpdateFrame DEF Update, Skip, Cells, Ids
<1>2. WTypeOK' /\ CountsAreFresh'
  BY UpdateFrame
<1>3. StampsBounded' /\ StampsAgree'
  BY <1>1 DEF Update, Skip, WInv, StampsBounded, StampsAgree, Entry
<1>4. NoStalePosition' /\ PoolIsTopB' /\ IsFiniteSet(pool')
  BY <1>1, PoolPartUnchanged DEF Update, Skip
<1>5. PoolGetsVerified'
  BY <1>1 DEF Update, Skip, WInv, PoolGetsVerified
<1> QED
  BY <1>2, <1>3, <1>4, <1>5 DEF WInv

\* What the three improving branches have in common.
LEMMA InvObserve ==
  ASSUME WInv, NEW i \in Ids, Update(i), Observe(i),
         member_stamp' \in [Ids -> Stamp],
         \A j \in Ids : member_stamp'[j] <= generation,
         \A j \in Ids : member_stamp'[j] = generation <=> Entry(j)' \in pool',
         \A p \in pool' : p = NewEntry(i) \/ p \in PoolWithout(i),
         IsTop(call.B, pool', (Observed \ OldEntry(i)) \cup {NewEntry(i)}),
         IsFiniteSet(pool'),
         admissions \subseteq admissions',
         NewEntry(i) \in pool' => i \in verified \cup admissions'
  PROVE  WInv'
<1>1. /\ WTypeOK' /\ phase = "update" /\ phase' = "update" /\ Ids' = Ids
      /\ Cells = Ids /\ Cells' = Ids /\ generation' = generation /\ call' = call
      /\ verified' = verified /\ CountsAreFresh' /\ generation \in Nat /\ generation > 0
  BY UpdateFrame
<1>2. /\ Observed' = (Observed \ OldEntry(i)) \cup {NewEntry(i)}
      /\ PoolWithout(i) \subseteq pool /\ NewEntry(i)[2] = i
      /\ \A p \in PoolWithout(i) : p[2] \in Ids /\ p[2] # i
  BY <1>1, OfferFacts DEF NewEntry
<1>3. \A j \in Ids : Entry(j)' = IF j = i THEN NewEntry(i) ELSE Entry(j)
  BY <1>1 DEF Observe, Entry, NewEntry, WInv, WTypeOK
<1>4. PoolIsTopB'
  BY <1>1, <1>2 DEF PoolIsTopB
<1>5. \A p \in pool' : p[2] \in Ids /\ p = Entry(p[2])'
  BY <1>1, <1>2, <1>3 DEF WInv, NoStalePosition
<1>6. NoStalePosition'
  BY <1>1, <1>5 DEF NoStalePosition, IsMember
<1>7. StampsBounded'
  <2>1. \A j \in Ids : observed_stamp'[j] <= generation
    BY <1>1 DEF Observe, WInv, StampsBounded, WTypeOK
  <2> QED
    BY <1>1, <2>1 DEF Update, WInv, StampsBounded
<1>8. StampsAgree'
  <2>1. \A j \in Ids : observed_stamp'[j] = generation <=> j \in touched'
    BY <1>1 DEF Observe, WInv, StampsAgree, WTypeOK
  <2>2. \A j \in Ids : verified_stamp'[j] = generation <=> j \in verified'
    BY <1>1 DEF Update, WInv, StampsAgree
  <2> QED
    BY <1>1, <2>1, <2>2 DEF StampsAgree
<1>9. PoolGetsVerified'
  BY <1>1, <1>2 DEF WInv, PoolGetsVerified
<1> QED
  BY <1>1, <1>4, <1>6, <1>7, <1>8, <1>9 DEF WInv

\* What an insertion into the pool does to the stamps and the entries.
LEMMA MemberFacts ==
  ASSUME WInv, NEW i \in Ids, Update(i), Observe(i)
  PROVE  /\ member_stamp \in [Ids -> Stamp] /\ generation \in Stamp /\ 0 \in Stamp
         /\ \A j \in Ids : member_stamp[j] <= generation
         /\ \A j \in Ids : j # i => (member_stamp[j] = generation
                                      <=> Entry(j)' \in PoolWithout(i))
         /\ Entry(i)' = NewEntry(i) /\ NewEntry(i) \notin PoolWithout(i)
         /\ \A p \in PoolWithout(i) : p = Entry(p[2])' /\ p[2] \in Ids \ {i}
         /\ \A j \in Ids : Entry(j)'[2] = j
<1>1. /\ phase = "update" /\ Cells = Ids
  BY UpdateFrame
<1>2. /\ member_stamp \in [Ids -> Stamp] /\ generation \in Stamp
      /\ \A j \in Ids : member_stamp[j] <= generation
  BY <1>1 DEF WInv, WTypeOK, StampsBounded
<1>3. \A j \in Ids : Entry(j)' = IF j = i THEN NewEntry(i) ELSE Entry(j)
  BY <1>1 DEF Observe, Entry, NewEntry, WInv, WTypeOK
<1>4. \A p \in PoolWithout(i) : p[2] \in Ids \ {i} /\ p = Entry(p[2])
  BY <1>1, OfferFacts DEF WInv, NoStalePosition
<1>5. \A j \in Ids : j # i => (Entry(j) \in pool <=> Entry(j) \in PoolWithout(i))
  BY DEF PoolWithout, Entry
<1>6. \A j \in Ids : member_stamp[j] = generation <=> Entry(j) \in pool
  BY <1>1 DEF WInv, StampsAgree
<1>7. NewEntry(i) \notin PoolWithout(i)
  BY <1>4 DEF NewEntry
<1>8. \A j \in Ids : Entry(j)'[2] = j
  BY DEF Entry
<1>9. 0 \in Stamp
  BY GenModAssumption DEF Stamp
<1> QED
  BY <1>2, <1>3, <1>4, <1>5, <1>6, <1>7, <1>8, <1>9

\* An offer that a full pool turns away is beaten by all of it.
LEMMA InvDrop ==
  ASSUME WInv, NEW i \in Ids, Update(i), Drop(i)
  PROVE  WInv'
<1>1. Observe(i) /\ phase = "update" /\ Cardinality(PoolWithout(i)) = call.B
  BY DEF Drop, Update
<1>2. ~IsMember(i)
  BY <1>1, FullMeansNotMember
<1>3. pool' = PoolWithout(i) /\ member_stamp' = member_stamp /\ admissions' = admissions
  BY DEF Drop
<1>4. \A j \in Ids : member_stamp'[j] = generation <=> Entry(j)' \in pool'
  BY <1>1, <1>2, <1>3, MemberFacts DEF IsMember
<1>5. IsTop(call.B, pool', (Observed \ OldEntry(i)) \cup {NewEntry(i)})
  <2>1. IsTop(call.B, pool, Observed) /\ call.B \in Nat
    BY <1>1, CallTypes DEF WInv, PoolIsTopB, WTypeOK
  <2>2. PICK w : IsWorst(w, PoolWithout(i)) /\ ~Better(NewEntry(i), w)
    BY DEF Drop
  <2> QED
    BY <1>1, <1>3, <2>1, <2>2, OfferFacts, TopKeepsOut
<1>6. IsFiniteSet(pool')
  BY <1>1, <1>3, OfferFacts, FS_Subset DEF WInv
<1>7. NewEntry(i) \notin pool'
  BY <1>1, <1>3, MemberFacts
<1>8. /\ member_stamp' \in [Ids -> Stamp] /\ \A j \in Ids : member_stamp'[j] <= generation
  BY <1>1, <1>3, MemberFacts
<1> QED
  BY <1>1, <1>3, <1>4, <1>5, <1>6, <1>7, <1>8, InvObserve

\* An offer that a full pool takes costs the worst entry, which all others beat.
LEMMA InvEvict ==
  ASSUME WInv, NEW i \in Ids, Update(i), Evict(i)
  PROVE  WInv'
<1>1. Observe(i) /\ phase = "update" /\ Cardinality(PoolWithout(i)) = call.B
  BY DEF Evict, Update
<1>2. PICK w \in PoolWithout(i) :
        /\ IsWorst(w, PoolWithout(i)) /\ Better(NewEntry(i), w)
        /\ pool' = (PoolWithout(i) \ {w}) \cup {NewEntry(i)}
        /\ member_stamp' = [member_stamp EXCEPT ![w[2]] = 0, ![i] = generation]
  BY DEF Evict
<1>3. w[2] \in Ids \ {i} /\ w = Entry(w[2])'
  BY <1>1, MemberFacts
<1>4. \A j \in Ids : member_stamp'[j] =
        IF j = i THEN generation ELSE IF j = w[2] THEN 0 ELSE member_stamp[j]
  BY <1>1, <1>2, <1>3, MemberFacts
<1>5. \A j \in Ids : member_stamp'[j] = generation <=> Entry(j)' \in pool'
  <2> SUFFICES ASSUME NEW j \in Ids
               PROVE  member_stamp'[j] = generation <=> Entry(j)' \in pool'
    OBVIOUS
  <2>1. CASE j = i
    BY <1>1, <1>2, <1>4, <2>1, MemberFacts
  <2>2. CASE j = w[2]
    BY <1>1, <1>2, <1>3, <1>4, <2>2, MemberFacts, UpdateFrame
  <2>3. CASE j # i /\ j # w[2]
    BY <1>1, <1>2, <1>3, <1>4, <2>3, MemberFacts
  <2> QED
    BY <2>1, <2>2, <2>3
<1>6. IsTop(call.B, pool', (Observed \ OldEntry(i)) \cup {NewEntry(i)})
  <2>1. IsTop(call.B, pool, Observed) /\ call.B \in Nat /\ IsFiniteSet(pool)
    BY <1>1, CallTypes DEF WInv, PoolIsTopB, WTypeOK
  <2> QED
    BY <1>1, <1>2, <2>1, OfferFacts, TopReplacesWorst
<1>7. IsFiniteSet(pool')
  <2>1. IsFiniteSet(PoolWithout(i) \ {w})
    BY <1>1, OfferFacts, FS_Subset DEF WInv
  <2> QED
    BY <1>2, <2>1, FS_AddElement
<1>8. /\ member_stamp' \in [Ids -> Stamp] /\ \A j \in Ids : member_stamp'[j] <= generation
  BY <1>1, <1>2, <1>4, MemberFacts, UpdateFrame
<1>9. admissions \subseteq admissions' /\ i \in verified \cup admissions'
  BY <1>1 DEF Evict, Admit, WInv, PoolGetsVerified, StampsAgree, IsMember, Entry
<1> QED
  BY <1>1, <1>2, <1>5, <1>6, <1>7, <1>8, <1>9, InvObserve

\* A pool with room takes the offer and turns nothing away.
LEMMA InvInsert ==
  ASSUME WInv, NEW i \in Ids, Update(i), Insert(i)
  PROVE  WInv'
<1>1. Observe(i) /\ phase = "update" /\ Cardinality(PoolWithout(i)) # call.B
  BY DEF Insert, Update
<1>2. /\ pool' = PoolWithout(i) \cup {NewEntry(i)}
      /\ member_stamp' = [member_stamp EXCEPT ![i] = generation]
  BY DEF Insert
<1>3. \A j \in Ids : member_stamp'[j] = IF j = i THEN generation ELSE member_stamp[j]
  BY <1>1, <1>2, MemberFacts
<1>4. \A j \in Ids : member_stamp'[j] = generation <=> Entry(j)' \in pool'
  <2> SUFFICES ASSUME NEW j \in Ids
               PROVE  member_stamp'[j] = generation <=> Entry(j)' \in pool'
    OBVIOUS
  <2>1. CASE j = i
    BY <1>1, <1>2, <1>3, <2>1, MemberFacts
  <2>2. CASE j # i
    <3>1. Entry(j)' # NewEntry(i)
      BY <1>1, <2>2, MemberFacts
    <3> QED
      BY <1>1, <1>2, <1>3, <2>2, <3>1, MemberFacts
  <2> QED
    BY <2>1, <2>2
<1>5. IsTop(call.B, pool', (Observed \ OldEntry(i)) \cup {NewEntry(i)})
  <2>1. IsTop(call.B, pool, Observed) /\ call.B \in Nat /\ IsFiniteSet(pool)
    BY <1>1, CallTypes DEF WInv, PoolIsTopB, WTypeOK
  <2> QED
    BY <1>1, <1>2, <2>1, OfferFacts, TopTakes
<1>6. IsFiniteSet(pool')
  <2>1. IsFiniteSet(PoolWithout(i))
    BY <1>1, OfferFacts, FS_Subset DEF WInv
  <2> QED
    BY <1>2, <2>1, FS_AddElement
<1>7. /\ member_stamp' \in [Ids -> Stamp] /\ \A j \in Ids : member_stamp'[j] <= generation
  BY <1>1, <1>2, <1>3, MemberFacts, UpdateFrame
<1>8. admissions \subseteq admissions' /\ i \in verified \cup admissions'
  BY <1>1 DEF Insert, Admit, WInv, PoolGetsVerified, StampsAgree, IsMember, Entry
<1> QED
  BY <1>1, <1>2, <1>4, <1>5, <1>6, <1>7, <1>8, InvObserve

-----------------------------------------------------------------------------
\* the steps between batches: the lists and stamps they leave alone
LEMMA StampsUnchanged ==
  ASSUME WInv, WTypeOK', phase # "idle",
         UNCHANGED <<call, generation, cluster_generation, arrays, touched, verified,
                     pool, counted>>
  PROVE  StampsBounded' /\ StampsAgree' /\ NoStalePosition' /\ PoolIsTopB'
         /\ IsFiniteSet(pool')
<1>1. Ids' = Ids /\ Cells' = Cells
  BY DEF arrays, Ids, Cells
<1>2. NoStalePosition' /\ PoolIsTopB' /\ IsFiniteSet(pool')
  BY PoolPartUnchanged DEF arrays
<1>3. StampsBounded' /\ StampsAgree'
  BY <1>1 DEF arrays, WInv, StampsBounded, StampsAgree, Entry
<1> QED
  BY <1>2, <1>3

\* Starting the loop over the counted records keeps the invariant.
LEMMA InvStartUpdate ==
  ASSUME WInv, WTypeOK', StartUpdate
  PROVE  WInv'
<1>1. StampsBounded' /\ StampsAgree' /\ NoStalePosition' /\ PoolIsTopB'
      /\ IsFiniteSet(pool')
  BY StampsUnchanged DEF StartUpdate
<1>2. CountsAreFresh' /\ PoolGetsVerified'
  BY DEF StartUpdate, arrays, WInv, CountsAreFresh, PoolGetsVerified, Ids
<1> QED
  BY <1>1, <1>2 DEF WInv

\* The end of that loop keeps it.
LEMMA InvStartVerify ==
  ASSUME WInv, WTypeOK', StartVerify
  PROVE  WInv'
<1>1. StampsBounded' /\ StampsAgree' /\ NoStalePosition' /\ PoolIsTopB'
      /\ IsFiniteSet(pool')
  BY StampsUnchanged DEF StartVerify
<1>2. CountsAreFresh' /\ PoolGetsVerified'
  BY DEF StartVerify, arrays, WInv, CountsAreFresh, PoolGetsVerified, Ids
<1> QED
  BY <1>1, <1>2 DEF WInv

\* Verifying a record stamps exactly the record it lists.
LEMMA InvVerify ==
  ASSUME WInv, NEW i \in Ids, Verify(i)
  PROVE  WInv'
<1>1. WTypeOK'
  BY TypeVerify DEF WInv
<1>2. Cells = Ids /\ Cells' = Ids /\ Ids' = Ids /\ phase' = phase
  BY DEF Verify, WInv, WTypeOK, Ids, Cells
<1>3. \A j \in Ids : verified_stamp'[j] = IF j = i THEN generation ELSE verified_stamp[j]
  BY <1>2 DEF Verify, WInv, WTypeOK
<1>4. StampsBounded'
  BY <1>2, <1>3, GenModAssumption DEF Verify, WInv, StampsBounded, WTypeOK, Stamp
<1>5. StampsAgree'
  BY <1>2, <1>3 DEF Verify, WInv, StampsAgree, Entry
<1>6. NoStalePosition' /\ PoolIsTopB' /\ IsFiniteSet(pool')
  BY PoolPartUnchanged DEF Verify
<1>7. CountsAreFresh' /\ PoolGetsVerified'
  BY <1>2 DEF Verify, WInv, CountsAreFresh, PoolGetsVerified
<1> QED
  BY <1>1, <1>4, <1>5, <1>6, <1>7 DEF WInv

\* whatever the batch admitted and did not evict again has been verified
LEMMA InvEndCluster ==
  ASSUME WInv, WTypeOK', EndCluster
  PROVE  WInv'
<1>1. StampsBounded' /\ StampsAgree' /\ NoStalePosition' /\ PoolIsTopB'
      /\ IsFiniteSet(pool')
  BY StampsUnchanged DEF EndCluster
<1>2. CountsAreFresh'
  BY DEF EndCluster, CountsAreFresh
<1>3. ASSUME NEW p \in pool PROVE p[2] \in verified
  <2>1. p[2] \in Ids /\ IsMember(p[2]) /\ p[2] \in verified \cup admissions
    BY DEF EndCluster, WInv, WTypeOK, NoStalePosition, PoolGetsVerified
  <2> QED
    BY <2>1 DEF EndCluster, Surviving, WInv, StampsAgree
<1>4. PoolGetsVerified'
  BY <1>3 DEF EndCluster, PoolGetsVerified
<1> QED
  BY <1>1, <1>2, <1>4 DEF WInv

\* a thread without a search keeps its arrays and has nothing else to keep
LEMMA InvLeave ==
  ASSUME WInv, WTypeOK', End \/ Abort
  PROVE  WInv'
<1>1. phase' = "idle" /\ Cells' = Cells
  BY DEF End, Abort, arrays, Cells
<1>2. StampsBounded'
  BY <1>1 DEF End, Abort, arrays, WInv, StampsBounded
<1>3. IsFiniteSet(pool')
  BY FS_EmptySet DEF End, Abort, WInv
<1> QED
  BY <1>1, <1>2, <1>3
  DEF WInv, StampsAgree, CountsAreFresh, NoStalePosition, PoolIsTopB, PoolGetsVerified

\* A step that changes nothing in the workspace keeps the invariant.
LEMMA InvStutter == WInv /\ UNCHANGED wvars => WInv'
<1> SUFFICES ASSUME WInv, UNCHANGED wvars PROVE WInv'
  OBVIOUS
<1>1. WTypeOK' /\ Ids' = Ids /\ Cells' = Cells /\ Observed' = Observed
  BY TypeStep DEF WInv, wvars, arrays, Ids, Cells, Observed, Entry
<1> QED
  BY <1>1 DEF wvars, arrays, WInv, StampsBounded, StampsAgree, CountsAreFresh,
     NoStalePosition, PoolIsTopB, PoolGetsVerified, Entry, IsMember

\* Every step keeps the invariant.
LEMMA InvStep == WInv /\ [WNext]_wvars => WInv'
<1> SUFFICES ASSUME WInv, [WNext]_wvars PROVE WInv'
  OBVIOUS
<1>1. WTypeOK'
  BY TypeStep DEF WInv
<1>2. ASSUME NEW c \in Calls, Begin(c) PROVE WInv'
  BY <1>2, InvBegin
<1>3. ASSUME NEW tables \in 1..MaxTables, StartCluster(tables) PROVE WInv'
  BY <1>3, InvStartCluster
<1>4. ASSUME NEW bucket \in SUBSET Ids, ScanTable(bucket) PROVE WInv'
  BY <1>4, InvScanTable
<1>5. CASE StartUpdate
  BY <1>1, <1>5, InvStartUpdate
<1>6. ASSUME NEW i \in Ids, Update(i) PROVE WInv'
  BY <1>6, InvSkip, InvDrop, InvEvict, InvInsert DEF Update
<1>7. CASE StartVerify
  BY <1>1, <1>7, InvStartVerify
<1>8. ASSUME NEW i \in Ids, Verify(i) PROVE WInv'
  BY <1>8, InvVerify
<1>9. CASE EndCluster
  BY <1>1, <1>9, InvEndCluster
<1>10. CASE End \/ Abort
  BY <1>1, <1>10, InvLeave
<1>11. CASE UNCHANGED wvars
  BY <1>11, InvStutter
<1> QED
  BY <1>2, <1>3, <1>4, <1>5, <1>6, <1>7, <1>8, <1>9, <1>10, <1>11 DEF WNext, WStep

\* The invariant of the workspace: the stamps, the lists, the pool and the
\* collision counts of a search thread agree at all times.
THEOREM WorkspaceInvariant == WSpec => []WInv
BY InvInit, InvStep, PTL DEF WSpec

\* A stamp of an earlier query, of a larger or smaller collection, or of before a
\* wrap of the generation counter is never mistaken for one of this query.
THEOREM StampsNeverStale == WSpec => [](StampsBounded /\ StampsAgree /\ CountsAreFresh)
<1>1. WInv => StampsBounded /\ StampsAgree /\ CountsAreFresh
  BY DEF WInv
<1> QED
  BY <1>1, WorkspaceInvariant, PTL

\* IndexedPoolHeap::erase is never given a value the pool does not hold.
THEOREM NoStaleErase == WSpec => []NoStalePosition
<1>1. WInv => NoStalePosition
  BY DEF WInv
<1> QED
  BY <1>1, WorkspaceInvariant, PTL

\* Incremental eviction keeps exactly the best entries observed so far, for
\* every capacity, every number of offers and every order of the offers.
THEOREM PoolKeepsTheBest == WSpec => []PoolIsTopB
<1>1. WInv => PoolIsTopB
  BY DEF WInv
<1> QED
  BY <1>1, WorkspaceInvariant, PTL

\* A count is read only when it is the present cluster's: whatever the 32-bit
\* generation and the 16-bit epoch ran over, no cell keeps an older cluster's sum.
THEOREM NoStaleCounts == WSpec => []CountsAreFresh
<1>1. WInv => CountsAreFresh
  BY DEF WInv
<1> QED
  BY <1>1, WorkspaceInvariant, PTL

\* Verifying only the admissions of each batch verifies the whole pool.
THEOREM AdmissionsSuffice == WSpec => []PoolGetsVerified
<1>1. WInv => PoolGetsVerified
  BY DEF WInv
<1> QED
  BY <1>1, WorkspaceInvariant, PTL

\* An offer raises the proxy of a record observed before, or leaves it.
LEMMA OfferRises ==
  ASSUME WInv, NEW i \in Ids, Update(i)
  PROVE  /\ touched \subseteq touched' /\ verified \subseteq verified'
         /\ \A r \in touched : proxy'[r] >= proxy[r]
<1>1. /\ phase = "update" /\ i \in counted /\ proxy \in [Ids -> Nat] /\ touched \subseteq Ids
      /\ verified' = verified
  BY DEF Update, WInv, WTypeOK
<1>2. NewEntry(i)[1] \in Nat /\ (i \in touched => Seen(i))
  BY <1>1, NewEntryType DEF WInv, StampsAgree, Seen, CountsAreFresh
<1>3. CASE Skip(i)
  BY <1>1, <1>3 DEF Skip
<1>4. CASE Observe(i)
  BY <1>1, <1>2, <1>4 DEF Observe, Improves
<1> QED
  BY <1>3, <1>4 DEF Update, Drop, Evict, Insert

\* Within a query no proxy falls and nothing observed or verified is forgotten,
\* through any number of clusters, evictions and re-admissions.
THEOREM ProxiesNeverFall == WSpec => ProxiesOnlyRise
<1> DEFINE Rise == /\ touched \subseteq touched' /\ verified \subseteq verified'
                   /\ \A i \in touched : proxy'[i] >= proxy[i]
<1>1. ASSUME WInv, WNext, phase # "idle" PROVE Rise
  <2>1. \A i \in touched : proxy[i] \in Nat
    BY <1>1 DEF WInv, WTypeOK
  <2>2. ASSUME NEW i \in Ids, Update(i) PROVE Rise
    BY <1>1, <2>2, OfferRises
  <2>3. ASSUME NEW i \in Ids, Verify(i) PROVE Rise
    BY <2>1, <2>3 DEF Verify
  <2>4. ASSUME NEW tables \in 1..MaxTables, StartCluster(tables) PROVE Rise
    BY <2>1, <2>4 DEF StartCluster
  <2>5. ASSUME NEW bucket \in SUBSET Ids, ScanTable(bucket) PROVE Rise
    BY <2>1, <2>5 DEF ScanTable
  <2>6. CASE StartUpdate \/ StartVerify \/ EndCluster \/ End \/ Abort
    BY <2>1, <2>6 DEF StartUpdate, StartVerify, EndCluster, End, Abort, arrays
  <2> QED
    BY <1>1, <2>2, <2>3, <2>4, <2>5, <2>6 DEF WNext, WStep, Begin
<1>2. WInv /\ [WNext]_wvars => [phase # "idle" => Rise]_wvars
  BY <1>1
<1> QED
  BY <1>2, WorkspaceInvariant, PTL DEF WSpec, ProxiesOnlyRise

-----------------------------------------------------------------------------
(***************************************************************************)
(* The dense query.  The array is zero outside the coordinates it was last *)
(* given, in whatever collection that was and however its search ended, so *)
(* taking those back leaves nothing of it.                                 *)
(***************************************************************************)

\* While a search runs, the array is the query with zeros between; after it, only
\* the coordinates the next query takes back are not zero.
DenseInv ==
  /\ \A c \in DOMAIN query_values \ query_coordinates : query_values[c] = 0
  /\ phase # "idle" =>
       /\ call \in Calls /\ query \in Vectors(DimOf(call))
       /\ DOMAIN query_values = 0..DimOf(call)-1
       /\ \A c \in 0..DimOf(call)-1 :
            query_values[c] = IF c \in DOMAIN query THEN query[c] ELSE 0
       /\ \A c \in DOMAIN query : c <= query_max

\* A row has values at some coordinates of its collection.
LEMMA VectorTypes ==
  ASSUME NEW c \in Calls, NEW row \in Vectors(DimOf(c))
  PROVE  /\ DimOf(c) \in Nat \ {0}
         /\ DOMAIN row \subseteq 0..DimOf(c)-1 /\ IsFiniteSet(DOMAIN row)
         /\ \A x \in DOMAIN row : row[x] \in Int
<1>1. DimOf(c) \in Nat \ {0} /\ Values \subseteq Int
  BY DenseAssumption
<1>2. PICK S \in SUBSET (0..DimOf(c)-1) : row \in [S -> Values]
  BY DEF Vectors
<1>3. IsFiniteSet(0..DimOf(c)-1)
  BY <1>1, FS_Interval
<1> QED
  BY <1>1, <1>2, <1>3, FS_Subset

\* No coordinate of a row is above the last one.
LEMMA LastCoordinate ==
  ASSUME NEW d \in Nat, NEW S \in SUBSET (0..d-1)
  PROVE  \A c \in S : c <= Max({-1} \cup S)
<1> DEFINE Over == {u \in Nat : \A x \in S : x < u}
<1>1. PICK u \in Over : \A v \in Over : u <= v
  <2>1. d \in Over
    OBVIOUS
  <2> HIDE DEF Over
  <2>2. Over \in SUBSET Nat
    BY DEF Over
  <2> QED
    BY <2>1, <2>2, LeastExists
<1>2. u \in Nat /\ \A x \in S : x < u
  OBVIOUS
<1>3. \E x \in {-1} \cup S : \A y \in {-1} \cup S : x >= y
  <2>1. CASE u = 0
    <3>1. S = {}
      BY <1>2, <2>1
    <3> QED
      BY <3>1
  <2>2. CASE u # 0
    <3>1. u - 1 \in Nat /\ u - 1 \notin Over
      BY <1>1, <1>2, <2>2
    <3>2. PICK x \in S : ~(x < u - 1)
      BY <3>1
    <3> HIDE DEF Over
    <3>3. \A y \in S : x >= y
      BY <1>2, <3>1, <3>2
    <3>4. x >= -1
      BY <3>2
    <3> QED
      BY <3>3, <3>4
  <2> QED
    BY <2>1, <2>2
<1> HIDE DEF Over
<1> QED
  BY <1>3 DEF Max

\* A new query overwrites the last one, whatever is left of it.
LEMMA DensePrepare ==
  ASSUME DenseInv, NEW c \in Calls, NEW row \in Vectors(DimOf(c)),
         Begin(c), PrepareQuery(row, DimOf(c))
  PROVE  DenseInv'
<1> DEFINE old == Cleared(query_values)
           values == Resize(old, DimOf(c))
<1>1. /\ DimOf(c) \in Nat /\ DOMAIN row \subseteq 0..DimOf(c)-1
  BY VectorTypes
<1>2. call' = c /\ query' = row /\ query_coordinates' = DOMAIN row
  BY DEF Begin, PrepareQuery
<1>3. \A x \in DOMAIN old : old[x] = 0
  BY DEF DenseInv, Cleared
<1>4. \A x \in 0..DimOf(c)-1 : values[x] = 0
  <2> HIDE DEF old
  <2> QED
    BY <1>3 DEF Resize
<1>5. query_values' = [x \in 0..DimOf(c)-1 |-> IF x \in DOMAIN row THEN row[x] ELSE values[x]]
  BY DEF PrepareQuery
<1> HIDE DEF values
<1>6. /\ DOMAIN query_values' = 0..DimOf(c)-1
      /\ \A x \in 0..DimOf(c)-1 :
           query_values'[x] = IF x \in DOMAIN row THEN row[x] ELSE 0
  BY <1>4, <1>5
<1>7. \A x \in DOMAIN row : x <= query_max'
  BY <1>1, LastCoordinate DEF PrepareQuery
<1>8. \A x \in DOMAIN query_values' \ query_coordinates' : query_values'[x] = 0
  BY <1>2, <1>6
<1>9. call' \in Calls /\ query' \in Vectors(DimOf(call'))
  BY <1>2
<1> QED
  BY <1>2, <1>6, <1>7, <1>8, <1>9 DEF DenseInv

\* The other operations leave the query and the call alone, until the search ends.
LEMMA StepKeepsCall ==
  ASSUME WStep
  PROVE  phase # "idle" /\ call' = call
<1>1. ASSUME NEW i \in Ids, Update(i) PROVE phase # "idle" /\ call' = call
  BY <1>1 DEF Update
<1>2. ASSUME NEW i \in Ids, Verify(i) PROVE phase # "idle" /\ call' = call
  BY <1>2 DEF Verify
<1>3. ASSUME NEW tables \in 1..MaxTables, StartCluster(tables)
      PROVE  phase # "idle" /\ call' = call
  BY <1>3 DEF StartCluster
<1>4. ASSUME NEW bucket \in SUBSET Ids, ScanTable(bucket)
      PROVE  phase # "idle" /\ call' = call
  BY <1>4 DEF ScanTable
<1>5. CASE StartUpdate
  BY <1>5 DEF StartUpdate
<1>6. CASE StartVerify
  BY <1>6 DEF StartVerify
<1>7. CASE EndCluster
  BY <1>7 DEF EndCluster
<1>8. CASE End
  BY <1>8 DEF End
<1>9. CASE Abort
  BY <1>9 DEF Abort
<1> QED
  BY <1>1, <1>2, <1>3, <1>4, <1>5, <1>6, <1>7, <1>8, <1>9 DEF WStep

LEMMA DenseStep == DenseInv /\ [DNext]_<<wvars, dense>> => DenseInv'
<1> SUFFICES ASSUME DenseInv, [DNext]_<<wvars, dense>> PROVE DenseInv'
  OBVIOUS
<1>1. CASE UNCHANGED <<wvars, dense>>
  BY <1>1 DEF DenseInv, wvars, dense
<1>2. ASSUME NEW c \in Calls, NEW row \in Vectors(DimOf(c)),
             Begin(c), PrepareQuery(row, DimOf(c))
      PROVE  DenseInv'
  BY <1>2, DensePrepare
<1>3. CASE WStep /\ UNCHANGED dense
  <2>1. phase # "idle" /\ call' = call
    BY <1>3, StepKeepsCall
  <2> QED
    BY <1>3, <2>1 DEF DenseInv, dense
<1> QED
  BY <1>1, <1>2, <1>3 DEF DNext

LEMMA DenseInit == DInit => DenseInv
BY DEF DInit, WInit, DenseInv, Zeros

-----------------------------------------------------------------------------
\* The fold that ExactDenseDot and Dot are, as a function of the sets it sums.
ProductSum(a, b, S) ==
  CHOOSE g : g = [s \in SUBSET S |->
    IF s = {} THEN 0
    ELSE LET x == CHOOSE y \in s : TRUE IN a[x] * b[x] + g[s \ {x}]]

Products(a, b, S) == [x \in S |-> a[x] * b[x]]

LEMMA ProductSumIs ==
  ASSUME NEW a, NEW b, NEW S, IsFiniteSet(S)
  PROVE  IsSum(ProductSum(a, b, S), Products(a, b, S), S)
<1> DEFINE D(g) == g = [s \in SUBSET S |->
                     IF s = {} THEN 0
                     ELSE LET x == CHOOSE y \in s : TRUE IN a[x] * b[x] + g[s \ {x}]]
           f == Products(a, b, S)
<1>1. ASSUME NEW g PROVE D(g) <=> IsSum(g, f, S)
  <2>1. ASSUME NEW s \in SUBSET S, s # {}
        PROVE  a[One(s)] * b[One(s)] = f[One(s)]
    BY <2>1 DEF One, Products
  <2>2. [s \in SUBSET S |->
           IF s = {} THEN 0 ELSE a[One(s)] * b[One(s)] + g[s \ {One(s)}]]
        = [s \in SUBSET S |-> IF s = {} THEN 0 ELSE f[One(s)] + g[s \ {One(s)}]]
    <3> HIDE DEF f
    <3> QED
      BY <2>1
  <2> QED
    BY <2>2 DEF IsSum, One
<1>2. ProductSum(a, b, S) = CHOOSE g : D(g)
  BY DEF ProductSum
<1> HIDE DEF f
<1>3. \E g : D(g)
  <2> HIDE DEF D
  <2> QED
    BY <1>1, SumExists
<1> HIDE DEF D
<1>4. D(ProductSum(a, b, S))
  BY <1>2, <1>3
<1>5. IsSum(ProductSum(a, b, S), f, S)
  BY <1>1, <1>4
<1> QED
  BY <1>5 DEF f

LEMMA DotIs ==
  ASSUME NEW a, NEW b
  PROVE  Dot(a, b) = ProductSum(a, b, DOMAIN a \cap DOMAIN b)[DOMAIN a \cap DOMAIN b]
BY DEF Dot, MapThenSumSet, MapThenFoldSet, ProductSum

LEMMA DenseDotIs ==
  ASSUME NEW b
  PROVE  ExactDenseDot(b) = ProductSum(query_values, b, Read(b))[Read(b)]
BY DEF ExactDenseDot, MapThenSumSet, MapThenFoldSet, ProductSum

\* The terms that only the dense sum has are zero.
LEMMA DenseScore ==
  ASSUME DenseInv, phase # "idle", NEW document \in Vectors(DimOf(call))
  PROVE  ExactDenseDot(document) = Dot(query, document)
<1> DEFINE S == Read(document)
           T == DOMAIN query \cap DOMAIN document
           f == Products(query_values, document, S)
           k == Products(query, document, T)
<1>1. /\ call \in Calls /\ query \in Vectors(DimOf(call))
      /\ DOMAIN query_values = 0..DimOf(call)-1
      /\ \A c \in 0..DimOf(call)-1 :
           query_values[c] = IF c \in DOMAIN query THEN query[c] ELSE 0
      /\ \A c \in DOMAIN query : c <= query_max
  BY DEF DenseInv
<1>2. /\ DOMAIN query \subseteq 0..DimOf(call)-1 /\ \A x \in DOMAIN query : query[x] \in Int
      /\ DOMAIN document \subseteq 0..DimOf(call)-1 /\ IsFiniteSet(DOMAIN document)
      /\ \A x \in DOMAIN document : document[x] \in Int
  BY <1>1, VectorTypes
<1>3. S \subseteq DOMAIN document /\ IsFiniteSet(S)
  <2>1. S \subseteq DOMAIN document
    BY DEF Read
  <2> QED
    BY <1>2, <2>1, FS_Subset
<1>4. T \in SUBSET S /\ IsFiniteSet(T)
  <2>1. T \subseteq S
    BY <1>1 DEF Read
  <2> QED
    BY <1>3, <2>1, FS_Subset
<1>5. \A x \in S : f[x] \in Int /\ (x \notin T => f[x] = 0)
  <2> SUFFICES ASSUME NEW x \in S PROVE f[x] \in Int /\ (x \notin T => f[x] = 0)
    OBVIOUS
  <2>1. x \in DOMAIN document /\ x \in 0..DimOf(call)-1 /\ document[x] \in Int
    BY <1>2, <1>3
  <2>2. query_values[x] = IF x \in DOMAIN query THEN query[x] ELSE 0
    BY <1>1, <2>1
  <2>3. query_values[x] \in Int /\ (x \notin T => query_values[x] = 0)
    BY <1>2, <2>1, <2>2
  <2>4. f[x] = query_values[x] * document[x]
    BY DEF Products
  <2> HIDE DEF f, T
  <2> QED
    BY <2>1, <2>3, <2>4
<1>6. \A x \in T : f[x] = k[x]
  <2> SUFFICES ASSUME NEW x \in T PROVE f[x] = k[x]
    OBVIOUS
  <2>1. x \in S /\ query_values[x] = query[x]
    BY <1>1, <1>2, <1>4
  <2> QED
    BY <2>1 DEF Products
<1>7. /\ IsSum(ProductSum(query_values, document, S), f, S)
      /\ IsSum(ProductSum(query, document, T), k, T)
  BY <1>3, <1>4, ProductSumIs
<1> HIDE DEF f, k
<1>8. ProductSum(query_values, document, S)[S] = ProductSum(query, document, T)[T]
  <2> HIDE DEF S, T
  <2> QED
    BY <1>3, <1>4, <1>5, <1>6, <1>7, SumLeavesOut
<1> QED
  BY <1>8, DotIs, DenseDotIs

\* A score computed on the dense copy is the sparse inner product with this
\* query, after any sequence of queries and exceptions on the thread, of
\* collections of any dimensions.
THEOREM DenseScoresAreExact == DSpec => []DenseIsSparse
<1>1. DenseInv => DenseIsSparse
  BY DenseScore DEF DenseIsSparse
<1> QED
  BY <1>1, DenseInit, DenseStep, PTL DEF DSpec

-----------------------------------------------------------------------------
(***************************************************************************)
(* The search.                                                             *)
(***************************************************************************)

\* An element of a sequence, by its position.
LEMMA SeqElements ==
  ASSUME NEW S, NEW s \in Seq(S)
  PROVE  Len(s) \in Nat /\ \A i \in 1..Len(s) : s[i] \in S
OBVIOUS

\* What the assumptions say of one call and of a position of its route.
LEMMA CallFacts ==
  ASSUME NEW c \in Calls
  PROVE  /\ c.n \in Nat /\ c.B \in Nat /\ c.k \in Nat /\ c.k \in 1..c.B
         /\ c.active \subseteq 0..c.n-1
         /\ c.score \in [0..c.n-1 -> Int]
         /\ Len(c.route) \in Nat
         /\ \A s \in 1..Len(c.route) :
              /\ c.route[s].members \in SUBSET (0..c.n-1)
              /\ c.route[s].bound \in Int /\ c.route[s].m \in 1..MaxTables
<1> DEFINE Probes == [members : SUBSET (0..c.n-1), bound : Int, m : 1..MaxTables]
<1>1. /\ c.n \in Nat /\ c.B \in Nat /\ c.k \in 1..c.B
      /\ c.active \subseteq 0..c.n-1
      /\ c.score \in [0..c.n-1 -> Int]
  BY CallsAssumption
<1>2. c.route \in Seq(Probes)
  BY CallsAssumption
<1>3. Len(c.route) \in Nat /\ \A s \in 1..Len(c.route) : c.route[s] \in Probes
  <2> HIDE DEF Probes
  <2> QED
    BY <1>2, SeqElements
<1>4. \A r \in Probes : r.members \in SUBSET (0..c.n-1) /\ r.bound \in Int /\ r.m \in 1..MaxTables
  OBVIOUS
<1>5. \A s \in 1..Len(c.route) :
              /\ c.route[s].members \in SUBSET (0..c.n-1)
              /\ c.route[s].bound \in Int /\ c.route[s].m \in 1..MaxTables
  <2> HIDE DEF Probes
  <2> QED
    BY <1>3, <1>4
<1> QED
  BY <1>1, <1>3, <1>5

\* The exact search answers with active records.
LEMMA HitsAreActive ==
  ASSUME NEW c \in Calls
  PROVE  ExactHits(c) \subseteq Hits(c, c.active)
BY DEF ExactHits, Best

\* What an offer leaves in top was there or is the record offered.
LEMMA OfferType ==
  ASSUME TypeOK, NEW i \in call.active, Offer(Scored(call, i))
  PROVE  top' \subseteq Hits(call, call.active)
<1>1. Scored(call, i) \in Hits(call, call.active) /\ top \subseteq Hits(call, call.active)
  BY DEF TypeOK, Hits
<1> QED
  BY <1>1 DEF Offer

-----------------------------------------------------------------------------
(***************************************************************************)
(* Every step of the search is a step of the workspace or leaves it alone. *)
(***************************************************************************)

\* what only active records are put into
ActiveOnly ==
  phase # "idle" => counted \cup admissions \cup touched \cup verified \subseteq call.active

\* while a cluster is probed, t is its place in the route
InRoute == phase \in {"scan", "update", "verify"} => t \in 1..Len(call.route)

TInv == TypeOK /\ ActiveOnly /\ InRoute

\* A thread that has not searched satisfies the typed invariant.
LEMMA TInvInit == Init => TInv
<1> SUFFICES ASSUME Init PROVE TInv
  OBVIOUS
<1>1. WTypeOK /\ call \in Calls
  BY TypeInit DEF Init, WInit
<1>2. t \in 1..Len(call.route) + 1
  BY <1>1, CallFacts DEF Init
<1> QED
  BY <1>1, <1>2 DEF Init, WInit, TInv, TypeOK, ActiveOnly, InRoute

\* Every step of the search is a step of the workspace or leaves it alone.
LEMMA UsesWorkspace ==
  ASSUME TInv, [Next]_vars
  PROVE  [WNext]_wvars
<1>1. call \in Calls /\ t \in 1..Len(call.route) + 1 /\ Len(call.route) \in Nat
  BY CallFacts DEF TInv, TypeOK, WTypeOK
<1>2. ASSUME NEW c \in Calls, EmptyQuery(c) \/ BeginQuery(c) PROVE [WNext]_wvars
  BY <1>2 DEF EmptyQuery, BeginQuery, WNext, WStep
<1>3. ASSUME NEW i \in Ids, VerifyDelta(i) \/ VerifyAdmission(i) \/ VerifyFallback(i)
      PROVE  WNext
  BY <1>3 DEF VerifyDelta, VerifyAdmission, VerifyFallback, VerifyRecord, WNext, WStep
<1>4. ASSUME NEW i \in Ids, OfferCounted(i) PROVE WNext
  BY <1>4 DEF OfferCounted, WNext, WStep
<1>5. CASE Stop \/ StartFallback
  BY <1>5 DEF Stop, StartFallback
<1>6. CASE Probe
  <2>1. t \in 1..Len(call.route)
    BY <1>1, <1>6 DEF Probe, Routing
  <2>2. call.route[t].m \in 1..MaxTables
    BY <1>1, <2>1, CallFacts
  <2> QED
    BY <1>6, <2>2 DEF Probe, WNext, WStep
<1>7. ASSUME NEW bucket, VisitBucket(bucket) PROVE WNext
  <2>1. bucket \cap call.active \in SUBSET Ids
    BY <1>1, CallFacts DEF Ids
  <2> QED
    BY <1>7, <2>1 DEF VisitBucket, WNext, WStep
<1>8. CASE NextLoop \/ EndProbe \/ Finish \/ Throw
  BY <1>8 DEF NextLoop, EndProbe, Finish, Throw, WNext, WStep
<1>9. CASE UNCHANGED vars
  BY <1>9 DEF vars
<1> QED
  BY <1>2, <1>3, <1>4, <1>5, <1>6, <1>7, <1>8, <1>9 DEF Next, SearchStep

\* Verify and Update touch only records that are active
LEMMA VerifiesActive ==
  ASSUME TInv, NEW i \in Ids,
         VerifyDelta(i) \/ VerifyAdmission(i) \/ VerifyFallback(i)
  PROVE  i \in call.active
<1>1. phase # "idle"
  BY DEF VerifyDelta, VerifyAdmission, VerifyFallback, VerifyRecord, Verify
<1> QED
  BY <1>1 DEF TInv, ActiveOnly, VerifyDelta, VerifyAdmission, VerifyFallback, Surviving

\* Every step of the search keeps types, activity and the position in the route.
LEMMA TInvStep == TInv /\ [Next]_vars => TInv'
<1> SUFFICES ASSUME TInv, [Next]_vars PROVE TInv'
  OBVIOUS
<1>1. WTypeOK'
  BY UsesWorkspace, TypeStep DEF TInv, TypeOK
<1>2. call \in Calls /\ Len(call.route) \in Nat /\ t \in 1..Len(call.route) + 1
  BY CallFacts DEF TInv, TypeOK, WTypeOK
<1>3. ASSUME NEW c \in Calls, EmptyQuery(c) PROVE TInv'
  <2>1. \A a \in answer' : a.of \in Calls /\ a.hits \subseteq Hits(a.of, a.of.active)
    BY <1>3, HitsAreActive DEF EmptyQuery
  <2> QED
    BY <1>1, <1>3, <2>1 DEF EmptyQuery, wvars, TInv, TypeOK, ActiveOnly, InRoute
<1>4. ASSUME NEW c \in Calls, BeginQuery(c) PROVE TInv'
  <2>1. t' \in 1..Len(call'.route) + 1
    BY <1>4, CallFacts DEF BeginQuery, Begin
  <2> QED
    BY <1>1, <1>4, <2>1 DEF BeginQuery, Begin, TInv, TypeOK, ActiveOnly, InRoute
<1>5. ASSUME NEW i \in Ids, VerifyDelta(i) \/ VerifyAdmission(i) \/ VerifyFallback(i)
      PROVE  TInv'
  <2>1. VerifyRecord(i) /\ i \in call.active
    BY <1>5, VerifiesActive DEF VerifyDelta, VerifyAdmission, VerifyFallback
  <2>2. top' \subseteq Hits(call, call.active) /\ call' = call
    BY <2>1, OfferType DEF TInv, VerifyRecord, Verify
  <2>3. TypeOK'
    BY <1>1, <2>1, <2>2 DEF VerifyRecord, TInv, TypeOK
  <2>4. ActiveOnly'
    BY <2>1 DEF VerifyRecord, Verify, TInv, ActiveOnly
  <2> QED
    BY <2>1, <2>3, <2>4 DEF VerifyRecord, Verify, TInv, InRoute
<1>6. ASSUME NEW i \in Ids, OfferCounted(i) PROVE TInv'
  <2>1. call' = call /\ phase # "idle" /\ i \in counted
    BY <1>6 DEF OfferCounted, Update, TInv, TypeOK, WTypeOK
  <2>2. TypeOK'
    BY <1>1, <1>6, <2>1 DEF OfferCounted, TInv, TypeOK
  <2>3. /\ counted' = counted /\ verified' = verified
        /\ touched' \subseteq touched \cup {i} /\ admissions' \subseteq admissions \cup {i}
    BY <1>6 DEF OfferCounted, Update, Skip, Drop, Evict, Insert, Observe, Admit
  <2> QED
    BY <1>6, <2>1, <2>2, <2>3 DEF OfferCounted, Update, TInv, ActiveOnly, InRoute
<1>7. CASE Stop \/ StartFallback
  BY <1>1, <1>7 DEF Stop, StartFallback, wvars, TInv, TypeOK, ActiveOnly, InRoute
<1>8. CASE Probe
  BY <1>1, <1>2, <1>8 DEF Probe, Routing, StartCluster, TInv, TypeOK, ActiveOnly, InRoute
<1>9. ASSUME NEW bucket, VisitBucket(bucket) PROVE TInv'
  BY <1>1, <1>9 DEF VisitBucket, ScanTable, TInv, TypeOK, ActiveOnly, InRoute
<1>10. CASE NextLoop
  BY <1>1, <1>10 DEF NextLoop, StartUpdate, StartVerify, TInv, TypeOK, ActiveOnly, InRoute
<1>11. CASE Throw
  BY <1>1, <1>11 DEF Throw, Abort, TInv, TypeOK, ActiveOnly, InRoute
<1>12. CASE Finish
  <2>1. \A a \in answer' : a.of \in Calls /\ a.hits \subseteq Hits(a.of, a.of.active)
    BY <1>2, <1>12 DEF Finish, TInv, TypeOK
  <2> QED
    BY <1>1, <1>12, <2>1 DEF Finish, End, TInv, TypeOK, ActiveOnly, InRoute
<1>13. CASE EndProbe
  BY <1>1, <1>2, <1>13 DEF EndProbe, EndCluster, TInv, TypeOK, ActiveOnly, InRoute
<1>14. CASE UNCHANGED vars
  BY <1>1, <1>14 DEF vars, wvars, TInv, TypeOK, ActiveOnly, InRoute
<1> QED
  BY <1>3, <1>4, <1>5, <1>6, <1>7, <1>8, <1>9, <1>10, <1>11, <1>12, <1>13, <1>14
  DEF Next, SearchStep

-----------------------------------------------------------------------------
(***************************************************************************)
(* The answer.  Once stopped, top stays full, so a later offer can only    *)
(* replace its worst hit by a better one.                                  *)
(***************************************************************************)
StopKept == phase # "idle" /\ stopped => Cardinality(top) = call.k

SInv == /\ TInv /\ WInv /\ TopIsBestOfVerified /\ IsFiniteSet(top)
        /\ StopIsSafe /\ StopKept

\* A thread that has not searched satisfies the invariant of the search.
LEMMA SInvInit == Init => SInv
<1> SUFFICES ASSUME Init PROVE SInv
  OBVIOUS
<1>1. TInv /\ WInv /\ IsFiniteSet(top)
  BY TInvInit, InvInit, FS_EmptySet DEF Init
<1> QED
  BY <1>1 DEF Init, WInit, SInv, TopIsBestOfVerified, StopIsSafe, StopKept

\* A scored record is a value the pair order ranks.
LEMMA ScoredIsPair ==
  ASSUME NEW c \in Calls, NEW i \in c.active
  PROVE  Scored(c, i) \in Pairs /\ Scored(c, i)[2] = i
BY CallFacts DEF Scored, Pairs

\* one exact score: top stays the best of the verified records
LEMMA TopOffer ==
  ASSUME SInv, NEW i \in call.active, i \in Ids, phase # "idle",
         VerifyRecord(i)
  PROVE  /\ TopIsBestOfVerified' /\ IsFiniteSet(top')
         /\ StopIsSafe' /\ StopKept'
<1> DEFINE h == Scored(call, i)
           O == Hits(call, verified)
<1>1. /\ call \in Calls /\ call' = call /\ phase' = phase /\ phase # "idle"
      /\ verified' = verified \cup {i} /\ stopped' = stopped /\ t' = t
  BY DEF VerifyRecord, Verify, SInv, TInv, TypeOK, WTypeOK
<1>2. call.k \in Nat /\ IsTop(call.k, top, O) /\ IsFiniteSet(top)
  BY <1>1, CallFacts DEF SInv, TopIsBestOfVerified
<1>3. i \notin verified
  BY DEF VerifyRecord, Verify, SInv, WInv, StampsAgree
<1>4. verified \subseteq call.active
  BY DEF SInv, TInv, ActiveOnly
<1>5. O \in SUBSET Pairs /\ h \in Pairs /\ h \notin O
  BY <1>1, <1>3, <1>4, ScoredIsPair DEF Hits
<1>6. Hits(call', verified') = O \cup {h}
  BY <1>1 DEF Hits
<1>7. top \ {} = top /\ O \ {} = O
  OBVIOUS
<1>8. CASE Cardinality(top) < call.k /\ top' = top \cup {h}
  <2>1. Cardinality(top) # call.k
    BY <1>2, <1>8, FS_CardinalityType
  <2>2. IsTop(call.k, top', O \cup {h})
    <3> HIDE DEF O, h
    <3> QED
      BY <1>2, <1>5, <1>7, <1>8, <2>1, TopTakes
  <2>3. IsFiniteSet(top')
    BY <1>2, <1>8, FS_AddElement
  <2>4. ~stopped
    BY <1>1, <2>1 DEF SInv, StopKept
  <2> QED
    BY <1>1, <1>6, <2>2, <2>3, <2>4 DEF TopIsBestOfVerified, StopIsSafe, StopKept
<1>9. CASE Cardinality(top) = call.k /\ \E w \in top : IsWorst(w, top) /\
             top' = IF Better(h, w) THEN (top \ {w}) \cup {h} ELSE top
  <2>1. PICK w \in top : IsWorst(w, top) /\
             top' = IF Better(h, w) THEN (top \ {w}) \cup {h} ELSE top
    BY <1>9
  <2>2. CASE ~Better(h, w)
    <3>1. top' = top
      BY <2>1, <2>2
    <3>2. IsTop(call.k, top, O \cup {h})
      <4> HIDE DEF O, h
      <4>1. Cardinality(top \ {}) = call.k /\ IsWorst(w, top \ {})
        BY <1>7, <1>9, <2>1
      <4>2. IsTop(call.k, top \ {}, (O \ {}) \cup {h})
        BY <1>2, <1>5, <2>2, <4>1, TopKeepsOut
      <4> QED
        BY <1>7, <4>2
    <3> QED
      BY <1>1, <1>2, <1>6, <3>1, <3>2
      DEF SInv, TopIsBestOfVerified, StopIsSafe, StopKept
  <2>3. CASE Better(h, w)
    <3>1. top' = (top \ {w}) \cup {h}
      BY <2>1, <2>3
    <3>2. IsTop(call.k, top', O \cup {h})
      <4> HIDE DEF O, h
      <4>1. Cardinality(top \ {}) = call.k /\ IsWorst(w, top \ {})
        BY <1>7, <1>9, <2>1
      <4>2. IsTop(call.k, ((top \ {}) \ {w}) \cup {h}, (O \ {}) \cup {h})
        BY <1>2, <1>5, <2>3, <4>1, TopReplacesWorst
      <4> QED
        BY <1>7, <3>1, <4>2
    <3>3. IsFiniteSet(top')
      BY <1>2, <3>1, FS_RemoveElement, FS_AddElement
    <3>4. Cardinality(top') = call.k
      <4>1. h \notin top /\ IsFiniteSet(top \ {w})
        BY <1>2, <1>5, FS_RemoveElement DEF IsTop
      <4>2. Cardinality(top \ {w}) = Cardinality(top) - 1
        BY <1>2, <2>1, FS_RemoveElement
      <4>3. Cardinality(top') = Cardinality(top \ {w}) + 1
        BY <3>1, <4>1, FS_AddElement
      <4> QED
        BY <1>2, <1>9, <4>2, <4>3
    <3>5. ASSUME NEW j \in call.active,
                 Scored(call, j) \in top \/ \A p \in top : Better(p, Scored(call, j))
          PROVE  Scored(call, j) \in top' \/ \A p \in top' : Better(p, Scored(call, j))
      <4> DEFINE x == Scored(call, j)
      <4>1. x \in Pairs /\ w \in Pairs /\ h \in Pairs
        BY <1>1, <1>2, <1>5, <2>1, ScoredIsPair DEF IsTop
      <4>2. CASE x \in top /\ x # w
        BY <3>1, <4>2
      <4>3. CASE x = w
        BY <2>1, <2>3, <3>1, <4>3 DEF IsWorst
      <4>4. CASE \A p \in top : Better(p, x)
        <5>1. Better(w, x)
          BY <2>1, <4>4
        <5>2. Better(h, x)
          BY <2>3, <4>1, <5>1, BetterIsTransitive
        <5> QED
          BY <3>1, <4>4, <5>2
      <4> QED
        BY <3>5, <4>2, <4>3, <4>4
    <3>6. StopIsSafe'
      BY <1>1, <3>5 DEF SInv, StopIsSafe
    <3> QED
      BY <1>1, <1>6, <3>2, <3>3, <3>4, <3>6 DEF TopIsBestOfVerified, StopKept
  <2> QED
    BY <2>2, <2>3
<1> QED
  BY <1>8, <1>9 DEF VerifyRecord, Offer

\* the bound test: nothing the clusters ahead hold can enter a full top
LEMMA StopIsSound ==
  ASSUME SInv, Stop
  PROVE  StopIsSafe' /\ StopKept'
<1>1. /\ call \in Calls /\ call' = call /\ t' = t /\ top' = top
      /\ t \in 1..Len(call.route) + 1 /\ Cardinality(top) = call.k
  BY DEF Stop, BoundTest, wvars, SInv, TInv, TypeOK, WTypeOK
<1>2. PICK w \in top : IsWorst(w, top)
               /\ \A s \in t..Len(call.route) : call.route[s].bound < w[1]
  BY DEF Stop, BoundTest
<1>3. top \subseteq Hits(call, call.active)
  BY DEF SInv, TInv, TypeOK
<1>4. top \subseteq Pairs
  BY <1>1, <1>3, ScoredIsPair DEF Hits
<1>5. ASSUME NEW s \in t..Len(call.route),
             NEW i \in call.route[s].members \cap call.active, NEW p \in top
      PROVE  Better(p, Scored(call, i))
  <2>1. s \in 1..Len(call.route) /\ Len(call.route) \in Nat
    BY <1>1, CallFacts
  <2>2. call.score[i] <= call.route[s].bound
    BY <1>1, <2>1, CallFacts, RouteAssumption DEF SoundRoute
  <2>3. call.route[s].bound \in Int /\ call.score[i] \in Int /\ w[1] \in Int
    BY <1>1, <1>2, <1>4, <2>1, CallFacts DEF Pairs
  <2>4. Better(w, Scored(call, i))
    BY <1>2, <2>2, <2>3 DEF Better, Scored
  <2>5. Scored(call, i) \in Pairs /\ w \in Pairs /\ p \in Pairs
    BY <1>1, <1>2, <1>4, ScoredIsPair
  <2> QED
    BY <1>2, <2>4, <2>5, BetterIsTransitive DEF IsWorst
<1> QED
  BY <1>1, <1>5 DEF StopIsSafe, StopKept

\* the steps that leave top, the verified records and the stop alone
LEMMA SearchUnchanged ==
  ASSUME SInv, phase # "idle",
         UNCHANGED <<call, t, stopped, top, verified>>
  PROVE  TopIsBestOfVerified' /\ IsFiniteSet(top') /\ StopIsSafe' /\ StopKept'
BY DEF SInv, TopIsBestOfVerified, StopIsSafe, StopKept

\* Every step of the search keeps its invariant.
LEMMA SInvStep == SInv /\ [Next]_vars => SInv'
<1> SUFFICES ASSUME SInv, [Next]_vars PROVE SInv'
  OBVIOUS
<1>1. TInv' /\ WInv'
  BY TInvStep, UsesWorkspace, InvStep DEF SInv
<1> DEFINE Rest == TopIsBestOfVerified /\ IsFiniteSet(top) /\ StopIsSafe /\ StopKept
<1> SUFFICES Rest'
  BY <1>1 DEF SInv
<1>2. ASSUME NEW c \in Calls, EmptyQuery(c) PROVE Rest'
  BY <1>2 DEF EmptyQuery, wvars, SInv, TopIsBestOfVerified, StopIsSafe, StopKept
<1>3. ASSUME NEW c \in Calls, BeginQuery(c) PROVE Rest'
  <2>1. top' = {} /\ Hits(call', verified') = {} /\ ~stopped' /\ call'.k \in Nat
    BY <1>3, CallFacts DEF BeginQuery, Begin, Hits
  <2> QED
    BY <2>1, FS_EmptySet DEF TopIsBestOfVerified, IsTop, StopIsSafe, StopKept
<1>4. ASSUME NEW i \in Ids, VerifyDelta(i) \/ VerifyAdmission(i) \/ VerifyFallback(i)
      PROVE  Rest'
  <2>1. VerifyRecord(i) /\ i \in call.active
    BY <1>4, VerifiesActive DEF SInv, VerifyDelta, VerifyAdmission, VerifyFallback
  <2>2. phase # "idle"
    BY <2>1 DEF VerifyRecord, Verify
  <2> QED
    BY <2>1, <2>2, TopOffer
<1>5. ASSUME NEW i \in Ids, OfferCounted(i) PROVE Rest'
  BY <1>5, SearchUnchanged DEF OfferCounted, Update
<1>6. CASE Stop
  BY <1>6, StopIsSound DEF Stop, wvars, SInv, TopIsBestOfVerified
<1>7. CASE Probe \/ (\E bucket : VisitBucket(bucket)) \/ NextLoop
  BY <1>7, SearchUnchanged
  DEF Probe, StartCluster, VisitBucket, ScanTable, NextLoop, StartUpdate, StartVerify
<1>8. CASE EndProbe
  <2>1. call' = call /\ stopped' = stopped /\ top' = top /\ verified' = verified
        /\ t' = t + 1 /\ phase # "idle" /\ t \in Nat
    BY <1>8, CallFacts DEF EndProbe, EndCluster, SInv, TInv, TypeOK, WTypeOK
  <2> QED
    BY <2>1, CallFacts DEF SInv, TInv, TypeOK, WTypeOK, TopIsBestOfVerified, StopIsSafe, StopKept
<1>9. CASE StartFallback
  BY <1>9 DEF StartFallback, wvars, SInv, TopIsBestOfVerified, StopIsSafe, StopKept
<1>10. CASE Finish
  BY <1>10, FS_EmptySet DEF Finish, End, SInv, TopIsBestOfVerified, StopIsSafe, StopKept
<1>11. CASE Throw
  BY <1>11 DEF Throw, Abort, SInv, TopIsBestOfVerified, StopIsSafe, StopKept
<1>12. CASE UNCHANGED vars
  BY <1>12 DEF vars, wvars, SInv, TopIsBestOfVerified, StopIsSafe, StopKept
<1> QED
  BY <1>2, <1>3, <1>4, <1>5, <1>6, <1>7, <1>8, <1>9, <1>10, <1>11, <1>12
  DEF Next, SearchStep

\* The invariant of the search: only active records are scored, top is the best
\* of them, and a stop rests on it until the search ends.
THEOREM SearchInvariant == Spec => []SInv
BY SInvInit, SInvStep, PTL DEF Spec

\* The search is a client of the workspace that keeps its protocol.
THEOREM SearchKeepsProtocol == Spec => WSpec
<1>1. Init => WInit
  BY DEF Init
<1>2. SInv /\ [Next]_vars => [WNext]_wvars
  BY UsesWorkspace DEF SInv
<1> QED
  BY <1>1, <1>2, SearchInvariant, PTL DEF Spec, WSpec

\* Type correctness of the search: what is offered and answered are scored active
\* records, and the position stays in the route.
THEOREM SearchTypes == Spec => []TypeOK
<1>1. SInv => TypeOK
  BY DEF SInv, TInv
<1> QED
  BY <1>1, SearchInvariant, PTL

\* No path of the search gives an erased record an exact score.
THEOREM ErasedNeverVerified == Spec => []OnlyActiveVerified
<1>1. SInv => OnlyActiveVerified
  BY DEF SInv, TInv, ActiveOnly, OnlyActiveVerified
<1> QED
  BY <1>1, SearchInvariant, PTL

\* top holds the k best of the verified records, for every k, every collection
\* and every order of verification.
THEOREM TopKeepsTheBest == Spec => []TopIsBestOfVerified
<1>1. SInv => TopIsBestOfVerified
  BY DEF SInv
<1> QED
  BY <1>1, SearchInvariant, PTL

\* The strict bound test never stops a search that a cluster ahead could change,
\* equal scores included.
THEOREM StoppingIsSafe == Spec => []StopIsSafe
<1>1. SInv => StopIsSafe
  BY DEF SInv
<1> QED
  BY <1>1, SearchInvariant, PTL
-----------------------------------------------------------------------------
(***************************************************************************)
(* What a search answers: top when it ends, or the exact hits.             *)
(***************************************************************************)

\* The scored records are as many as the records, and what is known of the
\* records of a call as a set to rank.
LEMMA HitsSize ==
  ASSUME NEW c \in Calls, NEW S \in SUBSET c.active
  PROVE  /\ IsFiniteSet(S) /\ Cardinality(S) \in Nat
         /\ Cardinality(S) <= Cardinality(c.active)
         /\ IsFiniteSet(c.active) /\ Cardinality(c.active) \in Nat
         /\ Hits(c, S) \in SUBSET Pairs /\ IsFiniteSet(Hits(c, S))
         /\ Cardinality(Hits(c, S)) = Cardinality(S)
<1>1. IsFiniteSet(0..c.n-1) /\ c.active \subseteq 0..c.n-1
  BY CallFacts, FS_Interval
<1>2. IsFiniteSet(c.active) /\ Cardinality(c.active) \in Nat
  BY <1>1, FS_Subset, FS_CardinalityType
<1>3. IsFiniteSet(S) /\ Cardinality(S) \in Nat /\ Cardinality(S) <= Cardinality(c.active)
  BY <1>2, FS_Subset, FS_CardinalityType
<1>4. \A i \in S : Scored(c, i) \in Pairs /\ Scored(c, i)[2] = i
  BY ScoredIsPair
<1> DEFINE f == [i \in S |-> Scored(c, i)]
<1>5. f \in Surjection(S, Hits(c, S)) /\ f \in Injection(S, Hits(c, S))
  <2>1. f \in [S -> Hits(c, S)] /\ \A h \in Hits(c, S) : \E i \in S : f[i] = h
    BY DEF Hits
  <2>2. \A i, j \in S : f[i] = f[j] => i = j
    BY <1>4
  <2> HIDE DEF f
  <2> QED
    BY <2>1, <2>2 DEF Surjection, Injection, IsInjective
<1>6. IsFiniteSet(Hits(c, S)) /\ Cardinality(Hits(c, S)) = Cardinality(S)
  <2> HIDE DEF f
  <2> QED
    BY <1>3, <1>5, FS_Surjection
<1> QED
  BY <1>2, <1>3, <1>4, <1>6 DEF Hits

\* What an answer must be for the call it answers.
FullAnswer(a) ==
  /\ a.hits \subseteq Hits(a.of, a.of.active)
  /\ LET n == Cardinality(a.of.active)
     IN Cardinality(a.hits) = IF a.of.k <= n THEN a.of.k ELSE n
  /\ \A i \in a.of.delta \cap a.of.active :
       Scored(a.of, i) \in ExactHits(a.of) => Scored(a.of, i) \in a.hits

\* The exact search answers in full.
LEMMA ExactIsFull ==
  ASSUME NEW c \in Calls
  PROVE  FullAnswer([of |-> c, hits |-> ExactHits(c)])
<1> DEFINE O == Hits(c, c.active)
<1>1. /\ c.k \in Nat /\ O \in SUBSET Pairs /\ IsFiniteSet(O)
      /\ Cardinality(O) = Cardinality(c.active)
  BY CallFacts, HitsSize
<1>2. IsTop(c.k, ExactHits(c), O)
  BY <1>1, BestIsTop DEF ExactHits
<1>3. Cardinality(ExactHits(c)) = IF c.k <= Cardinality(O) THEN c.k ELSE Cardinality(O)
  BY <1>1, <1>2, TopSize
<1> QED
  BY <1>1, <1>3, HitsAreActive DEF FullAnswer

\* A record that was verified and fell out of top is beaten by k active records:
\* the exact search has no place for it either.
LEMMA VerifiedAndLost ==
  ASSUME SInv, phase # "idle", NEW i \in verified, Scored(call, i) \notin top
  PROVE  Scored(call, i) \notin ExactHits(call)
<1> DEFINE x == Scored(call, i)
           Above == {q \in Hits(call, call.active) : Better(q, x)}
<1>1. call \in Calls /\ verified \subseteq call.active /\ call.k \in Nat
  BY CallFacts DEF SInv, TInv, ActiveOnly, TypeOK, WTypeOK
<1>2. IsTop(call.k, top, Hits(call, verified)) /\ x \in Hits(call, verified) \ top
  BY DEF SInv, TopIsBestOfVerified, Hits
<1>3. Cardinality(top) = call.k /\ \A p \in top : Better(p, x)
  <2>1. top # Hits(call, verified)
    BY <1>2
  <2> QED
    BY <1>2, <2>1 DEF IsTop
<1>4. top \subseteq Above
  BY <1>1, <1>2, <1>3 DEF IsTop, Hits
<1>5. IsFiniteSet(Above)
  <2>1. IsFiniteSet(Hits(call, call.active))
    BY <1>1, HitsSize
  <2> QED
    BY <2>1, FS_Subset
<1>6. Cardinality(top) <= Cardinality(Above) /\ Cardinality(Above) \in Nat
  BY <1>4, <1>5, FS_Subset, FS_CardinalityType
<1> QED
  BY <1>1, <1>3, <1>6 DEF ExactHits, Best

\* A search that ends answers in full: it verified k records, or all of them, and
\* the delta list before anything else.
LEMMA FinishIsFull ==
  ASSUME SInv, Finish
  PROVE  FullAnswer([of |-> call, hits |-> top])
<1>1. phase # "idle" /\ call.delta \cap call.active \subseteq verified
  BY DEF Finish, LoopOver, DeltaDone
<1>2. call \in Calls /\ call.k \in Nat /\ verified \subseteq call.active
  BY <1>1, CallFacts DEF SInv, TInv, ActiveOnly, TypeOK, WTypeOK
<1>3. top \subseteq Hits(call, call.active)
  BY DEF SInv, TInv, TypeOK
<1>4. /\ IsTop(call.k, top, Hits(call, verified))
      /\ IsFiniteSet(Hits(call, verified))
      /\ Cardinality(Hits(call, verified)) = Cardinality(verified)
      /\ Cardinality(verified) \in Nat /\ Cardinality(call.active) \in Nat
      /\ Cardinality(verified) <= Cardinality(call.active)
  BY <1>1, <1>2, HitsSize DEF SInv, TopIsBestOfVerified
<1>5. Cardinality(top) = IF call.k <= Cardinality(verified) THEN call.k ELSE Cardinality(verified)
  BY <1>2, <1>4, TopSize
<1>6. verified = call.active \/ call.k <= Cardinality(verified)
  BY <1>2, <1>4 DEF Finish
<1>7. Cardinality(top) = IF call.k <= Cardinality(call.active)
                           THEN call.k ELSE Cardinality(call.active)
  BY <1>2, <1>4, <1>5, <1>6
<1> QED
  BY <1>1, <1>3, <1>7, VerifiedAndLost DEF FullAnswer

AllAnswersFull == \A a \in answer : FullAnswer(a)

\* Every answer given is a full one.
LEMMA AnswersStep == SInv /\ AllAnswersFull /\ [Next]_vars => AllAnswersFull'
<1> SUFFICES ASSUME SInv, AllAnswersFull, [Next]_vars PROVE AllAnswersFull'
  OBVIOUS
<1>1. ASSUME NEW c \in Calls, answer' = {[of |-> c, hits |-> ExactHits(c)]}
      PROVE  AllAnswersFull'
  BY <1>1, ExactIsFull DEF AllAnswersFull
<1>2. CASE Finish
  BY <1>2, FinishIsFull DEF AllAnswersFull, Finish
<1>3. CASE answer' \in {{}, answer}
  BY <1>3 DEF AllAnswersFull
<1> QED
  BY <1>1, <1>2, <1>3
  DEF Next, SearchStep, vars, EmptyQuery, BeginQuery, VerifyDelta, VerifyAdmission,
      VerifyFallback, VerifyRecord, OfferCounted, Stop, Probe, VisitBucket, NextLoop,
      EndProbe, StartFallback, Throw

\* Every answer of every search is a full one.
LEMMA AnswersInvariant == Spec => []AllAnswersFull
<1>1. Init => AllAnswersFull
  BY DEF Init, AllAnswersFull
<1> QED
  BY <1>1, AnswersStep, SearchInvariant, PTL DEF Spec

\* Every search that answers returns min(k, active) exactly scored hits, however
\* few candidates hashing produced, for every collection and every k.
THEOREM AnswersAreFull == Spec => []AnswerIsFull
<1>1. AllAnswersFull => AnswerIsFull
  BY DEF AllAnswersFull, FullAnswer, AnswerIsFull
<1> QED
  BY <1>1, AnswersInvariant, PTL

\* A record out of range that belongs in the exact answer is in every answer,
\* stopped early or not, though no table holds it.
THEOREM DeltaIsAlwaysFound == Spec => []DeltaIsNeverMissed
<1>1. AllAnswersFull => DeltaIsNeverMissed
  BY DEF AllAnswersFull, FullAnswer, DeltaIsNeverMissed
<1> QED
  BY <1>1, AnswersInvariant, PTL

-----------------------------------------------------------------------------
(***************************************************************************)
(* The search implements the reference search                              *)
(***************************************************************************)
Deltas == call.delta \cap call.active

\* while the delta list is being verified the reference has only started
DeltaFirst ==
  phase = "ready" /\ ~DeltaDone =>
    /\ t = 1 /\ ~stopped /\ ~fallback
    /\ settled = Fresh /\ touched = {} /\ pool = {} /\ verified \subseteq Deltas

\* between two steps of the reference the states agree
SettledIsCurrent == Settled => settled = Current

\* while the fallback verifies, the reference has still to fall back
FallingBack ==
  phase = "ready" /\ fallback =>
    /\ stopped \/ t > Len(call.route)
    /\ call.active \subseteq verified
       \/ /\ settled.observed = Observed /\ settled.ordered = pool
          /\ Deltas \subseteq settled.verified /\ settled.verified \subseteq verified
          /\ Cardinality(settled.verified) < call.k

WasSeen(i) == \E o \in settled.observed : o[2] = i
Raises(i)  == \A o \in settled.observed : o[2] = i => o[1] < NewEntry(i)[1]

InCluster == phase \in {"scan", "update", "verify"}

\* while a cluster is probed, the reference is about to probe it
Probing ==
  InCluster =>
    /\ ~stopped /\ ~fallback /\ ~Reference!BoundTest
    /\ m = call.route[t].m /\ counted \subseteq call.route[t].members
    /\ Deltas \subseteq settled.verified /\ settled.verified \subseteq verified
    /\ settled.observed \subseteq Nat \X Ids
    /\ \A o, p \in settled.observed : o[2] = p[2] => o = p
    /\ settled.ordered = Best(call.B, settled.observed)

\* its records are observed one by one
Merging ==
  /\ phase = "scan" => Observed = settled.observed
  /\ phase \in {"update", "verify"} =>
       /\ \A i \in counted \ pending :
            /\ i \in touched
            /\ IF Raises(i) THEN Entry(i) = NewEntry(i) ELSE Entry(i) \in settled.observed
       /\ \A i \in Ids \ (counted \ pending) :
            /\ i \in touched <=> WasSeen(i)
            /\ i \in touched => Entry(i) \in settled.observed

\* and those that stay in the pool are verified
Verifying ==
  InCluster => /\ verified \subseteq settled.verified \cup Surviving
               /\ phase # "verify" => verified = settled.verified

Rest == DeltaFirst /\ SettledIsCurrent /\ FallingBack /\ Probing /\ Merging /\ Verifying

RInv == SInv /\ Rest

\* how the history variable follows a step, and what the step must be to the reference
Remember == settled' = IF Settled' THEN Current'
                       ELSE IF phase = "idle" /\ phase' = "ready" THEN Fresh
                       ELSE settled

RefStep == [Reference!Next]_(Reference!vars)
-----------------------------------------------------------------------------
(***************************************************************************)
(* What the searches have in common: top, pool and the bound test.         *)
(***************************************************************************)

\* The two searches rank, score and estimate by the same definitions.
LEMMA SameOperators ==
  /\ \A S : Reference!Cardinality(S) = Cardinality(S)
  /\ \A k, S : Reference!Best(k, S) = Best(k, S)
  /\ \A c, S : Reference!Hits(c, S) = Hits(c, S)
  /\ \A c : Reference!ExactHits(c) = ExactHits(c)
  /\ \A count, tables, weight :
       Reference!Proxy(count, tables, weight) = Proxy(count, tables, weight)
<1>1. \A S : Reference!Cardinality(S) = Cardinality(S)
  BY DEF Reference!Cardinality, Cardinality
<1>2. \A p, q : Reference!Better(p, q) <=> Better(p, q)
  BY DEF Reference!Better, Better
<1>3. ASSUME NEW k, NEW S PROVE Reference!Best(k, S) = Best(k, S)
  BY <1>1, <1>2 DEF Reference!Best, Best
<1>4. \A c, S : Reference!Hits(c, S) = Hits(c, S)
  BY DEF Reference!Hits, Reference!Scored, Hits, Scored
<1>5. \A c : Reference!ExactHits(c) = ExactHits(c)
  BY <1>3, <1>4 DEF Reference!ExactHits, ExactHits
<1>6. \A count, tables, weight :
        Reference!Proxy(count, tables, weight) = Proxy(count, tables, weight)
  BY DEF Reference!Proxy, Reference!ProxyOf, Proxy, ProxyOf
<1> QED
  BY <1>1, <1>3, <1>4, <1>5, <1>6

\* A collection has finitely many records.
LEMMA IdsFinite ==
  ASSUME call.n \in Nat
  PROVE  IsFiniteSet(Ids)
<1>1. 0 \in Int /\ call.n - 1 \in Int
  OBVIOUS
<1>2. IsFiniteSet(0..call.n-1)
  BY <1>1, FS_Interval
<1> QED
  BY <1>2 DEF Ids

\* The observed entries are finitely many pairs, one of each record.
LEMMA ObservedFacts ==
  ASSUME SInv, phase # "idle"
  PROVE  /\ Observed \subseteq Nat \X Ids /\ Observed \in SUBSET Pairs
         /\ IsFiniteSet(Observed)
         /\ \A o, p \in Observed : o[2] = p[2] => o = p
<1>1. touched \subseteq Ids /\ proxy \in [Ids -> Nat] /\ call.n \in Nat /\ Ids = 0..call.n-1
  BY CallFacts DEF SInv, TInv, TypeOK, WTypeOK, Ids
<1>2. IsFiniteSet(touched)
  <2>1. IsFiniteSet(Ids)
    BY <1>1, IdsFinite
  <2> QED
    BY <1>1, <2>1, FS_Subset
<1> DEFINE f == [i \in touched |-> Entry(i)]
<1>3. f \in Surjection(touched, Observed)
  <2>1. f \in [touched -> Observed] /\ \A o \in Observed : \E i \in touched : f[i] = o
    BY DEF Observed
  <2> HIDE DEF f
  <2> QED
    BY <2>1 DEF Surjection
<1>4. IsFiniteSet(Observed)
  <2> HIDE DEF f
  <2> QED
    BY <1>2, <1>3, FS_Surjection
<1>5. Observed \subseteq Nat \X Ids /\ \A o, p \in Observed : o[2] = p[2] => o = p
  BY <1>1 DEF Observed, Entry
<1>6. Nat \X Ids \subseteq Pairs
  BY <1>1 DEF Pairs
<1> QED
  BY <1>4, <1>5, <1>6

\* What one evicts, the other cuts: both pools are the best of the observed.
LEMMA SamePool ==
  ASSUME SInv, phase # "idle"
  PROVE  pool = Best(call.B, Observed)
<1>1. call.B \in Nat /\ IsTop(call.B, pool, Observed)
  BY CallFacts DEF SInv, TInv, TypeOK, WTypeOK, WInv, PoolIsTopB
<1> QED
  BY <1>1, ObservedFacts, TopIsBest

\* What one inserts hit by hit, the other ranks at once.
LEMMA SameTop ==
  ASSUME SInv, phase # "idle"
  PROVE  top = Best(call.k, Hits(call, verified)) /\ top \in SUBSET Pairs
<1>1. /\ call \in Calls /\ call.k \in Nat /\ verified \subseteq call.active
      /\ IsTop(call.k, top, Hits(call, verified))
  BY CallFacts DEF SInv, TInv, TypeOK, WTypeOK, ActiveOnly, TopIsBestOfVerified
<1>2. Hits(call, verified) \in SUBSET Pairs /\ IsFiniteSet(Hits(call, verified))
  BY <1>1, HitsSize
<1> QED
  BY <1>1, <1>2, TopIsBest DEF IsTop

\* The bound test compares with the worst hit, the reference with all of them.
LEMMA SameBound ==
  ASSUME SInv, phase # "idle", settled.verified = verified
  PROVE  Reference!BoundTest <=> BoundTest
<1>1. /\ call \in Calls /\ call.k \in Nat \ {0} /\ Len(call.route) \in Nat
      /\ t \in 1..Len(call.route) + 1 /\ IsFiniteSet(top)
  BY CallFacts DEF SInv, TInv, TypeOK, WTypeOK
<1>2. Reference!top = top /\ top \in SUBSET Pairs
  BY SameTop, SameOperators DEF Reference!top
<1>3. \A s \in t..Len(call.route) : s \in 1..Len(call.route)
  BY <1>1
<1>4. \A s \in t..Len(call.route) : call.route[s].bound \in Int
  BY <1>1, <1>3, CallFacts
<1>5. ASSUME NEW w \in top, IsWorst(w, top), NEW b \in Int
      PROVE  b < w[1] <=> \A h \in top : b < h[1]
  <2>1. \A h \in top : h[1] \in Int /\ w[1] \in Int /\ h[1] >= w[1]
    BY <1>2, <1>5 DEF IsWorst, Better, Pairs
  <2> QED
    BY <1>5, <2>1
<1>6. Cardinality(top) = call.k => \E w \in top : IsWorst(w, top)
  <2>1. Cardinality(top) = call.k => top # {}
    BY <1>1, FS_EmptySet
  <2> QED
    BY <1>1, <1>2, <2>1, WorstExists DEF IsWorst
<1> QED
  BY <1>2, <1>4, <1>5, <1>6, SameOperators DEF BoundTest, Reference!BoundTest
-----------------------------------------------------------------------------
(***************************************************************************)
(* One lemma per action: it keeps the relation between the two states and  *)
(* is a step of the reference or leaves its state alone.                   *)
(***************************************************************************)

\* Between queries the relation asks nothing.
LEMMA IdleRest ==
  ASSUME phase' = "idle"
  PROVE  Rest'
BY DEF Rest, DeltaFirst, SettledIsCurrent, Settled, FallingBack, Probing, InCluster,
       Merging, Verifying

\* What the reference does not see leaves it where it was.
LEMMA RefStays ==
  ASSUME UNCHANGED <<call, t, stopped, fallback, answer, settled>>,
         phase # "idle", phase' # "idle",
         fallback => (call.active \subseteq verified <=> call.active \subseteq verified')
  PROVE  RefStep
<1>1. (phase' # "idle") = (phase # "idle")
  OBVIOUS
<1>2. (fallback' /\ call'.active \subseteq verified') = (fallback /\ call.active \subseteq verified)
  OBVIOUS
<1> QED
  BY <1>1, <1>2 DEF RefStep, Reference!vars

\* Before its first step of all, or between two searches.
LEMMA RefEmptyQuery ==
  ASSUME RInv, Remember, NEW c \in Calls, EmptyQuery(c)
  PROVE  Rest' /\ RefStep
<1>1. phase = "idle" /\ phase' = "idle" /\ settled' = settled
  BY DEF EmptyQuery, wvars, Remember, Settled
<1>2. Reference!EmptyQuery(c)
  BY <1>1, SameOperators DEF EmptyQuery, wvars, Reference!EmptyQuery
<1> QED
  BY <1>1, <1>2, IdleRest DEF RefStep, Reference!Next

\* A search starts: nothing is observed, whichever state the last one left.
LEMMA RefBegin ==
  ASSUME RInv, Remember, NEW c \in Calls, BeginQuery(c)
  PROVE  Rest' /\ RefStep
<1>1. /\ phase = "idle" /\ phase' = "ready" /\ call' = c /\ t' = 1
      /\ ~stopped' /\ ~fallback' /\ answer' = {} /\ ~c.empty
      /\ touched' = {} /\ pool' = {} /\ verified' = {}
  BY DEF BeginQuery, Begin
<1>2. Current' = Fresh
  BY <1>1 DEF Current, Fresh, Observed
<1>3. settled' = Fresh
  BY <1>1, <1>2 DEF Remember
<1>4. Rest'
  BY <1>1, <1>2, <1>3 DEF Rest, DeltaFirst, SettledIsCurrent, FallingBack, Probing,
     InCluster, Merging, Verifying, Fresh, Deltas
<1>5. Reference!Start(c)
  BY <1>1, <1>3 DEF BeginQuery, Reference!Start, Fresh
<1> QED
  BY <1>4, <1>5 DEF RefStep, Reference!Next

\* A record of the delta list is scored; the last one completes the reference's step.
LEMMA RefDelta ==
  ASSUME RInv, Remember, NEW i \in Ids, VerifyDelta(i)
  PROVE  Rest' /\ RefStep
<1>1. /\ phase = "ready" /\ phase' = "ready" /\ t = 1 /\ ~fallback /\ i \in Deltas
      /\ UNCHANGED <<call, t, stopped, fallback, answer, touched, pool, proxy>>
      /\ verified' = verified \cup {i} /\ verified_stamp[i] # generation
  BY DEF VerifyDelta, VerifyRecord, Verify, Deltas
<1>2. i \notin verified
  BY <1>1 DEF RInv, SInv, WInv, StampsAgree
<1>3. /\ ~stopped /\ settled = Fresh /\ touched = {} /\ pool = {}
      /\ verified \subseteq Deltas
  BY <1>1, <1>2 DEF RInv, Rest, DeltaFirst, DeltaDone, Deltas
<1>4. Deltas' = Deltas /\ (DeltaDone' <=> Deltas \subseteq verified')
  BY <1>1 DEF Deltas, DeltaDone
<1>5. CASE Deltas \subseteq verified'
  <2>1. verified' = Deltas
    BY <1>1, <1>3, <1>5
  <2>2. Settled'
    BY <1>1, <1>4, <1>5 DEF Settled
  <2>3. settled' = Current' /\ Current' = [observed |-> {}, ordered |-> {}, verified |-> Deltas]
    BY <1>1, <1>3, <2>1, <2>2 DEF Remember, Current, Observed
  <2>4. Rest'
    BY <1>1, <1>4, <1>5, <2>3 DEF Rest, DeltaFirst, SettledIsCurrent, FallingBack, Probing,
       InCluster, Merging, Verifying
  <2>5. Reference!VerifyDelta
    BY <1>1, <1>2, <1>3, <2>3
    DEF Reference!VerifyDelta, Reference!Delta, Deltas, Fresh
  <2> QED
    BY <2>4, <2>5 DEF RefStep, Reference!Next
<1>6. CASE ~(Deltas \subseteq verified')
  <2>1. ~Settled' /\ settled' = settled
    BY <1>1, <1>4, <1>6 DEF Remember, Settled
  <2>2. Rest'
    BY <1>1, <1>3, <1>4, <2>1 DEF Rest, DeltaFirst, SettledIsCurrent, FallingBack, Probing,
       InCluster, Merging, Verifying, Fresh
  <2> QED
    BY <1>1, <2>1, <2>2, RefStays
<1> QED
  BY <1>5, <1>6
\* The bound test ends the route of both searches at the same cluster.
LEMMA RefStop ==
  ASSUME RInv, Remember, Stop
  PROVE  Rest' /\ RefStep
<1>1. /\ phase = "ready" /\ phase' = "ready" /\ ~stopped /\ ~fallback /\ stopped'
      /\ UNCHANGED <<wvars, t, fallback, top, answer>> /\ DeltaDone /\ BoundTest
      /\ t <= Len(call.route)
  BY DEF Stop, Routing, wvars
<1>2. Settled /\ settled = Current
  BY <1>1 DEF RInv, Rest, SettledIsCurrent, Settled
<1>3. Settled' /\ Current' = Current /\ settled' = settled /\ DeltaDone'
  BY <1>1, <1>2 DEF Settled, DeltaDone, Current, Observed, Entry, Remember, wvars, arrays
<1>4. Rest'
  BY <1>1, <1>2, <1>3 DEF Rest, DeltaFirst, SettledIsCurrent, FallingBack, Probing,
     InCluster, Merging, Verifying
<1>5. Reference!BoundTest
  BY <1>1, <1>2, SameBound DEF RInv, Current
<1>6. Reference!Stop
  BY <1>1, <1>2, <1>3, <1>5 DEF Reference!Stop, Reference!Routing, Reference!Delta,
     Current, DeltaDone, wvars
<1> QED
  BY <1>4, <1>6 DEF RefStep, Reference!Next

\* Too few candidates: the reference scores all active records when the last of
\* them has been scored here.
LEMMA RefStartFallback ==
  ASSUME RInv, Remember, StartFallback
  PROVE  Rest' /\ RefStep
<1>1. /\ phase = "ready" /\ phase' = "ready" /\ DeltaDone /\ ~fallback /\ fallback'
      /\ stopped \/ t > Len(call.route)
      /\ Cardinality(verified) < call.k
      /\ UNCHANGED <<wvars, t, stopped, top, answer>>
  BY DEF StartFallback, LoopOver, wvars
<1>2. Settled /\ settled = Current
  BY <1>1 DEF RInv, Rest, SettledIsCurrent, Settled
<1>3. /\ call' = call /\ verified' = verified /\ pool' = pool /\ Observed' = Observed
      /\ Current' = Current /\ DeltaDone'
  BY <1>1 DEF DeltaDone, Current, Observed, Entry, wvars, arrays
<1>4. settled' = settled
  BY <1>1, <1>2, <1>3 DEF Remember
<1>5. Rest'
  BY <1>1, <1>2, <1>3, <1>4 DEF Rest, DeltaFirst, SettledIsCurrent, FallingBack, Probing,
     InCluster, Merging, Verifying, Current, DeltaDone, Deltas
<1>6. CASE call.active \subseteq verified
  <2>1. verified \cup call.active = verified
    BY <1>6
  <2>2. Reference!Fallback
    BY <1>1, <1>2, <1>3, <1>4, <1>6, <2>1, SameOperators
    DEF Reference!Fallback, Reference!LoopOver, Reference!Delta, Current, DeltaDone, wvars
  <2> QED
    BY <1>5, <2>2 DEF RefStep, Reference!Next
<1>7. CASE ~(call.active \subseteq verified)
  <2>1. (fallback' /\ call'.active \subseteq verified') = (fallback /\ call.active \subseteq verified)
    BY <1>1, <1>3, <1>7
  <2>2. (phase' # "idle") = (phase # "idle")
    BY <1>1
  <2>3. UNCHANGED Reference!vars
    BY <1>1, <1>3, <1>4, <2>1, <2>2 DEF Reference!vars
  <2> QED
    BY <1>5, <2>3 DEF RefStep
<1> QED
  BY <1>6, <1>7

\* One record of the fallback is scored.
LEMMA RefVerifyFallback ==
  ASSUME RInv, SInv', Remember, NEW i \in Ids, VerifyFallback(i)
  PROVE  Rest' /\ RefStep
<1>1. /\ phase = "ready" /\ phase' = "ready" /\ fallback /\ fallback' /\ i \in call.active
      /\ UNCHANGED <<call, t, stopped, fallback, answer, touched, pool, proxy>>
      /\ verified' = verified \cup {i} /\ verified_stamp[i] # generation
  BY DEF VerifyFallback, VerifyRecord, Verify
<1>2. i \notin verified
  BY <1>1 DEF RInv, SInv, WInv, StampsAgree
<1>3. /\ stopped \/ t > Len(call.route)
      /\ settled.observed = Observed /\ settled.ordered = pool
      /\ Deltas \subseteq settled.verified /\ settled.verified \subseteq verified
      /\ Cardinality(settled.verified) < call.k
  BY <1>1, <1>2 DEF RInv, Rest, FallingBack
<1>4. verified' \subseteq call.active
  BY <1>1 DEF SInv, TInv, ActiveOnly
<1>5. DeltaDone' /\ Deltas' = Deltas /\ Observed' = Observed
  BY <1>1, <1>3 DEF DeltaDone, Deltas, Observed, Entry
<1>6. CASE call.active \subseteq verified'
  <2>1. Settled' /\ settled' = Current' /\ verified' = call.active
    BY <1>1, <1>4, <1>5, <1>6 DEF Settled, Remember
  <2>2. settled'.observed = Observed /\ settled'.ordered = pool /\ settled'.verified = call.active
    BY <1>1, <1>5, <2>1 DEF Current
  <2>3. Rest'
    BY <1>1, <1>3, <1>5, <1>6, <2>1 DEF Rest, DeltaFirst, SettledIsCurrent, FallingBack,
       Probing, InCluster, Merging, Verifying
  <2>4. settled.verified \cup call.active = call.active
    BY <1>3, <1>4, <1>6, <1>1
  <2>5. Reference!Fallback
    BY <1>1, <1>2, <1>3, <1>6, <2>2, <2>4, SameOperators
    DEF Reference!Fallback, Reference!LoopOver, Reference!Delta, Deltas
  <2> QED
    BY <2>3, <2>5 DEF RefStep, Reference!Next
<1>7. CASE ~(call.active \subseteq verified')
  <2>1. ~Settled' /\ settled' = settled
    BY <1>1, <1>7 DEF Settled, Remember
  <2>2. Rest'
    BY <1>1, <1>3, <1>5, <2>1 DEF Rest, DeltaFirst, SettledIsCurrent, FallingBack,
       Probing, InCluster, Merging, Verifying
  <2> QED
    BY <1>1, <1>2, <1>7, <2>1, <2>2, RefStays
<1> QED
  BY <1>6, <1>7

\* The answer is the reference's.
LEMMA RefFinish ==
  ASSUME RInv, Remember, Finish
  PROVE  Rest' /\ RefStep
<1>1. /\ phase = "ready" /\ phase' = "idle" /\ DeltaDone /\ (stopped \/ t > Len(call.route))
      /\ IF fallback THEN call.active \subseteq verified ELSE Cardinality(verified) >= call.k
      /\ answer' = {[of |-> call, hits |-> top]}
      /\ UNCHANGED <<call, t, stopped, fallback, verified>>
  BY DEF Finish, LoopOver, End
<1>2. Settled /\ settled = Current
  BY <1>1 DEF RInv, Rest, SettledIsCurrent, Settled
<1>3. settled' = settled
  BY <1>1 DEF Remember, Settled
<1>4. top = Reference!top
  BY <1>1, <1>2, SameTop, SameOperators DEF RInv, Reference!top, Current
<1>5. Reference!Finish
  BY <1>1, <1>2, <1>3, <1>4, SameOperators
  DEF Reference!Finish, Reference!LoopOver, Reference!Delta, Current, DeltaDone
<1> QED
  BY <1>1, <1>5, IdleRest DEF RefStep, Reference!Next

\* An exception ends both.
LEMMA RefThrow ==
  ASSUME RInv, Remember, Throw
  PROVE  Rest' /\ RefStep
<1>1. /\ phase # "idle" /\ phase' = "idle"
      /\ UNCHANGED <<call, t, stopped, fallback, answer, verified>>
  BY DEF Throw, Abort
<1>2. settled' = settled
  BY <1>1 DEF Remember, Settled
<1>3. Reference!Throw
  BY <1>1, <1>2 DEF Reference!Throw
<1> QED
  BY <1>1, <1>3, IdleRest DEF RefStep, Reference!Next
-----------------------------------------------------------------------------
(***************************************************************************)
(* One cluster: what the reference does in one step.                       *)
(***************************************************************************)

\* The reference's bound test reads nothing else.
LEMMA RefBoundStays ==
  ASSUME UNCHANGED <<call, t, settled>>
  PROVE  Reference!BoundTest' <=> Reference!BoundTest
BY DEF Reference!BoundTest, Reference!top

\* The probe of a cluster begins where the reference is about to make it.
LEMMA RefProbe ==
  ASSUME RInv, Remember, Probe
  PROVE  Rest' /\ RefStep
<1>1. /\ phase = "ready" /\ phase' = "scan" /\ ~stopped /\ ~fallback /\ DeltaDone
      /\ ~BoundTest /\ m' = call.route[t].m /\ counted' = {} /\ admissions' = {}
      /\ UNCHANGED <<call, t, stopped, fallback, answer, verified, touched, pool, proxy>>
  BY DEF Probe, Routing, StartCluster
<1>2. settled = Current /\ settled' = settled
  BY <1>1 DEF RInv, Rest, SettledIsCurrent, Settled, Remember
<1>3. Ids' = Ids /\ Observed' = Observed /\ Deltas' = Deltas
  BY <1>1 DEF Ids, Observed, Entry, Deltas
<1>4. ~Reference!BoundTest'
  BY <1>1, <1>2, SameBound, RefBoundStays DEF RInv, Current
<1>5. /\ Observed \subseteq Nat \X Ids /\ \A o, p \in Observed : o[2] = p[2] => o = p
      /\ pool = Best(call.B, Observed)
  BY <1>1, ObservedFacts, SamePool DEF RInv
<1>6. Probing'
  BY <1>1, <1>2, <1>3, <1>4, <1>5 DEF Probing, InCluster, Current, Deltas, DeltaDone
<1>7. Merging' /\ Verifying'
  BY <1>1, <1>2, <1>3 DEF Merging, Verifying, InCluster, Current
<1>8. Rest'
  BY <1>1, <1>6, <1>7 DEF Rest, DeltaFirst, SettledIsCurrent, Settled, FallingBack
<1> QED
  BY <1>1, <1>2, <1>8, RefStays

\* The part of the relation that lasts from the first bucket to the last verification.
LEMMA StillProbing ==
  ASSUME RInv, Remember, InCluster, InCluster',
         UNCHANGED <<call, t, stopped, fallback, answer, m>>,
         counted' \subseteq call.route[t].members, verified \subseteq verified'
  PROVE  /\ settled' = settled /\ RefStep /\ Probing' /\ Ids' = Ids
         /\ Merging' /\ Verifying' => Rest'
<1>1. phase # "idle" /\ phase' # "idle" /\ phase # "ready" /\ phase' # "ready" /\ ~fallback
  BY DEF InCluster, RInv, Rest, Probing
<1>2. settled' = settled /\ Ids' = Ids
  BY <1>1 DEF Remember, Settled, Ids
<1>3. Probing'
  BY <1>2, RefBoundStays DEF RInv, Rest, Probing, Deltas
<1> QED
  BY <1>1, <1>2, <1>3, RefStays DEF Rest, DeltaFirst, SettledIsCurrent, Settled, FallingBack

\* A bucket is counted.
LEMMA RefScan ==
  ASSUME RInv, Remember, NEW bucket \in SUBSET call.route[t].members,
         phase = "scan", VisitBucket(bucket)
  PROVE  Rest' /\ RefStep
<1>1. /\ phase' = "scan"
      /\ UNCHANGED <<call, t, stopped, fallback, answer, m, verified, touched, pool, proxy,
                     generation, member_stamp, admissions>>
      /\ counted' \subseteq counted \cup bucket
  BY DEF VisitBucket, ScanTable
<1>2. InCluster /\ InCluster' /\ counted \subseteq call.route[t].members
  BY <1>1 DEF InCluster, RInv, Rest, Probing
<1>3. settled' = settled /\ RefStep /\ (Merging' /\ Verifying' => Rest')
  BY <1>1, <1>2, StillProbing
<1>4. Observed' = Observed /\ Surviving' = Surviving
  BY <1>1 DEF Observed, Entry, Surviving, IsMember
<1> QED
  BY <1>1, <1>3, <1>4 DEF RInv, Rest, Merging, Verifying, InCluster

\* The loops over what was counted and over the admissions begin.
LEMMA RefNextLoop ==
  ASSUME RInv, Remember, NextLoop
  PROVE  Rest' /\ RefStep
<1>1. /\ \/ phase = "scan" /\ phase' = "update" /\ pending' = counted
         \/ phase = "update" /\ phase' = "verify" /\ pending' = pending
      /\ UNCHANGED <<call, t, stopped, fallback, answer, m, verified, touched, pool, proxy,
                     generation, member_stamp, admissions, collisions, counted>>
  BY DEF NextLoop, StartUpdate, StartVerify, arrays
<1>2. InCluster /\ InCluster' /\ counted \subseteq call.route[t].members
  BY <1>1 DEF InCluster, RInv, Rest, Probing
<1>3. settled' = settled /\ RefStep /\ Ids' = Ids /\ (Merging' /\ Verifying' => Rest')
  BY <1>1, <1>2, StillProbing
<1>4. /\ Surviving' = Surviving
      /\ \A i : /\ Entry(i)' = Entry(i) /\ NewEntry(i)' = NewEntry(i)
                /\ (WasSeen(i)' <=> WasSeen(i)) /\ (Raises(i)' <=> Raises(i))
  BY <1>1, <1>3 DEF Entry, NewEntry, WasSeen, Raises, Surviving, IsMember
<1>5. Verifying'
  BY <1>1, <1>3, <1>4 DEF RInv, Rest, Verifying, InCluster
<1>6. CASE phase = "scan"
  <2>1. Observed = settled.observed /\ counted' \ pending' = {}
    BY <1>1, <1>6 DEF RInv, Rest, Merging
  <2>2. touched \subseteq Ids /\ proxy \in [Ids -> Nat]
    BY <1>6 DEF RInv, SInv, WInv, WTypeOK
  <2>3. \A i \in Ids : /\ i \in touched <=> WasSeen(i)
                       /\ i \in touched => Entry(i) \in settled.observed
    BY <2>1, <2>2 DEF Observed, WasSeen, Entry
  <2> QED
    BY <1>1, <1>3, <1>4, <1>5, <1>6, <2>1, <2>3 DEF Merging
<1>7. CASE phase = "update"
  BY <1>1, <1>3, <1>4, <1>5, <1>7 DEF RInv, Rest, Merging
<1> QED
  BY <1>1, <1>6, <1>7

\* One offer: the record's entry becomes what the merge makes of it.
LEMMA RefOffer ==
  ASSUME RInv, Remember, NEW i \in Ids, OfferCounted(i)
  PROVE  Rest' /\ RefStep
<1>1. /\ phase = "update" /\ phase' = "update" /\ i \in pending /\ pending' = pending \ {i}
      /\ UNCHANGED <<call, t, stopped, fallback, answer, m, verified, generation, collisions,
                     counted>>
  BY DEF OfferCounted, Update
<1>2. InCluster /\ InCluster' /\ counted \subseteq call.route[t].members
  BY <1>1 DEF InCluster, RInv, Rest, Probing
<1>3. settled' = settled /\ RefStep /\ Ids' = Ids /\ (Merging' /\ Verifying' => Rest')
  BY <1>1, <1>2, StillProbing
<1>4. verified = settled.verified
  BY <1>1 DEF RInv, Rest, Verifying, InCluster
<1>5. Verifying'
  BY <1>1, <1>3, <1>4 DEF Verifying
<1>6. /\ WTypeOK /\ pending \subseteq counted /\ touched \subseteq Ids
      /\ proxy \in [Ids -> Nat] /\ (Seen(i) <=> i \in touched)
      /\ NewEntry(i) \in Nat \X Ids /\ NewEntry(i)[2] = i
  BY <1>1, NewEntryType DEF RInv, SInv, WInv, WTypeOK, StampsAgree, Seen, NewEntry
<1>7. /\ i \in touched <=> WasSeen(i)
      /\ i \in touched => Entry(i) \in settled.observed
      /\ \A o, p \in settled.observed : o[2] = p[2] => o = p
      /\ settled.observed \subseteq Nat \X Ids
  BY <1>1, <1>2 DEF RInv, Rest, Merging, Probing
<1>8. Raises(i) <=> Improves(i)
  <2>1. CASE i \in touched
    <3>1. \A o \in settled.observed : o[2] = i => o = Entry(i)
      BY <1>7, <2>1 DEF Entry
    <3>2. Raises(i) <=> proxy[i] < NewEntry(i)[1]
      BY <1>7, <2>1, <3>1 DEF Raises, Entry
    <3> QED
      BY <1>6, <2>1, <3>2 DEF Improves
  <2>2. CASE i \notin touched
    BY <1>6, <1>7, <2>2 DEF Improves, Raises, WasSeen
  <2> QED
    BY <2>1, <2>2
<1>9. /\ touched' = touched \cup {i}
      /\ \A j \in Ids \ {i} : proxy'[j] = proxy[j]
      /\ proxy'[i] = IF Improves(i) THEN NewEntry(i)[1] ELSE proxy[i]
  <2>1. CASE Skip(i)
    BY <1>6, <2>1 DEF Skip, Improves
  <2>2. CASE Observe(i)
    BY <1>6, <2>2 DEF Observe
  <2> QED
    BY <2>1, <2>2 DEF OfferCounted, Update, Drop, Evict, Insert
<1>10. Merging'
  <2>1. /\ \A j : NewEntry(j)' = NewEntry(j) /\ NewEntry(j)[2] = j
        /\ \A j : (WasSeen(j)' <=> WasSeen(j)) /\ (Raises(j)' <=> Raises(j))
        /\ \A j \in Ids \ {i} : Entry(j)' = Entry(j)
    BY <1>1, <1>3, <1>9 DEF NewEntry, WasSeen, Raises, Entry
  <2>2. Entry(i)' = IF Improves(i) THEN NewEntry(i) ELSE Entry(i)
    BY <1>6, <1>9 DEF Entry, NewEntry
  <2>3. ~Improves(i) => i \in touched
    BY <1>6 DEF Improves
  <2>4. IF Raises(i)' THEN Entry(i)' = NewEntry(i)' ELSE Entry(i)' \in settled'.observed
    BY <1>3, <1>7, <1>8, <2>1, <2>2, <2>3
  <2>5. counted' \ pending' = (counted \ pending) \cup {i}
    BY <1>1, <1>6
  <2>6. \A j \in counted \ pending :
            /\ j \in touched /\ j \in Ids \ {i}
            /\ IF Raises(j) THEN Entry(j) = NewEntry(j) ELSE Entry(j) \in settled.observed
    BY <1>1, <1>6 DEF RInv, Rest, Merging, WTypeOK
  <2>7. \A j \in Ids \ (counted \ pending) :
            /\ j \in touched <=> WasSeen(j)
            /\ j \in touched => Entry(j) \in settled.observed
    BY <1>1 DEF RInv, Rest, Merging
  <2> QED
    BY <1>1, <1>3, <1>9, <2>1, <2>4, <2>5, <2>6, <2>7 DEF Merging
<1> QED
  BY <1>3, <1>5, <1>10
\* An admission that survived its batch is scored.
LEMMA RefAdmission ==
  ASSUME RInv, Remember, NEW i \in Ids, VerifyAdmission(i)
  PROVE  Rest' /\ RefStep
<1>1. /\ phase = "verify" /\ phase' = "verify" /\ i \in Surviving
      /\ UNCHANGED <<call, t, stopped, fallback, answer, m, touched, pool, proxy,
                     generation, member_stamp, admissions, collisions, counted, pending>>
      /\ verified' = verified \cup {i}
  BY DEF VerifyAdmission, VerifyRecord, Verify
<1>2. InCluster /\ InCluster' /\ counted \subseteq call.route[t].members
  BY <1>1 DEF InCluster, RInv, Rest, Probing
<1>3. settled' = settled /\ RefStep /\ Ids' = Ids /\ (Merging' /\ Verifying' => Rest')
  BY <1>1, <1>2, StillProbing
<1>4. /\ Surviving' = Surviving
      /\ \A j : /\ Entry(j)' = Entry(j) /\ NewEntry(j)' = NewEntry(j)
                /\ (WasSeen(j)' <=> WasSeen(j)) /\ (Raises(j)' <=> Raises(j))
  BY <1>1, <1>3 DEF Entry, NewEntry, WasSeen, Raises, Surviving, IsMember
<1>5. Merging'
  BY <1>1, <1>3, <1>4 DEF RInv, Rest, Merging
<1>6. Verifying'
  BY <1>1, <1>2, <1>3, <1>4 DEF RInv, Rest, Verifying
<1> QED
  BY <1>3, <1>5, <1>6

\* The counts of the cluster, as the reference is given them.
Counts == [i \in counted |-> collisions[i]]
Offers == {<<Reference!Proxy(Counts[i], call.route[t].m, call.weight[i]), i>> : i \in DOMAIN Counts}
Raised == Reference!Raised(Offers)
Gone   == Reference!Replaced(Raised)

\* The entries that the merge raises are those that an offer improved.
LEMMA RaisedEntries ==
  ASSUME RInv, phase = "verify"
  PROVE  Raised = {NewEntry(i) : i \in {j \in counted : Raises(j)}}
<1>1. m = call.route[t].m
  BY DEF RInv, Rest, Probing, InCluster
<1>2. Offers = {NewEntry(i) : i \in counted}
  BY <1>1, SameOperators DEF Offers, Counts, NewEntry
<1>3. \A i : NewEntry(i)[2] = i
  BY DEF NewEntry
<1> QED
  BY <1>2, <1>3 DEF Raised, Reference!Raised, Raises

\* When the whole batch has been offered, the merge is complete.
LEMMA MergeIsComplete ==
  ASSUME RInv, phase = "verify"
  PROVE  Observed = (settled.observed \ Gone) \cup Raised
<1> DEFINE O == settled.observed
<1>1. /\ pending = {} /\ counted \subseteq Ids /\ touched \subseteq Ids
  BY DEF RInv, SInv, WInv, WTypeOK
<1>2. /\ O \subseteq Nat \X Ids /\ \A o, p \in O : o[2] = p[2] => o = p
  BY DEF RInv, Rest, Probing, InCluster
<1>3. /\ \A i \in counted : i \in touched
            /\ IF Raises(i) THEN Entry(i) = NewEntry(i) ELSE Entry(i) \in O
      /\ \A i \in Ids \ counted : /\ i \in touched <=> WasSeen(i)
                                  /\ i \in touched => Entry(i) \in O
  BY <1>1 DEF RInv, Rest, Merging
<1>4. \A i : Entry(i)[2] = i /\ NewEntry(i)[2] = i
  BY DEF Entry, NewEntry
<1>5. \A v \in Raised : v[2] \in counted /\ Raises(v[2]) /\ v = NewEntry(v[2])
  BY <1>4, RaisedEntries
<1>6. \A i \in counted : Raises(i) => NewEntry(i) \in Raised
  BY RaisedEntries
<1>7. \A o \in O : o \in Gone <=> o[2] \in counted /\ Raises(o[2])
  BY <1>4, <1>5, <1>6 DEF Gone, Reference!Replaced
<1>8. ASSUME NEW x \in Observed PROVE x \in (O \ Gone) \cup Raised
  <2>1. PICK i \in touched : x = Entry(i)
    BY DEF Observed
  <2>2. CASE i \in counted /\ Raises(i)
    BY <1>3, <1>6, <2>1, <2>2
  <2>3. CASE ~(i \in counted /\ Raises(i))
    BY <1>1, <1>3, <1>4, <1>7, <2>1, <2>3
  <2> QED
    BY <2>2, <2>3
<1>9. ASSUME NEW x \in Raised PROVE x \in Observed
  BY <1>3, <1>5 DEF Observed
<1>10. ASSUME NEW x \in O \ Gone PROVE x \in Observed
  <2>1. x[2] \in Ids /\ ~(x[2] \in counted /\ Raises(x[2]))
    BY <1>2, <1>7
  <2>2. WasSeen(x[2])
    BY DEF WasSeen
  <2>3. x[2] \in touched /\ Entry(x[2]) \in O
    BY <1>3, <2>1, <2>2
  <2>4. x = Entry(x[2])
    BY <1>2, <1>4, <2>3
  <2> QED
    BY <2>3, <2>4 DEF Observed
<1> QED
  BY <1>8, <1>9, <1>10
\* The pool kept offer by offer is what the reference cuts the merged pool to.
LEMMA PoolIsCut ==
  ASSUME RInv, phase = "verify"
  PROVE  pool = Best(call.B, (settled.ordered \ Gone) \cup Raised)
<1> DEFINE O == settled.observed
<1>1. /\ call.B \in Nat /\ call.n \in Nat /\ Ids = 0..call.n-1
      /\ O \subseteq Nat \X Ids /\ \A o, p \in O : o[2] = p[2] => o = p
      /\ settled.ordered = Best(call.B, O)
  BY CallFacts DEF RInv, SInv, WInv, WTypeOK, Ids, Rest, Probing, InCluster
<1>2. O \in SUBSET Pairs
  BY <1>1 DEF Pairs
<1>3. IsFiniteSet(O)
  <2> DEFINE f == [o \in O |-> o[2]]
  <2>1. f \in [O -> Ids] /\ \A o, p \in O : f[o] = f[p] => o = p
    BY <1>1
  <2>2. IsFiniteSet(Ids)
    BY <1>1, IdsFinite
  <2> HIDE DEF f, O
  <2>3. f \in Injection(O, Ids)
    BY <2>1 DEF Injection, IsInjective
  <2> QED
    BY <2>2, <2>3, FS_Injection
<1>4. Observed = (O \ Gone) \cup Raised
  BY MergeIsComplete
<1>5. Raised \in SUBSET Pairs /\ IsFiniteSet(Raised)
  <2>1. Raised \subseteq Observed
    BY <1>4
  <2> QED
    BY <2>1, ObservedFacts, FS_Subset DEF RInv
<1>6. Gone \in SUBSET O
  BY DEF Gone, Reference!Replaced
<1>7. ASSUME NEW o \in Gone PROVE \E v \in Raised : v[2] = o[2] /\ v[1] > o[1]
  <2>1. PICK v \in Raised : v[2] = o[2]
    BY DEF Gone, Reference!Replaced
  <2>2. Raises(v[2]) /\ v = NewEntry(v[2])
    BY <2>1, RaisedEntries DEF NewEntry
  <2>3. o[1] < v[1] /\ o[1] \in Int /\ v[1] \in Int
    BY <1>2, <1>5, <1>6, <2>1, <2>2 DEF Raises, Pairs
  <2> QED
    BY <2>1, <2>3
<1>8. Best(call.B, (Best(call.B, O) \ Gone) \cup Raised) = Best(call.B, (O \ Gone) \cup Raised)
  <2>1. OnePerRecord(O) /\ BetterOf(Gone, Raised) /\ call.B \in Nat
    BY <1>1, <1>7 DEF OnePerRecord, BetterOf
  <2> HIDE DEF O
  <2> QED
    BY <1>2, <1>3, <1>5, <1>6, <2>1, BestOfMerged
<1> QED
  BY <1>1, <1>4, <1>8, SamePool DEF RInv

\* The probe ends: the reference makes it.
LEMMA RefEndProbe ==
  ASSUME RInv, Remember, EndProbe
  PROVE  Rest' /\ RefStep
<1>1. /\ phase = "verify" /\ phase' = "ready" /\ t' = t + 1
      /\ \A i \in Surviving : verified_stamp[i] = generation
      /\ UNCHANGED <<call, stopped, fallback, answer, verified, touched, pool, proxy>>
  BY DEF EndProbe, EndCluster, arrays
<1>2. /\ ~stopped /\ ~fallback /\ ~Reference!BoundTest
      /\ m = call.route[t].m /\ counted \subseteq call.route[t].members
      /\ Deltas \subseteq settled.verified /\ settled.verified \subseteq verified
      /\ verified \subseteq settled.verified \cup Surviving
  BY <1>1 DEF RInv, Rest, Probing, Verifying, InCluster
<1>3. /\ WTypeOK /\ StampsAgree /\ NoStalePosition /\ PoolGetsVerified /\ CountsAreFresh
      /\ counted \subseteq call.active /\ t \in 1..Len(call.route)
      /\ Len(call.route) \in Nat /\ admissions \subseteq Ids
  BY <1>1, CallFacts
  DEF RInv, SInv, TInv, ActiveOnly, InRoute, WInv, WTypeOK
<1>4. DeltaDone' /\ Observed' = Observed
  BY <1>1, <1>2 DEF DeltaDone, Deltas, Observed, Entry
<1>5. Settled'
  BY <1>1, <1>2, <1>4 DEF Settled
<1>6. settled' = Current' /\ Current' = Current
  BY <1>1, <1>4, <1>5 DEF Remember, Current
<1>7. Rest'
  BY <1>1, <1>2, <1>4, <1>6 DEF Rest, DeltaFirst, SettledIsCurrent, FallingBack, Probing,
     InCluster, Merging, Verifying
<1>8. verified = settled.verified \cup {p[2] : p \in pool}
  <2>1. ASSUME NEW i \in Surviving PROVE i \in {p[2] : p \in pool}
    <3>1. Entry(i) \in pool
      BY <1>1, <1>3 DEF Surviving, IsMember, StampsAgree
    <3> QED
      BY <3>1 DEF Entry
  <2>2. ASSUME NEW p \in pool PROVE p[2] \in verified
    <3>1. IsMember(p[2]) /\ p[2] \in verified \cup admissions
      BY <1>1, <1>3 DEF NoStalePosition, PoolGetsVerified
    <3>2. CASE p[2] \in admissions
      BY <1>1, <1>3, <3>1, <3>2 DEF Surviving, StampsAgree
    <3> QED
      BY <3>1, <3>2
  <2> QED
    BY <1>2, <2>1, <2>2
<1>9. Counts \in [counted -> 1..call.route[t].m]
  BY <1>1, <1>2, <1>3 DEF Counts, CountsAreFresh, WTypeOK
<1>10. /\ settled'.observed = (settled.observed \ Gone) \cup Raised
       /\ settled'.ordered = Reference!Best(call.B, (settled.ordered \ Gone) \cup Raised)
       /\ settled'.verified = settled.verified \cup {p[2] : p \in settled'.ordered}
  BY <1>1, <1>6, <1>8, MergeIsComplete, PoolIsCut, SameOperators DEF Current
<1>11. Reference!Routing
  BY <1>1, <1>2, <1>3 DEF Reference!Routing, Reference!Delta, Deltas
<1>12. Reference!Probe(Counts)
  BY <1>1, <1>2, <1>10, <1>11 DEF Reference!Probe, Offers, Raised, Gone
<1>13. Reference!Next
  <2>1. counted \in SUBSET (call.route[t].members \cap call.active)
    BY <1>2, <1>3
  <2> QED
    BY <1>9, <1>11, <1>12, <2>1 DEF Reference!Next
<1> QED
  BY <1>7, <1>13 DEF RefStep

-----------------------------------------------------------------------------
\* A thread that has not searched: the reference has not either.
LEMMA RefInit == HInit => RInv /\ Reference!Init
<1> SUFFICES ASSUME HInit PROVE RInv /\ Reference!Init
  OBVIOUS
<1>1. SInv /\ phase = "idle" /\ call \in Calls /\ settled = Fresh
      /\ t = 1 /\ stopped = FALSE /\ fallback = FALSE /\ answer = {}
  BY SInvInit DEF HInit, Init, WInit
<1>2. Rest
  BY <1>1 DEF Rest, DeltaFirst, SettledIsCurrent, Settled, FallingBack, Probing, InCluster,
     Merging, Verifying
<1>3. Reference!Init
  BY <1>1 DEF Reference!Init, Fresh
<1> QED
  BY <1>1, <1>2, <1>3 DEF RInv

\* Every step keeps the relation and is a step of the reference, or none.
LEMMA RefinementStep == RInv /\ [HNext]_<<vars, settled>> => RInv' /\ RefStep
<1> SUFFICES ASSUME RInv, [HNext]_<<vars, settled>> PROVE RInv' /\ RefStep
  OBVIOUS
<1>1. SInv'
  BY SInvStep DEF RInv, HNext
<1> SUFFICES Rest' /\ RefStep
  BY <1>1 DEF RInv
<1>2. CASE UNCHANGED <<vars, settled>>
  <2>1. UNCHANGED Reference!vars
    BY <1>2 DEF Reference!vars, vars, wvars
  <2>2. Rest'
    <3>1. (Reference!BoundTest' <=> Reference!BoundTest) /\ Ids' = Ids /\ Observed' = Observed
          /\ Surviving' = Surviving /\ Current' = Current /\ (Settled' <=> Settled)
          /\ (DeltaDone' <=> DeltaDone) /\ Deltas' = Deltas
      BY <1>2, RefBoundStays DEF vars, wvars, arrays, Ids, Observed, Entry, Surviving,
         IsMember, Current, Settled, DeltaDone, Deltas
    <3>2. \A i : /\ Entry(i)' = Entry(i) /\ NewEntry(i)' = NewEntry(i)
                 /\ (WasSeen(i)' <=> WasSeen(i)) /\ (Raises(i)' <=> Raises(i))
      BY <1>2 DEF vars, wvars, arrays, Entry, NewEntry, WasSeen, Raises
    <3>3. DeltaFirst' /\ SettledIsCurrent' /\ FallingBack' /\ Probing' /\ Verifying'
      BY <1>2, <3>1 DEF vars, wvars, RInv, Rest, DeltaFirst, SettledIsCurrent, FallingBack,
         Probing, InCluster, Verifying
    <3>4. Merging'
      BY <1>2, <3>1, <3>2 DEF vars, wvars, RInv, Rest, Merging
    <3> QED
      BY <3>3, <3>4 DEF Rest
  <2> QED
    BY <2>1, <2>2 DEF RefStep
<1>3. CASE HNext
  <2>1. Next /\ Remember
    BY <1>3 DEF HNext, Remember
  <2>2. CASE \E c \in Calls : EmptyQuery(c) \/ BeginQuery(c)
    BY <2>1, <2>2, RefEmptyQuery, RefBegin
  <2>3. CASE \E i \in Ids : VerifyDelta(i) \/ OfferCounted(i)
    BY <2>1, <2>3, RefDelta, RefOffer
  <2>4. CASE \E i \in Ids : VerifyAdmission(i) \/ VerifyFallback(i)
    BY <1>1, <2>1, <2>4, RefAdmission, RefVerifyFallback
  <2>5. CASE phase = "scan" /\ \E bucket \in SUBSET call.route[t].members : VisitBucket(bucket)
    BY <2>1, <2>5, RefScan
  <2>6. CASE Stop \/ Probe \/ NextLoop
    BY <2>1, <2>6, RefStop, RefProbe, RefNextLoop
  <2>7. CASE EndProbe \/ StartFallback \/ Finish \/ Throw
    BY <2>1, <2>7, RefEndProbe, RefStartFallback, RefFinish, RefThrow
  <2> QED
    BY <2>1, <2>2, <2>3, <2>4, <2>5, <2>6, <2>7 DEF Next, SearchStep
<1> QED
  BY <1>2, <1>3

\* The search on the reusable workspace is the reference search: for all calls,
\* hash functions, orders of the offers and states earlier queries left, routing,
\* stopping, pool, verified records and answers are those of reference_search.
THEOREM SearchIsReference == HSpec => ImplementsReference
<1>1. RInv /\ [HNext]_<<vars, settled>> => RInv'
  BY RefinementStep
<1>2. RInv /\ [HNext]_<<vars, settled>> => [Reference!Next]_(Reference!vars)
  BY RefinementStep DEF RefStep
<1> QED
  BY <1>1, <1>2, RefInit, PTL DEF HSpec, ImplementsReference, Reference!Spec
=============================================================================
