------------------------- MODULE EpochIndex_proofs -------------------------
(***************************************************************************)
(* Proofs about the dynamic index: that the record store counts its active *)
(* records right and the delta list is the flagged ones, and that between  *)
(* any two operations the partition, the tables and the sketch cache hold  *)
(* every indexed record where a search looks for it; and that the program  *)
(* uses the index only as it allows (experiment of main.cpp).              *)
(***************************************************************************)
EXTENDS IndexSearch, Experiment, Ranking_proofs

Record == [row : Rows, active : BOOLEAN, delta : BOOLEAN]
Store  == [records : Seq(Record), df : [Dims -> Int], active : Int]

\* the counts of a store are those of its active records
StoreOK(s) ==
  /\ s \in Store
  /\ s.active = Cardinality(ActiveIds(s))
  /\ \A j \in Dims : s.df[j] = Cardinality(Positive(s.records, j))

DeltaIds(s)  == {i \in ActiveIds(s) : s.records[i].delta}
IndexedOf(s) == {i \in ActiveIds(s) : ~s.records[i].delta}

-----------------------------------------------------------------------------
\* A function on 1..n is a sequence of n elements.
LEMMA ArrayIsSeq ==
  ASSUME NEW S, NEW n \in Nat, NEW f \in [1..n -> S]
  PROVE  f \in Seq(S) /\ Len(f) = n
OBVIOUS

(***************************************************************************)
(* The record store                                                        *)
(***************************************************************************)

\* The identifiers of a store are finitely many.
LEMMA IdsFinite ==
  ASSUME NEW s \in Store
  PROVE  /\ Len(s.records) \in Nat
         /\ ActiveIds(s) \subseteq 1..Len(s.records) /\ IsFiniteSet(ActiveIds(s))
         /\ \A j \in Dims : IsFiniteSet(Positive(s.records, j))
<1>1. Len(s.records) \in Nat
  BY DEF Store
<1>2. IsFiniteSet(1..Len(s.records))
  <2>1. 1 \in Int /\ Len(s.records) \in Int
    BY <1>1
  <2> QED
    BY <2>1, FS_Interval
<1>3. /\ ActiveIds(s) \subseteq 1..Len(s.records)
      /\ \A j \in Dims : Positive(s.records, j) \subseteq 1..Len(s.records)
  BY DEF ActiveIds, Positive
<1> QED
  BY <1>1, <1>2, <1>3, FS_Subset

\* Loading a collection counts its rows.
LEMMA LoadedOK ==
  ASSUME NEW rows \in Seq(Rows)
  PROVE  StoreOK(Loaded(rows)) /\ DeltaIds(Loaded(rows)) = {}
<1> DEFINE s == Loaded(rows)
           records == [i \in 1..Len(rows) |-> [row |-> rows[i], active |-> TRUE, delta |-> FALSE]]
<1>1. Len(rows) \in Nat /\ \A i \in 1..Len(rows) : rows[i] \in Rows
  OBVIOUS
<1>2. records \in [1..Len(rows) -> Record]
  BY <1>1 DEF Record
<1>3. records \in Seq(Record) /\ Len(records) = Len(rows)
  <2> HIDE DEF records
  <2> QED
    BY <1>1, <1>2
<1>4. /\ s.records = records /\ s.active = Len(rows)
      /\ s.df = [j \in Dims |-> Cardinality(Positive(records, j))]
      /\ \A r, d, a : r \in Seq(Record) /\ d \in [Dims -> Int] /\ a \in Int =>
           [records |-> r, df |-> d, active |-> a] \in Store
      /\ s = [records |-> records, active |-> Len(rows),
              df |-> [j \in Dims |-> Cardinality(Positive(records, j))]]
  BY DEF Loaded, Store
<1>5. ActiveIds(s) = 1..Len(rows) /\ DeltaIds(s) = {}
  BY <1>3, <1>4 DEF ActiveIds, DeltaIds
<1>6. Cardinality(1..Len(rows)) = Len(rows) /\ IsFiniteSet(1..Len(rows))
  <2>1. 1 \in Int /\ Len(rows) \in Int
    BY <1>1
  <2> QED
    <3>1. IF 1 > Len(rows) THEN Len(rows) = 0 ELSE Len(rows) - 1 + 1 = Len(rows)
      BY <1>1
    <3> HIDE DEF s, records
    <3> QED
      BY <3>1, <2>1, FS_Interval
<1>7. \A j \in Dims : Cardinality(Positive(records, j)) \in Int
  <2>1. \A j \in Dims : Positive(records, j) \in SUBSET (1..Len(rows))
    BY <1>3 DEF Positive
  <2> HIDE DEF records
  <2> QED
    BY <1>6, <2>1, FS_Subset, FS_CardinalityType
<1>8. s \in Store
  <2> HIDE DEF records, s
  <2>1. [j \in Dims |-> Cardinality(Positive(records, j))] \in [Dims -> Int]
    BY <1>7
  <2> QED
    BY <1>1, <1>3, <1>4, <2>1
<1> QED
  <2> HIDE DEF records, s
  <2>1. StoreOK(s)
    BY <1>4, <1>5, <1>6, <1>8 DEF StoreOK
  <2> QED
    BY <1>5, <2>1 DEF s

\* Appending counts the new row.
LEMMA AppendedOK ==
  ASSUME NEW s, StoreOK(s), NEW row, Accepts(s, row)
  PROVE  LET t == Appended(s, row)  id == Len(s.records) + 1
         IN /\ StoreOK(t)
            /\ Len(t.records) = id
            /\ \A i \in 1..Len(s.records) : t.records[i] = s.records[i]
            /\ t.records[id] = [row |-> row, active |-> TRUE, delta |-> FALSE]
            /\ ActiveIds(t) = ActiveIds(s) \cup {id}
<1> DEFINE t == Appended(s, row)
           id == Len(s.records) + 1
           new == [row |-> row, active |-> TRUE, delta |-> FALSE]
<1>1. s \in Store /\ new \in Record /\ row \in Rows
  BY DEF StoreOK, Accepts, Record
<1>2. /\ Len(s.records) \in Nat /\ s.records \in Seq(Record)
      /\ s.df \in [Dims -> Int] /\ s.active \in Int
  BY <1>1 DEF Store
<1>3. /\ t.records = Append(s.records, new) /\ t.active = s.active + 1
      /\ t.df = [j \in Dims |-> IF j \in row.dims THEN s.df[j] + 1 ELSE s.df[j]]
      /\ t.records \in Seq(Record) /\ t.df \in [Dims -> Int] /\ t.active \in Int => t \in Store
  BY DEF Appended, Store
<1>4. /\ t.records \in Seq(Record) /\ Len(t.records) = id
      /\ \A i \in 1..Len(s.records) : t.records[i] = s.records[i]
      /\ t.records[id] = new
  <2> HIDE DEF new, t
  <2> QED
    BY <1>1, <1>2, <1>3
<1>5. t \in Store
  <2> HIDE DEF new, t
  <2> QED
    BY <1>2, <1>3, <1>4
<1>6. /\ ActiveIds(t) = ActiveIds(s) \cup {id} /\ id \notin ActiveIds(s)
      /\ \A j \in Dims :
           /\ id \notin Positive(s.records, j)
           /\ Positive(t.records, j) = IF j \in row.dims THEN Positive(s.records, j) \cup {id}
                                       ELSE Positive(s.records, j)
  <2>1. 1..id = (1..Len(s.records)) \cup {id} /\ id \notin 1..Len(s.records)
    BY <1>2
  <2>2. new.active /\ new.row = row
    OBVIOUS
  <2> HIDE DEF new, t, id
  <2> QED
    BY <1>4, <2>1, <2>2 DEF ActiveIds, Positive
<1>7. t.active = Cardinality(ActiveIds(t))
  <2>1. Cardinality(ActiveIds(t)) = Cardinality(ActiveIds(s)) + 1
    BY <1>1, <1>6, IdsFinite, FS_AddElement
  <2> QED
    BY <1>3, <2>1 DEF StoreOK
<1>8. ASSUME NEW j \in Dims PROVE t.df[j] = Cardinality(Positive(t.records, j))
  <2>1. IsFiniteSet(Positive(s.records, j)) /\ s.df[j] = Cardinality(Positive(s.records, j))
    BY <1>1, IdsFinite DEF StoreOK
  <2>2. Cardinality(Positive(s.records, j) \cup {id}) = Cardinality(Positive(s.records, j)) + 1
    BY <1>6, <2>1, FS_AddElement
  <2> QED
    BY <1>3, <1>6, <2>1, <2>2
<1> QED
  <2>1. StoreOK(t)
    BY <1>5, <1>7, <1>8 DEF StoreOK
  <2> QED
    BY <1>4, <1>6, <2>1

\* Erasing takes the row out of the counts.
LEMMA ErasedOK ==
  ASSUME NEW s, StoreOK(s), NEW i, IsActive(s, i)
  PROVE  LET t == Erased(s, i)
         IN /\ StoreOK(t)
            /\ Len(t.records) = Len(s.records)
            /\ \A e \in 1..Len(s.records) : t.records[e].row = s.records[e].row
            /\ \A e \in 1..Len(s.records) : e # i => t.records[e] = s.records[e]
            /\ ActiveIds(t) = ActiveIds(s) \ {i}
<1> DEFINE t == Erased(s, i)
           r == s.records[i]
<1>1. s \in Store /\ i \in 1..Len(s.records) /\ r.active /\ r \in Record
  BY DEF StoreOK, IsActive, Store
<1>2. /\ Len(s.records) \in Nat /\ s.records \in Seq(Record)
      /\ s.df \in [Dims -> Int] /\ s.active \in Int
  BY <1>1 DEF Store
<1>3. /\ t.records = [s.records EXCEPT ![i].active = FALSE, ![i].delta = FALSE]
      /\ t.active = s.active - 1
      /\ t.df = [j \in Dims |-> IF j \in r.row.dims THEN s.df[j] - 1 ELSE s.df[j]]
      /\ t.records \in Seq(Record) /\ t.df \in [Dims -> Int] /\ t.active \in Int => t \in Store
  BY DEF Erased, Store
<1>4. /\ t.records[i].row = r.row /\ t.records[i].active = FALSE /\ t.records[i] \in Record
      /\ \A e \in 1..Len(s.records) : e # i => t.records[e] = s.records[e]
      /\ t.records \in Seq(Record) /\ Len(t.records) = Len(s.records)
  <2> DEFINE gone == [[r EXCEPT !.active = FALSE] EXCEPT !.delta = FALSE]
  <2>1. gone.row = r.row /\ gone.active = FALSE /\ gone \in Record
    BY <1>1 DEF Record
  <2>2. t.records = [s.records EXCEPT ![i] = gone]
    <3>1. t.records = [[s.records EXCEPT ![i].active = FALSE] EXCEPT ![i].delta = FALSE]
      BY <1>3
    <3> HIDE DEF t
    <3> QED
      BY <1>1, <1>2, <3>1
  <2> HIDE DEF t, gone
  <2> QED
    BY <1>1, <1>2, <2>1, <2>2
<1>5. t \in Store
  <2> HIDE DEF t, r
  <2> QED
    BY <1>2, <1>3, <1>4
<1>6. /\ ActiveIds(t) = ActiveIds(s) \ {i} /\ i \in ActiveIds(s)
      /\ \A j \in Dims :
           /\ i \in Positive(s.records, j) <=> j \in r.row.dims
           /\ Positive(t.records, j) = Positive(s.records, j) \ {i}
  <2> HIDE DEF t
  <2> QED
    BY <1>1, <1>4 DEF ActiveIds, Positive
<1>7. t.active = Cardinality(ActiveIds(t))
  <2>1. Cardinality(ActiveIds(t)) = Cardinality(ActiveIds(s)) - 1
    BY <1>1, <1>6, IdsFinite, FS_RemoveElement
  <2> QED
    BY <1>3, <2>1 DEF StoreOK
<1>8. ASSUME NEW j \in Dims PROVE t.df[j] = Cardinality(Positive(t.records, j))
  <2>1. IsFiniteSet(Positive(s.records, j)) /\ s.df[j] = Cardinality(Positive(s.records, j))
    BY <1>1, IdsFinite DEF StoreOK
  <2>2. Cardinality(Positive(s.records, j) \ {i}) =
          IF j \in r.row.dims THEN s.df[j] - 1 ELSE s.df[j]
    <3> HIDE DEF t
    <3>1. Cardinality(Positive(s.records, j) \ {i}) =
            IF i \in Positive(s.records, j) THEN Cardinality(Positive(s.records, j)) - 1
            ELSE Cardinality(Positive(s.records, j))
      BY <2>1, FS_RemoveElement
    <3> QED
      BY <1>6, <2>1, <3>1
  <2> QED
    BY <1>3, <1>6, <2>2
<1> QED
  <2>1. StoreOK(t)
    BY <1>5, <1>7, <1>8 DEF StoreOK
  <2> QED
    BY <1>1, <1>4, <1>6, <2>1

\* The counts do not depend on the delta flags.
LEMMA ReflaggedOK ==
  ASSUME NEW s, StoreOK(s), NEW flagged \in [1..Len(s.records) -> BOOLEAN], NEW t,
         t = [s EXCEPT !.records = [i \in 1..Len(s.records) |->
                                     [s.records[i] EXCEPT !.delta = flagged[i]]]]
  PROVE  /\ StoreOK(t)
         /\ Len(t.records) = Len(s.records)
         /\ \A i \in 1..Len(s.records) :
              t.records[i].row = s.records[i].row /\ t.records[i].delta = flagged[i]
         /\ ActiveIds(t) = ActiveIds(s)
<1>1. /\ Len(s.records) \in Nat /\ s.records \in Seq(Record) /\ s \in Store
      /\ \A i \in 1..Len(s.records) : s.records[i] \in Record
  BY DEF StoreOK, Store
<1>2. \A i \in 1..Len(s.records) :
        LET r == [s.records[i] EXCEPT !.delta = flagged[i]]
        IN /\ r \in Record /\ r.row = s.records[i].row
           /\ r.active = s.records[i].active /\ r.delta = flagged[i]
  BY <1>1 DEF Record
<1> DEFINE records == [i \in 1..Len(s.records) |-> [s.records[i] EXCEPT !.delta = flagged[i]]]
<1>3. t = [s EXCEPT !.records = records]
  OBVIOUS
<1>4. /\ records \in Seq(Record) /\ Len(records) = Len(s.records)
      /\ \A i \in 1..Len(s.records) :
           /\ records[i].row = s.records[i].row
           /\ records[i].active = s.records[i].active /\ records[i].delta = flagged[i]
  <2>1. records \in [1..Len(s.records) -> Record]
    BY <1>2
  <2>2. \A i \in 1..Len(s.records) : records[i] = [s.records[i] EXCEPT !.delta = flagged[i]]
    OBVIOUS
  <2> HIDE DEF records
  <2>3. records \in Seq(Record) /\ Len(records) = Len(s.records)
    BY <1>1, <2>1, ArrayIsSeq
  <2> QED
    BY <1>2, <2>2, <2>3
<1> HIDE DEF records
<1>5. t \in Store /\ t.records = records /\ t.df = s.df /\ t.active = s.active
  BY <1>1, <1>3, <1>4 DEF Store
<1>6. /\ ActiveIds(t) = ActiveIds(s)
      /\ \A j \in Dims : Positive(t.records, j) = Positive(s.records, j)
  BY <1>4, <1>5 DEF ActiveIds, Positive
<1> QED
  BY <1>4, <1>5, <1>6 DEF StoreOK

-----------------------------------------------------------------------------
(***************************************************************************)
(* The store and the delta list through the operations of the index        *)
(***************************************************************************)

\* erase() leaves the other identifiers in the lists they were in.
LEMMA EraseKeepsLists ==
  ASSUME NEW s, StoreOK(s), NEW i, IsActive(s, i)
  PROVE  /\ DeltaIds(Erased(s, i)) = DeltaIds(s) \ {i}
         /\ IndexedOf(Erased(s, i)) = IndexedOf(s) \ {i}
<1>1. /\ ActiveIds(Erased(s, i)) = ActiveIds(s) \ {i}
      /\ \A e \in 1..Len(s.records) : e # i => Erased(s, i).records[e] = s.records[e]
  BY ErasedOK
<1>2. ActiveIds(s) \subseteq 1..Len(s.records)
  BY DEF ActiveIds
<1> QED
  BY <1>1, <1>2 DEF DeltaIds, IndexedOf

\* what an insertion leaves of a store: one more record, active, where it is filed
Grown(s, t, row, flag) ==
  LET id == Len(s.records) + 1
  IN /\ StoreOK(t)
     /\ Len(t.records) = id
     /\ \A i \in 1..Len(s.records) : t.records[i] = s.records[i]
     /\ t.records[id].row = row
     /\ ActiveIds(t) = ActiveIds(s) \cup {id}
     /\ DeltaIds(t) = DeltaIds(s) \cup (IF flag THEN {id} ELSE {})
     /\ IndexedOf(t) = IndexedOf(s) \cup (IF flag THEN {} ELSE {id})

\* A row in range goes to the indexed records.
LEMMA IndexedGrows ==
  ASSUME NEW s, StoreOK(s), NEW row, Accepts(s, row)
  PROVE  Grown(s, Appended(s, row), row, FALSE)
<1> DEFINE t == Appended(s, row)
           id == Len(s.records) + 1
           new == [row |-> row, active |-> TRUE, delta |-> FALSE]
<1>1. /\ StoreOK(t) /\ Len(t.records) = id
      /\ \A i \in 1..Len(s.records) : t.records[i] = s.records[i]
      /\ t.records[id] = new
      /\ ActiveIds(t) = ActiveIds(s) \cup {id}
  BY AppendedOK
<1>2. ActiveIds(s) \subseteq 1..Len(s.records) /\ new.delta = FALSE /\ new.row = row
  BY DEF ActiveIds
<1> HIDE DEF t, new
<1>3. DeltaIds(t) = DeltaIds(s) /\ IndexedOf(t) = IndexedOf(s) \cup {id}
  BY <1>1, <1>2 DEF DeltaIds, IndexedOf
<1>4. Grown(s, t, row, FALSE)
  BY <1>1, <1>2, <1>3 DEF Grown
<1> QED
  BY <1>4 DEF t

\* A row out of range is flagged.
LEMMA DeltaGrows ==
  ASSUME NEW s, StoreOK(s), NEW row, Accepts(s, row)
  PROVE  Grown(s, [Appended(s, row) EXCEPT !.records[Len(s.records) + 1].delta = TRUE],
               row, TRUE)
<1> DEFINE a == Appended(s, row)
           id == Len(s.records) + 1
           t == [a EXCEPT !.records[id].delta = TRUE]
           new == [row |-> row, active |-> TRUE, delta |-> FALSE]
           flagged == [i \in 1..Len(a.records) |-> IF i = id THEN TRUE ELSE a.records[i].delta]
           reflagged == [i \in 1..Len(a.records) |->
                          [a.records[i] EXCEPT !.delta = flagged[i]]]
<1>1. /\ StoreOK(a) /\ Len(a.records) = id
      /\ \A i \in 1..Len(s.records) : a.records[i] = s.records[i]
      /\ a.records[id] = new
      /\ ActiveIds(a) = ActiveIds(s) \cup {id}
  BY AppendedOK
<1>2. /\ a \in Store /\ a.records \in Seq(Record) /\ Len(a.records) \in Nat
      /\ \A i \in 1..Len(a.records) : a.records[i] \in Record
      /\ Len(s.records) \in Nat
  BY <1>1 DEF StoreOK, Store
<1>3. flagged \in [1..Len(a.records) -> BOOLEAN]
  <2> HIDE DEF a
  <2> QED
    BY <1>2 DEF Record
<1>4. t = [a EXCEPT !.records = reflagged]
  <2>1. t = [a EXCEPT !.records = [a.records EXCEPT ![id].delta = TRUE]]
    <3> HIDE DEF a
    <3> QED
      BY <1>2 DEF Store
  <2>2. [a.records EXCEPT ![id].delta = TRUE] = reflagged
    <3>1. \A i \in 1..Len(a.records) :
            reflagged[i] = IF i = id THEN [a.records[i] EXCEPT !.delta = TRUE] ELSE a.records[i]
      <4> HIDE DEF a
      <4> QED
        BY <1>2 DEF Record
    <3>2. DOMAIN a.records = 1..Len(a.records) /\ id \in 1..Len(a.records)
      <4> HIDE DEF a
      <4> QED
        BY <1>1, <1>2
    <3> DEFINE u == [a.records EXCEPT ![id].delta = TRUE]
    <3>3. \A i \in 1..Len(a.records) :
            u[i] = IF i = id THEN [a.records[i] EXCEPT !.delta = TRUE] ELSE a.records[i]
      <4> HIDE DEF a
      <4> QED
        BY <1>2, <3>2
    <3>4. u = [i \in 1..Len(a.records) |-> u[i]]
      <4> HIDE DEF a
      <4> QED
        BY <1>2, <3>2
    <3>5. reflagged = [i \in 1..Len(a.records) |-> reflagged[i]]
      OBVIOUS
    <3>6. \A i \in 1..Len(a.records) : u[i] = reflagged[i]
      BY <3>1, <3>3
    <3> HIDE DEF u, reflagged
    <3>7. u = reflagged
      BY <3>4, <3>5, <3>6
    <3> QED
      BY <3>7 DEF u
  <2> QED
    BY <2>1, <2>2
<1>5. /\ StoreOK(t) /\ Len(t.records) = id /\ ActiveIds(t) = ActiveIds(a)
      /\ \A i \in 1..Len(a.records) : t.records[i].delta = flagged[i]
      /\ \A i \in 1..Len(a.records) : t.records[i].row = a.records[i].row
  <2> HIDE DEF a, t, flagged
  <2> QED
    BY <1>1, <1>3, <1>4, ReflaggedOK
<1>6. /\ \A i \in 1..Len(s.records) : t.records[i] = s.records[i]
      /\ t.records[id].row = row /\ t.records[id].delta
  <2>1. t.records = reflagged
    <3> HIDE DEF a, t, reflagged
    <3> QED
      BY <1>2, <1>4 DEF Store
  <2>2. \A i \in 1..Len(a.records) :
            reflagged[i] = IF i = id THEN [a.records[i] EXCEPT !.delta = TRUE] ELSE a.records[i]
      <4> HIDE DEF a
      <4> QED
        BY <1>2 DEF Record
  <2>3. [new EXCEPT !.delta = TRUE].row = row /\ [new EXCEPT !.delta = TRUE].delta
    OBVIOUS
  <2>4. id \in 1..Len(a.records) /\ \A i \in 1..Len(s.records) : i \in 1..Len(a.records) /\ i # id
    <3> HIDE DEF a
    <3> QED
      BY <1>1, <1>2
  <2> HIDE DEF a, t, reflagged, new, id
  <2>5. t.records[id].row = row /\ t.records[id].delta
    BY <1>1, <2>1, <2>2, <2>3, <2>4
  <2> QED
    BY <1>1, <2>1, <2>2, <2>4, <2>5
<1>7. ActiveIds(s) \subseteq 1..Len(s.records)
  BY DEF ActiveIds
<1> HIDE DEF a, t, new
<1>8. DeltaIds(t) = DeltaIds(s) \cup {id} /\ IndexedOf(t) = IndexedOf(s)
  BY <1>1, <1>2, <1>5, <1>6, <1>7 DEF DeltaIds, IndexedOf
<1>9. Grown(s, t, row, TRUE)
  BY <1>1, <1>5, <1>6, <1>8 DEF Grown
<1> QED
  BY <1>9 DEF t, a

\* The end of a rebuild leaves no active record flagged.
LEMMA AbsorbedOK ==
  ASSUME StoreOK(data)
  PROVE  LET t == DeltaAbsorbed
         IN /\ StoreOK(t) /\ DeltaIds(t) = {} /\ IndexedOf(t) = Active
            /\ ActiveIds(t) = Active /\ Len(t.records) = Size
            /\ \A i \in 1..Size : t.records[i].row = Row(i)
<1> DEFINE t == DeltaAbsorbed
           flagged == [i \in 1..Size |-> IF i \in Active THEN FALSE ELSE data.records[i].delta]
           reflagged == [i \in 1..Size |-> [data.records[i] EXCEPT !.delta = flagged[i]]]
<1>1. /\ Size \in Nat /\ data \in Store /\ data.records \in Seq(Record)
      /\ \A i \in 1..Size : data.records[i] \in Record
  BY DEF StoreOK, Store, Size
<1>2. flagged \in [1..Size -> BOOLEAN]
  BY <1>1 DEF Record
<1>3. t = [data EXCEPT !.records = reflagged]
  <2>1. \A i \in 1..Size :
          reflagged[i] = IF i \in Active THEN [data.records[i] EXCEPT !.delta = FALSE]
                         ELSE data.records[i]
    BY <1>1 DEF Record
  <2>2. reflagged = [i \in 1..Size |-> reflagged[i]]
    OBVIOUS
  <2> HIDE DEF reflagged
  <2>3. reflagged = [i \in 1..Size |-> IF i \in Active
                                       THEN [data.records[i] EXCEPT !.delta = FALSE]
                                       ELSE data.records[i]]
    BY <2>1, <2>2
  <2> QED
    BY <2>3 DEF DeltaAbsorbed
<1>4. /\ StoreOK(t) /\ Len(t.records) = Size /\ ActiveIds(t) = Active
      /\ \A i \in 1..Size : t.records[i].row = Row(i) /\ t.records[i].delta = flagged[i]
  <2> HIDE DEF t, flagged
  <2> QED
    BY <1>2, <1>3, ReflaggedOK DEF Size, Row, Active
<1>5. Active \subseteq 1..Size
  BY DEF Active, ActiveIds, Size
<1>6. \A i \in Active : t.records[i].delta = FALSE
  <2> HIDE DEF t
  <2> QED
    BY <1>4, <1>5
<1>7. DeltaIds(t) = {} /\ IndexedOf(t) = Active
  <2> HIDE DEF t, flagged
  <2> QED
    BY <1>4, <1>6 DEF DeltaIds, IndexedOf
<1> QED
  <2> HIDE DEF t, flagged
  <2>1. t = DeltaAbsorbed
    BY DEF t
  <2> QED
    BY <1>4, <1>7, <2>1

\* The two parts of insert(), from whatever store and list they find.
LEMMA InsertDeltaGrows ==
  ASSUME NEW s, StoreOK(s), NEW row, InsertDelta(s, DeltaIds(s), row)
  PROVE  Grown(s, data', row, TRUE) /\ delta_ids' = DeltaIds(data')
<1>1. Grown(s, data', row, TRUE)
  BY DeltaGrows DEF InsertDelta
<1>2. delta_ids' = DeltaIds(s) \cup {Len(s.records) + 1}
  BY DEF InsertDelta
<1> QED
  BY <1>1, <1>2 DEF Grown

\* As above, for a row in range.
LEMMA InsertIndexedGrows ==
  ASSUME NEW s, StoreOK(s), NEW row, NEW full, InsertIndexed(s, DeltaIds(s), row, full)
  PROVE  Grown(s, data', row, FALSE) /\ delta_ids' = DeltaIds(data')
<1>1. Grown(s, data', row, FALSE)
  BY IndexedGrows DEF InsertIndexed
<1>2. delta_ids' = DeltaIds(s)
  BY DEF InsertIndexed
<1> QED
  BY <1>1, <1>2 DEF Grown

StoreInv == StoreOK(data) /\ delta_ids = DeltaIds(data)

\* Every step of a rebuild either leaves the store alone or absorbs the delta list.
LEMMA RebuildStores ==
  ASSUME Rebuild
  PROVE  \/ UNCHANGED <<data, delta_ids>>
         \/ data' = DeltaAbsorbed /\ delta_ids' = {}
BY DEF Rebuild, RebuildEmpty, RebuildStale, RebuildUnfilled, RebuildStopped,
       RebuildDone, RefreshDone

\* insert() keeps the store and the delta list right.
LEMMA InsertStores ==
  ASSUME StoreInv, NEW row, Insert(row)
  PROVE  StoreInv' /\ \E flag \in BOOLEAN : Grown(data, data', row, flag)
<1>0. StoreOK(data) /\ delta_ids = DeltaIds(data)
  BY DEF StoreInv
<1>1. InsertDelta(data, delta_ids, row) => Grown(data, data', row, TRUE) /\ delta_ids' = DeltaIds(data')
  BY <1>0, InsertDeltaGrows
<1>2. ASSUME NEW full \in BOOLEAN, InsertIndexed(data, delta_ids, row, full)
      PROVE  Grown(data, data', row, FALSE) /\ delta_ids' = DeltaIds(data')
  BY <1>0, <1>2, InsertIndexedGrows
<1>3. \E flag \in BOOLEAN : Grown(data, data', row, flag) /\ delta_ids' = DeltaIds(data')
  BY <1>1, <1>2 DEF Insert
<1> QED
  BY <1>3 DEF StoreInv, Grown

\* So does erase().
LEMMA EraseStores ==
  ASSUME StoreInv, NEW i, Erase(i)
  PROVE  StoreInv'
BY ErasedOK, EraseKeepsLists DEF Erase, StoreInv

\* update() leaves the record erased, and another in its place unless the row is refused.
LEMMA UpdateStores ==
  ASSUME StoreInv, NEW i, NEW row, Update(i, row)
  PROVE  /\ StoreInv'
         /\ Accepts(data, row) => \E flag \in BOOLEAN : Grown(Erased(data, i), data', row, flag)
<1> DEFINE store == Erased(data, i)
           deltas == delta_ids \ {i}
<1>1. StoreOK(store) /\ deltas = DeltaIds(store) /\ Len(store.records) = Len(data.records)
  BY ErasedOK, EraseKeepsLists DEF Update, StoreInv
<1>2. \/ InsertDelta(store, deltas, row)
      \/ \E full \in BOOLEAN : InsertIndexed(store, deltas, row, full)
      \/ ~Accepts(store, row) /\ Erase(i)
  BY DEF Update
<1>3. Accepts(store, row) <=> Accepts(data, row)
  BY <1>1 DEF Accepts
<1> HIDE DEF store, deltas
<1>4. CASE InsertDelta(store, deltas, row)
  <2>1. Grown(store, data', row, TRUE) /\ delta_ids' = DeltaIds(data')
    BY <1>1, <1>4, InsertDeltaGrows
  <2> QED
    BY <2>1 DEF StoreInv, Grown, store
<1>5. ASSUME NEW full \in BOOLEAN, InsertIndexed(store, deltas, row, full)
      PROVE  StoreInv' /\ Grown(store, data', row, FALSE)
  BY <1>1, <1>5, InsertIndexedGrows DEF StoreInv, Grown
<1>6. CASE ~Accepts(store, row) /\ Erase(i)
  BY <1>3, <1>6, EraseStores
<1> QED
  BY <1>2, <1>4, <1>5, <1>6 DEF store

\* The store and the delta list are right in every state.
LEMMA StoreInvariant == Spec => []StoreInv
<1>1. Init => StoreInv
  BY LoadedOK, EpochAssumption DEF Init, StoreInv
<1>2. StoreInv /\ [Next]_vars => StoreInv'
  <2> SUFFICES ASSUME StoreInv, [Next]_vars PROVE StoreInv'
    OBVIOUS
  <2>0. StoreOK(data) /\ delta_ids = DeltaIds(data)
    BY DEF StoreInv
  <2>1. CASE Rebuild
    <3>1. CASE UNCHANGED <<data, delta_ids>>
      BY <2>0, <3>1 DEF StoreInv
    <3>2. CASE data' = DeltaAbsorbed /\ delta_ids' = {}
      BY <2>0, <3>2, AbsorbedOK DEF StoreInv
    <3> QED
      BY <2>1, <3>1, <3>2, RebuildStores
  <2>2. CASE ReleaseSketchCache
    BY <2>0, <2>2 DEF ReleaseSketchCache, StoreInv
  <2>3. ASSUME NEW row, Insert(row) PROVE StoreInv'
    BY <2>3, InsertStores
  <2>4. ASSUME NEW i, Erase(i) PROVE StoreInv'
    BY <2>4, EraseStores
  <2>5. ASSUME NEW i, NEW row, Update(i, row) PROVE StoreInv'
    BY <2>5, UpdateStores
  <2>6. CASE UNCHANGED vars
    BY <2>0, <2>6 DEF vars, StoreInv
  <2> QED
    BY <2>1, <2>2, <2>3, <2>4, <2>5, <2>6 DEF Next
<1> QED
  BY <1>1, <1>2, PTL DEF Spec

\* The document frequencies and the active count are those of the active
\* records, after any sequence of appends, erasures, half-done updates and
\* rebuilds (Collection::append, erase).
THEOREM CountsAreRight == Spec => []StoreCounts
<1>1. StoreInv => StoreCounts
  BY DEF StoreInv, StoreOK, StoreCounts, Active
<1> QED
  BY <1>1, StoreInvariant, PTL

\* The list every search scans in full is the flagged active records
\* (Index::insert, erase and the last loop of rebuild).
THEOREM DeltaListIsRight == Spec => []DeltaCoherent
<1>1. StoreInv => DeltaCoherent
  BY DEF StoreInv, DeltaIds, DeltaCoherent, Active
<1> QED
  BY <1>1, StoreInvariant, PTL

-----------------------------------------------------------------------------
(***************************************************************************)
(* The arithmetic of the partition                                         *)
(***************************************************************************)

\* Distances on the arc are naturals, and the triangle inequality holds.
LEMMA DistIsMetric ==
  ASSUME NEW a \in Nat, NEW b \in Nat, NEW c \in Nat
  PROVE  /\ Dist(a, b) \in Nat
         /\ Dist(a, b) - Dist(c, b) <= Dist(a, c)
BY DEF Dist

\* Some centroid is nearest.
LEMMA NearestExists ==
  ASSUME NEW angle \in Nat, NEW among \in SUBSET Nat, among # {},
         NEW mu, \A c \in among : mu[c] \in Nat
  PROVE  Nearest(angle, mu, among) \in among
<1> DEFINE f == [c \in among |-> Dist(angle, mu[c])]
<1>1. f \in [among -> Nat] /\ \A c \in among : f[c] = Dist(angle, mu[c])
  BY DistIsMetric
<1>2. \E c \in among : \A e \in among : f[c] < f[e] \/ (f[c] = f[e] /\ c <= e)
  <2> HIDE DEF f
  <2> QED
    BY <1>1, FirstOfLeast
<1> HIDE DEF f
<1> QED
  BY <1>1, <1>2 DEF Nearest

\* A radius or a norm bound is a natural that bounds what it is the largest of.
LEMMA SetMaxBounds ==
  ASSUME NEW D, IsFiniteSet(D), NEW f \in [D -> Nat], NEW S, S = {0} \cup {f[i] : i \in D}
  PROVE  SetMax(S) \in Nat /\ \A i \in D : f[i] <= SetMax(S)
<1>1. \E m \in S : m \in Nat /\ \A y \in S : y <= m
  BY LargestExists
<1>2. SetMax(S) \in S /\ \A y \in S : y <= SetMax(S)
  BY <1>1 DEF SetMax
<1>3. S \subseteq Nat
  OBVIOUS
<1> QED
  BY <1>2, <1>3

\* The candidate numbers of clusters are positive.
LEMMA CandidatesPositive ==
  ASSUME NEW n \in Nat
  PROVE  Candidates(n) \subseteq Nat \ {0}
<1>1. ASSUME NEW e \in 1..3 PROVE 2^e \in Nat \ {0}
  <2>1. e = 1 \/ e = 2 \/ e = 3
    OBVIOUS
  <2>2. 2^1 \in Nat \ {0} /\ 2^2 \in Nat \ {0} /\ 2^3 \in Nat \ {0}
    OBVIOUS
  <2> QED
    BY <2>1, <2>2
<1> QED
  BY <1>1 DEF Candidates

\* The nearest centroid is one of the partition's, the second nearest another or none.
LEMMA NearestOfAll ==
  ASSUME NEW K \in Nat \ {0}, NEW mu \in [1..K -> Angles], NEW angle \in Nat
  PROVE  /\ First(angle, mu) \in 1..K
         /\ Second(angle, mu) \in 0..K /\ Second(angle, mu) # First(angle, mu)
<1>1. \A c \in 1..K : mu[c] \in Nat
  BY EpochAssumption
<1>2. First(angle, mu) \in 1..K
  <2>1. 1..K \in SUBSET Nat /\ 1..K # {} /\ DOMAIN mu = 1..K
    <3>1. 1 \in 1..K /\ DOMAIN mu = 1..K
      OBVIOUS
    <3>2. 1..K \in SUBSET Nat
      OBVIOUS
    <3> QED
      BY <3>1, <3>2
  <2> QED
    BY <1>1, <2>1, NearestExists DEF First
<1> DEFINE others == (1..K) \ {First(angle, mu)}
<1>3. Second(angle, mu) = IF others = {} THEN 0 ELSE Nearest(angle, mu, others)
  BY DEF Second
<1>4. CASE others = {}
  BY <1>2, <1>3, <1>4
<1>5. CASE others # {}
  <2>1. others \in SUBSET Nat /\ \A c \in others : mu[c] \in Nat
    BY <1>1
  <2>2. others \subseteq 1..K /\ First(angle, mu) \notin others
    OBVIOUS
  <2> HIDE DEF others
  <2>3. Nearest(angle, mu, others) \in others
    BY <1>5, <2>1, NearestExists
  <2>4. Second(angle, mu) \in others
    BY <1>3, <1>5, <2>3
  <2>5. 1..K \subseteq 0..K
    OBVIOUS
  <2> QED
    BY <1>2, <2>2, <2>4, <2>5
<1> QED
  BY <1>2, <1>4, <1>5

\* Every identifier of a store has a row.
LEMMA RowsTyped ==
  ASSUME NEW s, StoreOK(s), NEW i \in 1..Len(s.records)
  PROVE  /\ s.records[i].row \in Rows
         /\ s.records[i].row.angle \in Nat /\ s.records[i].row.length \in Nat
<1>1. s.records[i] \in Record
  BY DEF StoreOK, Store
<1> QED
  BY <1>1, RowsAssumption DEF Record

NormOf(mu, c) == SetMax({0} \cup {Row(i).length : i \in MembersOf(mu, c)})

\* Partition::build: the members of a cluster are active, no further from the
\* centroid than its radius and no longer than its norm bound.
LEMMA PartitionBounds ==
  ASSUME StoreOK(data), NEW K \in Nat \ {0}, NEW mu \in [1..K -> Angles], NEW c \in 1..K
  PROVE  /\ MembersOf(mu, c) \subseteq Active
         /\ Radius(mu, c) \in Nat /\ NormOf(mu, c) \in Nat
         /\ \A i \in MembersOf(mu, c) :
              /\ Dist(Row(i).angle, mu[c]) <= Radius(mu, c)
              /\ Row(i).length <= NormOf(mu, c)
<1>1. /\ Active \subseteq 1..Size /\ IsFiniteSet(Active)
      /\ \A i \in Active : Row(i).angle \in Nat /\ Row(i).length \in Nat
  <2>1. data \in Store /\ Active \subseteq 1..Size
    BY DEF StoreOK, Active, ActiveIds, Size
  <2> QED
    BY <2>1, IdsFinite, RowsTyped DEF Active, Size, Row
<1>2. mu[c] \in Nat
  BY EpochAssumption
<1>3. Primaries(mu, c) \in SUBSET Active /\ MembersOf(mu, c) \in SUBSET Active
  BY DEF Primaries, MembersOf
<1>4. IsFiniteSet(Primaries(mu, c)) /\ IsFiniteSet(MembersOf(mu, c))
  BY <1>1, <1>3, FS_Subset
<1>5. Radius(mu, c) \in Nat /\ \A i \in Primaries(mu, c) : Dist(Row(i).angle, mu[c]) <= Radius(mu, c)
  <2> DEFINE f == [i \in Primaries(mu, c) |-> Dist(Row(i).angle, mu[c])]
             S == {0} \cup {Dist(Row(i).angle, mu[c]) : i \in Primaries(mu, c)}
  <2>1. f \in [Primaries(mu, c) -> Nat]
    BY <1>1, <1>2, <1>3, DistIsMetric
  <2>2. S = {0} \cup {f[i] : i \in Primaries(mu, c)}
    OBVIOUS
  <2>3. \A i \in Primaries(mu, c) : f[i] = Dist(Row(i).angle, mu[c])
    OBVIOUS
  <2>4. Radius(mu, c) = SetMax(S)
    BY DEF Radius
  <2> HIDE DEF f, S
  <2> QED
    BY <1>4, <2>1, <2>2, <2>3, <2>4, SetMaxBounds
<1>6. NormOf(mu, c) \in Nat /\ \A i \in MembersOf(mu, c) : Row(i).length <= NormOf(mu, c)
  <2> DEFINE f == [i \in MembersOf(mu, c) |-> Row(i).length]
             S == {0} \cup {Row(i).length : i \in MembersOf(mu, c)}
  <2>1. f \in [MembersOf(mu, c) -> Nat]
    BY <1>1, <1>3
  <2>2. S = {0} \cup {f[i] : i \in MembersOf(mu, c)}
    OBVIOUS
  <2>3. \A i \in MembersOf(mu, c) : f[i] = Row(i).length
    OBVIOUS
  <2>4. NormOf(mu, c) = SetMax(S)
    BY DEF NormOf
  <2> HIDE DEF f, S
  <2> QED
    BY <1>4, <2>1, <2>2, <2>3, <2>4, SetMaxBounds
<1>7. ASSUME NEW i \in MembersOf(mu, c), i \notin Primaries(mu, c)
      PROVE  Dist(Row(i).angle, mu[c]) <= Radius(mu, c)
  <2>1. SecondaryOf(mu, i) = c /\ c # 0
    BY <1>7 DEF MembersOf
  <2> QED
    BY <2>1 DEF SecondaryOf, Spills
<1> QED
  BY <1>3, <1>5, <1>6, <1>7

\* A partition that cannot be filled still has radii.
LEMMA RadiusTyped ==
  ASSUME StoreOK(data), NEW K \in Nat \ {0}, NEW mu \in [1..K -> Angles]
  PROVE  \A c \in 1..K : Radius(mu, c) \in Nat
BY PartitionBounds

\* vector::resize keeps what there is.
LEMMA PaddedIs ==
  ASSUME NEW f \in Seq(Nat), NEW n \in Nat
  PROVE  /\ Padded(f, n, 0) \in Seq(Nat) /\ Len(Padded(f, n, 0)) = n
         /\ \A i \in 1..n : Padded(f, n, 0)[i] = IF i \in 1..Len(f) THEN f[i] ELSE 0
<1> DEFINE g == [i \in 1..n |-> IF i \in DOMAIN f THEN f[i] ELSE 0]
<1>1. DOMAIN f = 1..Len(f) /\ \A i \in 1..Len(f) : f[i] \in Nat
  OBVIOUS
<1>2. g \in [1..n -> Nat] /\ \A i \in 1..n : g[i] = IF i \in 1..Len(f) THEN f[i] ELSE 0
  BY <1>1
<1>3. Padded(f, n, 0) = g
  BY DEF Padded
<1> HIDE DEF g
<1> QED
  BY <1>2, <1>3, ArrayIsSeq

-----------------------------------------------------------------------------
(***************************************************************************)
(* The index invariant                                                     *)
(***************************************************************************)
Cluster == [mu : Angles, ids : SUBSET Nat, radius : Nat, cover : Nat, norm : Nat]

IndexTypes ==
  /\ epoch \in 0..MaxEpoch /\ complete \in BOOLEAN
  /\ sketch \in Seq(Nat) /\ cardinal \in Seq(Nat)
  /\ primary \in Seq(Nat) /\ secondary \in Seq(Nat)
  /\ clusters \in Seq(Cluster) /\ tables \in Seq(SUBSET (Nat \X Nat))

\* the clusters insert() chooses for a row
Mu == [c \in DOMAIN clusters |-> clusters[c].mu]
FirstOf(row)  == IF clusters = <<>> THEN 0 ELSE First(row.angle, Mu)
SecondOf(row) == IF clusters = <<>> THEN 0 ELSE Second(row.angle, Mu)
SpillOf(row)  == IF Reaches(row, SecondOf(row)) THEN SecondOf(row) ELSE 0

EntriesOf(i, c) == {at \in 1..MaxEpoch : <<i, at>> \in tables[c]}

\* record i is where a build would have put it, under the sketch it is counted with
Filed(s, i) ==
  /\ primary[i] = FirstOf(s.records[i].row)
  /\ secondary[i] = SpillOf(s.records[i].row)
  /\ cardinal[i] \in {0, epoch}
  /\ complete => sketch[i] = cardinal[i]
  /\ \A c \in {primary[i], secondary[i]} \ {0} :
       i \in clusters[c].ids /\ EntriesOf(i, c) = {cardinal[i]} \ {0}

\* no cluster holds an identifier from the future or a row beyond its bounds,
\* whether the row is active or not
Covering(s) ==
  \A c \in DOMAIN clusters : \A i \in clusters[c].ids :
    /\ i \in 1..Len(s.records)
    /\ s.records[i].row.length <= clusters[c].norm
    /\ Dist(s.records[i].row.angle, clusters[c].mu) <= clusters[c].cover

\* nor do its tables
Entries(s) ==
  \A c \in DOMAIN tables : \A i, at \in Nat :
    <<i, at>> \in tables[c] => i \in 1..Len(s.records) /\ at \in 1..MaxEpoch

\* the arrays of an index with tables have an entry for every record
Aligned(s) ==
  /\ epoch >= 1 /\ Len(tables) = Len(clusters)
  /\ Len(primary) = Len(s.records) /\ Len(secondary) = Len(s.records)
  /\ Len(cardinal) = Len(s.records)
  /\ complete => Len(sketch) = Len(s.records)

IndexOK(s) ==
  /\ IndexTypes /\ Covering(s) /\ Entries(s)
  /\ Built => Aligned(s) /\ \A i \in IndexedOf(s) : Filed(s, i)

IndexInv == StoreInv /\ IndexOK(data)

\* The centroids of a partition that is not empty.
LEMMA MuTyped ==
  ASSUME IndexTypes
  PROVE  /\ Len(clusters) \in Nat /\ DOMAIN clusters = 1..Len(clusters)
         /\ \A c \in 1..Len(clusters) : clusters[c] \in Cluster
         /\ clusters # <<>> => Len(clusters) \in Nat \ {0}
         /\ Mu \in [1..Len(clusters) -> Angles]
<1>1. clusters \in Seq(Cluster)
  BY DEF IndexTypes
<1>2. /\ Len(clusters) \in Nat /\ DOMAIN clusters = 1..Len(clusters)
      /\ \A c \in 1..Len(clusters) : clusters[c] \in Cluster
      /\ clusters # <<>> => Len(clusters) \in Nat \ {0}
  BY <1>1
<1> QED
  BY <1>2 DEF Mu, Cluster

\* Where a row is sent is a cluster of the partition or nowhere.
LEMMA ChosenTyped ==
  ASSUME IndexTypes, NEW row \in Rows
  PROVE  /\ FirstOf(row) \in 0..Len(clusters) /\ SecondOf(row) \in 0..Len(clusters)
         /\ SpillOf(row) \in 0..Len(clusters)
         /\ clusters # <<>> => FirstOf(row) # 0
<1>1. row.angle \in Nat
  BY RowsAssumption
<1>2. CASE clusters = <<>>
  BY <1>2, MuTyped DEF FirstOf, SecondOf, SpillOf
<1>3. CASE clusters # <<>>
  <2>1. /\ First(row.angle, Mu) \in 1..Len(clusters)
        /\ Second(row.angle, Mu) \in 0..Len(clusters)
    BY <1>1, <1>3, MuTyped, NearestOfAll
  <2>2. FirstOf(row) = First(row.angle, Mu) /\ SecondOf(row) = Second(row.angle, Mu)
    BY <1>3 DEF FirstOf, SecondOf
  <2> QED
    BY <2>1, <2>2, MuTyped DEF SpillOf
<1> QED
  BY <1>2, <1>3

\* An erasure leaves the index in order.
LEMMA FewerIndexed ==
  ASSUME NEW s, NEW t, Len(t.records) = Len(s.records),
         \A i \in 1..Len(s.records) : t.records[i].row = s.records[i].row,
         IndexedOf(t) \subseteq IndexedOf(s), IndexOK(s)
  PROVE  IndexOK(t)
<1>1. Covering(t) /\ Entries(t)
  BY DEF IndexOK, Covering, Entries
<1>2. ASSUME Built PROVE Aligned(t) /\ \A i \in IndexedOf(t) : Filed(t, i)
  <2>1. Aligned(t)
    BY <1>2 DEF IndexOK, Aligned
  <2>2. \A i \in IndexedOf(s) : i \in 1..Len(s.records) /\ Filed(s, i)
    BY <1>2 DEF IndexOK, IndexedOf, ActiveIds
  <2>3. \A i \in IndexedOf(t) : Filed(t, i)
    BY <2>2 DEF Filed
  <2> QED
    BY <2>1, <2>3
<1> QED
  BY <1>1, <1>2 DEF IndexOK

\* what a step may do to the clusters between two rebuilds
ClustersGrow ==
  /\ DOMAIN clusters' = DOMAIN clusters
  /\ \A c \in DOMAIN clusters :
       /\ clusters'[c].mu = clusters[c].mu /\ clusters'[c].radius = clusters[c].radius
       /\ clusters'[c].cover >= clusters[c].cover /\ clusters'[c].norm >= clusters[c].norm
       /\ clusters[c].ids \subseteq clusters'[c].ids

\* While the clusters only grow, a row goes where it went before.
LEMMA ChosenStays ==
  ASSUME IndexTypes, IndexTypes', ClustersGrow
  PROVE  \A row \in Rows : FirstOf(row)' = FirstOf(row) /\ SpillOf(row)' = SpillOf(row)
<1>1. Mu' = Mu
  BY DEF Mu, ClustersGrow
<1>2. clusters' = <<>> <=> clusters = <<>>
  BY DEF ClustersGrow, IndexTypes
<1> SUFFICES ASSUME NEW row \in Rows
             PROVE  FirstOf(row)' = FirstOf(row) /\ SpillOf(row)' = SpillOf(row)
  OBVIOUS
<1>3. FirstOf(row)' = FirstOf(row) /\ SecondOf(row)' = SecondOf(row)
  BY <1>1, <1>2 DEF FirstOf, SecondOf
<1>4. SecondOf(row) # 0 => SecondOf(row) \in DOMAIN clusters
  BY ChosenTyped, MuTyped
<1>5. Reaches(row, SecondOf(row))' <=> Reaches(row, SecondOf(row))
  BY <1>3, <1>4 DEF Reaches, ClustersGrow
<1> QED
  BY <1>3, <1>5 DEF SpillOf

\* A record stays filed while its entries in the arrays and tables stay.
LEMMA FiledStays ==
  ASSUME IndexTypes, IndexTypes', ClustersGrow, NEW s, NEW t, NEW i,
         s.records[i].row \in Rows, t.records[i].row = s.records[i].row,
         primary'[i] = primary[i], secondary'[i] = secondary[i], cardinal'[i] = cardinal[i],
         complete' => complete /\ sketch'[i] = sketch[i], epoch' = epoch,
         \A c \in DOMAIN clusters : EntriesOf(i, c)' = EntriesOf(i, c),
         Filed(s, i)
  PROVE  Filed(t, i)'
<1> DEFINE row == s.records[i].row
<1>1. FirstOf(row)' = FirstOf(row) /\ SpillOf(row)' = SpillOf(row)
  BY ChosenStays
<1>2. {primary[i], secondary[i]} \ {0} \subseteq DOMAIN clusters
  BY ChosenTyped, MuTyped DEF Filed
<1>3. \A c \in {primary'[i], secondary'[i]} \ {0} :
        i \in clusters'[c].ids /\ EntriesOf(i, c)' = {cardinal'[i]} \ {0}
  BY <1>2 DEF Filed, ClustersGrow
<1> QED
  BY <1>1, <1>3 DEF Filed

\* Clusters that do not change grow.
LEMMA SameClustersGrow ==
  ASSUME IndexTypes, clusters' = clusters
  PROVE  ClustersGrow
<1>1. \A c \in DOMAIN clusters : clusters[c].cover \in Nat /\ clusters[c].norm \in Nat
  BY MuTyped DEF Cluster
<1> QED
  BY <1>1 DEF ClustersGrow

\* A row for the delta list enters no cluster and no table.
LEMMA InsertDeltaOK ==
  ASSUME NEW s, StoreOK(s), IndexOK(s), NEW row, InsertDelta(s, DeltaIds(s), row)
  PROVE  IndexOK(data)'
<1> DEFINE id == Len(s.records) + 1
<1>1. Grown(s, data', row, TRUE)
  BY InsertDeltaGrows
<1>2. /\ StoreOK(data') /\ Len(data'.records) = id /\ IndexedOf(data') = IndexedOf(s)
      /\ \A i \in 1..Len(s.records) : data'.records[i] = s.records[i]
      /\ Len(s.records) \in Nat
  BY <1>1 DEF Grown, StoreOK, Store
<1>3. /\ sketch' = Padded(sketch, id, 0) /\ cardinal' = Padded(cardinal, id, 0)
      /\ primary' = Padded(primary, id, 0) /\ secondary' = Padded(secondary, id, 0)
      /\ epoch' = epoch /\ complete' = complete /\ clusters' = clusters /\ tables' = tables
  BY DEF InsertDelta
<1>4. IndexTypes
  BY DEF IndexOK
<1>5. /\ sketch' \in Seq(Nat) /\ Len(sketch') = id
      /\ cardinal' \in Seq(Nat) /\ Len(cardinal') = id
      /\ primary' \in Seq(Nat) /\ Len(primary') = id
      /\ secondary' \in Seq(Nat) /\ Len(secondary') = id
      /\ \A i \in 1..id :
           /\ i \in 1..Len(sketch) => sketch'[i] = sketch[i]
           /\ i \in 1..Len(cardinal) => cardinal'[i] = cardinal[i]
           /\ i \in 1..Len(primary) => primary'[i] = primary[i]
           /\ i \in 1..Len(secondary) => secondary'[i] = secondary[i]
  <2>1. id \in Nat
    BY <1>2
  <2>2. sketch \in Seq(Nat) /\ cardinal \in Seq(Nat) /\ primary \in Seq(Nat) /\ secondary \in Seq(Nat)
    BY <1>4 DEF IndexTypes
  <2> HIDE DEF id
  <2> QED
    BY <1>3, <2>1, <2>2, PaddedIs
<1>6. IndexTypes'
  BY <1>3, <1>4, <1>5 DEF IndexTypes
<1>7. Covering(data)' /\ Entries(data)'
  <2>1. 1..Len(s.records) \subseteq 1..id
    BY <1>2
  <2> HIDE DEF id
  <2> QED
    BY <1>2, <1>3, <2>1 DEF IndexOK, Covering, Entries
<1>8. ASSUME Built' PROVE Aligned(data)' /\ \A i \in IndexedOf(data') : Filed(data, i)'
  <2>1. Built
    BY <1>3, <1>8 DEF Built
  <2>2. Aligned(s) /\ \A i \in IndexedOf(s) : Filed(s, i)
    BY <2>1 DEF IndexOK
  <2>3. Aligned(data)'
    BY <1>2, <1>3, <1>5, <2>2 DEF Aligned
  <2>4. ASSUME NEW i \in IndexedOf(data') PROVE Filed(data, i)'
    <3>1. i \in 1..Len(s.records) /\ i \in 1..id /\ Filed(s, i)
      BY <1>2, <2>2, <2>4 DEF IndexedOf, ActiveIds
    <3>2. s.records[i].row \in Rows /\ data'.records[i].row = s.records[i].row
      BY <1>2, <3>1, RowsTyped
    <3>3. /\ primary'[i] = primary[i] /\ secondary'[i] = secondary[i]
          /\ cardinal'[i] = cardinal[i]
          /\ complete' => complete /\ sketch'[i] = sketch[i]
      <4> HIDE DEF id
      <4> QED
        BY <1>3, <1>5, <2>2, <3>1 DEF Aligned
    <3>4. \A c \in DOMAIN clusters : EntriesOf(i, c)' = EntriesOf(i, c)
      BY <1>3 DEF EntriesOf
    <3> HIDE DEF id
    <3>5. ClustersGrow
      BY <1>3, <1>4, SameClustersGrow
    <3> QED
      BY <1>3, <1>4, <1>6, <3>1, <3>2, <3>3, <3>4, <3>5, FiledStays
  <2> QED
    BY <2>3, <2>4
<1> QED
  BY <1>6, <1>7, <1>8 DEF IndexOK

\* A cluster that a row joins keeps its centroid and radius, and bounds the row too.
LEMMA JoinedIs ==
  ASSUME NEW cl \in Cluster, NEW id \in Nat, NEW row \in Rows
  PROVE  LET j == Joined(cl, id, row)
         IN /\ j \in Cluster /\ j.mu = cl.mu /\ j.radius = cl.radius
            /\ j.ids = cl.ids \cup {id}
            /\ j.norm >= cl.norm /\ j.norm >= row.length
            /\ j.cover >= cl.cover /\ j.cover >= Dist(row.angle, cl.mu)
<1>1. row.length \in Nat /\ Dist(row.angle, cl.mu) \in Nat
  BY RowsAssumption, EpochAssumption, DistIsMetric DEF Cluster
<1>2. \A a, b \in Nat : Larger(a, b) \in Nat /\ Larger(a, b) >= a /\ Larger(a, b) >= b
  BY DEF Larger
<1>3. cl.norm \in Nat /\ cl.cover \in Nat /\ cl.ids \cup {id} \in SUBSET Nat
  BY DEF Cluster
<1>4. /\ Larger(cl.norm, row.length) \in Nat /\ Larger(cl.norm, row.length) >= cl.norm
      /\ Larger(cl.norm, row.length) >= row.length
      /\ Larger(cl.cover, Dist(row.angle, cl.mu)) \in Nat
      /\ Larger(cl.cover, Dist(row.angle, cl.mu)) >= cl.cover
      /\ Larger(cl.cover, Dist(row.angle, cl.mu)) >= Dist(row.angle, cl.mu)
  BY <1>1, <1>2, <1>3
<1> DEFINE j == Joined(cl, id, row)
<1>5. /\ j.mu = cl.mu /\ j.radius = cl.radius /\ j.ids = cl.ids \cup {id}
      /\ j.norm = Larger(cl.norm, row.length)
      /\ j.cover = Larger(cl.cover, Dist(row.angle, cl.mu))
  BY DEF Joined, Cluster
<1>6. j \in Cluster
  BY <1>3, <1>4 DEF Joined, Cluster
<1> HIDE DEF j
<1>7. /\ j.mu = cl.mu /\ j.radius = cl.radius /\ j.ids = cl.ids \cup {id}
      /\ j.norm >= cl.norm /\ j.norm >= row.length
      /\ j.cover >= cl.cover /\ j.cover >= Dist(row.angle, cl.mu)
  BY <1>4, <1>5
<1> QED
  BY <1>6, <1>7 DEF j

\* the clusters a row joins
JoinsOf(row) == {FirstOf(row), SpillOf(row)} \ {0}

\* What inserting a row in range does to the clusters and to their tables.
LEMMA InsertJoins ==
  ASSUME NEW s, Len(s.records) \in Nat, IndexTypes, NEW d, NEW row, NEW full \in BOOLEAN,
         InsertIndexed(s, d, row, full)
  PROVE  LET id == Len(s.records) + 1  at == IF full THEN epoch ELSE 0
         IN /\ row \in Rows /\ ClustersGrow
            /\ clusters' \in Seq(Cluster) /\ Len(clusters') = Len(clusters)
            /\ \A c \in DOMAIN clusters :
                 IF c \in JoinsOf(row)
                 THEN /\ clusters'[c].ids = clusters[c].ids \cup {id}
                      /\ clusters'[c].norm >= row.length
                      /\ clusters'[c].cover >= Dist(row.angle, clusters[c].mu)
                 ELSE clusters'[c].ids = clusters[c].ids
            /\ tables' = [c \in DOMAIN tables |->
                 IF c \in JoinsOf(row) /\ full THEN tables[c] \cup {<<id, at>>} ELSE tables[c]]
            /\ sketch' = [Padded(sketch, id, 0) EXCEPT ![id] = at]
            /\ cardinal' = [Padded(cardinal, id, 0) EXCEPT ![id] = at]
            /\ primary' = [Padded(primary, id, 0) EXCEPT ![id] = FirstOf(row)]
            /\ secondary' = [Padded(secondary, id, 0) EXCEPT ![id] = SpillOf(row)]
<1> DEFINE id == Len(s.records) + 1
           at == IF full THEN epoch ELSE 0
<1>1. row \in Rows /\ id \in Nat
  BY DEF InsertIndexed, Accepts
<1>2. /\ clusters' = [c \in DOMAIN clusters |->
             IF c \in JoinsOf(row) THEN Joined(clusters[c], id, row) ELSE clusters[c]]
      /\ tables' = [c \in DOMAIN tables |->
             IF c \in JoinsOf(row) /\ full THEN tables[c] \cup {<<id, at>>} ELSE tables[c]]
      /\ sketch' = [Padded(sketch, id, 0) EXCEPT ![id] = at]
      /\ cardinal' = [Padded(cardinal, id, 0) EXCEPT ![id] = at]
      /\ primary' = [Padded(primary, id, 0) EXCEPT ![id] = FirstOf(row)]
      /\ secondary' = [Padded(secondary, id, 0) EXCEPT ![id] = SpillOf(row)]
  BY DEF InsertIndexed, Joins, JoinsOf, SpillOf, SecondOf, FirstOf, Mu
<1>3. /\ DOMAIN clusters = 1..Len(clusters) /\ Len(clusters) \in Nat
      /\ \A c \in DOMAIN clusters : clusters[c] \in Cluster
  BY MuTyped
<1>4. \A c \in DOMAIN clusters :
        /\ clusters'[c] = IF c \in JoinsOf(row) THEN Joined(clusters[c], id, row) ELSE clusters[c]
        /\ clusters[c].cover \in Nat /\ clusters[c].norm \in Nat
  BY <1>2, <1>3 DEF Cluster
<1> HIDE DEF id, at
<1>5. \A c \in DOMAIN clusters :
        LET j == Joined(clusters[c], id, row)
        IN /\ j \in Cluster /\ j.mu = clusters[c].mu /\ j.radius = clusters[c].radius
           /\ j.ids = clusters[c].ids \cup {id}
           /\ j.norm >= clusters[c].norm /\ j.norm >= row.length
           /\ j.cover >= clusters[c].cover /\ j.cover >= Dist(row.angle, clusters[c].mu)
  BY <1>1, <1>3, JoinedIs
<1>6. clusters' \in [1..Len(clusters) -> Cluster]
  BY <1>2, <1>3, <1>5
<1>7. clusters' \in Seq(Cluster) /\ Len(clusters') = Len(clusters)
  BY <1>3, <1>6, ArrayIsSeq
<1>8. ClustersGrow
  BY <1>3, <1>4, <1>5, <1>6 DEF ClustersGrow
<1>9. \A c \in DOMAIN clusters :
        IF c \in JoinsOf(row)
        THEN /\ clusters'[c].ids = clusters[c].ids \cup {id}
             /\ clusters'[c].norm >= row.length
             /\ clusters'[c].cover >= Dist(row.angle, clusters[c].mu)
        ELSE clusters'[c].ids = clusters[c].ids
  BY <1>4, <1>5
<1> QED
  BY <1>1, <1>2, <1>7, <1>8, <1>9 DEF id, at

\* g is an array of n + 1 entries, f's and then v
Enlarged(f, g, n, v) ==
  /\ g \in Seq(Nat) /\ Len(g) = n + 1 /\ g[n + 1] = v
  /\ \A i \in 1..n : i \in 1..Len(f) => g[i] = f[i]

\* vector::resize, then an assignment to the new entry.
LEMMA PaddedSet ==
  ASSUME NEW f \in Seq(Nat), NEW n \in Nat, NEW v \in Nat,
         NEW g, g = [Padded(f, n + 1, 0) EXCEPT ![n + 1] = v]
  PROVE  Enlarged(f, g, n, v)
<1> DEFINE p == Padded(f, n + 1, 0)
<1>1. /\ p \in Seq(Nat) /\ Len(p) = n + 1
      /\ \A i \in 1..n+1 : p[i] = IF i \in 1..Len(f) THEN f[i] ELSE 0
  <2>1. n + 1 \in Nat
    OBVIOUS
  <2> QED
    BY <2>1, PaddedIs
<1>2. n + 1 \in 1..n+1 /\ \A i \in 1..n : i \in 1..n+1 /\ i # n + 1
  OBVIOUS
<1> HIDE DEF p
<1>3. /\ [p EXCEPT ![n + 1] = v] \in Seq(Nat)
      /\ Len([p EXCEPT ![n + 1] = v]) = n + 1
      /\ [p EXCEPT ![n + 1] = v][n + 1] = v
      /\ \A i \in 1..n : [p EXCEPT ![n + 1] = v][i] = p[i]
  BY <1>1, <1>2
<1>4. \A i \in 1..n : i \in 1..Len(f) => p[i] = f[i]
  BY <1>1, <1>2
<1> QED
  BY <1>3, <1>4 DEF p, Enlarged

\* A row in range is filed where a rebuild would have put it, and no cluster or
\* table loses what it held.
LEMMA InsertIndexedOK ==
  ASSUME NEW s, StoreOK(s), IndexOK(s), NEW row, NEW full \in BOOLEAN,
         InsertIndexed(s, DeltaIds(s), row, full)
  PROVE  IndexOK(data)'
<1> DEFINE n == Len(s.records)
           id == n + 1
           at == IF full THEN epoch ELSE 0
<1>1. /\ StoreOK(data') /\ Len(data'.records) = id
      /\ IndexedOf(data') = IndexedOf(s) \cup {id} /\ data'.records[id].row = row
      /\ \A i \in 1..n : data'.records[i] = s.records[i]
      /\ n \in Nat /\ n \in Int
  <2>1. Grown(s, data', row, FALSE)
    BY InsertIndexedGrows
  <2> QED
    BY <2>1 DEF Grown, StoreOK, Store
<1>2. IndexTypes
  BY DEF IndexOK
<1>3. /\ row \in Rows /\ ClustersGrow
      /\ clusters' \in Seq(Cluster) /\ Len(clusters') = Len(clusters)
      /\ \A c \in DOMAIN clusters :
           IF c \in JoinsOf(row)
           THEN /\ clusters'[c].ids = clusters[c].ids \cup {id}
                /\ clusters'[c].norm >= row.length
                /\ clusters'[c].cover >= Dist(row.angle, clusters[c].mu)
           ELSE clusters'[c].ids = clusters[c].ids
      /\ tables' = [c \in DOMAIN tables |->
           IF c \in JoinsOf(row) /\ full THEN tables[c] \cup {<<id, at>>} ELSE tables[c]]
      /\ sketch' = [Padded(sketch, id, 0) EXCEPT ![id] = at]
      /\ cardinal' = [Padded(cardinal, id, 0) EXCEPT ![id] = at]
      /\ primary' = [Padded(primary, id, 0) EXCEPT ![id] = FirstOf(row)]
      /\ secondary' = [Padded(secondary, id, 0) EXCEPT ![id] = SpillOf(row)]
  BY <1>1, <1>2, InsertJoins
<1>4. epoch' = epoch /\ complete' = complete
  BY DEF InsertIndexed
<1>5. /\ at \in Nat /\ at \in 0..MaxEpoch /\ FirstOf(row) \in Nat /\ SpillOf(row) \in Nat
      /\ JoinsOf(row) \subseteq DOMAIN clusters /\ DOMAIN clusters = 1..Len(clusters)
      /\ \A c \in DOMAIN clusters : clusters[c] \in Cluster
  <2>1. epoch \in 0..MaxEpoch /\ MaxEpoch \in Nat /\ Len(clusters) \in Nat
    BY <1>2, MuTyped, EpochAssumption DEF IndexTypes
  <2>2. at \in Nat /\ at \in 0..MaxEpoch
    BY <2>1
  <2>3. FirstOf(row) \in 0..Len(clusters) /\ SpillOf(row) \in 0..Len(clusters)
    BY <1>2, <1>3, ChosenTyped
  <2> QED
    BY <1>2, <2>1, <2>2, <2>3, MuTyped DEF JoinsOf
<1> HIDE DEF at
<1>6. /\ sketch' \in Seq(Nat) /\ Len(sketch') = id /\ sketch'[id] = at
      /\ cardinal' \in Seq(Nat) /\ Len(cardinal') = id /\ cardinal'[id] = at
      /\ primary' \in Seq(Nat) /\ Len(primary') = id /\ primary'[id] = FirstOf(row)
      /\ secondary' \in Seq(Nat) /\ Len(secondary') = id /\ secondary'[id] = SpillOf(row)
      /\ \A i \in 1..n :
           /\ i \in 1..Len(sketch) => sketch'[i] = sketch[i]
           /\ i \in 1..Len(cardinal) => cardinal'[i] = cardinal[i]
           /\ i \in 1..Len(primary) => primary'[i] = primary[i]
           /\ i \in 1..Len(secondary) => secondary'[i] = secondary[i]
  <2>1. sketch \in Seq(Nat) /\ cardinal \in Seq(Nat) /\ primary \in Seq(Nat) /\ secondary \in Seq(Nat)
    BY <1>2 DEF IndexTypes
  <2>2. n \in Nat /\ id = n + 1
    BY <1>1
  <2> HIDE DEF n, id
  <2>3. /\ sketch' \in Seq(Nat) /\ Len(sketch') = id /\ sketch'[id] = at
        /\ \A i \in 1..n : i \in 1..Len(sketch) => sketch'[i] = sketch[i]
    <3>1. sketch' = [Padded(sketch, n + 1, 0) EXCEPT ![n + 1] = at]
      BY <1>3, <2>2
    <3>2. sketch \in Seq(Nat) /\ at \in Nat /\ n \in Nat
      BY <1>5, <2>1, <2>2
    <3>3. Enlarged(sketch, sketch', n, at)
      BY <3>1, <3>2, PaddedSet
    <3> QED
      BY <2>2, <3>3 DEF Enlarged
  <2>4. /\ cardinal' \in Seq(Nat) /\ Len(cardinal') = id /\ cardinal'[id] = at
        /\ \A i \in 1..n : i \in 1..Len(cardinal) => cardinal'[i] = cardinal[i]
    <3>1. cardinal' = [Padded(cardinal, n + 1, 0) EXCEPT ![n + 1] = at]
      BY <1>3, <2>2
    <3>2. cardinal \in Seq(Nat) /\ at \in Nat /\ n \in Nat
      BY <1>5, <2>1, <2>2
    <3>3. Enlarged(cardinal, cardinal', n, at)
      BY <3>1, <3>2, PaddedSet
    <3> QED
      BY <2>2, <3>3 DEF Enlarged
  <2>5. /\ primary' \in Seq(Nat) /\ Len(primary') = id /\ primary'[id] = FirstOf(row)
        /\ \A i \in 1..n : i \in 1..Len(primary) => primary'[i] = primary[i]
    <3>1. primary' = [Padded(primary, n + 1, 0) EXCEPT ![n + 1] = FirstOf(row)]
      BY <1>3, <2>2
    <3>2. primary \in Seq(Nat) /\ FirstOf(row) \in Nat /\ n \in Nat
      BY <1>5, <2>1, <2>2
    <3>3. Enlarged(primary, primary', n, FirstOf(row))
      BY <3>1, <3>2, PaddedSet
    <3> QED
      BY <2>2, <3>3 DEF Enlarged
  <2>6. /\ secondary' \in Seq(Nat) /\ Len(secondary') = id /\ secondary'[id] = SpillOf(row)
        /\ \A i \in 1..n : i \in 1..Len(secondary) => secondary'[i] = secondary[i]
    <3>1. secondary' = [Padded(secondary, n + 1, 0) EXCEPT ![n + 1] = SpillOf(row)]
      BY <1>3, <2>2
    <3>2. secondary \in Seq(Nat) /\ SpillOf(row) \in Nat /\ n \in Nat
      BY <1>5, <2>1, <2>2
    <3>3. Enlarged(secondary, secondary', n, SpillOf(row))
      BY <3>1, <3>2, PaddedSet
    <3> QED
      BY <2>2, <3>3 DEF Enlarged
  <2> QED
    BY <2>3, <2>4, <2>5, <2>6
<1>7. /\ tables \in Seq(SUBSET (Nat \X Nat)) /\ DOMAIN tables = 1..Len(tables)
      /\ Len(tables) \in Nat /\ \A c \in DOMAIN tables : tables[c] \in SUBSET (Nat \X Nat)
  BY <1>2 DEF IndexTypes
<1>8. tables' \in Seq(SUBSET (Nat \X Nat)) /\ Len(tables') = Len(tables)
  <2>1. <<id, at>> \in Nat \X Nat
    BY <1>1, <1>5
  <2> HIDE DEF id
  <2>2. tables' \in [1..Len(tables) -> SUBSET (Nat \X Nat)]
    BY <1>3, <1>7, <2>1
  <2> QED
    BY <1>7, <2>2, ArrayIsSeq
<1>9. IndexTypes'
  BY <1>2, <1>3, <1>4, <1>6, <1>8 DEF IndexTypes
<1>10. 1..n \subseteq 1..id /\ id \in 1..id /\ id \notin 1..n /\ id \in Nat
  BY <1>1
<1>11. Built => Aligned(s) /\ \A i \in IndexedOf(s) : Filed(s, i)
  BY DEF IndexOK
<1>12. Built' <=> Built
  BY <1>7, <1>8 DEF Built
<1> HIDE DEF n, id
<1>13. Covering(data)'
  <2> SUFFICES ASSUME NEW c \in DOMAIN clusters', NEW i \in clusters'[c].ids
               PROVE  /\ i \in 1..Len(data'.records)
                      /\ data'.records[i].row.length <= clusters'[c].norm
                      /\ Dist(data'.records[i].row.angle, clusters'[c].mu) <= clusters'[c].cover
    BY DEF Covering
  <2>1. c \in DOMAIN clusters /\ clusters'[c].mu = clusters[c].mu
    BY <1>3 DEF ClustersGrow
  <2>2. CASE i \in clusters[c].ids
    <3>1. /\ i \in 1..n /\ s.records[i].row.length <= clusters[c].norm
          /\ Dist(s.records[i].row.angle, clusters[c].mu) <= clusters[c].cover
      BY <2>1, <2>2 DEF IndexOK, Covering, n
    <3>2. /\ s.records[i].row.length \in Nat /\ s.records[i].row.angle \in Nat
          /\ clusters[c].mu \in Nat
      BY <1>5, <2>1, <3>1, RowsTyped, EpochAssumption DEF n, Cluster
    <3>3. Dist(s.records[i].row.angle, clusters[c].mu) \in Nat
      BY <3>2, DistIsMetric
    <3>4. /\ clusters[c].norm \in Nat /\ clusters[c].cover \in Nat
          /\ clusters'[c].norm \in Nat /\ clusters'[c].cover \in Nat
          /\ clusters'[c].norm >= clusters[c].norm /\ clusters'[c].cover >= clusters[c].cover
      <4>1. clusters'[c] \in Cluster
        BY <1>3, <1>5, <2>1
      <4> QED
        BY <1>3, <1>5, <2>1, <4>1 DEF Cluster, ClustersGrow
    <3>5. i \in 1..id /\ data'.records[i] = s.records[i]
      BY <1>1, <1>10, <3>1
    <3> QED
      BY <1>1, <2>1, <3>1, <3>2, <3>3, <3>4, <3>5
  <2>3. CASE i \notin clusters[c].ids
    <3>1. /\ i = id /\ clusters'[c].norm >= row.length
          /\ clusters'[c].cover >= Dist(row.angle, clusters[c].mu)
      BY <1>3, <2>1, <2>3
    <3> QED
      BY <1>1, <1>10, <2>1, <3>1
  <2> QED
    BY <2>2, <2>3
<1>14. Entries(data)'
  <2> SUFFICES ASSUME NEW c \in DOMAIN tables', NEW i \in Nat, NEW e \in Nat,
                      <<i, e>> \in tables'[c]
               PROVE  i \in 1..Len(data'.records) /\ e \in 1..MaxEpoch
    BY DEF Entries
  <2>1. c \in DOMAIN tables
    BY <1>7, <1>8
  <2>2. CASE <<i, e>> \in tables[c]
    BY <1>1, <1>10, <2>1, <2>2 DEF IndexOK, Entries, n
  <2>3. CASE <<i, e>> \notin tables[c]
    <3>1. <<i, e>> = <<id, at>> /\ full
      BY <1>3, <2>1, <2>3
    <3>2. i = id /\ e = epoch
      BY <3>1 DEF at
    <3>3. epoch >= 1
      <4>1. Built
        BY <1>7, <2>1 DEF Built
      <4> QED
        BY <1>11, <4>1 DEF Aligned
    <3> QED
      BY <1>1, <1>2, <1>10, <3>2, <3>3, EpochAssumption DEF IndexTypes
  <2> QED
    BY <2>2, <2>3
<1>15. ASSUME Built' PROVE Aligned(data)' /\ \A i \in IndexedOf(data') : Filed(data, i)'
  <2>1. Built /\ Aligned(s) /\ \A i \in IndexedOf(s) : Filed(s, i)
    BY <1>11, <1>12, <1>15
  <2>2. DOMAIN tables = DOMAIN clusters /\ clusters # <<>>
    BY <1>5, <1>7, <2>1 DEF Aligned, Built
  <2>3. Aligned(data)'
    BY <1>1, <1>3, <1>4, <1>6, <1>8, <2>1 DEF Aligned
  <2>4. ASSUME NEW i \in IndexedOf(s) PROVE Filed(data, i)'
    <3>1. i \in 1..n /\ Filed(s, i) /\ i # id /\ i \in Nat
      BY <1>1, <1>10, <2>1, <2>4 DEF IndexedOf, ActiveIds, n
    <3>2. s.records[i].row \in Rows /\ data'.records[i].row = s.records[i].row
      BY <1>1, <3>1, RowsTyped DEF n
    <3>3. /\ primary'[i] = primary[i] /\ secondary'[i] = secondary[i]
          /\ cardinal'[i] = cardinal[i]
          /\ complete' => complete /\ sketch'[i] = sketch[i]
      BY <1>4, <1>6, <2>1, <3>1 DEF Aligned, n
    <3>4. \A c \in DOMAIN clusters : EntriesOf(i, c)' = EntriesOf(i, c)
      <4>1. \A c \in DOMAIN clusters, e \in 1..MaxEpoch : <<i, e>> \in tables'[c] <=> <<i, e>> \in tables[c]
        BY <1>3, <2>2, <3>1
      <4> QED
        BY <4>1 DEF EntriesOf
    <3> QED
      BY <1>2, <1>3, <1>4, <1>9, <3>1, <3>2, <3>3, <3>4, FiledStays
  <2>5. Filed(data, id)'
    <3>1. FirstOf(row)' = FirstOf(row) /\ SpillOf(row)' = SpillOf(row)
      BY <1>2, <1>3, <1>9, ChosenStays
    <3>2. at \in {0, epoch}
      BY DEF at
    <3>3. ASSUME NEW c \in JoinsOf(row)
          PROVE  id \in clusters'[c].ids /\ EntriesOf(id, c)' = {at} \ {0}
      <4>1. c \in DOMAIN clusters /\ id \in clusters'[c].ids
        BY <1>3, <1>5
      <4>2. \A e \in 1..MaxEpoch : <<id, e>> \notin tables[c]
        <5>1. \A e \in 1..MaxEpoch : e \in Nat
          BY EpochAssumption
        <5> QED
          BY <1>10, <2>2, <4>1, <5>1 DEF IndexOK, Entries, n
      <4>3. \A e \in 1..MaxEpoch : <<id, e>> \in tables'[c] <=> full /\ e = at
        BY <1>3, <2>2, <4>1, <4>2
      <4>4. full => at \in 1..MaxEpoch
        BY <1>2, <2>1, EpochAssumption DEF at, Aligned, IndexTypes
      <4>5. ~full => at = 0
        BY DEF at
      <4>6. EntriesOf(id, c)' = {at} \ {0}
        BY <4>3, <4>4, <4>5, EpochAssumption DEF EntriesOf
      <4> QED
        BY <4>1, <4>6
    <3> QED
      BY <1>1, <1>4, <1>6, <3>1, <3>2, <3>3 DEF Filed, JoinsOf
  <2> QED
    BY <1>1, <2>3, <2>4, <2>5
<1> QED
  BY <1>9, <1>13, <1>14, <1>15 DEF IndexOK

-----------------------------------------------------------------------------
(***************************************************************************)
(* A rebuild                                                               *)
(***************************************************************************)

\* The active records and their rows.
LEMMA DataTyped ==
  ASSUME StoreOK(data)
  PROVE  /\ Size \in Nat /\ Active \subseteq 1..Size /\ Active \subseteq Nat
         /\ \A i \in Active : Row(i) \in Rows /\ Row(i).angle \in Nat
<1>1. Size \in Nat /\ Active \subseteq 1..Size
  BY DEF StoreOK, Store, Size, Active, ActiveIds
<1>2. \A i \in 1..Size : i \in Nat
  OBVIOUS
<1> QED
  BY <1>1, <1>2, RowsTyped DEF Size, Row

\* Every active record has a nearest cluster, and a second cluster or none.
LEMMA NearestOfActive ==
  ASSUME StoreOK(data), NEW K \in Nat \ {0}, NEW mu \in [1..K -> Angles], NEW i \in Active
  PROVE  /\ First(Row(i).angle, mu) \in 1..K /\ First(Row(i).angle, mu) \in Nat
         /\ Second(Row(i).angle, mu) \in 0..K /\ Second(Row(i).angle, mu) \in Nat
         /\ SecondaryOf(mu, i) \in 0..K /\ SecondaryOf(mu, i) \in Nat
<1>1. Row(i).angle \in Nat
  BY DataTyped
<1>2. First(Row(i).angle, mu) \in 1..K /\ Second(Row(i).angle, mu) \in 0..K
  BY <1>1, NearestOfAll
<1>3. SecondaryOf(mu, i) \in 0..K
  BY <1>2 DEF SecondaryOf
<1> QED
  BY <1>2, <1>3

\* the partition after a build with these K centroids
Partitioned(K, mu) ==
  /\ clusters' \in Seq(Cluster) /\ Len(clusters') = K
  /\ \A c \in 1..K :
       /\ clusters'[c].mu = mu[c] /\ clusters'[c].ids = MembersOf(mu, c)
       /\ clusters'[c].radius = Radius(mu, c) /\ clusters'[c].cover = Radius(mu, c)
       /\ clusters'[c].norm = NormOf(mu, c)
  /\ primary' \in Seq(Nat) /\ Len(primary') = Size
  /\ secondary' \in Seq(Nat) /\ Len(secondary') = Size
  /\ \A i \in Active : primary'[i] = First(Row(i).angle, mu)
                         /\ secondary'[i] = SecondaryOf(mu, i)

\* A partition that succeeds.
LEMMA PartitionBuiltIs ==
  ASSUME StoreOK(data), NEW K \in Nat \ {0}, NEW mu \in [1..K -> Angles], PartitionBuilt(mu)
  PROVE  Partitioned(K, mu)
<1>1. /\ Size \in Nat /\ Active \subseteq 1..Size /\ K \in Nat /\ DOMAIN mu = 1..K
      /\ Active \subseteq Nat
  BY DataTyped
<1>2. \A c \in 1..K :
        [mu |-> mu[c], ids |-> MembersOf(mu, c), radius |-> Radius(mu, c),
         cover |-> Radius(mu, c), norm |-> NormOf(mu, c)] \in Cluster
  <2> SUFFICES ASSUME NEW c \in 1..K
               PROVE [mu |-> mu[c], ids |-> MembersOf(mu, c), radius |-> Radius(mu, c),
                      cover |-> Radius(mu, c), norm |-> NormOf(mu, c)] \in Cluster
    OBVIOUS
  <2>1. MembersOf(mu, c) \subseteq Active /\ Radius(mu, c) \in Nat /\ NormOf(mu, c) \in Nat
    BY PartitionBounds
  <2>2. MembersOf(mu, c) \in SUBSET Nat /\ mu[c] \in Angles
    BY <1>1, <2>1
  <2> QED
    BY <2>1, <2>2 DEF Cluster
<1>3. clusters' = [c \in 1..K |->
        [mu |-> mu[c], ids |-> MembersOf(mu, c), radius |-> Radius(mu, c),
         cover |-> Radius(mu, c), norm |-> NormOf(mu, c)]]
  BY <1>1 DEF PartitionBuilt, NormOf
<1>4. clusters' \in [1..K -> Cluster]
  BY <1>2, <1>3
<1>5. clusters' \in Seq(Cluster) /\ Len(clusters') = K
  BY <1>4, ArrayIsSeq
<1>6. \A i \in Active : First(Row(i).angle, mu) \in Nat /\ SecondaryOf(mu, i) \in Nat
  BY NearestOfActive
<1>7. /\ primary' = [i \in 1..Size |-> IF i \in Active THEN First(Row(i).angle, mu) ELSE 0]
      /\ secondary' = [i \in 1..Size |-> IF i \in Active THEN SecondaryOf(mu, i) ELSE 0]
  BY DEF PartitionBuilt
<1>8. primary' \in [1..Size -> Nat] /\ secondary' \in [1..Size -> Nat]
  BY <1>6, <1>7
<1>9. /\ primary' \in Seq(Nat) /\ Len(primary') = Size
      /\ secondary' \in Seq(Nat) /\ Len(secondary') = Size
  BY <1>1, <1>8, ArrayIsSeq
<1>10. \A c \in 1..K :
         /\ clusters'[c].mu = mu[c] /\ clusters'[c].ids = MembersOf(mu, c)
         /\ clusters'[c].radius = Radius(mu, c) /\ clusters'[c].cover = Radius(mu, c)
         /\ clusters'[c].norm = NormOf(mu, c)
  BY <1>3
<1>11. \A i \in Active : primary'[i] = First(Row(i).angle, mu)
                          /\ secondary'[i] = SecondaryOf(mu, i)
  BY <1>1, <1>7
<1> QED
  BY <1>5, <1>9, <1>10, <1>11 DEF Partitioned

\* A partition that fails lists no members.
LEMMA PartitionFailedIs ==
  ASSUME StoreOK(data), NEW K \in Nat \ {0}, NEW mu \in [1..K -> Angles], PartitionFailed(mu)
  PROVE  /\ clusters' \in Seq(Cluster) /\ \A c \in DOMAIN clusters' : clusters'[c].ids = {}
         /\ primary' \in Seq(Nat) /\ secondary' \in Seq(Nat)
<1>1. /\ Size \in Nat /\ Active \subseteq 1..Size /\ K \in Nat /\ DOMAIN mu = 1..K
      /\ Active \subseteq Nat
  BY DataTyped
<1>2. clusters' = [c \in 1..K |->
        [mu |-> mu[c], ids |-> {}, radius |-> Radius(mu, c), cover |-> 0, norm |-> 0]]
  BY <1>1 DEF PartitionFailed
<1>3. clusters' \in [1..K -> Cluster]
  BY <1>2, RadiusTyped DEF Cluster
<1>4. clusters' \in Seq(Cluster) /\ \A c \in DOMAIN clusters' : clusters'[c].ids = {}
  BY <1>2, <1>3, ArrayIsSeq
<1>5. \A i \in Active : First(Row(i).angle, mu) \in Nat /\ Second(Row(i).angle, mu) \in Nat
  BY NearestOfActive
<1>6. /\ primary' = [i \in 1..Size |-> IF i \in Active THEN First(Row(i).angle, mu) ELSE 0]
      /\ secondary' = [i \in 1..Size |-> IF i \in Active THEN Second(Row(i).angle, mu) ELSE 0]
  BY DEF PartitionFailed
<1>7. primary' \in [1..Size -> Nat] /\ secondary' \in [1..Size -> Nat]
  BY <1>5, <1>6
<1> QED
  BY <1>1, <1>4, <1>7, ArrayIsSeq

\* The partition bounds every row it holds, whatever becomes of the rebuild.
LEMMA PartitionCovers ==
  ASSUME StoreOK(data), NEW K \in Nat \ {0}, NEW mu \in [1..K -> Angles], PartitionBuilt(mu),
         Len(data'.records) = Size, \A i \in 1..Size : data'.records[i].row = Row(i)
  PROVE  Covering(data)'
<1>1. Active \subseteq 1..Size /\ K \in Nat
  BY DEF Size, Active, ActiveIds
<1>2. /\ clusters' \in Seq(Cluster) /\ Len(clusters') = K
      /\ \A c \in 1..K :
              /\ clusters'[c].mu = mu[c] /\ clusters'[c].ids = MembersOf(mu, c)
              /\ clusters'[c].cover = Radius(mu, c)
              /\ clusters'[c].norm = NormOf(mu, c)
  <2>1. Partitioned(K, mu)
    BY PartitionBuiltIs
  <2> QED
    BY <2>1 DEF Partitioned
<1>3. \A c \in 1..K :
         /\ MembersOf(mu, c) \subseteq Active
         /\ \A i \in MembersOf(mu, c) :
              /\ Dist(Row(i).angle, mu[c]) <= Radius(mu, c)
              /\ Row(i).length <= NormOf(mu, c)
  BY PartitionBounds
<1>4. DOMAIN clusters' = 1..K
  BY <1>2
<1> SUFFICES ASSUME NEW c \in 1..K, NEW i \in clusters'[c].ids
             PROVE  /\ i \in 1..Len(data'.records)
                    /\ data'.records[i].row.length <= clusters'[c].norm
                    /\ Dist(data'.records[i].row.angle, clusters'[c].mu) <= clusters'[c].cover
  BY <1>4 DEF Covering
<1>5. i \in MembersOf(mu, c) /\ i \in 1..Size
  BY <1>1, <1>2, <1>3
<1>6. data'.records[i].row = Row(i)
  BY <1>5
<1> QED
  BY <1>2, <1>3, <1>5, <1>6

\* sketches.build gives every record a sketch.
LEMMA EncodeTyped ==
  ASSUME StoreOK(data), IndexTypes, NEW full, StartEpoch, Encode(full)
  PROVE  /\ epoch' \in 1..MaxEpoch /\ complete' \in BOOLEAN
         /\ sketch' \in Seq(Nat) /\ Len(sketch') = Size /\ cardinal' = sketch'
         /\ \A i \in Active : sketch'[i] = IF i \in full THEN epoch' ELSE 0
<1>1. Size \in Nat /\ Active \subseteq 1..Size
  BY DEF StoreOK, Store, Size, Active, ActiveIds
<1>2. epoch' \in 1..MaxEpoch /\ complete' \in BOOLEAN /\ cardinal' = sketch'
  BY EpochAssumption DEF StartEpoch, Encode, IndexTypes
<1>3. sketch' = [i \in 1..Size |->
        IF i \in full THEN epoch' ELSE IF i \in Active \/ i \notin DOMAIN sketch THEN 0 ELSE sketch[i]]
  BY DEF Encode
<1>4. \A i \in DOMAIN sketch : sketch[i] \in Nat
  BY DEF IndexTypes
<1>5. sketch' \in [1..Size -> Nat]
  BY <1>2, <1>3, <1>4
<1> QED
  BY <1>1, <1>2, <1>3, <1>5, ArrayIsSeq

\* A rebuild that throws leaves no tables: nothing is promised but the bounds.
LEMMA NoTables ==
  ASSUME IndexTypes', tables' = <<>>, Covering(data)'
  PROVE  IndexOK(data)'
<1>1. ~Built' /\ DOMAIN tables' = {}
  BY DEF Built
<1>2. Entries(data)'
  BY <1>1 DEF Entries
<1> QED
  BY <1>1, <1>2 DEF IndexOK

\* A rebuild that succeeds files every active record, under sketches of its epoch.
LEMMA BuildFiles ==
  ASSUME StoreOK(data), IndexTypes, NEW K \in Nat \ {0}, NEW mu \in [1..K -> Angles],
         NEW full, PartitionBuilt(mu), epoch' \in 1..MaxEpoch, complete' \in BOOLEAN,
         sketch' \in Seq(Nat), Len(sketch') = Size, cardinal' \in Seq(Nat), Len(cardinal') = Size,
         \A i \in Active : /\ sketch'[i] = IF i \in full THEN epoch' ELSE 0
                           /\ cardinal'[i] = sketch'[i],
         tables' = BuiltTables(mu, sketch'), data' = DeltaAbsorbed
  PROVE  IndexOK(data)'
<1>1. /\ StoreOK(data') /\ IndexedOf(data') = Active /\ Len(data'.records) = Size
      /\ \A i \in 1..Size : data'.records[i].row = Row(i)
  BY AbsorbedOK
<1>2. /\ Size \in Nat /\ Active \subseteq 1..Size /\ K \in Nat /\ DOMAIN mu = 1..K
      /\ \A i \in Active : i \in Nat /\ Row(i) \in Rows /\ Row(i).angle \in Nat
  BY DataTyped
<1>3. /\ clusters' \in Seq(Cluster) /\ Len(clusters') = K
      /\ \A c \in 1..K :
           /\ clusters'[c].mu = mu[c] /\ clusters'[c].ids = MembersOf(mu, c)
           /\ clusters'[c].radius = Radius(mu, c)
      /\ primary' \in Seq(Nat) /\ Len(primary') = Size
      /\ secondary' \in Seq(Nat) /\ Len(secondary') = Size
      /\ \A i \in Active : primary'[i] = First(Row(i).angle, mu)
                             /\ secondary'[i] = SecondaryOf(mu, i)
  <2>1. Partitioned(K, mu)
    BY PartitionBuiltIs
  <2> QED
    BY <2>1 DEF Partitioned
<1>4. \A c \in 1..K : MembersOf(mu, c) \subseteq Active
  BY PartitionBounds
<1>5. /\ tables' = [c \in 1..K |->
            {<<i, sketch'[i]>> : i \in {i \in MembersOf(mu, c) : sketch'[i] # 0}}]
      /\ \A c \in 1..K : \A i, e :
           <<i, e>> \in tables'[c] <=> i \in MembersOf(mu, c) /\ sketch'[i] # 0 /\ e = sketch'[i]
  BY <1>2 DEF BuiltTables
<1>6. \A c \in 1..K : tables'[c] \in SUBSET (Nat \X Nat)
  <2>1. \A i \in Active : i \in Nat /\ sketch'[i] \in Nat
    BY <1>2, EpochAssumption
  <2>2. \A c \in 1..K : \A i \in MembersOf(mu, c) : <<i, sketch'[i]>> \in Nat \X Nat
    BY <1>4, <2>1
  <2> QED
    BY <1>5, <2>2
<1>7. tables' \in Seq(SUBSET (Nat \X Nat)) /\ Len(tables') = K
  <2>1. tables' \in [1..K -> SUBSET (Nat \X Nat)]
    BY <1>5, <1>6
  <2> QED
    BY <1>2, <2>1, ArrayIsSeq
<1>8. IndexTypes'
  BY <1>3, <1>7, EpochAssumption DEF IndexTypes
<1>9. Covering(data)'
  BY <1>1, PartitionCovers
<1>10. DOMAIN tables' = 1..K /\ DOMAIN clusters' = 1..K
  BY <1>3, <1>5
<1>11. Entries(data)'
  <2> SUFFICES ASSUME NEW c \in 1..K, NEW i \in Nat, NEW e \in Nat, <<i, e>> \in tables'[c]
               PROVE  i \in 1..Len(data'.records) /\ e \in 1..MaxEpoch
    BY <1>10 DEF Entries
  <2>1. i \in Active /\ sketch'[i] # 0 /\ e = sketch'[i]
    BY <1>4, <1>5
  <2> QED
    BY <1>1, <1>2, <2>1
<1>12. Aligned(data)'
  BY <1>1, <1>3, <1>7, EpochAssumption DEF Aligned
<1>13. ASSUME NEW i \in Active PROVE Filed(data, i)'
  <2>1. Mu' = mu /\ clusters' # <<>>
    <3>1. Mu' = [c \in 1..K |-> mu[c]]
      BY <1>3, <1>10 DEF Mu
    <3>2. mu = [c \in 1..K |-> mu[c]]
      OBVIOUS
    <3> QED
      BY <1>3, <3>1, <3>2
  <2> DEFINE row == data'.records[i].row
             b == Second(row.angle, mu)
  <2>3. row = Row(i)
    BY <1>1, <1>2
  <2>4. FirstOf(data.records[i].row)' = primary'[i]
    <3>1. FirstOf(data.records[i].row)' = First(row.angle, mu)
      BY <2>1 DEF FirstOf
    <3> QED
      BY <1>3, <2>3, <3>1
  <2>5. SpillOf(data.records[i].row)' = secondary'[i]
    <3>1. SecondOf(data.records[i].row)' = b
      BY <2>1 DEF SecondOf
    <3>2. b \in 0..K
      BY <1>2, <2>3, NearestOfAll
    <3>3. b # 0 => clusters'[b].mu = mu[b] /\ clusters'[b].radius = Radius(mu, b)
      BY <1>3, <3>2
    <3>4. Reaches(data.records[i].row, SecondOf(data.records[i].row))' <=>
            b # 0 /\ Dist(row.angle, mu[b]) <= Radius(mu, b)
      BY <3>1, <3>3 DEF Reaches
    <3>5. SpillOf(data.records[i].row)' = IF b # 0 /\ Dist(row.angle, mu[b]) <= Radius(mu, b)
                                          THEN b ELSE 0
      BY <3>1, <3>4 DEF SpillOf
    <3> QED
      BY <1>3, <2>3, <3>5 DEF SecondaryOf, Spills
  <2>6. ASSUME NEW c \in {primary'[i], secondary'[i]} \ {0}
        PROVE  i \in clusters'[c].ids /\ EntriesOf(i, c)' = {cardinal'[i]} \ {0}
    <3>1. c \in 1..K
      <4>1. First(Row(i).angle, mu) \in 1..K /\ SecondaryOf(mu, i) \in 0..K
        BY NearestOfActive
      <4>2. c = First(Row(i).angle, mu) \/ (c = SecondaryOf(mu, i) /\ c # 0)
        BY <1>3
      <4> QED
        BY <1>2, <4>1, <4>2
    <3>2. i \in MembersOf(mu, c)
      BY <1>3, <2>6 DEF MembersOf, Primaries
    <3>3. \A e \in 1..MaxEpoch : <<i, e>> \in tables'[c] <=> sketch'[i] # 0 /\ e = sketch'[i]
      BY <1>5, <3>1, <3>2
    <3>4. sketch'[i] # 0 => sketch'[i] \in 1..MaxEpoch
      OBVIOUS
    <3>5. EntriesOf(i, c)' = {cardinal'[i]} \ {0}
      BY <3>3, <3>4 DEF EntriesOf
    <3> QED
      BY <1>3, <3>1, <3>2, <3>5
  <2>7. cardinal'[i] \in {0, epoch'} /\ sketch'[i] = cardinal'[i]
    OBVIOUS
  <2> QED
    BY <2>4, <2>5, <2>6, <2>7 DEF Filed
<1> QED
  BY <1>1, <1>8, <1>9, <1>11, <1>12, <1>13 DEF IndexOK

\* Every way a rebuild can end.
LEMMA RebuildOK ==
  ASSUME StoreOK(data), IndexOK(data), Rebuild
  PROVE  IndexOK(data)'
<1>1. IndexTypes /\ Covering(data)
  BY DEF IndexOK
<1>2. CASE RebuildEmpty
  <2>1. StartEpoch /\ tables' = <<>>
        /\ UNCHANGED <<data, sketch, complete, cardinal, clusters, primary, secondary>>
    BY <1>2 DEF RebuildEmpty
  <2>2. epoch' \in 0..MaxEpoch
    BY <1>1, <2>1, EpochAssumption DEF StartEpoch, IndexTypes
  <2>3. IndexTypes'
    BY <1>1, <2>1, <2>2 DEF IndexTypes
  <2>4. Covering(data)'
    BY <1>1, <2>1 DEF Covering
  <2> QED
    BY <2>1, <2>3, <2>4, NoTables
<1>3. ASSUME NEW full \in SUBSET Active, RebuildStale(full) PROVE IndexOK(data)'
  <2>1. /\ StartEpoch /\ Encode(full) /\ tables' = <<>>
        /\ UNCHANGED <<data, clusters, primary, secondary>>
    BY <1>3 DEF RebuildStale
  <2>2. /\ epoch' \in 1..MaxEpoch /\ complete' \in BOOLEAN
        /\ sketch' \in Seq(Nat) /\ cardinal' = sketch'
    BY <1>1, <2>1, EncodeTyped
  <2>3. IndexTypes'
    BY <1>1, <2>1, <2>2, EpochAssumption DEF IndexTypes
  <2>4. Covering(data)'
    BY <1>1, <2>1 DEF Covering
  <2> QED
    BY <2>1, <2>3, <2>4, NoTables
<1>4. ASSUME NEW full \in SUBSET Active,
             NEW K \in UNION {Candidates(distinct) : distinct \in 0..Cardinality(full)},
             NEW mu \in [1..K -> Angles],
             \/ RebuildUnfilled(full, mu) \/ RebuildStopped(full, mu)
             \/ RebuildDone(full, mu) \/ RefreshDone(full, mu)
      PROVE  IndexOK(data)'
  <2>1. K \in Nat \ {0}
    <3>1. PICK n \in 0..Cardinality(full) : K \in Candidates(n)
      OBVIOUS
    <3>2. n \in Nat
      OBVIOUS
    <3> QED
      BY <3>1, <3>2, CandidatesPositive
  <2>2. CASE RebuildUnfilled(full, mu)
    <3>1. /\ StartEpoch /\ Encode(full) /\ PartitionFailed(mu) /\ tables' = <<>>
      BY <2>2 DEF RebuildUnfilled
    <3>2. /\ epoch' \in 1..MaxEpoch /\ complete' \in BOOLEAN
          /\ sketch' \in Seq(Nat) /\ cardinal' = sketch'
      BY <1>1, <3>1, EncodeTyped
    <3>3. /\ clusters' \in Seq(Cluster) /\ \A c \in DOMAIN clusters' : clusters'[c].ids = {}
          /\ primary' \in Seq(Nat) /\ secondary' \in Seq(Nat)
      BY <2>1, <3>1, PartitionFailedIs
    <3>4. tables' \in Seq(SUBSET (Nat \X Nat))
      BY <3>1
    <3>5. IndexTypes'
      BY <3>2, <3>3, <3>4, EpochAssumption DEF IndexTypes
    <3>6. Covering(data)'
      BY <3>3 DEF Covering
    <3> QED
      BY <3>1, <3>5, <3>6, NoTables
  <2>3. CASE RebuildStopped(full, mu)
    <3>1. /\ StartEpoch /\ Encode(full) /\ PartitionBuilt(mu) /\ tables' = <<>> /\ data' = data
      BY <2>3 DEF RebuildStopped
    <3>2. /\ epoch' \in 1..MaxEpoch /\ complete' \in BOOLEAN
          /\ sketch' \in Seq(Nat) /\ cardinal' = sketch'
      BY <1>1, <3>1, EncodeTyped
    <3>3. /\ clusters' \in Seq(Cluster) /\ primary' \in Seq(Nat) /\ secondary' \in Seq(Nat)
      BY <2>1, <3>1, PartitionBuiltIs DEF Partitioned
    <3>4. tables' \in Seq(SUBSET (Nat \X Nat))
      BY <3>1
    <3>5. IndexTypes'
      BY <3>2, <3>3, <3>4, EpochAssumption DEF IndexTypes
    <3>6. Covering(data)'
      <4>1. Len(data'.records) = Size /\ \A i \in 1..Size : data'.records[i].row = Row(i)
        BY <3>1 DEF Size, Row
      <4> QED
        BY <2>1, <3>1, <4>1, PartitionCovers
    <3> QED
      BY <3>1, <3>5, <3>6, NoTables
  <2>4. CASE RebuildDone(full, mu)
    <3>1. /\ StartEpoch /\ Encode(full) /\ PartitionBuilt(mu)
          /\ tables' = BuiltTables(mu, sketch') /\ data' = DeltaAbsorbed
      BY <2>4 DEF RebuildDone
    <3>2. /\ epoch' \in 1..MaxEpoch /\ complete' \in BOOLEAN
          /\ sketch' \in Seq(Nat) /\ Len(sketch') = Size /\ cardinal' = sketch'
          /\ \A i \in Active : sketch'[i] = IF i \in full THEN epoch' ELSE 0
      BY <1>1, <3>1, EncodeTyped
    <3> QED
      BY <1>1, <2>1, <3>1, <3>2, BuildFiles
  <2>5. CASE RefreshDone(full, mu)
    <3>1. /\ StartEpoch /\ PartitionBuilt(mu) /\ complete' = TRUE
          /\ sketch' = [i \in 1..Size |-> IF i \in full THEN epoch' ELSE 0]
          /\ cardinal' = [i \in 1..Size |->
               IF i \in full THEN epoch'
               ELSE IF i \in Active \/ i \notin DOMAIN sketch THEN 0 ELSE sketch[i]]
          /\ tables' = BuiltTables(mu, sketch') /\ data' = DeltaAbsorbed
      BY <2>5 DEF RefreshDone
    <3>2. epoch' \in 1..MaxEpoch /\ epoch' \in Nat
      BY <1>1, <3>1, EpochAssumption DEF StartEpoch, IndexTypes
    <3>3. \A i \in DOMAIN sketch : sketch[i] \in Nat
      BY <1>1 DEF IndexTypes
    <3>4. sketch' \in [1..Size -> Nat] /\ cardinal' \in [1..Size -> Nat]
      BY <3>1, <3>2, <3>3
    <3>5. /\ sketch' \in Seq(Nat) /\ Len(sketch') = Size
          /\ cardinal' \in Seq(Nat) /\ Len(cardinal') = Size
      BY <3>4, DataTyped, ArrayIsSeq
    <3>6. \A i \in Active : /\ sketch'[i] = IF i \in full THEN epoch' ELSE 0
                            /\ cardinal'[i] = sketch'[i]
      BY <3>1, DataTyped
    <3> QED
      BY <1>1, <2>1, <3>1, <3>2, <3>5, <3>6, BuildFiles
  <2> QED
    BY <1>4, <2>2, <2>3, <2>4, <2>5
<1> QED
  BY <1>2, <1>3, <1>4 DEF Rebuild

\* Releasing the sketch cache gives up the promise about it and nothing else.
LEMMA ReleaseOK ==
  ASSUME IndexOK(data), ReleaseSketchCache
  PROVE  IndexOK(data)'
<1>1. /\ sketch' = <<>> /\ complete' = FALSE
      /\ UNCHANGED <<data, epoch, cardinal, clusters, primary, secondary, tables>>
  BY DEF ReleaseSketchCache
<1>2. IndexTypes'
  <2>1. <<>> \in Seq(Nat) /\ FALSE \in BOOLEAN
    OBVIOUS
  <2>2. sketch' \in Seq(Nat) /\ complete' \in BOOLEAN
    BY ONLY <1>1, <2>1
  <2> QED
    BY <1>1, <2>2 DEF IndexOK, IndexTypes
<1>3. Covering(data)' /\ Entries(data)'
  BY <1>1 DEF IndexOK, Covering, Entries
<1>4. ASSUME Built' PROVE Aligned(data)' /\ \A i \in IndexedOf(data') : Filed(data, i)'
  <2>1. Aligned(data) /\ \A i \in IndexedOf(data) : Filed(data, i)
    BY <1>1, <1>4 DEF IndexOK, Built
  <2>2. Aligned(data)'
    BY <1>1, <2>1 DEF Aligned
  <2>3. Mu' = Mu
    BY <1>1 DEF Mu
  <2>4. \A i \in IndexedOf(data) : Filed(data, i)'
    BY <1>1, <2>1, <2>3 DEF Filed, FirstOf, SpillOf, SecondOf, Reaches, EntriesOf
  <2> QED
    BY <1>1, <2>2, <2>4
<1> QED
  BY <1>2, <1>3, <1>4 DEF IndexOK

\* The index is in order for any store it was in order for.
LEMMA SameIndexOK ==
  ASSUME NEW s, IndexOK(s), data' = s,
         UNCHANGED <<epoch, sketch, complete, cardinal, clusters, primary, secondary, tables>>
  PROVE  IndexOK(data)'
<1>1. IndexTypes'
  BY DEF IndexOK, IndexTypes
<1>2. Covering(data)' /\ Entries(data)'
  BY DEF IndexOK, Covering, Entries
<1>3. ASSUME Built' PROVE Aligned(data)' /\ \A i \in IndexedOf(data') : Filed(data, i)'
  <2>1. Aligned(s) /\ \A i \in IndexedOf(s) : Filed(s, i)
    BY <1>3 DEF IndexOK, Built
  <2>2. Aligned(data)'
    BY <2>1 DEF Aligned
  <2>3. Mu' = Mu
    BY DEF Mu
  <2>4. \A row : FirstOf(row)' = FirstOf(row) /\ SpillOf(row)' = SpillOf(row)
    BY <2>3 DEF FirstOf, SecondOf, SpillOf, Reaches
  <2>5. ASSUME NEW i \in IndexedOf(s) PROVE Filed(data, i)'
    BY <2>1, <2>4 DEF Filed, EntriesOf
  <2> QED
    BY <2>2, <2>5
<1> QED
  BY <1>1, <1>2, <1>3 DEF IndexOK

\* An erasure, and the first half of an update.
LEMMA ErasedIndexOK ==
  ASSUME IndexInv, NEW i, IsActive(data, i)
  PROVE  LET store == Erased(data, i)
         IN /\ StoreOK(store) /\ IndexOK(store) /\ delta_ids \ {i} = DeltaIds(store)
            /\ Len(store.records) = Size
<1> DEFINE store == Erased(data, i)
<1>1. StoreOK(data) /\ delta_ids = DeltaIds(data) /\ IndexOK(data)
  BY DEF IndexInv, StoreInv
<1>2. /\ StoreOK(store) /\ Len(store.records) = Len(data.records)
      /\ \A e \in 1..Len(data.records) : store.records[e].row = data.records[e].row
  BY <1>1, ErasedOK
<1>3. DeltaIds(store) = delta_ids \ {i} /\ IndexedOf(store) \subseteq IndexedOf(data)
  BY <1>1, EraseKeepsLists
<1> HIDE DEF store
<1>4. IndexOK(store)
  BY <1>1, <1>2, <1>3, FewerIndexed
<1> QED
  BY <1>2, <1>3, <1>4 DEF Size, store

\* insert() leaves the index in order.
LEMMA InsertKeeps ==
  ASSUME IndexInv, NEW row, Insert(row)
  PROVE  IndexInv'
BY InsertStores, InsertDeltaOK, InsertIndexedOK DEF Insert, IndexInv, StoreInv

\* erase() too.
LEMMA EraseKeeps ==
  ASSUME IndexInv, NEW i, Erase(i)
  PROVE  IndexInv'
<1>1. IndexOK(Erased(data, i))
  BY ErasedIndexOK DEF Erase
<1>2. data' = Erased(data, i) /\ UNCHANGED <<epoch, sketch, complete, cardinal, clusters,
                                             primary, secondary, tables>>
  BY DEF Erase
<1> QED
  BY <1>1, <1>2, SameIndexOK, EraseStores DEF IndexInv

\* update() too, also when it stops half-way.
LEMMA UpdateKeeps ==
  ASSUME IndexInv, NEW i, NEW row, Update(i, row)
  PROVE  IndexInv'
<1> DEFINE store == Erased(data, i)
           deltas == delta_ids \ {i}
<1>1. StoreOK(store) /\ IndexOK(store) /\ deltas = DeltaIds(store)
  BY ErasedIndexOK DEF Update
<1>2. \/ InsertDelta(store, deltas, row)
      \/ \E full \in BOOLEAN : InsertIndexed(store, deltas, row, full)
      \/ Erase(i)
  BY DEF Update
<1>3. StoreInv'
  BY UpdateStores DEF IndexInv
<1> HIDE DEF store, deltas
<1> QED
  BY <1>1, <1>2, <1>3, EraseKeeps, InsertDeltaOK, InsertIndexedOK DEF IndexInv

\* The empty index over a loaded collection is in order.
LEMMA IndexInit == Init => IndexInv
<1> SUFFICES ASSUME Init PROVE IndexInv
  OBVIOUS
<1>1. StoreInv
  BY LoadedOK, EpochAssumption DEF Init, StoreInv
<1>2. /\ epoch = 0 /\ complete = TRUE /\ sketch = <<>> /\ cardinal = <<>> /\ clusters = <<>>
      /\ primary = <<>> /\ secondary = <<>> /\ tables = <<>>
  BY DEF Init
<1>3. 0 \in 0..MaxEpoch /\ \A S : <<>> \in Seq(S)
  BY EpochAssumption
<1>4. IndexTypes
  BY <1>2, <1>3 DEF IndexTypes
<1>5. Covering(data) /\ Entries(data) /\ ~Built
  BY <1>2 DEF Covering, Entries, Built
<1> QED
  BY <1>1, <1>4, <1>5 DEF IndexInv, IndexOK

\* The partition, the tables, the cached sketches and the record store agree in
\* every state.
LEMMA IndexInvariant == Spec => []IndexInv
<1>1. Init => IndexInv
  BY IndexInit
<1>2. IndexInv /\ [Next]_vars => IndexOK(data)'
  <2> SUFFICES ASSUME IndexInv, [Next]_vars PROVE IndexOK(data)'
    OBVIOUS
  <2>0. StoreOK(data) /\ delta_ids = DeltaIds(data) /\ IndexOK(data)
    BY DEF IndexInv, StoreInv
  <2>1. CASE Rebuild
    BY <2>0, <2>1, RebuildOK
  <2>2. CASE ReleaseSketchCache
    BY <2>0, <2>2, ReleaseOK
  <2>3. ASSUME NEW row, Insert(row) PROVE IndexOK(data)'
    BY <2>3, InsertKeeps DEF IndexInv
  <2>4. ASSUME NEW i, Erase(i) PROVE IndexOK(data)'
    BY <2>4, EraseKeeps DEF IndexInv
  <2>5. ASSUME NEW i, NEW row, Update(i, row) PROVE IndexOK(data)'
    BY <2>5, UpdateKeeps DEF IndexInv
  <2>6. CASE UNCHANGED vars
    BY <2>0, <2>6, SameIndexOK DEF vars
  <2> QED
    BY <2>1, <2>2, <2>3, <2>4, <2>5, <2>6 DEF Next
<1>3. IndexInv <=> StoreInv /\ IndexOK(data)
  BY DEF IndexInv
<1> QED
  BY <1>1, <1>2, <1>3, StoreInvariant, PTL DEF Spec

\* What the invariant says of one indexed record.
LEMMA IndexedIsFiled ==
  ASSUME IndexInv, Built
  PROVE  /\ clusters # <<>> /\ Aligned(data)
         /\ \A i \in Indexed :
              /\ i \in 1..Size /\ Row(i) \in Rows /\ Filed(data, i)
              /\ FirstOf(Row(i)) \in DOMAIN clusters
<1>1. StoreOK(data) /\ IndexOK(data) /\ IndexTypes
  BY DEF IndexInv, StoreInv, IndexOK
<1>2. Aligned(data) /\ \A i \in IndexedOf(data) : Filed(data, i)
  BY <1>1 DEF IndexOK
<1>3. clusters # <<>>
  BY <1>1, <1>2 DEF Aligned, Built, IndexTypes
<1>4. ASSUME NEW i \in Indexed
      PROVE  /\ i \in 1..Size /\ Row(i) \in Rows /\ Filed(data, i)
             /\ FirstOf(Row(i)) \in DOMAIN clusters
  <2>1. i \in Active /\ i \in IndexedOf(data)
    BY DEF Indexed, IndexedOf, Active
  <2>2. i \in 1..Size /\ Row(i) \in Rows
    BY <1>1, <2>1, DataTyped
  <2>3. FirstOf(Row(i)) \in 0..Len(clusters) /\ FirstOf(Row(i)) # 0
    BY <1>1, <1>3, <2>2, ChosenTyped
  <2> QED
    BY <1>1, <1>2, <2>1, <2>2, <2>3, MuTyped
<1> QED
  BY <1>2, <1>3, <1>4

\* Every indexed record is in its clusters and in their tables under the sketch
\* it is counted with (Index::insert, Index::build_tables).
THEOREM RecordsAreReachable == Spec => []Reachable
<1>1. IndexInv => Reachable
  <2> SUFFICES ASSUME IndexInv, Built, NEW i \in Indexed
               PROVE  /\ primary[i] # 0
                      /\ \A c \in {primary[i], secondary[i]} \ {0} :
                           /\ i \in clusters[c].ids
                           /\ {at \in 1..MaxEpoch : <<i, at>> \in tables[c]} = {cardinal[i]} \ {0}
                           /\ cardinal[i] \in {0, epoch}
    BY DEF Reachable
  <2>1. Filed(data, i) /\ FirstOf(Row(i)) \in DOMAIN clusters
    BY IndexedIsFiled
  <2>2. primary[i] # 0
    BY <2>1, MuTyped DEF Filed, Row, IndexInv, IndexOK
  <2> QED
    BY <2>1, <2>2 DEF Filed, EntriesOf
<1> QED
  BY <1>1, IndexInvariant, PTL

\* Inserting files a record where building would have (Index::insert, Partition::build).
THEOREM InsertsLikeBuild == Spec => []InsertedAsBuilt
<1>1. IndexInv => InsertedAsBuilt
  <2> SUFFICES ASSUME IndexInv, Built, NEW i \in Indexed
               PROVE  LET b == Second(Row(i).angle, Mu)
                      IN /\ primary[i] = First(Row(i).angle, Mu)
                         /\ secondary[i] = IF b # 0 /\ Dist(Row(i).angle, Mu[b]) <= clusters[b].radius
                                           THEN b ELSE 0
    BY DEF InsertedAsBuilt, Mu
  <2>1. clusters # <<>> /\ Filed(data, i) /\ Row(i) \in Rows
    BY IndexedIsFiled
  <2> DEFINE b == Second(Row(i).angle, Mu)
  <2>2. FirstOf(Row(i)) = First(Row(i).angle, Mu) /\ SecondOf(Row(i)) = b
    BY <2>1 DEF FirstOf, SecondOf
  <2>3. b # 0 => Mu[b] = clusters[b].mu
    <3>1. SecondOf(Row(i)) \in 0..Len(clusters) /\ DOMAIN clusters = 1..Len(clusters)
      BY <2>1, ChosenTyped, MuTyped DEF IndexInv, IndexOK
    <3> QED
      BY <2>2, <3>1 DEF Mu
  <2> HIDE DEF b
  <2>4. /\ primary[i] = First(Row(i).angle, Mu)
        /\ secondary[i] = IF b # 0 /\ Dist(Row(i).angle, Mu[b]) <= clusters[b].radius
                          THEN b ELSE 0
    BY <2>1, <2>2, <2>3 DEF Filed, SpillOf, Reaches, Row
  <2> QED
    BY <2>4 DEF b
<1> QED
  BY <1>1, IndexInvariant, PTL

\* A cache marked complete holds the sketch of every indexed record
\* (Index::sketch_cache_complete).
THEOREM CacheStaysTrue == Spec => []CacheIsTrue
<1>1. IndexInv => CacheIsTrue
  BY IndexedIsFiled DEF CacheIsTrue, Filed, Aligned, Size
<1> QED
  BY <1>1, IndexInvariant, PTL

\* Between two rebuilds the partition only grows (Index::insert, Index::erase).
THEOREM PartitionOnlyGrows == Spec => BoundsGrowWithinEpoch
<1>1. ASSUME IndexInv, [Next]_vars, epoch' = epoch PROVE ClustersGrow
  <2>0. StoreOK(data) /\ IndexTypes /\ Size \in Nat
    BY <1>1, DataTyped DEF IndexInv, StoreInv, IndexOK
  <2>1. clusters' = clusters => ClustersGrow
    BY <2>0, SameClustersGrow
  <2>2. ~Rebuild
    <3>1. epoch' # epoch + 1
      BY <1>1, <2>0 DEF IndexTypes
    <3>2. ~StartEpoch
      BY <3>1 DEF StartEpoch
    <3> QED
      BY <3>2 DEF Rebuild, RebuildEmpty, RebuildStale, RebuildUnfilled, RebuildStopped,
                  RebuildDone, RefreshDone
  <2>3. ASSUME NEW s, Len(s.records) \in Nat, NEW d, NEW row, NEW full \in BOOLEAN,
               InsertIndexed(s, d, row, full)
        PROVE  ClustersGrow
    BY <2>0, <2>3, InsertJoins
  <2>4. ASSUME NEW s, NEW d, NEW row, InsertDelta(s, d, row) PROVE ClustersGrow
    BY <2>1, <2>4 DEF InsertDelta
  <2>5. ASSUME NEW row \in Rows, Insert(row) PROVE ClustersGrow
    BY <2>0, <2>3, <2>4, <2>5 DEF Insert, Size
  <2>6. ASSUME NEW i, Erase(i) PROVE ClustersGrow
    BY <2>1, <2>6 DEF Erase
  <2>7. ASSUME NEW i, NEW row, Update(i, row) PROVE ClustersGrow
    <3> DEFINE store == Erased(data, i)
    <3>1. Len(store.records) \in Nat
      BY <1>1, <2>0, <2>7, ErasedIndexOK DEF Update
    <3> HIDE DEF store
    <3>2. \/ InsertDelta(store, delta_ids \ {i}, row)
          \/ \E full \in BOOLEAN : InsertIndexed(store, delta_ids \ {i}, row, full)
          \/ Erase(i)
      BY <2>7 DEF Update, store
    <3> QED
      BY <2>3, <2>4, <2>6, <3>1, <3>2
  <2>8. ReleaseSketchCache \/ UNCHANGED vars => ClustersGrow
    BY <2>1 DEF ReleaseSketchCache, vars
  <2> QED
    BY <1>1, <2>2, <2>5, <2>6, <2>7, <2>8 DEF Next
<1>2. IndexInv /\ [Next]_vars => [epoch' = epoch => ClustersGrow]_vars
  BY <1>1
<1> QED
  BY <1>2, IndexInvariant, PTL DEF Spec, BoundsGrowWithinEpoch, ClustersGrow

-----------------------------------------------------------------------------
(***************************************************************************)
(* Route and bounds of a search                                            *)
(***************************************************************************)

\* A product grows with both factors.
LEMMA ProductGrows ==
  ASSUME NEW a \in Nat, NEW b \in Nat, NEW c \in Nat, NEW d \in Nat, a <= b, c <= d
  PROVE  a * c <= b * d
<1>1. a * c <= b * c /\ b * c <= b * d
  OBVIOUS
<1>2. a * c \in Int /\ b * c \in Int /\ b * d \in Int
  OBVIOUS
<1> QED
  BY <1>1, <1>2

\* The inner product of a query with a centroid.
LEMMA CosTyped ==
  ASSUME NEW at \in QueryAngles, NEW a \in Angles \cup {row.angle : row \in Rows}
  PROVE  /\ at \in Nat /\ a \in Nat /\ Dist(at, a) \in Nat
         /\ \A d \in 0..Dist(at, a) : d \in DOMAIN Cos /\ Cos[d] \in Nat
<1>1. at \in Nat /\ a \in Nat
  BY CosAssumption, EpochAssumption, RowsAssumption
<1>2. 0..Dist(at, a) \subseteq DOMAIN Cos /\ \A d \in DOMAIN Cos : Cos[d] \in Nat
  BY CosAssumption
<1> QED
  BY <1>1, <1>2, DistIsMetric

\* Cauchy-Schwarz as Partition::upper has it: a row within the cover of a
\* cluster and its norm bound scores no more than the cluster's bound.
LEMMA BoundHolds ==
  ASSUME IndexTypes, NEW at \in QueryAngles, NEW row \in Rows, NEW c \in DOMAIN clusters,
         row.length <= clusters[c].norm, Dist(row.angle, clusters[c].mu) <= clusters[c].cover
  PROVE  Score(at, row) <= Upper(at, c)
<1> DEFINE mu    == clusters[c].mu
           theta == Dist(at, mu)
           apart == Dist(at, row.angle)
           left  == Larger(0, theta - clusters[c].cover)
<1>1. clusters[c] \in Cluster /\ mu \in Angles /\ clusters[c].cover \in Nat /\ clusters[c].norm \in Nat
  BY MuTyped DEF Cluster
<1>2. /\ at \in Nat /\ mu \in Nat /\ theta \in Nat
      /\ \A d \in 0..theta : d \in DOMAIN Cos /\ Cos[d] \in Nat
  BY <1>1, CosTyped
<1>3. /\ row.angle \in Nat /\ apart \in Nat
      /\ \A d \in 0..apart : d \in DOMAIN Cos /\ Cos[d] \in Nat
  BY CosTyped
<1>4. theta - Dist(row.angle, mu) <= apart /\ Dist(row.angle, mu) \in Nat
  BY <1>2, <1>3, DistIsMetric
<1> HIDE DEF theta, apart, mu
<1>5. left \in 0..theta /\ left <= apart
  BY <1>1, <1>2, <1>3, <1>4 DEF Larger, mu
<1> HIDE DEF left
<1>6. apart \in 0..apart
  BY <1>3
<1>7. /\ left \in DOMAIN Cos /\ Cos[left] \in Nat
      /\ apart \in DOMAIN Cos /\ Cos[apart] \in Nat
  BY <1>2, <1>3, <1>5, <1>6
<1>8. Cos[apart] <= Cos[left]
  BY <1>5, <1>7, CosAssumption
<1>9. row.length \in Nat
  BY RowsAssumption
<1>10. row.length * Cos[apart] <= clusters[c].norm * Cos[left]
  BY <1>1, <1>7, <1>8, <1>9, ProductGrows
<1> QED
  BY <1>10 DEF Score, Upper, mu, theta, apart, left

\* The clusters can be sorted, and sorting loses none of them.
LEMMA OrderVisitsAll ==
  ASSUME IndexTypes, NEW at \in QueryAngles
  PROVE  /\ Order(at) \in [DOMAIN clusters -> DOMAIN clusters]
         /\ \A c \in DOMAIN clusters : \E s \in DOMAIN clusters : Order(at)[s] = c
<1> DEFINE K == Len(clusters)
           rho(c) == Cos[Dist(at, clusters[c].mu)]
           pairs == {<<rho(c), c>> : c \in 1..K}
           f == [c \in 1..K |-> <<rho(c), c>>]
<1>1. K \in Nat /\ DOMAIN clusters = 1..K /\ \A c \in 1..K : clusters[c].mu \in Angles
  BY MuTyped DEF Cluster
<1>2. \A c \in 1..K : rho(c) \in Nat
  <2> SUFFICES ASSUME NEW c \in 1..K PROVE rho(c) \in Nat
    OBVIOUS
  <2>1. /\ Dist(at, clusters[c].mu) \in Nat
        /\ \A d \in 0..Dist(at, clusters[c].mu) : Cos[d] \in Nat
    BY <1>1, CosTyped
  <2>2. Dist(at, clusters[c].mu) \in 0..Dist(at, clusters[c].mu)
    BY <2>1
  <2> QED
    BY <2>1, <2>2
<1>3. \A c, d : Earlier(at, c, d) <=> rho(c) > rho(d) \/ (rho(c) = rho(d) /\ c < d)
  BY DEF Earlier
<1>4. IsFiniteSet(1..K) /\ Cardinality(1..K) = K
  <2>1. 1 \in Int /\ K \in Int /\ (IF 1 > K THEN 0 ELSE K - 1 + 1) = K
    BY <1>1
  <2> HIDE DEF K
  <2> QED
    BY <2>1, FS_Interval
<1> HIDE DEF K, rho
<1>5. pairs \in SUBSET Pairs /\ \A c \in 1..K : f[c] = <<rho(c), c>>
  <2>1. \A c \in 1..K : <<rho(c), c>> \in Pairs
    BY <1>1, <1>2 DEF Pairs
  <2> QED
    BY <2>1
<1>6. IsFiniteSet(pairs) /\ Cardinality(pairs) = K
  <2>1. f \in Surjection(1..K, pairs) /\ f \in Injection(1..K, pairs)
    BY DEF Surjection, Injection, IsInjective
  <2> HIDE DEF f, pairs
  <2> QED
    BY <1>4, <2>1, FS_Surjection
<1>7. PICK o \in [1..K -> pairs] : \A s, u \in 1..K : s < u => Better(o[s], o[u])
  <2> HIDE DEF pairs
  <2> QED
    BY <1>5, <1>6, RankingExists
<1> DEFINE o2 == [s \in 1..K |-> o[s][2]]
<1>8. \A s \in 1..K : o2[s] \in 1..K /\ o[s] = <<rho(o2[s]), o2[s]>>
  <2> SUFFICES ASSUME NEW s \in 1..K PROVE o2[s] \in 1..K /\ o[s] = <<rho(o2[s]), o2[s]>>
    OBVIOUS
  <2>1. PICK c \in 1..K : o[s] = <<rho(c), c>>
    BY <1>7
  <2>2. o2[s] = c
    BY <2>1
  <2> QED
    BY <2>1, <2>2
<1>9. o2 \in [1..K -> 1..K] /\ \A s, u \in 1..K : s < u => Earlier(at, o2[s], o2[u])
  <2> HIDE DEF o2
  <2>1. \A s, u \in 1..K : s < u => Earlier(at, o2[s], o2[u])
    BY <1>3, <1>7, <1>8 DEF Better
  <2>2. o2 = [s \in 1..K |-> o2[s]]
    BY DEF o2
  <2> QED
    BY <1>8, <2>1, <2>2
<1> HIDE DEF o2
<1>10. /\ Order(at) \in [1..K -> 1..K]
       /\ \A s, u \in 1..K : s < u => Earlier(at, Order(at)[s], Order(at)[u])
  <2>1. Order(at) = CHOOSE w \in [1..K -> 1..K] :
                      \A s, u \in DOMAIN w : s < u => Earlier(at, w[s], w[u])
    BY <1>1 DEF Order
  <2>2. \E w \in [1..K -> 1..K] : \A s, u \in DOMAIN w : s < u => Earlier(at, w[s], w[u])
    BY <1>9
  <2> HIDE DEF o2
  <2>3. /\ Order(at) \in [1..K -> 1..K]
        /\ \A s, u \in DOMAIN Order(at) : s < u => Earlier(at, Order(at)[s], Order(at)[u])
    BY <2>1, <2>2
  <2> QED
    BY <2>3
<1>11. Order(at) \in Injection(1..K, 1..K)
  <2>1. ASSUME NEW s \in 1..K, NEW u \in 1..K, s < u PROVE Order(at)[s] # Order(at)[u]
    <3>1. Earlier(at, Order(at)[s], Order(at)[u])
      BY <1>10, <2>1
    <3>2. Order(at)[s] \in 1..K /\ rho(Order(at)[s]) \in Nat
      BY <1>2, <1>10
    <3> QED
      BY <1>3, <3>1, <3>2
  <2>2. \A s, u \in 1..K : s = u \/ s < u \/ u < s
    OBVIOUS
  <2>3. \A s, u \in 1..K : Order(at)[s] = Order(at)[u] => s = u
    BY <2>1, <2>2
  <2> QED
    BY <1>10, <2>3 DEF Injection, IsInjective
<1>12. Order(at) \in Surjection(1..K, 1..K)
  BY <1>4, <1>11, FS_Injection
<1> QED
  BY <1>1, <1>10, <1>12 DEF Surjection

\* A search between any two operations finds in the index what its early stop
\* relies on: Partition::upper bounds every active member of every cluster, and
\* the delta list and Partition::order together reach every active record.
THEOREM IndexIsSearchable == Spec => []RoutesAreSound
<1>1. IndexInv => RoutesAreSound
  <2> SUFFICES ASSUME IndexInv, Built, NEW at \in QueryAngles PROVE SoundRoute(CallAt(at))
    BY DEF RoutesAreSound
  <2>1. StoreOK(data) /\ delta_ids = DeltaIds(data) /\ IndexTypes /\ Covering(data)
    BY DEF IndexInv, StoreInv, IndexOK
  <2>2. /\ Order(at) \in [DOMAIN clusters -> DOMAIN clusters]
        /\ \A c \in DOMAIN clusters : \E s \in DOMAIN clusters : Order(at)[s] = c
    BY <2>1, OrderVisitsAll
  <2>3. /\ Size \in Nat /\ Active \subseteq 1..Size
        /\ \A i \in Active : i \in Nat /\ Row(i) \in Rows
    BY <2>1, DataTyped
  <2> DEFINE call == CallAt(at)
  <2>4. /\ call.active = {i - 1 : i \in Active} /\ call.delta = {i - 1 : i \in delta_ids}
        /\ call.score = [i \in 0..Size-1 |-> Score(at, Row(i + 1))]
        /\ call.route = [s \in DOMAIN clusters |->
                           [members |-> {i - 1 : i \in clusters[Order(at)[s]].ids},
                            bound   |-> Upper(at, Order(at)[s])]]
    BY <2>2 DEF CallAt
  <2> HIDE DEF call
  <2>5. ASSUME NEW s \in DOMAIN call.route, NEW i \in call.route[s].members \cap call.active
        PROVE  call.score[i] <= call.route[s].bound
    <3> DEFINE c == Order(at)[s]
    <3>1. c \in DOMAIN clusters /\ call.route[s].bound = Upper(at, c)
      BY <2>2, <2>4
    <3>2. PICK e \in clusters[c].ids : i = e - 1
      BY <2>4
    <3>3. PICK g \in Active : i = g - 1
      BY <2>4
    <3>4. e \in Nat
      BY <2>1, <3>1, MuTyped DEF Cluster
    <3>5. e = g /\ e \in Active /\ i + 1 = e /\ i \in 0..Size-1
      BY <2>3, <3>2, <3>3, <3>4
    <3>6. call.score[i] = Score(at, Row(e))
      BY <2>4, <3>5
    <3>7. /\ Row(e) \in Rows /\ Row(e).length <= clusters[c].norm
          /\ Dist(Row(e).angle, clusters[c].mu) <= clusters[c].cover
      BY <2>1, <2>3, <3>1, <3>5 DEF Covering, Row
    <3> HIDE DEF c
    <3> QED
      BY <2>1, <3>1, <3>6, <3>7, BoundHolds
  <2>6. ASSUME NEW i \in call.active \ call.delta
        PROVE  \E s \in DOMAIN call.route : i \in call.route[s].members
    <3>1. PICK e \in Active : i = e - 1
      BY <2>4
    <3>2. e \notin delta_ids
      BY <2>4, <3>1
    <3>3. e \in Indexed
      BY <2>1, <3>2 DEF DeltaIds, Indexed, Active
    <3>4. /\ primary[e] = FirstOf(Row(e)) /\ FirstOf(Row(e)) \in DOMAIN clusters
          /\ \A c \in {primary[e], secondary[e]} \ {0} : e \in clusters[c].ids
      BY <3>3, IndexedIsFiled DEF Filed, Row
    <3>5. primary[e] # 0
      BY <2>1, <3>4, MuTyped
    <3>6. PICK s \in DOMAIN clusters : Order(at)[s] = primary[e]
      BY <2>2, <3>4
    <3>7. s \in DOMAIN call.route /\ call.route[s].members = {j - 1 : j \in clusters[primary[e]].ids}
      BY <2>4, <3>6
    <3> QED
      BY <3>1, <3>4, <3>5, <3>7
  <2>7. SoundRoute(call)
    BY <2>5, <2>6 DEF SoundRoute
  <2> QED
    BY <2>7 DEF call
<1> QED
  BY <1>1, IndexInvariant, PTL

-----------------------------------------------------------------------------
(***************************************************************************)
(* The program's use of the index                                          *)
(***************************************************************************)
LoadedSize == Len(loaded.records)

\* the i-th of the operations + 1 records the program erases
VictimIs(i) == IF i = 1 THEN LoadedSize + operations + 1
               ELSE IF i <= operations THEN LoadedSize + i ELSE LoadedSize + operations + 2

\* what the program was started with
Started ==
  /\ operations \in Nat \ {0}
  /\ StoreOK(loaded) /\ DeltaIds(loaded) = {} /\ ActiveIds(loaded) = 1..LoadedSize

\* no operation touches a record that was loaded, and insertions are numbered on
Kept ==
  pc \notin {"done", "failed"} =>
    /\ LoadedSize <= Size
    /\ \A i \in 1..LoadedSize : data.records[i] = loaded.records[i]
    /\ inserted \in Seq(Nat) /\ \A i \in 1..Len(inserted) : inserted[i] = LoadedSize + i

\* nothing is erased before the update
Growing ==
  pc \in {"build", "release", "query", "insert", "delta", "update"} =>
    /\ Active = 1..Size /\ erased = 0
    /\ IF pc \in {"delta", "update"} THEN Len(inserted) = operations
                                      ELSE Len(inserted) < operations
    /\ IF pc = "update" THEN Size = LoadedSize + operations + 1 /\ delta = Size
                         ELSE Size = LoadedSize + Len(inserted)

\* then one record after the other, and each of them is there
Erasing ==
  pc = "erase" =>
    /\ Len(inserted) = operations /\ erased \in 0..operations
    /\ delta = LoadedSize + operations + 1 /\ updated = LoadedSize + operations + 2
    /\ Size = updated
    /\ Active = 1..LoadedSize \cup {VictimIs(i) : i \in erased+1..operations+1}

\* the build left tables, and so did the refresh, for the records loaded
Tabled ==
  /\ pc \in {"release", "query", "insert", "delta", "update"} => Built
  /\ pc = "refresh" => Active = 1..LoadedSize
  /\ pc = "done" /\ command = "dynamic" =>
       \A c \in DOMAIN tables :
         /\ clusters[c].ids \subseteq ActiveIds(loaded)
         /\ tables[c] \subseteq ActiveIds(loaded) \X {epoch}

ProgramInv == Started /\ Kept /\ Growing /\ Erasing /\ Tabled
EInv == IndexInv /\ ProgramInv

\* Loading leaves every record active.
LEMMA LoadedIsActive ==
  ASSUME NEW rows \in Seq(Rows)
  PROVE  ActiveIds(Loaded(rows)) = 1..Len(Loaded(rows).records)
<1> DEFINE records == [i \in 1..Len(rows) |-> [row |-> rows[i], active |-> TRUE, delta |-> FALSE]]
<1>1. Len(rows) \in Nat /\ Loaded(rows).records = records
  BY DEF Loaded
<1>2. Len(records) = Len(rows) /\ \A i \in 1..Len(rows) : records[i].active
  BY <1>1
<1> HIDE DEF records
<1> QED
  BY <1>1, <1>2 DEF ActiveIds

\* A construction is a rebuild, complete or given up.
LEMMA ConstructedIs ==
  ASSUME NEW construction \in {"preflight", "rebuild", "refresh"}, NEW then, NEW thrown,
         Constructed(construction, then, thrown)
  PROVE  /\ Rebuild
         /\ \/ pc' = thrown
            \/ /\ pc' = then
               /\ \/ construction = "preflight"
                  \/ \E full \in SUBSET Active : \E K \in Nat \ {0} : \E mu \in [1..K -> Angles] :
                       \/ construction = "rebuild" /\ RebuildDone(full, mu)
                       \/ construction = "refresh" /\ RefreshDone(full, mu)
<1>1. PICK full \in SUBSET Active :
        \E K \in UNION {Candidates(distinct) : distinct \in 0..Cardinality(full)} :
          \E mu \in [1..K -> Angles] :
            \/ Completes(construction, full, mu) /\ pc' = then
            \/ RebuildUnfilled(full, mu) /\ pc' = thrown
            \/ RebuildStopped(full, mu) /\ pc' = thrown
  BY DEF Constructed
<1>2. PICK K \in UNION {Candidates(distinct) : distinct \in 0..Cardinality(full)} :
        \E mu \in [1..K -> Angles] :
          \/ Completes(construction, full, mu) /\ pc' = then
          \/ RebuildUnfilled(full, mu) /\ pc' = thrown
          \/ RebuildStopped(full, mu) /\ pc' = thrown
  BY <1>1
<1>3. PICK mu \in [1..K -> Angles] :
        \/ Completes(construction, full, mu) /\ pc' = then
        \/ RebuildUnfilled(full, mu) /\ pc' = thrown
        \/ RebuildStopped(full, mu) /\ pc' = thrown
  BY <1>2
<1>4. \/ RebuildUnfilled(full, mu) \/ RebuildStopped(full, mu)
      \/ RebuildDone(full, mu) \/ RefreshDone(full, mu)
  BY <1>3 DEF Completes
<1>5. Rebuild
  BY <1>4 DEF Rebuild
<1>6. K \in Nat \ {0}
  <2>1. PICK n \in 0..Cardinality(full) : K \in Candidates(n)
    OBVIOUS
  <2>2. n \in Nat
    OBVIOUS
  <2> QED
    BY <2>1, <2>2, CandidatesPositive
<1>7. \/ pc' = thrown
      \/ /\ pc' = then
         /\ \/ construction = "preflight"
            \/ construction = "rebuild" /\ RebuildDone(full, mu)
            \/ construction = "refresh" /\ RefreshDone(full, mu)
  BY <1>3 DEF Completes
<1> QED
  BY <1>5, <1>6, <1>7

\* A rebuild that completes leaves tables, of the records that were active.
LEMMA DoneFills ==
  ASSUME StoreOK(data), NEW full \in SUBSET Active, NEW K \in Nat \ {0}, NEW mu \in [1..K -> Angles],
         RebuildDone(full, mu) \/ RefreshDone(full, mu)
  PROVE  /\ Built'
         /\ RefreshDone(full, mu) => \A c \in DOMAIN tables' :
              clusters'[c].ids \subseteq Active /\ tables'[c] \subseteq Active \X {epoch'}
<1>1. PartitionBuilt(mu) /\ tables' = BuiltTables(mu, sketch')
  BY DEF RebuildDone, RefreshDone
<1>2. /\ DOMAIN mu = 1..K /\ 1 \in 1..K /\ Active \subseteq 1..Size
  BY DataTyped
<1>3. DOMAIN tables' = 1..K
  BY <1>1, <1>2 DEF BuiltTables
<1>4. Built'
  BY <1>2, <1>3 DEF Built
<1>5. ASSUME RefreshDone(full, mu), NEW c \in 1..K
      PROVE  clusters'[c].ids \subseteq Active /\ tables'[c] \subseteq Active \X {epoch'}
  <2>1. clusters'[c].ids = MembersOf(mu, c)
    BY <1>1, PartitionBuiltIs DEF Partitioned
  <2>2. MembersOf(mu, c) \subseteq Active
    BY DEF MembersOf, Primaries
  <2>3. sketch' = [i \in 1..Size |-> IF i \in full THEN epoch' ELSE 0]
    BY <1>5 DEF RefreshDone
  <2>4. \A i \in Active : sketch'[i] # 0 => sketch'[i] = epoch'
    BY <1>2, <2>3
  <2>5. tables'[c] = {<<i, sketch'[i]>> : i \in {i \in MembersOf(mu, c) : sketch'[i] # 0}}
    BY <1>1, <1>2 DEF BuiltTables
  <2>6. \A e \in tables'[c] : e \in Active \X {epoch'}
    BY <2>2, <2>4, <2>5
  <2> QED
    BY <2>1, <2>2, <2>6
<1> QED
  BY <1>3, <1>4, <1>5

\* The program starts with all records active and nothing inserted.
LEMMA ProgramInit == PInit => EInv
<1> SUFFICES ASSUME PInit PROVE EInv
  OBVIOUS
<1>1. IndexInv
  BY IndexInit DEF PInit
<1>2. PICK rows \in Loads : data = Loaded(rows)
  BY DEF PInit, Init
<1>3. /\ StoreOK(data) /\ DeltaIds(data) = {} /\ ActiveIds(data) = 1..Len(data.records)
  BY <1>2, LoadedOK, LoadedIsActive, EpochAssumption
<1>4. /\ loaded = data /\ operations \in Nat \ {0} /\ pc = "build" /\ inserted = <<>> /\ erased = 0
  BY OperationsAssumption DEF PInit
<1>5. Len(data.records) \in Nat
  BY <1>3 DEF StoreOK, Store
<1>6. Len(inserted) = 0 /\ inserted \in Seq(Nat)
  BY <1>4
<1>7. Started
  BY <1>3, <1>4 DEF Started, LoadedSize
<1>8. Kept
  BY <1>4, <1>5, <1>6 DEF Kept, LoadedSize, Size
<1>9. Growing
  BY <1>3, <1>4, <1>5, <1>6 DEF Growing, Active, LoadedSize, Size
<1>10. Erasing /\ Tabled
  BY <1>4 DEF Erasing, Tabled
<1> QED
  BY <1>1, <1>7, <1>8, <1>9, <1>10 DEF EInv, ProgramInv

\* A record that was loaded has never been flagged.
LEMMA LoadedRecords ==
  ASSUME Started, NEW i \in 1..LoadedSize
  PROVE  /\ LoadedSize \in Nat /\ loaded.records[i] \in Record
         /\ loaded.records[i].active /\ loaded.records[i].delta = FALSE
<1>1. /\ LoadedSize \in Nat /\ loaded.records \in Seq(Record)
  BY DEF Started, StoreOK, Store, LoadedSize
<1>2. loaded.records[i] \in Record
  BY <1>1 DEF LoadedSize
<1>3. loaded.records[i].active /\ ~loaded.records[i].delta
  BY DEF Started, ActiveIds, DeltaIds
<1> QED
  BY <1>1, <1>2, <1>3 DEF Record

\* A rebuild takes nothing away and changes no record that was loaded.
LEMMA RebuildLeaves ==
  ASSUME EInv, pc \notin {"done", "failed"}, Rebuild
  PROVE  /\ IndexInv' /\ Size' = Size /\ Active' = Active
         /\ \A i \in 1..LoadedSize : data'.records[i] = loaded.records[i]
<1>1. /\ StoreOK(data) /\ StoreInv /\ IndexOK(data) /\ Started
      /\ LoadedSize <= Size /\ \A i \in 1..LoadedSize : data.records[i] = loaded.records[i]
  BY DEF EInv, IndexInv, StoreInv, ProgramInv, Kept
<1>2. IndexOK(data)'
  BY <1>1, RebuildOK
<1>3. CASE UNCHANGED <<data, delta_ids>>
  BY <1>1, <1>2, <1>3 DEF IndexInv, StoreInv, Size, Active
<1>4. CASE data' = DeltaAbsorbed /\ delta_ids' = {}
  <2>1. /\ StoreOK(data') /\ DeltaIds(data') = {} /\ ActiveIds(data') = Active
        /\ Len(data'.records) = Size
    BY <1>1, <1>4, AbsorbedOK
  <2>2. ASSUME NEW i \in 1..LoadedSize PROVE data'.records[i] = loaded.records[i]
    <3>1. /\ LoadedSize \in Nat /\ Size \in Nat /\ loaded.records[i] \in Record
          /\ loaded.records[i].active /\ loaded.records[i].delta = FALSE
      BY <1>1, LoadedRecords, DataTyped
    <3>2. i \in 1..Size /\ data.records[i] = loaded.records[i]
      BY <1>1, <3>1
    <3>3. i \in Active
      BY <3>1, <3>2 DEF Active, ActiveIds, Size
    <3>4. data'.records = [e \in 1..Size |-> IF e \in Active THEN [data.records[e] EXCEPT !.delta = FALSE]
                                             ELSE data.records[e]]
      BY <1>1, <1>4 DEF DeltaAbsorbed, StoreOK, Store
    <3>5. data'.records[i] = [loaded.records[i] EXCEPT !.delta = FALSE]
      BY <3>2, <3>3, <3>4
    <3>6. \A r \in Record : r.delta = FALSE => [r EXCEPT !.delta = FALSE] = r
      BY DEF Record
    <3> QED
      BY <3>1, <3>5, <3>6
  <2> QED
    BY <1>2, <1>4, <2>1, <2>2 DEF IndexInv, StoreInv, Size, Active
<1> QED
  BY <1>3, <1>4, RebuildStores

\* The program's parameters stay what they were.
LEMMA ParametersStay ==
  ASSUME Started, UNCHANGED program
  PROVE  /\ Started' /\ LoadedSize' = LoadedSize /\ operations' = operations
         /\ \A i : VictimIs(i)' = VictimIs(i)
BY DEF Started, program, LoadedSize, VictimIs

\* Before anything is inserted, building.
LEMMA BuildStep ==
  ASSUME EInv, Preflight \/ Build
  PROVE  EInv'
<1>1. /\ pc = "build" /\ UNCHANGED <<program, inserted, delta, updated, erased>>
      /\ \/ Constructed("preflight", "done", "failed") /\ command = "preflight"
         \/ Constructed("rebuild", AfterBuild, "failed")
  BY DEF Preflight, Build
<1>2. Rebuild
  BY <1>1, ConstructedIs
<1>3. /\ IndexInv' /\ Size' = Size /\ Active' = Active
      /\ \A i \in 1..LoadedSize : data'.records[i] = loaded.records[i]
  BY <1>1, <1>2, RebuildLeaves
<1>4. Started /\ Kept /\ Growing /\ StoreOK(data)
  BY DEF EInv, ProgramInv, IndexInv, StoreInv
<1>5. Started' /\ LoadedSize' = LoadedSize /\ operations' = operations
  BY <1>1, <1>4, ParametersStay
<1>6. \/ pc' = "failed"
      \/ pc' = "done" /\ command' # "dynamic"
      \/ pc' \in {"release", "query"} /\ Built'
  <2>1. CASE Constructed("preflight", "done", "failed") /\ command = "preflight"
    BY <1>1, <2>1, ConstructedIs DEF program
  <2>2. CASE Constructed("rebuild", AfterBuild, "failed")
    <3>1. CASE pc' = "failed"
      BY <3>1
    <3>2. CASE pc' = AfterBuild /\ \E full \in SUBSET Active : \E K \in Nat \ {0} :
                                     \E mu \in [1..K -> Angles] : RebuildDone(full, mu)
      BY <1>4, <3>2, DoneFills DEF AfterBuild
    <3> QED
      BY <2>2, <3>1, <3>2, ConstructedIs
  <2> QED
    BY <1>1, <2>1, <2>2
<1>7. Kept' /\ Growing'
  BY <1>1, <1>3, <1>4, <1>5, <1>6 DEF Kept, Growing, program
<1>8. Erasing' /\ Tabled'
  BY <1>6 DEF Erasing, Tabled
<1> QED
  BY <1>3, <1>5, <1>7, <1>8 DEF EInv, ProgramInv

\* After everything is erased, building again.
LEMMA RefreshStep ==
  ASSUME EInv, Refresh
  PROVE  EInv'
<1>1. /\ pc = "refresh" /\ UNCHANGED <<program, inserted, delta, updated, erased>>
      /\ Constructed("refresh", "done", "failed")
  BY DEF Refresh
<1>2. Rebuild
  BY <1>1, ConstructedIs
<1>3. IndexInv'
  BY <1>1, <1>2, RebuildLeaves
<1>4. Started /\ StoreOK(data) /\ Active = ActiveIds(loaded)
  BY <1>1 DEF EInv, ProgramInv, IndexInv, StoreInv, Tabled, Started
<1>5. Started' /\ loaded' = loaded
  BY <1>1, <1>4, ParametersStay DEF program
<1>6. \/ pc' = "failed"
      \/ /\ pc' = "done"
         /\ \A c \in DOMAIN tables' :
              clusters'[c].ids \subseteq Active /\ tables'[c] \subseteq Active \X {epoch'}
  <2>1. CASE pc' = "failed"
    BY <2>1
  <2>2. CASE pc' = "done" /\ \E full \in SUBSET Active : \E K \in Nat \ {0} :
                               \E mu \in [1..K -> Angles] : RefreshDone(full, mu)
    BY <1>4, <2>2, DoneFills
  <2> QED
    BY <1>1, <2>1, <2>2, ConstructedIs
<1>7. Kept' /\ Growing' /\ Erasing'
  BY <1>6 DEF Kept, Growing, Erasing
<1>8. Tabled'
  BY <1>4, <1>5, <1>6 DEF Tabled
<1> QED
  BY <1>3, <1>5, <1>7, <1>8 DEF EInv, ProgramInv

\* The steps that leave the store alone.
LEMMA QueryStep ==
  ASSUME EInv, Release \/ Query
  PROVE  EInv'
<1>1. /\ pc \in {"release", "query"} /\ UNCHANGED <<program, inserted, delta, updated, erased>>
      /\ pc' \in {"query", "insert", "done"}
      /\ pc' = "done" => command # "dynamic"
      /\ ReleaseSketchCache \/ UNCHANGED vars
  BY DEF Release, Query
<1>2. IndexInv /\ Started /\ Kept /\ Growing /\ Tabled
  BY DEF EInv, ProgramInv
<1>3. UNCHANGED <<data, delta_ids, tables>>
  BY <1>1 DEF ReleaseSketchCache, vars
<1>4. IndexInv'
  <2>1. IndexOK(data)'
    BY <1>1, <1>2, ReleaseOK, SameIndexOK DEF IndexInv, vars
  <2> QED
    BY <1>2, <1>3, <2>1 DEF IndexInv, StoreInv
<1>5. Started' /\ LoadedSize' = LoadedSize /\ operations' = operations /\ loaded' = loaded
  BY <1>1, <1>2, ParametersStay DEF program
<1>6. Size' = Size /\ Active' = Active /\ Built' = Built
  BY <1>3 DEF Size, Active, Built
<1>7. Kept' /\ Growing'
  BY <1>1, <1>2, <1>3, <1>5, <1>6 DEF Kept, Growing
<1>8. Erasing' /\ Tabled'
  BY <1>1, <1>2, <1>6 DEF Erasing, Tabled, program
<1> QED
  BY <1>4, <1>5, <1>7, <1>8 DEF EInv, ProgramInv

\* An insertion that is accepted keeps the tables that were there.
LEMMA InsertLeavesTables ==
  ASSUME IndexTypes, Built, NEW store, NEW deltas, NEW row,
         \/ InsertDelta(store, deltas, row)
         \/ \E full \in BOOLEAN : InsertIndexed(store, deltas, row, full)
  PROVE  Built'
<1>1. tables \in Seq(SUBSET (Nat \X Nat)) /\ tables # <<>>
  BY DEF IndexTypes, Built
<1>2. 1 \in DOMAIN tables
  BY <1>1
<1>3. DOMAIN tables' = DOMAIN tables
  BY DEF InsertDelta, InsertIndexed
<1> QED
  BY <1>2, <1>3 DEF Built

\* A copy is refused, which ends the program, or it gets the next identifier.
LEMMA CopyIsNext ==
  ASSUME EInv, Built, pc \notin {"done", "failed"}, NEW row, Insert(row)
  PROVE  /\ IndexInv' /\ Built' /\ Size \in Nat /\ Size' = Size + 1 /\ Active' = Active \cup {Size + 1}
         /\ \A i \in 1..LoadedSize : data'.records[i] = loaded.records[i]
<1>1. IndexInv /\ IndexTypes /\ StoreInv /\ StoreOK(data)
      /\ LoadedSize <= Size /\ \A i \in 1..LoadedSize : data.records[i] = loaded.records[i]
  BY DEF EInv, IndexInv, IndexOK, StoreInv, ProgramInv, Kept
<1>2. PICK flag \in BOOLEAN : Grown(data, data', row, flag)
  BY <1>1, InsertStores
<1>3. IndexInv' /\ Built'
  BY <1>1, InsertKeeps, InsertLeavesTables DEF Insert
<1>4. /\ Size' = Size + 1 /\ Active' = Active \cup {Size + 1}
      /\ \A i \in 1..Size : data'.records[i] = data.records[i]
  BY <1>2 DEF Grown, Size, Active
<1>5. Size \in Nat /\ LoadedSize \in Nat
  BY <1>1, DataTyped DEF EInv, ProgramInv, Started, StoreOK, Store, LoadedSize
<1>6. \A i \in 1..LoadedSize : i \in 1..Size
  BY <1>1, <1>5
<1> QED
  BY <1>1, <1>3, <1>4, <1>5, <1>6

\* What a rejected row, or one to erase that is gone, leaves: the program has failed.
LEMMA FailedStep ==
  ASSUME EInv, IndexInv', UNCHANGED program, pc' = "failed"
  PROVE  EInv'
<1>1. Started'
  BY ParametersStay DEF EInv, ProgramInv
<1>2. Kept' /\ Growing' /\ Erasing' /\ Tabled'
  BY DEF Kept, Growing, Erasing, Tabled
<1> QED
  BY <1>1, <1>2 DEF EInv, ProgramInv

\* Nothing happens to the index.
LEMMA IndexRests ==
  ASSUME IndexInv, UNCHANGED vars
  PROVE  IndexInv'
<1>1. IndexOK(data)'
  BY SameIndexOK DEF IndexInv, vars
<1> QED
  BY <1>1 DEF IndexInv, StoreInv, vars

\* The copies inserted one by one.
LEMMA InsertCopyStep ==
  ASSUME EInv, InsertCopy
  PROVE  EInv'
<1> DEFINE row == Copy(Row(Len(inserted) + 1), 9, 10)
<1>1. /\ pc = "insert" /\ Len(inserted) < operations
      /\ UNCHANGED <<program, delta, updated, erased>>
      /\ \/ /\ Insert(row)
            /\ inserted' = Append(inserted, Size + 1)
            /\ pc' = IF Len(inserted') = operations THEN "delta" ELSE "insert"
         \/ Rejected(row)
  BY DEF InsertCopy
<1>2. IndexInv /\ Started /\ Kept /\ Growing /\ Built
  BY <1>1 DEF EInv, ProgramInv, Tabled
<1> HIDE DEF row
<1>3. CASE Rejected(row)
  BY <1>1, <1>2, <1>3, IndexRests, FailedStep DEF Rejected
<1>4. CASE /\ Insert(row)
           /\ inserted' = Append(inserted, Size + 1)
           /\ pc' = IF Len(inserted') = operations THEN "delta" ELSE "insert"
  <2>1. /\ IndexInv' /\ Built' /\ Size \in Nat /\ Size' = Size + 1 /\ Active' = Active \cup {Size + 1}
        /\ \A i \in 1..LoadedSize : data'.records[i] = loaded.records[i]
    BY <1>1, <1>2, <1>4, CopyIsNext
  <2>2. Started' /\ LoadedSize' = LoadedSize /\ operations' = operations /\ loaded' = loaded
    BY <1>1, <1>2, ParametersStay DEF program
  <2>3. /\ inserted \in Seq(Nat) /\ \A i \in 1..Len(inserted) : inserted[i] = LoadedSize + i
        /\ LoadedSize <= Size /\ Active = 1..Size /\ Size = LoadedSize + Len(inserted)
        /\ erased = 0
    BY <1>1, <1>2 DEF Kept, Growing
  <2>4. LoadedSize \in Nat /\ Len(inserted) \in Nat /\ operations \in Nat
    BY <1>2, <2>3 DEF Started, StoreOK, Store, LoadedSize
  <2>5. /\ inserted' \in Seq(Nat) /\ Len(inserted') = Len(inserted) + 1
        /\ \A i \in 1..Len(inserted') : inserted'[i] = LoadedSize + i
    BY <1>4, <2>1, <2>3, <2>4
  <2>6. Active' = 1..Size'
    BY <2>1, <2>3
  <2>7. Kept'
    BY <2>1, <2>2, <2>3, <2>4, <2>5 DEF Kept
  <2>8. Growing'
    BY <1>1, <1>4, <2>1, <2>2, <2>3, <2>4, <2>5, <2>6 DEF Growing
  <2>9. Erasing' /\ Tabled'
    BY <1>4, <2>1 DEF Erasing, Tabled
  <2> QED
    BY <2>1, <2>2, <2>7, <2>8, <2>9 DEF EInv, ProgramInv
<1> QED
  BY <1>1, <1>3, <1>4

\* The copy that is out of range.
LEMMA InsertLargeStep ==
  ASSUME EInv, InsertLarge
  PROVE  EInv'
<1> DEFINE row == Copy(Row(1), 1000, 1)
<1>1. /\ pc = "delta" /\ UNCHANGED <<program, inserted, updated, erased>>
      /\ \/ Insert(row) /\ delta' = Size + 1 /\ pc' = "update"
         \/ Rejected(row)
  BY DEF InsertLarge
<1>2. IndexInv /\ Started /\ Kept /\ Growing /\ Built
  BY <1>1 DEF EInv, ProgramInv, Tabled
<1> HIDE DEF row
<1>3. CASE Rejected(row)
  BY <1>1, <1>2, <1>3, IndexRests, FailedStep DEF Rejected
<1>4. CASE Insert(row) /\ delta' = Size + 1 /\ pc' = "update"
  <2>1. /\ IndexInv' /\ Built' /\ Size \in Nat /\ Size' = Size + 1 /\ Active' = Active \cup {Size + 1}
        /\ \A i \in 1..LoadedSize : data'.records[i] = loaded.records[i]
    BY <1>1, <1>2, <1>4, CopyIsNext
  <2>2. Started' /\ LoadedSize' = LoadedSize /\ operations' = operations /\ loaded' = loaded
    BY <1>1, <1>2, ParametersStay DEF program
  <2>3. /\ inserted \in Seq(Nat) /\ \A i \in 1..Len(inserted) : inserted[i] = LoadedSize + i
        /\ LoadedSize <= Size /\ Active = 1..Size /\ Size = LoadedSize + Len(inserted)
        /\ erased = 0 /\ Len(inserted) = operations
    BY <1>1, <1>2 DEF Kept, Growing
  <2>4. LoadedSize \in Nat
    BY <1>2 DEF Started, StoreOK, Store, LoadedSize
  <2>5. Active' = 1..Size'
    BY <2>1, <2>3
  <2>6. Kept'
    BY <1>1, <2>1, <2>2, <2>3, <2>4 DEF Kept
  <2>7. Growing'
    BY <1>1, <1>4, <2>1, <2>2, <2>3, <2>5 DEF Growing
  <2>8. Erasing' /\ Tabled'
    BY <1>4, <2>1 DEF Erasing, Tabled
  <2> QED
    BY <2>1, <2>2, <2>6, <2>7, <2>8 DEF EInv, ProgramInv
<1> QED
  BY <1>1, <1>3, <1>4

\* The records the program erases, by their place in the list of them.
LEMMA VictimsAre ==
  ASSUME Started, inserted \in Seq(Nat), Len(inserted) = operations,
         \A i \in 1..Len(inserted) : inserted[i] = LoadedSize + i,
         delta = LoadedSize + operations + 1, updated = LoadedSize + operations + 2
  PROVE  Len(Victims) = operations + 1 /\ \A i \in 1..operations+1 : Victims[i] = VictimIs(i)
<1> DEFINE rest == Tail(inserted)
           front == <<delta>> \o rest
<1>1. operations \in Nat \ {0} /\ LoadedSize \in Nat
  BY DEF Started, StoreOK, Store, LoadedSize
<1>2. /\ rest \in Seq(Nat) /\ Len(rest) = operations - 1
      /\ \A i \in 1..operations-1 : rest[i] = inserted[i + 1]
  BY <1>1
<1>3. delta \in Nat /\ updated \in Nat /\ <<delta>> \in Seq(Nat) /\ <<updated>> \in Seq(Nat)
  BY <1>1
<1> HIDE DEF rest
<1>4. /\ front \in Seq(Nat) /\ Len(front) = operations
      /\ \A i \in 1..operations : front[i] = IF i = 1 THEN delta ELSE rest[i - 1]
  BY <1>1, <1>2, <1>3
<1>5. Victims = front \o <<updated>>
  BY DEF Victims, rest
<1> HIDE DEF front
<1>6. /\ Len(Victims) = operations + 1
      /\ \A i \in 1..operations+1 : Victims[i] = IF i <= operations THEN front[i] ELSE updated
  BY <1>1, <1>3, <1>4, <1>5
<1>7. ASSUME NEW i \in 1..operations+1 PROVE Victims[i] = VictimIs(i)
  <2>1. i \in Nat /\ i >= 1 /\ (i <= operations => i \in 1..operations) /\ (i > operations => i = operations + 1)
    BY <1>1
  <2>2. CASE i > operations
    BY <1>1, <1>6, <2>1, <2>2 DEF VictimIs
  <2>3. CASE i <= operations /\ i = 1
    BY <1>4, <1>6, <2>1, <2>3 DEF VictimIs
  <2>4. CASE i <= operations /\ i # 1
    <3>1. i - 1 \in 1..operations-1 /\ i \in 1..Len(inserted) /\ (i - 1) + 1 = i
      BY <1>1, <2>1, <2>4
    <3>2. front[i] = rest[i - 1] /\ rest[i - 1] = inserted[i]
      BY <1>2, <1>4, <2>1, <2>4, <3>1
    <3> QED
      BY <1>6, <2>1, <2>4, <3>1, <3>2 DEF VictimIs
  <2> QED
    BY <2>1, <2>2, <2>3, <2>4
<1> QED
  BY <1>6, <1>7

\* The identifiers to erase are those made since the load, less the one the
\* update erased, and all different.
LEMMA VictimsDiffer ==
  ASSUME Started
  PROVE  /\ LoadedSize \in Nat /\ operations \in Nat \ {0}
         /\ \A i, e \in 1..operations+1 : VictimIs(i) = VictimIs(e) => i = e
         /\ \A i \in 1..operations+1 : VictimIs(i) \in LoadedSize+1..LoadedSize+operations+2
         /\ ((1..LoadedSize+operations+1) \ {LoadedSize + 1}) \cup {LoadedSize + operations + 2}
              = 1..LoadedSize \cup {VictimIs(i) : i \in 1..operations+1}
<1>1. LoadedSize \in Nat /\ operations \in Nat \ {0}
  BY DEF Started, StoreOK, Store, LoadedSize
<1>2. /\ \A i, e \in 1..operations+1 : VictimIs(i) = VictimIs(e) => i = e
      /\ \A i \in 1..operations+1 : VictimIs(i) \in LoadedSize+1..LoadedSize+operations+2
      /\ \A i \in 1..operations+1 : VictimIs(i) # LoadedSize + 1
  BY <1>1 DEF VictimIs
<1>3. ASSUME NEW x \in LoadedSize+2..LoadedSize+operations+2
      PROVE  \E i \in 1..operations+1 : x = VictimIs(i)
  <2>1. CASE x = LoadedSize + operations + 1
    <3>1. 1 \in 1..operations+1 /\ x = VictimIs(1)
      BY <1>1, <2>1 DEF VictimIs
    <3> QED
      BY <3>1
  <2>2. CASE x = LoadedSize + operations + 2
    <3>1. operations + 1 \in 1..operations+1 /\ x = VictimIs(operations + 1)
      BY <1>1, <2>2 DEF VictimIs
    <3> QED
      BY <3>1
  <2>3. CASE x <= LoadedSize + operations
    <3>1. x - LoadedSize \in 1..operations+1 /\ x = VictimIs(x - LoadedSize)
      BY <1>1, <2>3 DEF VictimIs
    <3> QED
      BY <3>1
  <2> QED
    BY <1>1, <2>1, <2>2, <2>3
<1> DEFINE made == {VictimIs(i) : i \in 1..operations+1}
<1>4. made = LoadedSize+2..LoadedSize+operations+2
  <2>1. \A i \in 1..operations+1 : VictimIs(i) \in LoadedSize+2..LoadedSize+operations+2
    BY <1>1, <1>2
  <2> QED
    BY <1>3, <2>1
<1>5. ((1..LoadedSize+operations+1) \ {LoadedSize + 1}) \cup {LoadedSize + operations + 2}
        = 1..LoadedSize \cup (LoadedSize+2..LoadedSize+operations+2)
  BY <1>1
<1> QED
  BY <1>1, <1>2, <1>4, <1>5

\* The first copy replaced.
LEMMA UpdateFirstStep ==
  ASSUME EInv, UpdateFirst
  PROVE  EInv'
<1> DEFINE row == Copy(Row(2), 8, 10)
<1>1. /\ pc = "update" /\ UNCHANGED <<program, inserted, delta, erased>>
      /\ Update(inserted[1], row)
      /\ IF Accepts(data, row) THEN updated' = Size + 1 /\ pc' = "erase" ELSE pc' = "failed"
  BY DEF UpdateFirst
<1>2. IndexInv /\ StoreInv /\ Started /\ Kept /\ Growing
  BY DEF EInv, IndexInv, ProgramInv
<1> HIDE DEF row
<1>3. IndexInv'
  BY <1>1, <1>2, UpdateKeeps
<1>4. CASE pc' = "failed"
  BY <1>1, <1>3, <1>4, FailedStep
<1>5. CASE Accepts(data, row) /\ updated' = Size + 1 /\ pc' = "erase"
  <2>1. /\ inserted \in Seq(Nat) /\ \A i \in 1..Len(inserted) : inserted[i] = LoadedSize + i
        /\ LoadedSize <= Size /\ Active = 1..Size /\ Size = LoadedSize + operations + 1
        /\ delta = Size /\ erased = 0 /\ Len(inserted) = operations
        /\ \A i \in 1..LoadedSize : data.records[i] = loaded.records[i]
    BY <1>1, <1>2 DEF Kept, Growing
  <2>2. LoadedSize \in Nat /\ operations \in Nat \ {0}
    BY <1>2, VictimsDiffer
  <2>3. inserted[1] = LoadedSize + 1
    BY <2>1, <2>2
  <2>4. PICK flag \in BOOLEAN : Grown(Erased(data, inserted[1]), data', row, flag)
    BY <1>1, <1>2, <1>5, UpdateStores
  <2>5. /\ Len(Erased(data, inserted[1]).records) = Size
        /\ ActiveIds(Erased(data, inserted[1])) = Active \ {inserted[1]}
        /\ \A e \in 1..Size : e # inserted[1] =>
             Erased(data, inserted[1]).records[e] = data.records[e]
    BY <1>1, <1>2, ErasedOK DEF Update, StoreInv, Size, Active
  <2>6. /\ Size' = Size + 1 /\ Active' = (Active \ {inserted[1]}) \cup {Size + 1}
        /\ \A e \in 1..Size : e # inserted[1] => data'.records[e] = data.records[e]
    BY <2>4, <2>5 DEF Grown, Size, Active
  <2>7. \A i \in 1..LoadedSize : i \in 1..Size /\ i # inserted[1]
    BY <2>1, <2>2, <2>3
  <2>8. \A i \in 1..LoadedSize : data'.records[i] = loaded.records[i]
    BY <2>1, <2>6, <2>7
  <2>9. Active' = 1..LoadedSize \cup {VictimIs(i) : i \in 1..operations+1}
    <3>1. Size = LoadedSize + operations + 1 /\ Size + 1 = LoadedSize + operations + 2
      BY <2>1, <2>2
    <3>2. Active' = ((1..LoadedSize+operations+1) \ {LoadedSize + 1}) \cup {LoadedSize + operations + 2}
      BY <2>1, <2>3, <2>6, <3>1
    <3> QED
      BY <1>2, <3>2, VictimsDiffer
  <2>10. /\ Started' /\ LoadedSize' = LoadedSize /\ operations' = operations /\ loaded' = loaded
         /\ \A i : VictimIs(i)' = VictimIs(i)
    BY <1>1, <1>2, ParametersStay DEF program
  <2>11. Kept'
    BY <1>1, <2>1, <2>2, <2>6, <2>8, <2>10 DEF Kept
  <2>12. Erasing'
    <3>1. /\ erased' = 0 /\ 0 \in 0..operations /\ 0 + 1 = 1
          /\ updated' = LoadedSize + operations + 2 /\ Size' = updated'
          /\ delta' = LoadedSize + operations + 1 /\ Len(inserted)' = operations
      BY <1>1, <1>5, <2>1, <2>2, <2>6
    <3>2. {VictimIs(i)' : i \in erased'+1..operations'+1} = {VictimIs(i) : i \in 1..operations+1}
      BY <2>10, <3>1
    <3> QED
      BY <2>9, <2>10, <3>1, <3>2 DEF Erasing
  <2>13. Growing' /\ Tabled'
    BY <1>5 DEF Growing, Tabled
  <2> QED
    BY <1>3, <2>10, <2>11, <2>12, <2>13 DEF EInv, ProgramInv
<1> QED
  BY <1>1, <1>4, <1>5

\* One of the records to erase, which is there.
LEMMA EraseNextStep ==
  ASSUME EInv, EraseNext
  PROVE  EInv'
<1>1. /\ pc = "erase" /\ UNCHANGED <<program, inserted, delta, updated>>
      /\ \/ /\ Erase(Victims[erased + 1]) /\ erased' = erased + 1
            /\ pc' = IF erased' = Len(Victims) THEN "refresh" ELSE "erase"
         \/ ~IsActive(data, Victims[erased + 1])
  BY DEF EraseNext
<1>2. IndexInv /\ StoreInv /\ Started /\ Kept /\ Erasing
  BY DEF EInv, IndexInv, ProgramInv
<1>3. /\ inserted \in Seq(Nat) /\ \A i \in 1..Len(inserted) : inserted[i] = LoadedSize + i
      /\ LoadedSize <= Size /\ Len(inserted) = operations /\ erased \in 0..operations
      /\ delta = LoadedSize + operations + 1 /\ updated = LoadedSize + operations + 2
      /\ Size = updated
      /\ Active = 1..LoadedSize \cup {VictimIs(i) : i \in erased+1..operations+1}
      /\ \A i \in 1..LoadedSize : data.records[i] = loaded.records[i]
  BY <1>1, <1>2 DEF Kept, Erasing
<1>4. /\ LoadedSize \in Nat /\ operations \in Nat \ {0}
      /\ erased + 1 \in 1..operations+1 /\ erased + 1 \in erased+1..operations+1
  BY <1>2, <1>3, VictimsDiffer
<1>5. Len(Victims) = operations + 1 /\ Victims[erased + 1] = VictimIs(erased + 1)
  BY <1>2, <1>3, <1>4, VictimsAre
<1> DEFINE victim == VictimIs(erased + 1)
<1>6. victim \in Active /\ victim \in LoadedSize+1..LoadedSize+operations+2
  BY <1>2, <1>3, <1>4, VictimsDiffer
<1>7. IsActive(data, victim)
  BY <1>6 DEF IsActive, Active, ActiveIds
<1> HIDE DEF victim
<1>8. /\ Erase(victim) /\ erased' = erased + 1
      /\ pc' = IF erased' = operations + 1 THEN "refresh" ELSE "erase"
  BY <1>1, <1>5, <1>7 DEF victim
<1>9. IndexInv'
  BY <1>2, <1>8, EraseKeeps
<1>10. /\ Size' = Size /\ Active' = Active \ {victim}
       /\ \A e \in 1..Size : e # victim => data'.records[e] = data.records[e]
  BY <1>2, <1>7, <1>8, ErasedOK DEF Erase, StoreInv, Size, Active
<1>11. \A i \in 1..LoadedSize : data'.records[i] = loaded.records[i]
  <2>1. \A i \in 1..LoadedSize : i \in 1..Size /\ i # victim
    BY <1>3, <1>4, <1>6
  <2> QED
    BY <1>3, <1>10, <2>1
<1>12. Active' = 1..LoadedSize \cup {VictimIs(i) : i \in erased'+1..operations+1}
  <2>1. victim \notin 1..LoadedSize
    BY <1>4, <1>6
  <2>2. erased+1..operations+1 = {erased + 1} \cup (erased'+1..operations+1)
    BY <1>3, <1>4, <1>8
  <2>3. \A i \in erased'+1..operations+1 : VictimIs(i) # victim
    <3>1. \A i \in erased'+1..operations+1 : i \in 1..operations+1 /\ i # erased + 1
      BY <1>3, <1>4, <1>8
    <3> QED
      BY <1>2, <1>4, <3>1, VictimsDiffer DEF victim
  <2>4. {VictimIs(i) : i \in erased+1..operations+1}
          = {victim} \cup {VictimIs(i) : i \in erased'+1..operations+1}
    BY <2>2 DEF victim
  <2>5. victim \notin {VictimIs(i) : i \in erased'+1..operations+1}
    BY <2>3
  <2>6. \A S, T : victim \notin S /\ victim \notin T => (S \cup ({victim} \cup T)) \ {victim} = S \cup T
    OBVIOUS
  <2> QED
    BY ONLY <1>3, <1>10, <2>1, <2>4, <2>5, <2>6
<1>13. /\ Started' /\ LoadedSize' = LoadedSize /\ operations' = operations /\ loaded' = loaded
       /\ \A i : VictimIs(i)' = VictimIs(i)
  BY <1>1, <1>2, ParametersStay DEF program
<1>14. Kept'
  BY <1>1, <1>3, <1>8, <1>10, <1>11, <1>13 DEF Kept
<1>15. Erasing'
  <2>1. pc' = "erase" => erased' \in 0..operations
    BY <1>3, <1>4, <1>8
  <2>2. {VictimIs(i)' : i \in erased'+1..operations'+1} = {VictimIs(i) : i \in erased'+1..operations+1}
    BY <1>13
  <2> QED
    BY <1>1, <1>3, <1>10, <1>12, <1>13, <2>1, <2>2 DEF Erasing
<1>16. Growing' /\ Tabled'
  <2>1. pc' = "refresh" => Active' = 1..LoadedSize'
    <3>1. pc' = "refresh" => erased'+1..operations+1 = {}
      BY <1>4, <1>8
    <3> QED
      BY <1>12, <1>13, <3>1
  <2> QED
    BY <1>8, <2>1 DEF Growing, Tabled
<1> QED
  BY <1>5, <1>7, <1>9, <1>13, <1>14, <1>15, <1>16 DEF EInv, ProgramInv, victim

\* The index and the program agree in every state.
LEMMA ProgramInvariant == PSpec => []EInv
<1>1. EInv /\ [PNext]_<<vars, pvars>> => EInv'
  <2> SUFFICES ASSUME EInv, [PNext]_<<vars, pvars>> PROVE EInv'
    OBVIOUS
  <2>1. CASE UNCHANGED <<vars, pvars>>
    <3>1. IndexInv'
      BY <2>1, IndexRests DEF EInv
    <3>2. /\ Started' /\ LoadedSize' = LoadedSize /\ operations' = operations /\ loaded' = loaded
          /\ \A i : VictimIs(i)' = VictimIs(i)
      BY <2>1, ParametersStay DEF EInv, ProgramInv, pvars, program
    <3>3. /\ pc' = pc /\ inserted' = inserted /\ delta' = delta /\ updated' = updated
          /\ erased' = erased /\ Size' = Size /\ Active' = Active /\ Built' = Built
          /\ UNCHANGED <<data, clusters, tables, epoch, command>>
      BY <2>1 DEF vars, pvars, program, Size, Active, Built
    <3>4. Kept' /\ Growing' /\ Tabled'
      BY <3>2, <3>3 DEF EInv, ProgramInv, Kept, Growing, Tabled
    <3>5. Erasing'
      <4>1. {VictimIs(i)' : i \in erased'+1..operations'+1} = {VictimIs(i) : i \in erased+1..operations+1}
        BY <3>2, <3>3
      <4> QED
        BY <3>2, <3>3, <4>1 DEF EInv, ProgramInv, Erasing
    <3> QED
      BY <3>1, <3>2, <3>4, <3>5 DEF EInv, ProgramInv
  <2>2. CASE Preflight \/ Build
    BY <2>2, BuildStep
  <2>3. CASE Release \/ Query
    BY <2>3, QueryStep
  <2>4. CASE InsertCopy
    BY <2>4, InsertCopyStep
  <2>5. CASE InsertLarge
    BY <2>5, InsertLargeStep
  <2>6. CASE UpdateFirst
    BY <2>6, UpdateFirstStep
  <2>7. CASE EraseNext
    BY <2>7, EraseNextStep
  <2>8. CASE Refresh
    BY <2>8, RefreshStep
  <2> QED
    BY <2>1, <2>2, <2>3, <2>4, <2>5, <2>6, <2>7, <2>8 DEF PNext, Ended
<1> QED
  BY <1>1, ProgramInit, PTL DEF PSpec

\* The program inserts only while there is a table for every cluster (main.cpp,
\* experiment; Index::insert).
THEOREM ProgramHasTables == PSpec => []InsertsFindTables
<1>1. EInv => InsertsFindTables
  BY DEF EInv, ProgramInv, Tabled, IndexInv, IndexOK, Aligned, InsertsFindTables
<1> QED
  BY <1>1, ProgramInvariant, PTL

\* The program erases only records that are there, for any number of operations
\* (main.cpp, experiment; Collection::erase).
THEOREM ProgramErasesActive == PSpec => []ErasesFindRecords
<1>1. ASSUME EInv, pc = "erase" PROVE IsActive(data, Victims[erased + 1])
  <2>1. /\ Started /\ inserted \in Seq(Nat) /\ \A i \in 1..Len(inserted) : inserted[i] = LoadedSize + i
        /\ Len(inserted) = operations /\ erased \in 0..operations
        /\ delta = LoadedSize + operations + 1 /\ updated = LoadedSize + operations + 2
        /\ Active = 1..LoadedSize \cup {VictimIs(i) : i \in erased+1..operations+1}
    BY <1>1 DEF EInv, ProgramInv, Kept, Erasing
  <2>2. /\ operations \in Nat \ {0}
        /\ erased + 1 \in 1..operations+1 /\ erased + 1 \in erased+1..operations+1
    BY <2>1, VictimsDiffer
  <2>3. Victims[erased + 1] = VictimIs(erased + 1)
    BY <2>1, <2>2, VictimsAre
  <2>4. Victims[erased + 1] \in Active
    BY <2>1, <2>2, <2>3
  <2> QED
    BY <2>4 DEF IsActive, Active, ActiveIds
<1>2. EInv => ErasesFindRecords
  BY <1>1 DEF ErasesFindRecords
<1> QED
  BY <1>2, ProgramInvariant, PTL

\* The refresh finds the records of the load with the counts of the load and
\* leaves tables of no other (main.cpp, experiment; Index::refresh).
THEOREM ProgramLeavesTheLoaded == PSpec => []LeavesTheLoaded
<1>1. ASSUME EInv, pc = "refresh"
      PROVE  /\ Active = ActiveIds(loaded) /\ delta_ids = {}
             /\ data.df = loaded.df /\ data.active = loaded.active
             /\ \A i \in Active : data.records[i] = loaded.records[i]
  <2>1. /\ StoreOK(data) /\ delta_ids = DeltaIds(data) /\ Started /\ StoreOK(loaded)
        /\ ActiveIds(loaded) = 1..LoadedSize /\ Active = 1..LoadedSize /\ LoadedSize <= Size
        /\ \A i \in 1..LoadedSize : data.records[i] = loaded.records[i]
    BY <1>1 DEF EInv, ProgramInv, IndexInv, StoreInv, Kept, Tabled, Started
  <2>2. LoadedSize \in Nat /\ Size \in Nat
    BY <2>1 DEF StoreOK, Store, LoadedSize, Size
  <2>3. delta_ids = {}
    <3>1. \A i \in Active : ~data.records[i].delta
      BY <2>1, LoadedRecords
    <3> QED
      BY <2>1, <3>1 DEF DeltaIds, Active
  <2>4. data.active = loaded.active
    BY <2>1 DEF StoreOK, Active
  <2>5. ASSUME NEW j \in Dims PROVE data.df[j] = loaded.df[j]
    <3>1. \A i \in 1..Size : data.records[i].active => i \in 1..LoadedSize
      BY <2>1 DEF Active, ActiveIds, Size
    <3>2. \A i \in 1..LoadedSize : i \in 1..Size
      BY <2>1, <2>2
    <3>3. Positive(data.records, j) = Positive(loaded.records, j)
      BY <2>1, <3>1, <3>2 DEF Positive, Size, LoadedSize
    <3> QED
      BY <2>1, <3>3 DEF StoreOK
  <2>6. data.df = loaded.df
    <3>1. data.df \in [Dims -> Int] /\ loaded.df \in [Dims -> Int]
      BY <2>1 DEF StoreOK, Store
    <3> QED
      BY <2>5, <3>1
  <2> QED
    BY <2>1, <2>3, <2>4, <2>6
<1>2. EInv => LeavesTheLoaded
  BY <1>1 DEF EInv, ProgramInv, Tabled, LeavesTheLoaded
<1> QED
  BY <1>2, ProgramInvariant, PTL
=============================================================================
