----------------------------- MODULE Collection -----------------------------
(***************************************************************************)
(* The record store (io/dataset_loader.hpp, struct Collection): rows are   *)
(* appended under fresh identifiers and erased by a tombstone; df counts,  *)
(* per dimension, the active rows that are positive there.  Identifiers    *)
(* are positions in records, counted from 1 here.                          *)
(*                                                                         *)
(* A row is abstracted to what the index depends on: the dimensions it is  *)
(* positive in, its largest value, its norm, and the angle of its          *)
(* direction along an arc.                                                 *)
(***************************************************************************)
EXTENDS Integers, Sequences, FiniteSets

CONSTANTS
  Rows,      \* [dims, max, length, angle], rows that append accepts
  Invalid,   \* a row that append rejects: empty, unsorted, negative or zero
  Dims,
  NullSlot   \* append refuses to make more records (null_slot, 2^32-1 in the code)

ASSUME RowsAssumption ==
  /\ \A r \in Rows : /\ r.dims \in SUBSET Dims \ {{}}
                     /\ r.max \in Nat \ {0} /\ r.length \in Nat \ {0} /\ r.angle \in Nat
  /\ Invalid \notin Rows
  /\ NullSlot \in Nat

Positive(records, j) ==
  {i \in 1..Len(records) : records[i].active /\ j \in records[i].row.dims}

\* Collection(const CSR&): all rows active, none in the delta list
Loaded(rows) ==
  LET records == [i \in 1..Len(rows) |-> [row |-> rows[i], active |-> TRUE, delta |-> FALSE]]
  IN [records |-> records,
      df      |-> [j \in Dims |-> Cardinality(Positive(records, j))],
      active  |-> Len(rows)]

Accepts(store, row) == row \in Rows /\ Len(store.records) < NullSlot

Appended(store, row) ==
  [records |-> Append(store.records, [row |-> row, active |-> TRUE, delta |-> FALSE]),
   df      |-> [j \in Dims |-> IF j \in row.dims THEN store.df[j] + 1 ELSE store.df[j]],
   active  |-> store.active + 1]

IsActive(store, i) == i \in 1..Len(store.records) /\ store.records[i].active
ActiveIds(store)   == {i \in 1..Len(store.records) : store.records[i].active}

\* mutant: the document frequencies go on counting the erased row
ErasedKeepingDf(store, i) ==
  [records |-> [store.records EXCEPT ![i].active = FALSE, ![i].delta = FALSE],
   df |-> store.df, active |-> store.active - 1]

\* erase() throws unless IsActive(store, i)
Erased(store, i) ==
  LET r == store.records[i]
  IN [records |-> [store.records EXCEPT ![i].active = FALSE, ![i].delta = FALSE],
      df      |-> [j \in Dims |-> IF j \in r.row.dims THEN store.df[j] - 1 ELSE store.df[j]],
      active  |-> store.active - 1]
=============================================================================
