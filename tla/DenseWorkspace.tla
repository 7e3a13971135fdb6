--------------------------- MODULE DenseWorkspace ---------------------------
(***************************************************************************)
(* The dense copy of the query in the thread's workspace (prepare_query    *)
(* and exact_dense_dot, search/query_workspace.hpp), on which a search     *)
(* computes every exact score.  It is not cleared as a whole: a query      *)
(* takes back the coordinates of the one before it on this thread, which   *)
(* may have been of another collection, and a search that was left by an   *)
(* exception takes nothing back.                                           *)
(*                                                                         *)
(* A row is a function from its coordinates to its values.  An allocation  *)
(* that fails inside prepare_query is left out.                            *)
(***************************************************************************)
EXTENDS QueryWorkspace, FiniteSetsExt

CONSTANTS
  DimOf(_),  \* the dimensions of a call's collection
  Values     \* values of a coordinate

ASSUME DenseAssumption ==
  Values \subseteq Int /\ \A c \in Calls : DimOf(c) \in Nat \ {0}

VARIABLES
  query_values,       \* the array, from 0
  query_coordinates,
  query_max,
  query               \* history: the query being answered

dense == <<query_values, query_coordinates, query_max, query>>

\* a row without entries is never loaded, and a query without them has an empty sketch
Vectors(d) == UNION {[S -> Values] : S \in SUBSET (0..d-1) \ {{}}}

DInit ==
  /\ WInit
  /\ query_values = Zeros(0) /\ query_coordinates = {} /\ query_max = -1
  /\ query = Zeros(0)

-----------------------------------------------------------------------------
\* mutant: what the new query does not overwrite is left
NotCleared(values) == values

Cleared(values) == [c \in DOMAIN values |-> IF c \in query_coordinates THEN 0 ELSE values[c]]

\* mutant: the query's last coordinate is not read
ReadBelow(document) == {c \in DOMAIN document : c < query_max}

\* the coordinates of a document before the loop breaks
Read(document) == {c \in DOMAIN document : c <= query_max}

PrepareQuery(row, d) ==
  LET values == Resize(Cleared(query_values), d) IN
  /\ query_values' = [c \in 0..d-1 |-> IF c \in DOMAIN row THEN row[c] ELSE values[c]]
  /\ query_coordinates' = DOMAIN row
  /\ query_max' = Max({-1} \cup DOMAIN row)
  /\ query' = row

DNext ==
  \/ \E c \in Calls : \E row \in Vectors(DimOf(c)) : Begin(c) /\ PrepareQuery(row, DimOf(c))
  \/ WStep /\ UNCHANGED dense

DSpec == DInit /\ [][DNext]_<<wvars, dense>>

ExactDenseDot(document) ==
  MapThenSumSet(LAMBDA c : query_values[c] * document[c], Read(document))

\* dot: the sparse inner product, by a merge of the coordinates
Dot(a, b) == MapThenSumSet(LAMBDA c : a[c] * b[c], DOMAIN a \cap DOMAIN b)

-----------------------------------------------------------------------------
\* Whatever was searched before on this thread, in collections of any dimension
\* and left by whatever exception, the dense score of a document is its inner
\* product with this query: "dense scoring preserves original double
\* accumulation" (the program's self-test) for every sequence of queries.
DenseIsSparse ==
  phase # "idle" =>
    \A document \in Vectors(DimOf(call)) : ExactDenseDot(document) = Dot(query, document)
=============================================================================
