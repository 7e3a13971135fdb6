----------------------------- MODULE GroundTruth ----------------------------
(***************************************************************************)
(* The ground truth of an experiment (main.cpp 130-168): computed by exact *)
(* for every query of the split, or read from the ground_truth.csv that an *)
(* earlier run wrote, and written out again for later runs.  Runs differ   *)
(* in the query split, in kmax and in how much of the corpus they take     *)
(* (--limit); a run may be interrupted while it writes, and the file given *)
(* may be no such file at all.                                             *)
(*                                                                         *)
(* The queries are scanned in turn; the parallel loops over them share     *)
(* nothing.  A line cut short has a score with fewer digits or does not    *)
(* parse.                                                                  *)
(***************************************************************************)
EXTENDS ExactSearch, SequencesExt

CONSTANTS
  ScoreOf,  \* ScoreOf[q]: the inner products of query q with the records, from 0
  Limits,   \* --limit: a run takes that many records
  KMaxes,
  FileScores, \* scores explored in a file from elsewhere
  Tol,      \* the error allowed in a score that is read
  Digit,    \* what a score may lose when its last digits are cut off
  MaxRuns   \* bound on the runs explored

ASSUME TruthAssumption ==
  /\ IsFiniteSet(DOMAIN ScoreOf) /\ DOMAIN ScoreOf \subseteq Nat \ {0}
  /\ \A q \in DOMAIN ScoreOf : \A m \in Limits :
       0..m-1 \subseteq DOMAIN ScoreOf[q] /\ \A j \in 0..m-1 : ScoreOf[q][j] \in Int
  /\ Limits \subseteq Nat \ {0} /\ KMaxes \subseteq Nat \ {0}
  /\ FileScores \subseteq Int /\ Tol \in Nat /\ Digit \subseteq Nat /\ MaxRuns \in Nat

VARIABLES
  runs,    \* runs started
  phase,
  n, kmax, split,  \* the run's records, kmax and query_ids
  truth,   \* per position of split, the hits so far
  z,       \* the query exact is scanning for
  lines,   \* what is left of the file being read, {} when any line may follow
  file,    \* ground_truth.csv: {} or the set of its one content
  from     \* history: the corpus that the truth (the file) was computed on

tvars == <<runs, phase, n, kmax, split, truth, z, lines, file, from>>

Queries == DOMAIN ScoreOf
Splits  == {s \in BoundedSeq(Queries, Cardinality(Queries)) : s # <<>> /\ IsInjective(s)}
Less(a, b) == IF a <= b THEN a ELSE b
Within(a, b) == a - b \in -Tol..Tol

ScanOf(q, m, k) == [n |-> m, k |-> k, active |-> 0..m-1, score |-> [j \in 0..m-1 |-> ScoreOf[q][j]]]

Nothing == [n |-> 0, k |-> 1, active |-> {}, score |-> <<>>]

ASSUME ScansOfTruth ==
  Nothing \in Scans /\ \A q \in Queries, m \in Limits, k \in KMaxes : ScanOf(q, m, k) \in Scans

\* the hits of a scan, sorted
Ranked(hits) ==
  CHOOSE o \in [1..Cardinality(hits) -> hits] : \A a, b \in DOMAIN o : a < b => Better(o[a], o[b])

\* ground_truth.csv of a run
LinesOf(sp, tr) ==
  FlattenSeq([y \in DOMAIN sp |->
    [p \in DOMAIN tr[y] |-> [q |-> sp[y], rank |-> p, id |-> tr[y][p][2], score |-> tr[y][p][1]]]])
Garbled == [q |-> 0, rank |-> 0, id |-> -1, score |-> 0]

GInit ==
  /\ scan = Nothing /\ i = 0 /\ heap = {}
  /\ runs = 0 /\ phase = "ended"
  /\ n = 0 /\ kmax = 0 /\ split = <<>> /\ truth = <<>> /\ z = 0
  /\ lines = {} /\ file = {} /\ from = 0

\* between two runs only the file is left
End ==
  /\ phase' = "ended"
  /\ n' = 0 /\ kmax' = 0 /\ split' = <<>> /\ truth' = <<>> /\ z' = 0 /\ lines' = {}

-----------------------------------------------------------------------------
\* kmax > n is "Invalid query split/k/repetitions"
Start(m, k, sp) ==
  /\ phase = "ended" /\ runs < MaxRuns /\ k <= m
  /\ runs' = runs + 1
  /\ n' = m /\ kmax' = k /\ split' = sp
  /\ truth' = [y \in DOMAIN sp |-> <<>>]
  /\ UNCHANGED file

StartExact(m, k, sp) ==
  /\ Start(m, k, sp)
  /\ phase' = "exact" /\ z' = 1 /\ from' = m /\ lines' = {}
  /\ scan' = ScanOf(sp[1], m, k) /\ i' = 0 /\ heap' = {}

\* --ground-truth with the file of an earlier run, or with any other
StartCached(m, k, sp) ==
  /\ Start(m, k, sp)
  /\ phase' = "read" /\ z' = 0
  /\ \/ file # {} /\ lines' = file /\ from' = from
     \/ lines' = {} /\ from' = 0
  /\ UNCHANGED vars

ScanRecord == phase = "exact" /\ Next /\ UNCHANGED tvars

EndScan ==
  /\ phase = "exact" /\ i = scan.n
  /\ truth' = [truth EXCEPT ![z] = Ranked(heap)]
  /\ IF z < Len(split)
     THEN /\ z' = z + 1 /\ scan' = ScanOf(split[z + 1], n, kmax) /\ i' = 0 /\ heap' = {}
          /\ UNCHANGED phase
     ELSE /\ phase' = "write" /\ z' = 0
          /\ scan' = Nothing /\ i' = 0 /\ heap' = {}
  /\ UNCHANGED <<runs, n, kmax, split, lines, file, from>>

-----------------------------------------------------------------------------
\* the lines that may come next
Upcoming ==
  IF lines = {}
  THEN [q : Queries, rank : 1..kmax+1, id : 0..n, score : FileScores]
  ELSE {s[1] : s \in lines \ {<<>>}}

Position(q) == CHOOSE y \in DOMAIN split : split[y] = q

Parses(line) == line.id \in 0..n-1

\* mutant: equal entries pass, so that a record may be listed twice
InOrder(target, hit) == target # <<>> => Last(target)[1] >= hit[1]

Sorted(target, hit) == target # <<>> => Better(Last(target), hit)

Fits(line) ==
  LET target == truth[Position(line.q)]
  IN /\ line.rank = Len(target) + 1 /\ line.rank <= kmax
     /\ Within(line.score, ScoreOf[line.q][line.id])
     /\ Sorted(target, <<line.score, line.id>>)

Skip(line) ==
  /\ Parses(line) /\ line.q \notin ToSet(split)
  /\ lines' = {Tail(s) : s \in lines}
  /\ UNCHANGED <<phase, n, kmax, split, truth, z>>

Take(line) ==
  /\ Parses(line) /\ line.q \in ToSet(split) /\ Fits(line)
  /\ truth' = [truth EXCEPT ![Position(line.q)] = Append(@, <<line.score, line.id>>)]
  /\ lines' = {Tail(s) : s \in lines}
  /\ UNCHANGED <<phase, n, kmax, split, z>>

\* the errors are told apart by their messages only
Refuse(line) ==
  /\ ~(Parses(line) /\ (line.q \in ToSet(split) => Fits(line)))
  /\ End

ReadLine(line) ==
  /\ phase = "read"
  /\ Skip(line) \/ Take(line) \/ Refuse(line)
  /\ UNCHANGED <<vars, runs, file, from>>

\* mutant: a cache may lack the last hits
NotEmpty == \A y \in DOMAIN truth : truth[y] # <<>>

Complete == \A y \in DOMAIN truth : Len(truth[y]) = kmax

EndOfFile ==
  /\ phase = "read" /\ lines \in {{}, {<<>>}}
  /\ IF Complete
     THEN phase' = "write" /\ lines' = {} /\ UNCHANGED <<n, kmax, split, truth, z>>
     ELSE End
  /\ UNCHANGED <<vars, runs, file, from>>

\* the file is truncated when it is opened; the run ends, or is interrupted and
\* leaves some of the lines, the last of them cut short
Write ==
  /\ phase = "write"
  /\ LET all == LinesOf(split, truth)
     IN \E c \in 0..Len(all) :
          \/ file' = {SubSeq(all, 1, c)}
          \/ c > 0 /\ \E line \in {[all[c] EXCEPT !.score = @ - d] : d \in Digit} \cup {Garbled} :
               file' = {Append(SubSeq(all, 1, c - 1), line)}
  /\ from' = Less(from, n)
  /\ End
  /\ UNCHANGED <<vars, runs>>

GNext ==
  \/ \E m \in Limits, k \in KMaxes, sp \in Splits : StartExact(m, k, sp) \/ StartCached(m, k, sp)
  \/ ScanRecord \/ EndScan
  \/ \E line \in Upcoming : ReadLine(line)
  \/ EndOfFile \/ Write

GSpec == GInit /\ [][GNext]_<<vars, tvars>>

-----------------------------------------------------------------------------
ExactRanking(q) == Ranked(Best(kmax, {<<ScoreOf[q][j], j>> : j \in 0..n-1}))
IdsOf(hits) == [p \in DOMAIN hits |-> hits[p][2]]

\* Whatever file it is given, the program goes on only with kmax records for every
\* query of the split, ranked, and with their scores: the first k of them are read
\* without a check when recall is measured.  They are different records where the
\* scores were computed or left by earlier runs; a file from elsewhere may list one
\* record twice, with two scores that are both near enough, as each line is compared
\* with the one before only.
TruthIsRanked ==
  phase = "write" =>
    \A y \in DOMAIN split :
      /\ Len(truth[y]) = kmax /\ (from > 0 => IsInjective(IdsOf(truth[y])))
      /\ \A p \in DOMAIN truth[y] :
           /\ truth[y][p][2] \in 0..n-1
           /\ Within(truth[y][p][1], ScoreOf[split[y]][truth[y][p][2]])
           /\ p > 1 => Better(truth[y][p - 1], truth[y][p])

\* A cache that an earlier run left, whole or cut short, of another split, another
\* kmax or through a chain of caches, is refused or is the exact answer, provided
\* it was computed on no fewer records than this run takes.
CacheIsExact ==
  phase = "write" /\ from >= n =>
    \A y \in DOMAIN split : IdsOf(truth[y]) = IdsOf(ExactRanking(split[y]))
=============================================================================
