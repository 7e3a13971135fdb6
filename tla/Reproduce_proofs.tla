-------------------------- MODULE Reproduce_proofs --------------------------
(***************************************************************************)
(* Proofs about the reproduction run and the data preparation beside it:   *)
(* for a file of any length, any number of sources, edits, failures and    *)
(* interruptions, and two processes at a time, a data file that was        *)
(* verified stays whole and what is called completed is what is on record. *)
(***************************************************************************)
EXTENDS Reproduce, FiniteSetTheorems, TLAPS

Stages == {"idle", "look", "open", "write", "inspect", "read", "replace", "prepared", "record"}
            \cup Guarded

DataTypes ==
  /\ name \in [part : Inodes \cup {None}, path : Inodes \cup {None}]
  /\ content \in [Inodes -> SUBSET (1..Blocks)]
  /\ pc \in [Procs -> Stages]
  /\ fd \in [Procs -> Inodes \cup {None}] /\ at \in [Procs -> 0..Blocks]
  /\ checking \in [Procs -> {"part", "path"}]
  /\ \A p \in Procs :
       /\ pc[p] \in {"write", "read"} => fd[p] \in Inodes
       /\ checking[p] = "part" => pc[p] \in {"inspect", "read", "replace"}

\* a process that is at work on the .part file, or about to be
Fetching(p) == \/ pc[p] \in {"open", "write", "replace"}
               \/ pc[p] \in {"inspect", "read"} /\ checking[p] = "part"

\* a name of its own for each inode
Apart == name.part # None => name.part # name.path

\* who has renamed the file does not download it again, so one is left at most
OneFetches ==
  name.path # None => \A p, q \in Procs : Fetching(p) /\ Fetching(q) => p = q

\* and the .part file is that one's
PartIsTheirs ==
  name.path # None /\ name.part # None => \A p \in Procs :
    /\ pc[p] = "write" \/ (pc[p] = "read" /\ checking[p] = "part") =>
         fd[p] = name.part /\ 1..at[p] \subseteq content[name.part]
    /\ pc[p] = "replace" => Whole(name.part)

\* what is read under the final name either still has it or gave it up to a whole file
PathIsRead ==
  \A p \in Procs : pc[p] = "read" /\ checking[p] = "path" =>
    /\ name.path # None
    /\ \/ Whole(name.path)
       \/ fd[p] = name.path /\ 1..at[p] \subseteq content[name.path]

DataInv == DataTypes /\ Apart /\ OneFetches /\ PartIsTheirs /\ PathIsRead /\ VerifiedStaysWhole

-----------------------------------------------------------------------------
\* Inode 0 is no inode.
LEMMA NoneIsNone ==
  /\ Cardinality(Procs) \in Nat /\ None \notin Inodes /\ None = 0 /\ IsFiniteSet(Inodes)
  /\ Cardinality(Inodes) = Cardinality(Procs) + 2
<1>1. Cardinality(Procs) \in Nat
  BY PrepareAssumption, FS_CardinalityType
<1>2. 1 \in Int /\ Cardinality(Procs) + 2 \in Int
  BY <1>1
<1>3. /\ IsFiniteSet(1..Cardinality(Procs) + 2)
      /\ Cardinality(1..Cardinality(Procs) + 2) = Cardinality(Procs) + 2
  <2>1. IF 1 > Cardinality(Procs) + 2 THEN Cardinality(Procs) + 2 = 0
        ELSE Cardinality(Procs) + 2 - 1 + 1 = Cardinality(Procs) + 2
    BY <1>1
  <2>2. ~(1 > Cardinality(Procs) + 2)
    BY <1>1
  <2> QED
    BY <1>2, <2>1, <2>2, FS_Interval
<1> QED
  BY <1>1, <1>3 DEF None, Inodes

\* Of two processes, one is left beside another.
LEMMA TwoAtMost ==
  ASSUME Cardinality(Procs) <= 2, NEW p \in Procs, NEW q \in Procs, NEW r \in Procs,
         q # p, r # p
  PROVE  q = r
<1> SUFFICES ASSUME q # r PROVE FALSE
  OBVIOUS
<1>1. /\ IsFiniteSet({}) /\ Cardinality({}) = 0
      /\ IsFiniteSet({p}) /\ Cardinality({p}) = 1
  BY FS_EmptySet, FS_Singleton
<1>2. IsFiniteSet({p} \cup {q}) /\ Cardinality({p} \cup {q}) = 2
  BY <1>1, FS_AddElement
<1>3. Cardinality(({p} \cup {q}) \cup {r}) = 3
  BY <1>2, FS_AddElement
<1>4. ({p} \cup {q}) \cup {r} \subseteq Procs
  OBVIOUS
<1>5. 3 <= Cardinality(Procs)
  BY <1>3, <1>4, PrepareAssumption, FS_Subset
<1> QED
  BY <1>5, NoneIsNone

\* There is always a free inode.
LEMMA PartInodeIs ==
  ASSUME DataInv
  PROVE  /\ PartInode \in Inodes /\ PartInode # name.path
         /\ name.part # None => PartInode = name.part
<1>1. /\ name \in [part : Inodes \cup {None}, path : Inodes \cup {None}]
      /\ fd \in [Procs -> Inodes \cup {None}]
      /\ name.part # None => name.part # name.path
  BY DEF DataInv, DataTypes, Apart
<1>2. CASE name.part # None
  BY <1>1, <1>2 DEF PartInode
<1>3. CASE name.part = None
  <2> DEFINE open == {fd[p] : p \in Procs}
             taken == open \cup {name.path}
  <2>1. IsFiniteSet(open) /\ Cardinality(open) <= Cardinality(Procs)
    <3>1. fd \in Surjection(Procs, open)
      BY <1>1 DEF Surjection
    <3> HIDE DEF open
    <3> QED
      BY <3>1, PrepareAssumption, FS_Surjection
  <2>2. /\ IsFiniteSet(taken) /\ Cardinality(taken) <= Cardinality(open) + 1
        /\ Cardinality(open) \in Nat /\ Cardinality(taken) \in Nat
    <3> HIDE DEF open
    <3>1. Cardinality(taken) = IF name.path \in open THEN Cardinality(open) ELSE Cardinality(open) + 1
      BY <2>1, FS_AddElement
    <3>2. Cardinality(open) \in Nat /\ IsFiniteSet(taken)
      BY <2>1, FS_AddElement, FS_CardinalityType
    <3> QED
      BY <3>1, <3>2
  <2>3. \E inode \in Inodes : inode \notin taken
    <3> HIDE DEF taken, open
    <3>1. ~(Inodes \subseteq taken)
      <4> SUFFICES ASSUME Inodes \subseteq taken PROVE FALSE
        OBVIOUS
      <4>1. Cardinality(Inodes) <= Cardinality(taken)
        BY <2>2, FS_Subset
      <4> QED
        BY <2>1, <2>2, <4>1, NoneIsNone
    <3> QED
      BY <3>1
  <2>4. \E inode \in Inodes : inode # name.path /\ \A p \in Procs : fd[p] # inode
    BY <2>3
  <2> HIDE DEF taken, open
  <2>5. PartInode = CHOOSE inode \in Inodes : inode # name.path /\ \A p \in Procs : fd[p] # inode
    BY <1>3 DEF PartInode
  <2> QED
    BY <1>3, <2>4, <2>5
<1> QED
  BY <1>2, <1>3

-----------------------------------------------------------------------------
(***************************************************************************)
(* The steps of a data preparation                                         *)
(***************************************************************************)

\* what a step of p leaves alone: names, contents and the other processes
Moves(p) ==
  /\ UNCHANGED <<name, content>> /\ DataTypes'
  /\ \A q \in Procs \ {p} : pc'[q] = pc[q] /\ fd'[q] = fd[q] /\ at'[q] = at[q] /\ checking'[q] = checking[q]

\* A step that only moves p, and not into the middle of anything.
LEMMA MovesAlong ==
  ASSUME DataInv, NEW p \in Procs, Moves(p), verified' = verified,
         Fetching(p)' => Fetching(p) \/ name.path = None,
         pc'[p] \notin {"write", "read", "replace"}
  PROVE  DataInv'
<1>1. Apart' /\ VerifiedStaysWhole' /\ DataTypes'
  BY DEF Moves, DataInv, Apart, VerifiedStaysWhole, Whole
<1>2. \A q \in Procs \ {p} : Fetching(q)' <=> Fetching(q)
  BY DEF Moves, Fetching
<1>3. OneFetches'
  BY <1>2 DEF Moves, DataInv, OneFetches
<1>4. PartIsTheirs'
  BY DEF Moves, DataInv, PartIsTheirs, Whole
<1>5. PathIsRead'
  BY DEF Moves, DataInv, PathIsRead, Whole
<1> QED
  BY <1>1, <1>3, <1>4, <1>5 DEF DataInv

\* A process that gives up or ends.
LEMMA LeavesOK ==
  ASSUME DataInv, NEW p \in Procs, Leaves(p), UNCHANGED <<name, content, verified>>
  PROVE  DataInv'
<1>1. "idle" \in Stages /\ None \in Inodes \cup {None} /\ 0 \in 0..Blocks
  BY PrepareAssumption DEF Stages
<1>2. /\ pc' = [pc EXCEPT ![p] = "idle"] /\ fd' = [fd EXCEPT ![p] = None]
      /\ at' = [at EXCEPT ![p] = 0] /\ checking' = [checking EXCEPT ![p] = "path"]
  BY DEF Leaves, Goes
<1>3. DataTypes'
  BY <1>1, <1>2 DEF DataInv, DataTypes
<1>4. Moves(p)
  BY <1>2, <1>3 DEF Moves, DataInv, DataTypes
<1>5. pc'[p] = "idle"
  BY <1>2 DEF DataInv, DataTypes
<1> QED
  BY <1>4, <1>5, MovesAlong DEF Fetching

\* A process that goes to a stage outside the preparation, or begins one.
LEMMA GoesOK ==
  ASSUME DataInv, NEW p \in Procs, NEW stage \in Stages, Goes(p, stage),
         stage \notin {"write", "inspect", "read", "replace"}, checking[p] = "path",
         stage = "open" => name.path = None,
         UNCHANGED <<name, content, fd, at, checking, verified>>
  PROVE  DataInv'
<1>1. pc' = [pc EXCEPT ![p] = stage]
  BY DEF Goes
<1>2. DataTypes'
  BY <1>1 DEF DataInv, DataTypes
<1>3. Moves(p)
  BY <1>1, <1>2 DEF Moves, DataInv, DataTypes
<1>4. pc'[p] = stage
  BY <1>1 DEF DataInv, DataTypes
<1> QED
  BY <1>3, <1>4, MovesAlong DEF Fetching

\* path.exists()
LEMMA LookOK ==
  ASSUME DataInv, NEW p \in Procs, Look(p)
  PROVE  DataInv'
<1>1. UNCHANGED <<name, content, verified>> /\ checking[p] = "path"
  BY DEF Look, DataInv, DataTypes
<1>2. CASE name.path # None /\ Goes(p, "inspect") /\ UNCHANGED <<offline, fd, at, checking>>
  <2>1. pc' = [pc EXCEPT ![p] = "inspect"] /\ "inspect" \in Stages
    BY <1>2 DEF Goes, Stages
  <2>2. DataTypes'
    BY <1>1, <1>2, <2>1 DEF DataInv, DataTypes
  <2>3. Moves(p) /\ pc'[p] = "inspect" /\ checking'[p] = "path"
    BY <1>1, <1>2, <2>1, <2>2 DEF Moves, DataInv, DataTypes
  <2> QED
    BY <1>1, <2>3, MovesAlong DEF Fetching
<1>3. CASE name.path = None /\ Goes(p, "open") /\ UNCHANGED <<offline, fd, at, checking>>
  <2>1. "open" \in Stages
    BY DEF Stages
  <2> QED
    BY <1>1, <1>3, <2>1, GoesOK
<1>4. CASE Leaves(p)
  BY <1>1, <1>4, LeavesOK
<1> QED
  BY <1>2, <1>3, <1>4 DEF Look

\* The download starts over, in an inode that has not the final name.
LEMMA OpenPartOK ==
  ASSUME DataInv, NEW p \in Procs, OpenPart(p)
  PROVE  DataInv'
<1>1. /\ pc[p] = "open" /\ pc' = [pc EXCEPT ![p] = "write"]
      /\ name' = [name EXCEPT !.part = PartInode] /\ fd' = [fd EXCEPT ![p] = PartInode]
      /\ content' = [content EXCEPT ![PartInode] = {}] /\ at' = [at EXCEPT ![p] = 0]
      /\ UNCHANGED <<checking, verified>>
  BY DEF OpenPart, Goes
<1>2. PartInode \in Inodes /\ PartInode # name.path /\ PartInode # None
  BY PartInodeIs, NoneIsNone
<1>3. DataTypes /\ "write" \in Stages /\ 0 \in 0..Blocks
  BY PrepareAssumption DEF DataInv, Stages
<1>4. /\ name'.part = PartInode /\ name'.path = name.path
      /\ pc'[p] = "write" /\ fd'[p] = PartInode /\ at'[p] = 0
      /\ content'[PartInode] = {}
      /\ \A inode \in Inodes \ {PartInode} : content'[inode] = content[inode]
      /\ \A q \in Procs \ {p} : pc'[q] = pc[q] /\ fd'[q] = fd[q] /\ at'[q] = at[q]
  BY <1>1, <1>2, <1>3 DEF DataTypes
<1>5. DataTypes'
  BY <1>1, <1>2, <1>3 DEF DataTypes
<1>6. Apart'
  BY <1>2, <1>4 DEF Apart
<1>7. \A q \in Procs : Fetching(q)' <=> Fetching(q)
  BY <1>1, <1>4 DEF Fetching
<1>8. OneFetches'
  BY <1>4, <1>7 DEF DataInv, OneFetches
<1>9. name.path # None => \A q \in Procs \ {p} : ~Fetching(q)
  BY <1>1 DEF DataInv, OneFetches, Fetching
<1>10. PartIsTheirs'
  <2>1. 1..0 = {}
    OBVIOUS
  <2> QED
    BY <1>1, <1>4, <1>7, <1>9, <2>1 DEF PartIsTheirs, Fetching
<1>11. name.path # None => name.path \in Inodes \ {PartInode}
  BY <1>2, <1>3 DEF DataTypes
<1>12. PathIsRead'
  BY <1>1, <1>4, <1>11 DEF DataInv, PathIsRead, Whole
<1>13. VerifiedStaysWhole'
  BY <1>1, <1>4, <1>11 DEF DataInv, VerifiedStaysWhole, Whole
<1> QED
  BY <1>5, <1>6, <1>8, <1>10, <1>12, <1>13 DEF DataInv

\* A block arrives, in the inode that was opened.
LEMMA WriteBlockOK ==
  ASSUME DataInv, NEW p \in Procs, WriteBlock(p)
  PROVE  DataInv'
<1>1. /\ pc[p] = "write" /\ at[p] < Blocks /\ at' = [at EXCEPT ![p] = @ + 1]
      /\ content' = [content EXCEPT ![fd[p]] = @ \cup {at[p] + 1}]
      /\ UNCHANGED <<name, pc, fd, checking, verified>>
  BY DEF WriteBlock
<1>2. DataTypes /\ fd[p] \in Inodes /\ at[p] \in 0..Blocks /\ Blocks \in Nat
  BY <1>1, PrepareAssumption DEF DataInv, DataTypes
<1>3. at[p] + 1 \in 1..Blocks /\ at[p] + 1 \in 0..Blocks /\ 1..at[p]+1 = (1..at[p]) \cup {at[p] + 1}
  BY <1>1, <1>2
<1>4. /\ at'[p] = at[p] + 1 /\ \A q \in Procs \ {p} : at'[q] = at[q]
      /\ content'[fd[p]] = content[fd[p]] \cup {at[p] + 1}
      /\ \A inode \in Inodes : /\ content[inode] \subseteq content'[inode]
                               /\ content'[inode] \subseteq 1..Blocks
  BY <1>1, <1>2, <1>3 DEF DataTypes
<1>5. DataTypes'
  BY <1>1, <1>2, <1>3, <1>4 DEF DataTypes
<1>6. Apart' /\ OneFetches'
  BY <1>1 DEF DataInv, Apart, OneFetches, Fetching
<1>7. \A inode : inode \in Inodes \cup {None} /\ Whole(inode) => Whole(inode)'
  BY <1>2, <1>4 DEF Whole
<1>8. name.part \in Inodes \cup {None} /\ name.path \in Inodes \cup {None}
  BY <1>2 DEF DataTypes
<1>9. PartIsTheirs'
  <2>1. name.path # None => \A q \in Procs : Fetching(q) => q = p
    BY <1>1 DEF DataInv, OneFetches, Fetching
  <2>2. name.path # None /\ name.part # None =>
          fd[p] = name.part /\ 1..at'[p] \subseteq content'[name.part]
    BY <1>1, <1>3, <1>4 DEF DataInv, PartIsTheirs
  <2> QED
    BY <1>1, <1>7, <1>8, <2>1, <2>2 DEF DataInv, PartIsTheirs, Fetching
<1>10. PathIsRead'
  BY <1>1, <1>4, <1>7, <1>8 DEF DataInv, PathIsRead
<1>11. VerifiedStaysWhole'
  BY <1>1, <1>7, <1>8 DEF DataInv, VerifiedStaysWhole
<1> QED
  BY <1>5, <1>6, <1>9, <1>10, <1>11 DEF DataInv

\* The download ends.
LEMMA EndDownloadOK ==
  ASSUME DataInv, NEW p \in Procs, EndDownload(p)
  PROVE  DataInv'
<1>1. /\ pc[p] = "write" /\ pc' = [pc EXCEPT ![p] = "inspect"]
      /\ checking' = [checking EXCEPT ![p] = "part"]
      /\ fd' = [fd EXCEPT ![p] = None] /\ at' = [at EXCEPT ![p] = 0]
      /\ UNCHANGED <<name, content, verified>>
  BY DEF EndDownload, Goes
<1>2. "inspect" \in Stages /\ 0 \in 0..Blocks
  BY PrepareAssumption DEF Stages
<1>3. DataTypes'
  BY <1>1, <1>2 DEF DataInv, DataTypes
<1>4. Moves(p) /\ pc'[p] = "inspect" /\ Fetching(p)
  BY <1>1, <1>3 DEF Moves, DataInv, DataTypes, Fetching
<1> QED
  BY <1>1, <1>4, MovesAlong

\* The header and the size.
LEMMA InspectOK ==
  ASSUME DataInv, NEW p \in Procs, Inspect(p)
  PROVE  DataInv'
<1> DEFINE inode == name[checking[p]]
<1>1. CASE inode # None /\ Goes(p, "read") /\ fd' = [fd EXCEPT ![p] = inode] /\ at' = [at EXCEPT ![p] = 0]
           /\ UNCHANGED <<offline, checking>>
  <2>1. /\ pc[p] = "inspect" /\ pc' = [pc EXCEPT ![p] = "read"]
        /\ UNCHANGED <<name, content, verified>>
    BY <1>1 DEF Inspect, Goes
  <2>2. /\ DataTypes /\ inode = IF checking[p] = "part" THEN name.part ELSE name.path
        /\ checking[p] \in {"part", "path"} /\ inode \in Inodes
        /\ "read" \in Stages /\ 0 \in 0..Blocks /\ 1..0 = {}
    BY <1>1, PrepareAssumption DEF DataInv, DataTypes, Stages
  <2> HIDE DEF inode
  <2>3. DataTypes'
    BY <1>1, <2>1, <2>2 DEF DataTypes
  <2>4. /\ pc'[p] = "read" /\ fd'[p] = inode /\ at'[p] = 0 /\ checking' = checking
        /\ \A q \in Procs \ {p} : pc'[q] = pc[q] /\ fd'[q] = fd[q] /\ at'[q] = at[q]
    BY <1>1, <2>1, <2>2 DEF DataTypes
  <2>5. Apart' /\ VerifiedStaysWhole'
    BY <2>1 DEF DataInv, Apart, VerifiedStaysWhole, Whole
  <2>6. \A q \in Procs : Fetching(q)' <=> Fetching(q)
    BY <2>1, <2>4 DEF Fetching
  <2>7. OneFetches'
    BY <2>1, <2>6 DEF DataInv, OneFetches
  <2>8. PartIsTheirs'
    BY <2>1, <2>2, <2>4 DEF DataInv, PartIsTheirs, Whole
  <2>9. PathIsRead'
    BY <1>1, <2>1, <2>2, <2>4 DEF DataInv, PathIsRead, Whole
  <2> QED
    BY <2>3, <2>5, <2>7, <2>8, <2>9 DEF DataInv
<1>2. CASE Leaves(p)
  BY <1>2, LeavesOK DEF Inspect
<1> QED
  BY <1>1, <1>2 DEF Inspect

\* A block of what is hashed.  At the end of it the file is whole, or its name
\* has been given to another that is.
LEMMA ReadBlockOK ==
  ASSUME DataInv, NEW p \in Procs, ReadBlock(p)
  PROVE  /\ DataInv'
         /\ pc'[p] = "prepared" => verified'
<1>1. pc[p] = "read" /\ UNCHANGED <<name, content>> /\ DataTypes /\ at[p] \in 0..Blocks /\ Blocks \in Nat
  BY PrepareAssumption DEF ReadBlock, DataInv, DataTypes
<1>2. CASE /\ at[p] < Blocks /\ at[p] + 1 \in content[fd[p]]
           /\ at' = [at EXCEPT ![p] = @ + 1]
           /\ UNCHANGED <<pc, offline, fd, checking, verified>>
  <2>1. at[p] + 1 \in 0..Blocks /\ 1..at[p]+1 = (1..at[p]) \cup {at[p] + 1}
    BY <1>1, <1>2
  <2>2. DataTypes' /\ at'[p] = at[p] + 1 /\ \A q \in Procs \ {p} : at'[q] = at[q]
    BY <1>1, <1>2, <2>1 DEF DataTypes
  <2>3. Apart' /\ OneFetches' /\ VerifiedStaysWhole'
    BY <1>1, <1>2 DEF DataInv, Apart, OneFetches, Fetching, VerifiedStaysWhole, Whole
  <2>4. PartIsTheirs'
    BY <1>1, <1>2, <2>1, <2>2 DEF DataInv, PartIsTheirs, Whole
  <2>5. PathIsRead'
    BY <1>1, <1>2, <2>1, <2>2 DEF DataInv, PathIsRead, Whole
  <2> QED
    BY <1>1, <1>2, <2>2, <2>3, <2>4, <2>5 DEF DataInv
<1>3. CASE Leaves(p) /\ UNCHANGED verified
  <2>1. pc'[p] = "idle"
    BY <1>1, <1>3 DEF Leaves, Goes, DataTypes
  <2> QED
    BY <1>1, <1>3, <2>1, LeavesOK
<1>4. CASE at[p] = Blocks /\ Checked(p)
  <2>1. /\ fd' = [fd EXCEPT ![p] = None] /\ at' = [at EXCEPT ![p] = 0] /\ checking' = checking
        /\ \/ checking[p] = "part" /\ pc' = [pc EXCEPT ![p] = "replace"] /\ verified' = verified
           \/ checking[p] = "path" /\ pc' = [pc EXCEPT ![p] = "prepared"] /\ verified' = TRUE
    BY <1>4 DEF Checked, Goes
  <2>2. {"replace", "prepared"} \subseteq Stages /\ 0 \in 0..Blocks
    BY <1>1 DEF Stages
  <2>3. DataTypes'
    BY <1>1, <2>1, <2>2 DEF DataTypes
  <2>4. Moves(p)
    BY <1>1, <2>1, <2>3 DEF Moves, DataTypes
  <2>5. \A inode \in Inodes : 1..at[p] \subseteq content[inode] => Whole(inode)
    BY <1>1, <1>4, NoneIsNone DEF DataTypes, Whole
  <2>6. CASE checking[p] = "part"
    <3>1. pc'[p] = "replace" /\ Fetching(p) /\ verified' = verified
      BY <1>1, <2>1, <2>6 DEF DataTypes, Fetching
    <3>2. Apart' /\ VerifiedStaysWhole'
      BY <1>1, <3>1 DEF DataInv, Apart, VerifiedStaysWhole, Whole
    <3>3. OneFetches'
      BY <1>1, <2>4, <3>1 DEF DataInv, OneFetches, Moves, Fetching
    <3>4. name.path # None /\ name.part # None => Whole(name.part)
      BY <1>1, <2>5, <2>6 DEF DataInv, PartIsTheirs, DataTypes
    <3>5. PartIsTheirs'
      BY <1>1, <2>4, <3>1, <3>4 DEF DataInv, PartIsTheirs, Moves, Whole
    <3>6. PathIsRead'
      BY <1>1, <2>4, <3>1 DEF DataInv, PathIsRead, Moves, Whole
    <3> QED
      BY <2>3, <3>1, <3>2, <3>3, <3>5, <3>6 DEF DataInv
  <2>7. CASE checking[p] = "path"
    <3>1. pc'[p] = "prepared" /\ verified' = TRUE
      BY <1>1, <2>1, <2>7 DEF DataTypes
    <3>2. Whole(name.path)
      BY <1>1, <2>5, <2>7 DEF DataInv, PathIsRead, DataTypes
    <3>3. Apart' /\ VerifiedStaysWhole'
      BY <1>1, <3>2 DEF DataInv, Apart, VerifiedStaysWhole, Whole
    <3>4. ~Fetching(p)' /\ \A q \in Procs \ {p} : Fetching(q)' <=> Fetching(q)
      BY <2>4, <3>1 DEF Fetching, Moves
    <3>5. OneFetches'
      BY <1>1, <3>4 DEF DataInv, OneFetches
    <3>6. PartIsTheirs' /\ PathIsRead'
      BY <1>1, <2>4, <3>1 DEF DataInv, PartIsTheirs, PathIsRead, Moves, Whole
    <3> QED
      BY <2>3, <3>1, <3>3, <3>5, <3>6 DEF DataInv
  <2> QED
    BY <1>1, <2>6, <2>7 DEF DataTypes
<1> QED
  BY <1>2, <1>3, <1>4 DEF ReadBlock

\* The rename takes the only .part file away: what it leaves under the final name
\* is whole if there was a file before.
LEMMA ReplaceOK ==
  ASSUME Cardinality(Procs) <= 2, DataInv, NEW p \in Procs, Replace(p)
  PROVE  DataInv'
<1>1. pc[p] = "replace" /\ UNCHANGED <<content, verified>> /\ DataTypes
  BY DEF Replace, DataInv
<1>2. CASE /\ name.part # None
           /\ name' = [part |-> None, path |-> name.part]
           /\ Goes(p, "inspect") /\ checking' = [checking EXCEPT ![p] = "path"]
           /\ UNCHANGED <<offline, fd, at>>
  <2>1. pc' = [pc EXCEPT ![p] = "inspect"] /\ "inspect" \in Stages
    BY <1>2 DEF Goes, Stages
  <2>2. DataTypes'
    BY <1>1, <1>2, <2>1 DEF DataTypes
  <2>3. /\ pc'[p] = "inspect" /\ checking'[p] = "path" /\ fd' = fd /\ at' = at
        /\ \A q \in Procs \ {p} : pc'[q] = pc[q] /\ checking'[q] = checking[q]
        /\ name'.part = None /\ name'.path = name.part
    BY <1>1, <1>2, <2>1 DEF DataTypes
  <2>4. Apart' /\ PartIsTheirs'
    BY <2>3 DEF Apart, PartIsTheirs
  <2>5. ~Fetching(p)' /\ \A q \in Procs \ {p} : Fetching(q)' <=> Fetching(q)
    BY <2>3 DEF Fetching
  <2>6. OneFetches'
    <3>1. ASSUME NEW q \in Procs, NEW r \in Procs, q # p, r # p PROVE q = r
      BY <3>1, PrepareAssumption, TwoAtMost
    <3> QED
      BY <2>5, <3>1 DEF OneFetches
  <2>7. name.path # None => Whole(name.part)
    BY <1>1, <1>2 DEF DataInv, PartIsTheirs
  <2>8. PathIsRead'
    BY <1>1, <2>3, <2>7 DEF DataInv, PathIsRead, Whole
  <2>9. VerifiedStaysWhole'
    BY <1>1, <2>3, <2>7 DEF DataInv, VerifiedStaysWhole, Whole
  <2> QED
    BY <2>2, <2>4, <2>6, <2>8, <2>9 DEF DataInv
<1>3. CASE Leaves(p) /\ UNCHANGED name
  BY <1>1, <1>3, LeavesOK
<1> QED
  BY <1>2, <1>3 DEF Replace

\* the steps a data preparation takes, and how it ends
PrepareStep(p) ==
  \/ \E off \in BOOLEAN : Begin(p, off)
  \/ Prepare(p)
  \/ Preparing(p) /\ Interrupt(p)
  \/ p # Runner /\ Finish(p)

\* Whatever a process does to the data, one of two.
LEMMA PrepareOK ==
  ASSUME Cardinality(Procs) <= 2, DataInv, NEW p \in Procs, PrepareStep(p)
  PROVE  /\ DataInv'
         /\ verified => verified'
         /\ \A q \in Procs \ {p} : pc'[q] = pc[q]
         /\ pc[p] \notin Guarded \cup {"record"} /\ pc'[p] \notin Guarded \cup {"record"}
         /\ pc'[p] = "prepared" => verified'
<1>1. DataTypes
  BY DEF DataInv
<1>2. ASSUME NEW off \in BOOLEAN, Begin(p, off)
      PROVE  DataInv' /\ pc[p] = "idle" /\ pc' = [pc EXCEPT ![p] = "look"] /\ verified' = verified
  <2>1. checking[p] = "path" /\ "look" \in Stages
    BY <1>1, <1>2 DEF Begin, DataTypes, Stages
  <2> QED
    BY <1>2, <2>1, GoesOK DEF Begin, Goes
<1>3. ASSUME \/ Look(p) \/ OpenPart(p) \/ WriteBlock(p) \/ EndDownload(p) \/ Inspect(p) \/ Replace(p)
      PROVE  /\ DataInv' /\ verified' = verified
             /\ pc[p] \in {"look", "open", "write", "inspect", "replace"}
             /\ \E stage \in {"idle", "open", "write", "inspect", "read"} : pc' = [pc EXCEPT ![p] = stage]
  <2>1. DataInv'
    BY <1>3, LookOK, OpenPartOK, WriteBlockOK, EndDownloadOK, InspectOK, ReplaceOK
  <2>2. verified' = verified /\ pc[p] \in {"look", "open", "write", "inspect", "replace"}
    BY <1>3 DEF Look, OpenPart, WriteBlock, EndDownload, Inspect, Replace
  <2>3. pc = [pc EXCEPT ![p] = pc[p]]
    BY <1>1 DEF DataTypes
  <2>4. \E stage \in {"idle", "open", "write", "inspect", "read"} : pc' = [pc EXCEPT ![p] = stage]
    BY <1>3, <2>3 DEF Look, OpenPart, WriteBlock, EndDownload, Inspect, Replace, Goes, Leaves
  <2> QED
    BY <2>1, <2>2, <2>4
<1>4. ASSUME ReadBlock(p)
      PROVE  /\ DataInv' /\ pc[p] = "read" /\ (pc'[p] = "prepared" => verified')
             /\ verified => verified'
             /\ \E stage \in {"idle", "read", "replace", "prepared"} : pc' = [pc EXCEPT ![p] = stage]
  <2>1. pc = [pc EXCEPT ![p] = pc[p]] /\ pc[p] = "read"
    BY <1>1, <1>4 DEF DataTypes, ReadBlock
  <2>2. \E stage \in {"idle", "read", "replace", "prepared"} : pc' = [pc EXCEPT ![p] = stage]
    BY <1>4, <2>1 DEF ReadBlock, Goes, Leaves, Checked
  <2>3. verified => verified'
    BY <1>4 DEF ReadBlock, Checked
  <2> QED
    BY <1>4, <2>1, <2>2, <2>3, ReadBlockOK
<1>5. ASSUME Preparing(p), Interrupt(p) \/ Finish(p)
      PROVE  DataInv' /\ verified' = verified /\ pc' = [pc EXCEPT ![p] = "idle"]
  <2>1. Leaves(p) /\ UNCHANGED <<name, content, verified>>
    BY <1>5 DEF Interrupt, Finish
  <2> QED
    BY <2>1, LeavesOK DEF Leaves, Goes
<1>6. Finish(p) => Preparing(p)
  BY DEF Finish, Preparing, Guarded
<1>7. ASSUME NEW stage, pc' = [pc EXCEPT ![p] = stage]
      PROVE  pc'[p] = stage /\ \A q \in Procs \ {p} : pc'[q] = pc[q]
  BY <1>1, <1>7 DEF DataTypes
<1>8. CASE \E off \in BOOLEAN : Begin(p, off)
  BY <1>2, <1>7, <1>8 DEF Guarded
<1>9. CASE \/ Look(p) \/ OpenPart(p) \/ WriteBlock(p) \/ EndDownload(p) \/ Inspect(p) \/ Replace(p)
  BY <1>3, <1>7, <1>9 DEF Guarded
<1>10. CASE ReadBlock(p)
  <2>1. PICK stage \in {"idle", "read", "replace", "prepared"} : pc' = [pc EXCEPT ![p] = stage]
    BY <1>4, <1>10
  <2>2. pc'[p] = stage /\ \A q \in Procs \ {p} : pc'[q] = pc[q]
    BY <1>7, <2>1
  <2>3. {"read", stage} \cap (Guarded \cup {"record"}) = {}
    BY DEF Guarded
  <2> QED
    BY <1>4, <1>10, <2>2, <2>3
<1>11. CASE Preparing(p) /\ (Interrupt(p) \/ Finish(p))
  BY <1>5, <1>7, <1>11 DEF Guarded, Preparing
<1> QED
  BY <1>6, <1>8, <1>9, <1>10, <1>11 DEF PrepareStep, Prepare

-----------------------------------------------------------------------------
(***************************************************************************)
(* The reproduction run                                                    *)
(***************************************************************************)
Measuring == {"measure", "checkMeasured", "checkPipeline", "checkInputs", "accept"}

RunTypes ==
  /\ source \in [Files -> Nat] /\ object \in [Files -> Nat] /\ binary \in [Files -> Nat]
  /\ recorded \in [source : [Files -> Nat], binary : [Files -> Nat], data : SUBSET Nat]
  /\ measured \in [binary : [Files -> Nat], data : SUBSET Nat]
  /\ done \subseteq Files

\* the run is on with a file that was verified, and on record with all of it
Prepared ==
  /\ pc[Runner] \in Guarded \cup {"prepared", "record"} => verified
  /\ pc[Runner] \in Guarded => recorded.data = 1..Blocks

\* versions only grow: what is compiled or linked lies between what is on record
\* and what the sources are
Recorded ==
  \A f \in Files :
    /\ pc[Runner] \in Guarded \/ (pc[Runner] = "record" /\ f \in done) => recorded.source[f] <= source[f]
    /\ pc[Runner] = "build" =>
         object[f] = 0 \/ (recorded.source[f] <= object[f] /\ object[f] <= source[f])
    /\ pc[Runner] \in {"built", "checkBuild", "measure"} =>
         recorded.source[f] <= binary[f] /\ binary[f] <= source[f]

\* so what was measured is what is on record where the sources still are
Measured ==
  /\ pc[Runner] = "measure" => done = {}
  /\ pc[Runner] \in {"checkMeasured", "checkPipeline"} => \A f \in Files :
       /\ recorded.source[f] <= measured.binary[f] /\ measured.binary[f] <= source[f]
       /\ f \in done \/ (pc[Runner] = "checkPipeline" /\ f \in Sources) =>
            measured.binary[f] = recorded.source[f]
  /\ pc[Runner] \in {"checkMeasured", "checkPipeline", "checkInputs", "accept", "list", "print"} =>
       measured.data = 1..Blocks
  /\ pc[Runner] \in {"checkInputs", "accept", "list", "print"} => measured.binary = recorded.source

\* and nothing is announced before
Announced ==
  /\ pc[Runner] = "record" => manifest = "none"
  /\ pc[Runner] \in Guarded \ (Measuring \cup {"list", "print"}) => manifest = "running"
  /\ pc[Runner] \in Measuring => manifest = "measuring"
  /\ pc[Runner] \in {"list", "print"} => manifest = "completed"
  /\ pc[Runner] \in (Guarded \ {"print"}) \cup {"record"} => listed = "none"

RunInv == DataInv /\ RunTypes /\ Prepared /\ Recorded /\ Measured /\ Announced /\ AcceptedIsRecorded

\* Both begin with nothing.
LEMMA RunInit == ReproduceInit => RunInv
<1> SUFFICES ASSUME ReproduceInit PROVE RunInv
  OBVIOUS
<1>1. Init /\ Runner \in Procs
  BY ReproduceAssumption DEF ReproduceInit
<1>2. /\ name = [part |-> None, path |-> None] /\ content = [inode \in Inodes |-> {}]
      /\ pc = [p \in Procs |-> "idle"] /\ fd = [p \in Procs |-> None] /\ at = [p \in Procs |-> 0]
      /\ checking = [p \in Procs |-> "path"] /\ verified = FALSE
      /\ "idle" \in Stages /\ 0 \in 0..Blocks
  BY <1>1, PrepareAssumption DEF Init, Stages
<1>3. DataTypes
  BY <1>2 DEF DataTypes
<1>4. DataInv
  BY <1>2, <1>3 DEF DataInv, Apart, OneFetches, PartIsTheirs, PathIsRead, VerifiedStaysWhole
<1>5. pc[Runner] = "idle" /\ "idle" \notin Guarded
  BY <1>1, <1>2 DEF Guarded
<1>6. /\ source = [f \in Files |-> 1] /\ object = NoFiles /\ binary = NoFiles
      /\ recorded = NoRecord /\ done = {} /\ measured = NoResult
      /\ manifest = "none" /\ listed = "none"
  BY DEF ReproduceInit
<1>7. RunTypes
  BY <1>6 DEF RunTypes, NoFiles, NoRecord, NoResult
<1>8. Prepared /\ Recorded /\ Measured /\ Announced
  BY <1>5 DEF Prepared, Recorded, Measured, Announced, Measuring
<1>9. AcceptedIsRecorded
  BY <1>6 DEF AcceptedIsRecorded
<1> QED
  BY <1>4, <1>7, <1>8, <1>9 DEF RunInv


\* The data stays as it is when its variables do.
LEMMA DataStays == ASSUME DataInv, UNCHANGED vars PROVE DataInv'
<1>1. UNCHANGED <<name, content, pc, fd, at, checking, verified>>
  BY DEF vars
<1> QED
  BY <1>1 DEF DataInv, DataTypes, Apart, OneFetches, PartIsTheirs, PathIsRead, Fetching,
              VerifiedStaysWhole, Whole

\* The Runner goes on.
LEMMA EntersOK ==
  ASSUME DataInv, NEW stage \in Guarded \cup {"record"}, Enters(stage),
         pc[Runner] \in Guarded \cup {"record", "prepared"}
  PROVE  DataInv' /\ pc'[Runner] = stage /\ UNCHANGED <<name, content, verified>>
<1>1. DataTypes /\ Runner \in Procs
  BY ReproduceAssumption DEF DataInv
<1>2. Goes(Runner, stage) /\ UNCHANGED <<name, content, fd, at, checking, verified>>
  BY DEF Enters
<1>3. checking[Runner] = "path"
  BY <1>1 DEF DataTypes, Guarded
<1>4. stage \in Stages /\ stage \notin {"open", "write", "inspect", "read", "replace"}
  BY DEF Stages, Guarded
<1>5. pc'[Runner] = stage
  BY <1>1, <1>2 DEF DataTypes, Goes
<1> QED
  BY <1>1, <1>2, <1>3, <1>4, <1>5, GoesOK

\* The Runner gives up or ends: what is announced is no more than it was.
LEMMA StopsOK ==
  ASSUME RunInv, Leaves(Runner), UNCHANGED <<name, content, verified, buildVars, recorded, measured>>,
         done' = done \/ done' = {},
         manifest' = manifest \/ manifest' \in {"failed", "torn"},
         listed' = listed \/ listed' = "torn"
  PROVE  RunInv'
<1>1. Runner \in Procs /\ DataTypes
  BY ReproduceAssumption DEF RunInv, DataInv
<1>2. DataInv'
  BY <1>1, LeavesOK DEF RunInv
<1>3. pc'[Runner] = "idle"
  BY <1>1 DEF DataTypes, Leaves, Goes
<1>4. pc'[Runner] \notin Guarded \cup {"prepared", "record"}
  BY <1>3 DEF Guarded
<1>5. RunTypes'
  BY DEF RunInv, RunTypes, buildVars
<1>6. Prepared' /\ Recorded' /\ Measured' /\ Announced'
  BY <1>4 DEF Prepared, Recorded, Measured, Announced, Measuring, Guarded
<1>7. AcceptedIsRecorded'
  BY DEF RunInv, AcceptedIsRecorded
<1> QED
  BY <1>2, <1>5, <1>6, <1>7 DEF RunInv

\* A process prepares data, the Runner or another.
LEMMA RunPrepares ==
  ASSUME Cardinality(Procs) <= 2, RunInv, NEW p \in Procs, PrepareStep(p),
         UNCHANGED <<buildVars, runVars>>
  PROVE  RunInv'
<1>1. /\ DataInv' /\ (verified => verified')
      /\ p # Runner => pc'[Runner] = pc[Runner]
      /\ pc'[p] \notin Guarded \cup {"record"} /\ (pc'[p] = "prepared" => verified')
  BY PrepareOK, ReproduceAssumption DEF RunInv
<1>2. RunTypes' /\ AcceptedIsRecorded'
  BY DEF RunInv, RunTypes, AcceptedIsRecorded, buildVars, runVars
<1>3. CASE p = Runner
  <2>1. Prepared' /\ Recorded' /\ Measured' /\ Announced'
    BY <1>1, <1>3 DEF Prepared, Recorded, Measured, Announced, Measuring, Guarded
  <2> QED
    BY <1>1, <1>2, <2>1 DEF RunInv
<1>4. CASE p # Runner
  <2>1. Prepared'
    BY <1>1, <1>4 DEF RunInv, Prepared, runVars
  <2>2. Recorded' /\ Measured' /\ Announced'
    BY <1>1, <1>4 DEF RunInv, Recorded, Measured, Announced, buildVars, runVars
  <2> QED
    BY <1>1, <1>2, <2>1, <2>2 DEF RunInv
<1> QED
  BY <1>3, <1>4

\* The sources and the pipeline on record.
LEMMA RecordingOK ==
  ASSUME RunInv, MakeOutput \/ RecordSource \/ RecordPipeline \/ SaveRunning
  PROVE  RunInv'
<1>1. CASE MakeOutput
  <2>1. /\ pc[Runner] = "prepared" /\ Enters("record") /\ UNCHANGED buildVars
        /\ recorded' = NoRecord /\ done' = {} /\ measured' = NoResult
        /\ manifest' = "none" /\ listed' = "none"
    BY <1>1 DEF MakeOutput, At
  <2>2. DataInv' /\ pc'[Runner] = "record" /\ verified' = verified
    BY <2>1, EntersOK DEF RunInv
  <2>3. pc'[Runner] \notin Guarded
    BY <2>2 DEF Guarded
  <2>4. RunTypes'
    BY <2>1 DEF RunInv, RunTypes, buildVars, NoRecord, NoResult, NoFiles
  <2>5. Prepared' /\ Recorded' /\ Measured' /\ Announced'
    BY <2>1, <2>2, <2>3 DEF RunInv, Prepared, Recorded, Measured, Announced, Measuring
  <2>6. AcceptedIsRecorded'
    BY <2>1 DEF AcceptedIsRecorded
  <2> QED
    BY <2>2, <2>4, <2>5, <2>6 DEF RunInv
<1>2. CASE RecordSource \/ RecordPipeline
  <2>1. PICK f \in Files \ done :
          /\ recorded' = [recorded EXCEPT !.source[f] = source[f]] /\ done' = done \cup {f}
    BY <1>2 DEF RecordSource, RecordPipeline, Record, Files
  <2>2. pc[Runner] = "record" /\ UNCHANGED <<vars, buildVars, measured, manifest, listed>>
    BY <1>2 DEF RecordSource, RecordPipeline, Record, At
  <2>3. RunTypes /\ DataInv' /\ pc' = pc /\ verified' = verified /\ pc[Runner] \notin Guarded
    BY <2>2, DataStays DEF RunInv, vars, Guarded
  <2>4. RunTypes' /\ \A g \in Files : recorded'.source[g] = IF g = f THEN source[f] ELSE recorded.source[g]
    BY <2>1, <2>2, <2>3 DEF RunTypes, buildVars
  <2>5. source[f] \in Nat /\ source' = source
    BY <2>2, <2>3 DEF RunTypes, buildVars
  <2>6. Recorded'
    BY <2>1, <2>2, <2>3, <2>4, <2>5 DEF RunInv, Recorded
  <2>7. Prepared' /\ Measured' /\ Announced'
    BY <2>2, <2>3 DEF RunInv, Prepared, Measured, Announced, Measuring, Guarded
  <2>8. AcceptedIsRecorded'
    BY <2>2 DEF RunInv, Announced, AcceptedIsRecorded
  <2> QED
    BY <2>3, <2>4, <2>6, <2>7, <2>8 DEF RunInv
<1>3. CASE SaveRunning
  <2>1. /\ pc[Runner] = "record" /\ done = Files /\ Enters("clean")
        /\ recorded' = [recorded EXCEPT !.data = Data]
        /\ done' = {} /\ manifest' = "running"
        /\ UNCHANGED <<buildVars, measured, listed>>
    BY <1>3 DEF SaveRunning, At
  <2>2. DataInv' /\ pc'[Runner] = "clean" /\ verified' = verified
    BY <2>1, EntersOK DEF RunInv, Guarded
  <2>3. RunTypes /\ Data = 1..Blocks /\ Data \in SUBSET Nat
    BY <2>1, PrepareAssumption DEF RunInv, DataInv, Prepared, VerifiedStaysWhole, Whole, Data
  <2>4. RunTypes' /\ recorded'.source = recorded.source /\ recorded'.data = 1..Blocks
    BY <2>1, <2>3 DEF RunTypes, buildVars
  <2>5. Prepared' /\ Recorded' /\ Measured'
    BY <2>1, <2>2, <2>4 DEF RunInv, Prepared, Recorded, Measured, buildVars
  <2>6. Announced' /\ AcceptedIsRecorded'
    BY <2>1, <2>2 DEF RunInv, Announced, AcceptedIsRecorded, Measuring
  <2> QED
    BY <2>2, <2>4, <2>5, <2>6 DEF RunInv
<1> QED
  BY <1>1, <1>2, <1>3

\* The build.
LEMMA BuildingOK ==
  ASSUME RunInv, Clean \/ Compile \/ Link \/ HashBinary
  PROVE  RunInv'
<1>1. CASE Clean
  <2>1. /\ pc[Runner] = "clean" /\ Enters("build") /\ object' = NoFiles /\ binary' = NoFiles
        /\ UNCHANGED <<source, runVars>>
    BY <1>1 DEF Clean, At
  <2>2. DataInv' /\ pc'[Runner] = "build" /\ verified' = verified
    BY <2>1, EntersOK DEF RunInv, Guarded
  <2>3. RunTypes'
    BY <2>1 DEF RunInv, RunTypes, runVars, NoFiles
  <2>4. Recorded'
    BY <2>1, <2>2 DEF RunInv, Recorded, runVars, NoFiles, Guarded
  <2>5. Prepared' /\ Measured' /\ Announced' /\ AcceptedIsRecorded'
    BY <2>1, <2>2 DEF RunInv, Prepared, Measured, Announced, AcceptedIsRecorded, Measuring, runVars, Guarded
  <2> QED
    BY <2>2, <2>3, <2>4, <2>5 DEF RunInv
<1>2. CASE Compile
  <2>1. PICK f \in Files : object[f] = 0 /\ object' = [object EXCEPT ![f] = source[f]]
    BY <1>2 DEF Compile
  <2>2. pc[Runner] = "build" /\ UNCHANGED <<vars, source, binary, runVars>>
    BY <1>2 DEF Compile, At
  <2>3. RunTypes /\ DataInv' /\ pc' = pc /\ verified' = verified
    BY <2>2, DataStays DEF RunInv, vars
  <2>4. RunTypes' /\ source[f] \in Nat /\ \A g \in Files : object'[g] = IF g = f THEN source[f] ELSE object[g]
    BY <2>1, <2>2, <2>3 DEF RunTypes, runVars
  <2>5. Recorded'
    BY <2>2, <2>3, <2>4 DEF RunInv, Recorded, runVars, Guarded
  <2>6. Prepared' /\ Measured' /\ Announced' /\ AcceptedIsRecorded'
    BY <2>2, <2>3 DEF RunInv, Prepared, Measured, Announced, AcceptedIsRecorded, runVars
  <2> QED
    BY <2>3, <2>4, <2>5, <2>6 DEF RunInv
<1>3. CASE Link
  <2>1. /\ pc[Runner] = "build" /\ (\A f \in Files : object[f] # 0) /\ Enters("built")
        /\ binary' = object /\ UNCHANGED <<source, object, runVars>>
    BY <1>3 DEF Link, At
  <2>2. DataInv' /\ pc'[Runner] = "built" /\ verified' = verified
    BY <2>1, EntersOK DEF RunInv, Guarded
  <2>3. RunTypes'
    BY <2>1 DEF RunInv, RunTypes, runVars
  <2>4. Recorded'
    BY <2>1, <2>2 DEF RunInv, Recorded, runVars, Guarded
  <2>5. Prepared' /\ Measured' /\ Announced' /\ AcceptedIsRecorded'
    BY <2>1, <2>2 DEF RunInv, Prepared, Measured, Announced, AcceptedIsRecorded, Measuring, runVars, Guarded
  <2> QED
    BY <2>2, <2>3, <2>4, <2>5 DEF RunInv
<1>4. CASE HashBinary
  <2>1. /\ pc[Runner] = "built" /\ Enters("checkBuild")
        /\ recorded' = [recorded EXCEPT !.binary = binary]
        /\ UNCHANGED <<buildVars, done, measured, manifest, listed>>
    BY <1>4 DEF HashBinary, At
  <2>2. DataInv' /\ pc'[Runner] = "checkBuild" /\ verified' = verified
    BY <2>1, EntersOK DEF RunInv, Guarded
  <2>3. RunTypes' /\ recorded'.source = recorded.source /\ recorded'.data = recorded.data
    BY <2>1 DEF RunInv, RunTypes, buildVars
  <2>4. Recorded'
    BY <2>1, <2>2, <2>3 DEF RunInv, Recorded, buildVars, Guarded
  <2>5. Prepared' /\ Measured' /\ Announced' /\ AcceptedIsRecorded'
    BY <2>1, <2>2, <2>3 DEF RunInv, Prepared, Measured, Announced, AcceptedIsRecorded, Measuring, Guarded
  <2> QED
    BY <2>2, <2>3, <2>4, <2>5 DEF RunInv
<1> QED
  BY <1>1, <1>2, <1>3, <1>4


\* A loop over the files: the first that differs from the record ends the run.
LEMMA CheckingOK ==
  ASSUME RunInv, CheckSource \/ CheckPipeline
  PROVE  RunInv'
<1>1. PICK f \in Files \ done :
        \/ Differs(f) /\ Refuses
        \/ /\ ~Differs(f) /\ done' = done \cup {f}
           /\ UNCHANGED <<vars, buildVars, recorded, measured, manifest, listed>>
  BY DEF CheckSource, CheckPipeline, Check, Files
<1>2. CASE Refuses
  BY <1>2, StopsOK DEF Refuses
<1>3. CASE /\ ~Differs(f) /\ done' = done \cup {f}
           /\ UNCHANGED <<vars, buildVars, recorded, measured, manifest, listed>>
  <2>1. DataInv' /\ pc' = pc /\ verified' = verified
    BY <1>3, DataStays DEF RunInv, vars
  <2>2. /\ pc[Runner] \in {"checkBuild", "checkMeasured", "checkPipeline"}
        /\ source[f] = recorded.source[f]
    BY <1>3 DEF CheckSource, CheckPipeline, Checks, At, Differs
  <2>3. RunTypes'
    BY <1>3 DEF RunInv, RunTypes, buildVars
  <2>4. Recorded'
    BY <1>3, <2>1, <2>2 DEF RunInv, Recorded, buildVars
  <2>5. Measured'
    <3>1. pc[Runner] \in {"checkMeasured", "checkPipeline"} => measured.binary[f] = recorded.source[f]
      BY <2>2 DEF RunInv, RunTypes, Measured
    <3> QED
      BY <1>3, <2>1, <2>2, <3>1 DEF RunInv, Measured, buildVars
  <2>6. Prepared' /\ Announced' /\ AcceptedIsRecorded'
    BY <1>3, <2>1 DEF RunInv, Prepared, Announced, AcceptedIsRecorded
  <2> QED
    BY <2>1, <2>3, <2>4, <2>5, <2>6 DEF RunInv
<1> QED
  BY <1>1, <1>2, <1>3

\* The measurement, and what is checked around it.
LEMMA MeasuringOK ==
  ASSUME RunInv, SaveBuilt \/ Measure \/ SourcesKept \/ PipelineKept \/ CheckInputs
  PROVE  RunInv'
<1>1. CASE SaveBuilt
  <2>1. /\ pc[Runner] = "checkBuild" /\ Enters("measure") /\ done' = {} /\ manifest' = "measuring"
        /\ UNCHANGED <<buildVars, recorded, measured, listed>>
    BY <1>1 DEF SaveBuilt, At
  <2>2. DataInv' /\ pc'[Runner] = "measure" /\ verified' = verified
    BY <2>1, EntersOK DEF RunInv, Guarded
  <2>3. RunTypes'
    BY <2>1 DEF RunInv, RunTypes, buildVars
  <2>4. Recorded'
    BY <2>1, <2>2 DEF RunInv, Recorded, buildVars, Guarded
  <2>5. Prepared' /\ Measured' /\ Announced' /\ AcceptedIsRecorded'
    BY <2>1, <2>2 DEF RunInv, Prepared, Measured, Announced, AcceptedIsRecorded, Measuring, Guarded
  <2> QED
    BY <2>2, <2>3, <2>4, <2>5 DEF RunInv
<1>2. CASE Measure
  <2>1. /\ pc[Runner] = "measure" /\ Enters("checkMeasured")
        /\ measured' = [binary |-> binary, data |-> Data]
        /\ UNCHANGED <<buildVars, recorded, done, manifest, listed>>
    BY <1>2 DEF Measure, At
  <2>2. DataInv' /\ pc'[Runner] = "checkMeasured" /\ verified' = verified
    BY <2>1, EntersOK DEF RunInv, Guarded
  <2>3. Data = 1..Blocks /\ Data \in SUBSET Nat
    BY <2>1, PrepareAssumption DEF RunInv, DataInv, Prepared, VerifiedStaysWhole, Whole, Data, Guarded
  <2>4. RunTypes' /\ measured'.binary = binary /\ measured'.data = 1..Blocks
    BY <2>1, <2>3 DEF RunInv, RunTypes, buildVars
  <2>5. Recorded'
    BY <2>1, <2>2 DEF RunInv, Recorded, buildVars, Guarded
  <2>6. Measured'
    <3>1. done = {} /\ \A f \in Files : recorded.source[f] <= binary[f] /\ binary[f] <= source[f]
      BY <2>1 DEF RunInv, Measured, Recorded
    <3> QED
      BY <2>1, <2>2, <2>4, <3>1 DEF Measured, buildVars
  <2>7. Prepared' /\ Announced'
    BY <2>1, <2>2 DEF RunInv, Prepared, Announced, Measuring, Guarded
  <2>8. AcceptedIsRecorded'
    BY <2>1 DEF RunInv, Announced, AcceptedIsRecorded, Measuring, Guarded
  <2> QED
    BY <2>2, <2>4, <2>5, <2>6, <2>7, <2>8 DEF RunInv
<1>3. CASE SourcesKept
  <2>1. /\ pc[Runner] = "checkMeasured" /\ done = Sources /\ Enters("checkPipeline") /\ done' = {}
        /\ UNCHANGED <<buildVars, recorded, measured, manifest, listed>>
    BY <1>3 DEF SourcesKept, At
  <2>2. DataInv' /\ pc'[Runner] = "checkPipeline" /\ verified' = verified
    BY <2>1, EntersOK DEF RunInv, Guarded
  <2>3. RunTypes'
    BY <2>1 DEF RunInv, RunTypes, buildVars
  <2>4. Recorded'
    BY <2>1, <2>2 DEF RunInv, Recorded, buildVars, Guarded
  <2>5. Measured'
    BY <2>1, <2>2 DEF RunInv, Measured, buildVars
  <2>6. Prepared' /\ Announced' /\ AcceptedIsRecorded'
    BY <2>1, <2>2 DEF RunInv, Prepared, Announced, AcceptedIsRecorded, Measuring, Guarded
  <2> QED
    BY <2>2, <2>3, <2>4, <2>5, <2>6 DEF RunInv
<1>4. CASE PipelineKept
  <2>1. /\ pc[Runner] = "checkPipeline" /\ done = Pipeline /\ Enters("checkInputs") /\ done' = {}
        /\ UNCHANGED <<buildVars, recorded, measured, manifest, listed>>
    BY <1>4 DEF PipelineKept, At
  <2>2. DataInv' /\ pc'[Runner] = "checkInputs" /\ verified' = verified
    BY <2>1, EntersOK DEF RunInv, Guarded
  <2>3. RunTypes'
    BY <2>1 DEF RunInv, RunTypes, buildVars
  <2>4. measured.binary = recorded.source
    <3>1. \A f \in Files : measured.binary[f] = recorded.source[f]
      BY <2>1 DEF RunInv, Measured, Files
    <3>2. measured.binary \in [Files -> Nat] /\ recorded.source \in [Files -> Nat]
      BY DEF RunInv, RunTypes
    <3> QED
      BY <3>1, <3>2
  <2>5. Recorded'
    BY <2>1, <2>2 DEF RunInv, Recorded, buildVars, Guarded
  <2>6. Prepared' /\ Measured' /\ Announced' /\ AcceptedIsRecorded'
    BY <2>1, <2>2, <2>4 DEF RunInv, Prepared, Measured, Announced, AcceptedIsRecorded, Measuring, Guarded
  <2> QED
    BY <2>2, <2>3, <2>5, <2>6 DEF RunInv
<1>5. CASE CheckInputs
  <2>1. CASE Refuses
    BY <2>1, StopsOK DEF Refuses
  <2>2. CASE Enters("accept") /\ UNCHANGED <<buildVars, runVars>>
    <3>1. pc[Runner] = "checkInputs"
      BY <1>5 DEF CheckInputs, At
    <3>2. DataInv' /\ pc'[Runner] = "accept" /\ verified' = verified
      BY <2>2, <3>1, EntersOK DEF RunInv, Guarded
    <3>3. RunTypes'
      BY <2>2 DEF RunInv, RunTypes, buildVars, runVars
    <3>4. Recorded'
      BY <2>2, <3>1, <3>2 DEF RunInv, Recorded, buildVars, runVars, Guarded
    <3>5. Prepared' /\ Measured' /\ Announced' /\ AcceptedIsRecorded'
      BY <2>2, <3>1, <3>2 DEF RunInv, Prepared, Measured, Announced, AcceptedIsRecorded, Measuring, runVars, Guarded
    <3> QED
      BY <3>2, <3>3, <3>4, <3>5 DEF RunInv
  <2> QED
    BY <1>5, <2>1, <2>2 DEF CheckInputs
<1> QED
  BY <1>1, <1>2, <1>3, <1>4, <1>5

\* What is announced.
LEMMA AnnouncingOK ==
  ASSUME RunInv, SaveCompleted \/ SaveListing \/ RunEnds
  PROVE  RunInv'
<1>1. CASE SaveCompleted
  <2>1. /\ pc[Runner] = "accept" /\ Enters("list") /\ manifest' = "completed"
        /\ UNCHANGED <<buildVars, recorded, done, measured, listed>>
    BY <1>1 DEF SaveCompleted, At
  <2>2. DataInv' /\ pc'[Runner] = "list" /\ verified' = verified
    BY <2>1, EntersOK DEF RunInv, Guarded
  <2>3. RunTypes'
    BY <2>1 DEF RunInv, RunTypes, buildVars
  <2>4. Recorded'
    BY <2>1, <2>2 DEF RunInv, Recorded, buildVars, Guarded
  <2>5. Prepared' /\ Measured' /\ Announced' /\ AcceptedIsRecorded'
    BY <2>1, <2>2 DEF RunInv, Prepared, Measured, Announced, AcceptedIsRecorded, Measuring, Guarded
  <2> QED
    BY <2>2, <2>3, <2>4, <2>5 DEF RunInv
<1>2. CASE SaveListing
  <2>1. /\ pc[Runner] = "list" /\ Enters("print") /\ listed' = manifest
        /\ UNCHANGED <<buildVars, recorded, done, measured, manifest>>
    BY <1>2 DEF SaveListing, At
  <2>2. DataInv' /\ pc'[Runner] = "print" /\ verified' = verified
    BY <2>1, EntersOK DEF RunInv, Guarded
  <2>3. RunTypes'
    BY <2>1 DEF RunInv, RunTypes, buildVars
  <2>4. Recorded'
    BY <2>1, <2>2 DEF RunInv, Recorded, buildVars, Guarded
  <2>5. Prepared' /\ Measured' /\ Announced' /\ AcceptedIsRecorded'
    BY <2>1, <2>2 DEF RunInv, Prepared, Measured, Announced, AcceptedIsRecorded, Measuring, Guarded
  <2> QED
    BY <2>2, <2>3, <2>4, <2>5 DEF RunInv
<1>3. CASE RunEnds
  BY <1>3, StopsOK DEF RunEnds, runVars
<1> QED
  BY <1>1, <1>2, <1>3

\* The run may fail or die at any point.
LEMMA BreakingOK == ASSUME RunInv, Fail \/ Die PROVE RunInv'
<1>1. CASE Fail
  BY <1>1, StopsOK DEF Fail
<1>2. CASE Die
  BY <1>2, StopsOK DEF Die
<1> QED
  BY <1>1, <1>2

\* The developer edits a source, or builds in the same directory.
LEMMA DevelopingOK == ASSUME RunInv, Edit \/ Make PROVE RunInv'
<1>1. UNCHANGED <<vars, runVars>> /\ DataInv'
  BY DataStays DEF RunInv, Edit, Make
<1>2. /\ pc' = pc /\ verified' = verified /\ UNCHANGED <<recorded, done, measured, manifest, listed>>
      /\ RunTypes
  BY <1>1 DEF RunInv, vars, runVars
<1>3. Prepared' /\ Announced' /\ AcceptedIsRecorded'
  BY <1>2 DEF RunInv, Prepared, Announced, AcceptedIsRecorded
<1>4. CASE Edit
  <2>1. PICK f \in Files : source' = [source EXCEPT ![f] = @ + 1]
    BY <1>4 DEF Edit
  <2>2. object' = object /\ binary' = binary
    BY <1>4 DEF Edit
  <2>3. RunTypes' /\ \A g \in Files : source[g] <= source'[g] /\ source[g] \in Nat /\ source'[g] \in Nat
    BY <1>2, <2>1, <2>2 DEF RunTypes
  <2>4. \A g \in Files : object[g] \in Nat /\ binary[g] \in Nat /\ recorded.source[g] \in Nat /\ measured.binary[g] \in Nat
    BY <1>2 DEF RunTypes
  <2>5. Recorded'
    BY <1>2, <2>2, <2>3, <2>4 DEF RunInv, Recorded
  <2>6. Measured'
    BY <1>2, <2>3, <2>4 DEF RunInv, Measured
  <2> QED
    BY <1>1, <1>3, <2>3, <2>5, <2>6 DEF RunInv
<1>5. CASE Make
  <2>1. pc[Runner] \in Guarded /\ object' = source /\ binary' = source /\ source' = source
    BY <1>5 DEF Make
  <2>2. RunTypes' /\ \A g \in Files : source[g] \in Nat
    BY <1>2, <2>1 DEF RunTypes
  <2>3. Recorded'
    BY <1>2, <2>1, <2>2 DEF RunInv, Recorded
  <2>4. Measured'
    BY <1>2, <2>1 DEF RunInv, Measured
  <2> QED
    BY <1>1, <1>3, <2>2, <2>3, <2>4 DEF RunInv
<1> QED
  BY <1>4, <1>5

\* The invariant holds throughout, with two processes.
LEMMA RunIsInvariant == ASSUME Cardinality(Procs) <= 2 PROVE Spec => []RunInv
<1>1. ReproduceInit => RunInv
  BY RunInit
<1>2. ASSUME RunInv, [Next]_allVars PROVE RunInv'
  <2>1. CASE UNCHANGED allVars
    <3>1. DataInv' /\ UNCHANGED <<vars, buildVars, runVars>>
      BY <1>2, <2>1, DataStays DEF RunInv, allVars
    <3>2. pc' = pc /\ verified' = verified
      BY <3>1 DEF vars
    <3>3. RunTypes' /\ Prepared' /\ Recorded' /\ Measured' /\ Announced' /\ AcceptedIsRecorded'
      BY <1>2, <3>1, <3>2 DEF RunInv, RunTypes, Prepared, Recorded, Measured, Announced,
                              AcceptedIsRecorded, buildVars, runVars
    <3> QED
      BY <3>1, <3>3 DEF RunInv
  <2>2. CASE \E p \in Procs : PrepareStep(p) /\ UNCHANGED <<buildVars, runVars>>
    BY <1>2, <2>2, RunPrepares
  <2>3. CASE RunStep
    BY <1>2, <2>3, RecordingOK, BuildingOK, CheckingOK, MeasuringOK, AnnouncingOK DEF RunStep
  <2>4. CASE Fail \/ Die
    BY <1>2, <2>4, BreakingOK
  <2>5. CASE Edit \/ Make
    BY <1>2, <2>5, DevelopingOK
  <2> QED
    BY <1>2, <2>1, <2>2, <2>3, <2>4, <2>5 DEF Next, PrepareStep
<1> QED
  BY <1>1, <1>2, PTL DEF Spec

\* Of two processes that download, verify, rename and fail as they like, with a
\* file of any length, none takes a verified file away or damages it.
THEOREM VerifiedIsWhole == ASSUME Cardinality(Procs) <= 2 PROVE Spec => []VerifiedStaysWhole
<1>1. RunInv => VerifiedStaysWhole
  BY DEF RunInv, DataInv
<1> QED
  BY <1>1, RunIsInvariant, PTL

\* Whatever is edited, rebuilt, downloaded, interrupted or killed, and however
\* many sources and pipeline files there are: what is announced as completed was measured with the
\* sources and the data on record.
THEOREM AcceptedIsMeasured == ASSUME Cardinality(Procs) <= 2 PROVE Spec => []AcceptedIsRecorded
<1>1. RunInv => AcceptedIsRecorded
  BY DEF RunInv
<1> QED
  BY <1>1, RunIsInvariant, PTL
=============================================================================
