---------------------------- MODULE PrepareData ----------------------------
(***************************************************************************)
(* Fetching a data file (scripts/prepare_data.py, prepare): download into  *)
(* NAME.part, verify, rename to NAME, verify again.  Several runs may work *)
(* in one directory, each may fail or be interrupted anywhere, and a later *)
(* run starts over.  One of the two files is modelled; each is prepared in *)
(* the same way.                                                           *)
(*                                                                         *)
(* A name refers to an inode.  Opening for writing truncates the inode     *)
(* that the name has, and a run goes on writing to the inode it opened     *)
(* whatever its name is by then.  The content is that of the published     *)
(* file where it is there at all; what does not arrive leaves a hole.      *)
(***************************************************************************)
EXTENDS Naturals, FiniteSets

CONSTANTS
  Procs,         \* the runs that may be at work at a time
  Blocks,        \* length of the file
  MaxInterrupts  \* bound on the failures and interruptions explored

ASSUME PrepareAssumption ==
  /\ IsFiniteSet(Procs) /\ Blocks \in Nat \ {0} /\ MaxInterrupts \in Nat

None   == 0  \* no such file
Inodes == 1..Cardinality(Procs) + 2

VARIABLES
  name,        \* the inodes of "part" and of "path"
  content,     \* per inode, the blocks that have been written
  pc, offline,
  fd,          \* the inode a run has open
  at,          \* blocks the run has written or read
  checking,    \* the name the run is verifying
  interrupts,
  verified,    \* history: a run has verified the file under its final name
  overlap      \* history: two runs have been downloading at the same time

vars == <<name, content, pc, offline, fd, at, checking, interrupts, verified, overlap>>

Whole(inode) == inode # None /\ content[inode] = 1..Blocks

Init ==
  /\ name = [part |-> None, path |-> None]
  /\ content = [inode \in Inodes |-> {}]
  /\ pc = [p \in Procs |-> "idle"] /\ offline = [p \in Procs |-> FALSE]
  /\ fd = [p \in Procs |-> None] /\ at = [p \in Procs |-> 0]
  /\ checking = [p \in Procs |-> "path"]
  /\ interrupts = 0 /\ verified = FALSE /\ overlap = FALSE

Goes(p, to) == pc' = [pc EXCEPT ![p] = to]

\* an exception, or the end of the run: what it wrote stays
Leaves(p) ==
  /\ Goes(p, "idle")
  /\ fd' = [fd EXCEPT ![p] = None] /\ at' = [at EXCEPT ![p] = 0]
  /\ offline' = [offline EXCEPT ![p] = FALSE]
  /\ checking' = [checking EXCEPT ![p] = "path"]

\* the inode that opening .part for writing gives: the one it has, or a free one
PartInode ==
  IF name.part # None THEN name.part
  ELSE CHOOSE inode \in Inodes : inode # name.path /\ \A p \in Procs : fd[p] # inode

-----------------------------------------------------------------------------
Begin(p, off) ==
  /\ pc[p] = "idle"
  /\ Goes(p, "look")
  /\ offline' = [offline EXCEPT ![p] = off]
  /\ UNCHANGED <<name, content, fd, at, checking, interrupts, verified, overlap>>

\* path.exists()
Look(p) ==
  /\ pc[p] = "look"
  /\ \/ name.path # None /\ Goes(p, "inspect") /\ UNCHANGED <<offline, fd, at, checking>>
     \/ name.path = None /\ ~offline[p] /\ Goes(p, "open") /\ UNCHANGED <<offline, fd, at, checking>>
     \/ name.path = None /\ offline[p] /\ Leaves(p)
  /\ UNCHANGED <<name, content, interrupts, verified, overlap>>

Downloading == {"write", "inspect", "read", "replace"}

\* mutant: mode 'xb', so a .part that is there makes the run fail
OpenPartExclusive(p) ==
  /\ pc[p] = "open"
  /\ \/ /\ name.part = None
        /\ name' = [name EXCEPT !.part = PartInode] /\ fd' = [fd EXCEPT ![p] = PartInode]
        /\ content' = [content EXCEPT ![PartInode] = {}]
        /\ at' = [at EXCEPT ![p] = 0] /\ Goes(p, "write")
        /\ overlap' = (overlap \/ \E r \in Procs \ {p} : pc[r] \in Downloading)
        /\ UNCHANGED <<offline, checking>>
     \/ name.part # None /\ Leaves(p) /\ UNCHANGED <<name, content, overlap>>
  /\ UNCHANGED <<interrupts, verified>>

\* temporary.open('wb'); the connection is there by then
OpenPart(p) ==
  /\ pc[p] = "open"
  /\ name' = [name EXCEPT !.part = PartInode] /\ fd' = [fd EXCEPT ![p] = PartInode]
  /\ content' = [content EXCEPT ![PartInode] = {}]
  /\ at' = [at EXCEPT ![p] = 0] /\ Goes(p, "write")
  /\ overlap' = (overlap \/ \E r \in Procs \ {p} : pc[r] \in Downloading)
  /\ UNCHANGED <<offline, checking, interrupts, verified>>

\* copyfileobj, block by block
WriteBlock(p) ==
  /\ pc[p] = "write" /\ at[p] < Blocks
  /\ at' = [at EXCEPT ![p] = @ + 1]
  /\ content' = [content EXCEPT ![fd[p]] = @ \cup {at[p] + 1}]
  /\ UNCHANGED <<name, pc, offline, fd, checking, interrupts, verified, overlap>>

EndDownload(p) ==
  /\ pc[p] = "write" /\ at[p] = Blocks
  /\ Goes(p, "inspect") /\ checking' = [checking EXCEPT ![p] = "part"]
  /\ fd' = [fd EXCEPT ![p] = None] /\ at' = [at EXCEPT ![p] = 0]
  /\ UNCHANGED <<name, content, offline, interrupts, verified, overlap>>

\* inspect: the header and the size, then sha256 opens the file again
Inspect(p) ==
  /\ pc[p] = "inspect"
  /\ LET inode == name[checking[p]]
     IN \/ /\ inode # None /\ {1, Blocks} \subseteq content[inode]
           /\ Goes(p, "read") /\ fd' = [fd EXCEPT ![p] = inode] /\ at' = [at EXCEPT ![p] = 0]
           /\ UNCHANGED <<offline, checking>>
        \/ /\ inode # None => ~({1, Blocks} \subseteq content[inode])
           /\ Leaves(p)
  /\ UNCHANGED <<name, content, interrupts, verified, overlap>>

\* what follows a hash that is the expected one: the rename, or the end
Checked(p) ==
  /\ fd' = [fd EXCEPT ![p] = None] /\ at' = [at EXCEPT ![p] = 0]
  /\ \/ checking[p] = "part" /\ Goes(p, "replace") /\ UNCHANGED verified
     \/ checking[p] = "path" /\ Goes(p, "prepared") /\ verified' = TRUE
  /\ UNCHANGED <<offline, checking>>

\* sha256, block by block of the inode it has opened
ReadBlock(p) ==
  /\ pc[p] = "read"
  /\ \/ /\ at[p] < Blocks /\ at[p] + 1 \in content[fd[p]]
        /\ at' = [at EXCEPT ![p] = @ + 1]
        /\ UNCHANGED <<pc, offline, fd, checking, verified>>
     \/ /\ at[p] < Blocks /\ at[p] + 1 \notin content[fd[p]]
        /\ Leaves(p) /\ UNCHANGED verified
     \/ at[p] = Blocks /\ Checked(p)
  /\ UNCHANGED <<name, content, interrupts, overlap>>

\* mutant: the file is not verified again under its final name
ReplaceUnchecked(p) ==
  /\ pc[p] = "replace"
  /\ \/ /\ name.part # None
        /\ name' = [part |-> None, path |-> name.part]
        /\ Goes(p, "prepared") /\ checking' = [checking EXCEPT ![p] = "path"]
        /\ verified' = TRUE
        /\ UNCHANGED <<offline, fd, at>>
     \/ name.part = None /\ Leaves(p) /\ UNCHANGED <<name, verified>>
  /\ UNCHANGED <<content, interrupts, overlap>>

\* temporary.replace(path) fails when another run has renamed the file
Replace(p) ==
  /\ pc[p] = "replace"
  /\ \/ /\ name.part # None
        /\ name' = [part |-> None, path |-> name.part]
        /\ Goes(p, "inspect") /\ checking' = [checking EXCEPT ![p] = "path"]
        /\ UNCHANGED <<offline, fd, at>>
     \/ name.part = None /\ Leaves(p) /\ UNCHANGED name
  /\ UNCHANGED <<content, interrupts, verified, overlap>>

\* a lost connection, a full disk, a signal
Interrupt(p) ==
  /\ pc[p] # "idle" /\ interrupts < MaxInterrupts
  /\ interrupts' = interrupts + 1
  /\ Leaves(p)
  /\ UNCHANGED <<name, content, verified, overlap>>

\* prepare_data.py as a command ends here
Finish(p) ==
  /\ pc[p] = "prepared" /\ Leaves(p)
  /\ UNCHANGED <<name, content, interrupts, verified, overlap>>

Prepare(p) ==
  \/ Look(p) \/ OpenPart(p) \/ WriteBlock(p) \/ EndDownload(p)
  \/ Inspect(p) \/ ReadBlock(p) \/ Replace(p)

-----------------------------------------------------------------------------
\* Under its final name a file that some run has verified stays whole, for those
\* who go on to read it: no other run, with the file half downloaded, half
\* verified or interrupted at any point, truncates it or puts a broken one in its
\* place (a second whole one it may).  This is for two runs at a time; three of
\* them can break it, by one truncating the inode that another has verified as
\* .part and the third has renamed.
VerifiedStaysWhole == verified => Whole(name.path)
=============================================================================
