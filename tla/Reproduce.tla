----------------------------- MODULE Reproduce -----------------------------
(***************************************************************************)
(* A reproduction run (scripts/reproduce.py, main): prepare the data, hash *)
(* the sources, build, check the sources, measure, check everything again, *)
(* and say "completed" in the manifest.  The Runner is such a process; the *)
(* other processes only prepare data.  Meanwhile a developer edits sources *)
(* and runs `make` in the same build directory.                            *)
(*                                                                         *)
(* An edit gives a file a version it never had: the checks compare hashes  *)
(* at three moments and cannot see an edit that is undone between two.     *)
(* `make` is one step.  The build reads every source and every pipeline    *)
(* file (CMakeLists.txt: of the scripts and configurations, hashed with    *)
(* it, the build reads none).  The output directory is the newest one, as  *)
(* a run never opens an old.                                               *)
(***************************************************************************)
EXTENDS PrepareData, Functions

CONSTANTS
  Runner,   \* the process that goes on from the data to a measurement
  Sources,  \* the source files
  Pipeline, \* the pipeline files that the build reads
  MaxEdits  \* bound on the edits explored

ASSUME ReproduceAssumption ==
  /\ Runner \in Procs /\ MaxEdits \in Nat
  /\ IsFiniteSet(Sources) /\ IsFiniteSet(Pipeline) /\ Sources \cap Pipeline = {}

VARIABLES
  source,    \* version of every source and pipeline file
  object,    \* version of each that the build has read; 0: none
  binary,    \* versions linked into build/cabs; all 0: none
  recorded,  \* manifest: source_sha256 and pipeline_sha256, binary_sha256, data
  done,      \* the files the loop at hand is through with
  measured,  \* the binary that ran, and the data that it read
  manifest,  \* status in manifest.json as written
  listed     \* the manifest that complete.json lists

buildVars == <<source, object, binary>>
runVars   == <<recorded, done, measured, manifest, listed>>
allVars   == <<vars, buildVars, runVars>>

Files    == Sources \cup Pipeline
NoFiles  == [f \in Files |-> 0]
NoRecord == [source |-> NoFiles, binary |-> NoFiles, data |-> {}]
NoResult == [binary |-> NoFiles, data |-> {}]

ReproduceInit ==
  /\ Init
  /\ source = [f \in Files |-> 1] /\ object = NoFiles /\ binary = NoFiles
  /\ recorded = NoRecord /\ done = {} /\ measured = NoResult
  /\ manifest = "none" /\ listed = "none"

\* the Runner moves to another stage, and the data files stay as they are
At(stage) == pc[Runner] = stage
Enters(stage) ==
  /\ Goes(Runner, stage)
  /\ UNCHANGED <<name, content, offline, fd, at, checking, interrupts, verified, overlap>>

-----------------------------------------------------------------------------
Data == content[name.path]

\* output.mkdir(exist_ok=False) and config.json
MakeOutput ==
  /\ At("prepared") /\ Enters("record")
  /\ recorded' = NoRecord /\ done' = {} /\ measured' = NoResult
  /\ manifest' = "none" /\ listed' = "none"
  /\ UNCHANGED buildVars

Record(files) ==
  /\ At("record")
  /\ \E f \in files \ done :
       /\ recorded' = [recorded EXCEPT !.source[f] = source[f]]
       /\ done' = done \cup {f}
  /\ UNCHANGED <<vars, buildVars, measured, manifest, listed>>

RecordSource   == Record(Sources)
RecordPipeline == Sources \subseteq done /\ Record(Pipeline)

SaveRunning ==
  /\ At("record") /\ done = Files /\ Enters("clean")
  /\ recorded' = [recorded EXCEPT !.data = Data]
  /\ done' = {} /\ manifest' = "running"
  /\ UNCHANGED <<buildVars, measured, listed>>

\* cmake --build --clean-first
Clean ==
  /\ At("clean") /\ Enters("build")
  /\ object' = NoFiles /\ binary' = NoFiles
  /\ UNCHANGED <<source, runVars>>

Compile ==
  /\ At("build")
  /\ \E f \in Files : object[f] = 0 /\ object' = [object EXCEPT ![f] = source[f]]
  /\ UNCHANGED <<vars, source, binary, runVars>>

Link ==
  /\ At("build") /\ (\A f \in Files : object[f] # 0) /\ Enters("built")
  /\ binary' = object
  /\ UNCHANGED <<source, object, runVars>>

HashBinary ==
  /\ At("built") /\ Enters("checkBuild")
  /\ recorded' = [recorded EXCEPT !.binary = binary]
  /\ UNCHANGED <<buildVars, done, measured, manifest, listed>>

\* an exception: the manifest says so, and the run is over
Refuses ==
  /\ Leaves(Runner) /\ manifest' = "failed" /\ done' = {}
  /\ UNCHANGED <<name, content, interrupts, verified, overlap, buildVars, recorded, measured, listed>>

Checks == {"checkBuild", "checkMeasured"}

\* mutant: all where any is meant
AllDiffer(f) ==
  \A g \in IF f \in Sources THEN Sources ELSE Pipeline : source[g] # recorded.source[g]

Differs(f) == source[f] # recorded.source[f]

\* any(sha256(file) != recorded): file after file, up to the first that differs
Check(files) ==
  \E f \in files \ done :
    \/ Differs(f) /\ Refuses
    \/ /\ ~Differs(f) /\ done' = done \cup {f}
       /\ UNCHANGED <<vars, buildVars, recorded, measured, manifest, listed>>

CheckSource   == pc[Runner] \in Checks /\ Check(Sources)
CheckPipeline == At("checkPipeline") /\ Check(Pipeline)

SaveBuilt ==
  /\ At("checkBuild") /\ done = Sources /\ Enters("measure")
  /\ done' = {} /\ manifest' = "measuring"
  /\ UNCHANGED <<buildVars, recorded, measured, listed>>

\* build/cabs run, with the data and the queries
Measure ==
  /\ At("measure") /\ Enters("checkMeasured")
  /\ measured' = [binary |-> binary, data |-> Data]
  /\ UNCHANGED <<buildVars, recorded, done, manifest, listed>>

SourcesKept ==
  /\ At("checkMeasured") /\ done = Sources /\ Enters("checkPipeline")
  /\ done' = {}
  /\ UNCHANGED <<buildVars, recorded, measured, manifest, listed>>

PipelineKept ==
  /\ At("checkPipeline") /\ done = Pipeline /\ Enters("checkInputs")
  /\ done' = {}
  /\ UNCHANGED <<buildVars, recorded, measured, manifest, listed>>

\* the executable and the data, against the manifest
CheckInputs ==
  /\ At("checkInputs")
  /\ LET kept == binary = recorded.binary /\ Data = recorded.data
     IN \/ kept /\ Enters("accept") /\ UNCHANGED <<buildVars, runVars>>
        \/ ~kept /\ Refuses

SaveCompleted ==
  /\ At("accept") /\ Enters("list")
  /\ manifest' = "completed"
  /\ UNCHANGED <<buildVars, recorded, done, measured, listed>>

SaveListing ==
  /\ At("list") /\ Enters("print")
  /\ listed' = manifest
  /\ UNCHANGED <<buildVars, recorded, done, measured, manifest>>

RunEnds ==
  /\ At("print") /\ Leaves(Runner)
  /\ UNCHANGED <<name, content, interrupts, verified, overlap, buildVars, runVars>>

Guarded == {"clean", "build", "built", "checkBuild", "measure",
            "checkMeasured", "checkPipeline", "checkInputs", "accept", "list", "print"}
Saving  == {"record", "checkBuild", "accept"}

\* a failed command, or an interruption that Python sees
Fail ==
  /\ pc[Runner] \in Guarded /\ interrupts < MaxInterrupts
  /\ interrupts' = interrupts + 1
  /\ Leaves(Runner) /\ manifest' = "failed" /\ done' = {}
  /\ UNCHANGED <<name, content, verified, overlap, buildVars, recorded, measured, listed>>

\* the process dies; a save that it was in leaves a torn file
Die ==
  /\ pc[Runner] \in Guarded \cup {"record"} /\ interrupts < MaxInterrupts
  /\ interrupts' = interrupts + 1
  /\ Leaves(Runner) /\ done' = {}
  /\ \/ UNCHANGED <<manifest, listed>>
     \/ pc[Runner] \in Saving /\ manifest' = "torn" /\ UNCHANGED listed
     \/ At("list") /\ listed' = "torn" /\ UNCHANGED manifest
  /\ UNCHANGED <<name, content, verified, overlap, buildVars, recorded, measured>>

RunStep ==
  \/ MakeOutput \/ RecordSource \/ RecordPipeline \/ SaveRunning
  \/ Clean \/ Compile \/ Link \/ HashBinary
  \/ CheckSource \/ SaveBuilt \/ Measure
  \/ SourcesKept \/ CheckPipeline \/ PipelineKept \/ CheckInputs
  \/ SaveCompleted \/ SaveListing \/ RunEnds

\* the developer
Edit ==
  /\ FoldFunctionOnSet(+, 0, source, Files) < Cardinality(Files) + MaxEdits
  /\ \E f \in Files : source' = [source EXCEPT ![f] = @ + 1]
  /\ UNCHANGED <<vars, object, binary, runVars>>

Make ==
  /\ pc[Runner] \in Guarded  \* a build before is cleaned away
  /\ object' = source /\ binary' = source
  /\ UNCHANGED <<vars, source, runVars>>

Preparing(p) == pc[p] \notin Guarded \cup {"record"}

Next ==
  \/ \E p \in Procs :
       \/ \E off \in BOOLEAN : Begin(p, off) /\ UNCHANGED <<buildVars, runVars>>
       \/ Prepare(p) /\ UNCHANGED <<buildVars, runVars>>
       \/ Preparing(p) /\ Interrupt(p) /\ UNCHANGED <<buildVars, runVars>>
       \/ p # Runner /\ Finish(p) /\ UNCHANGED <<buildVars, runVars>>
  \/ RunStep \/ Fail \/ Die
  \/ Edit \/ Make

\* A process that is not interrupted goes on, and the run is started again
\* whenever it has ended, each time online.
Fairness ==
  /\ \A p \in Procs : WF_allVars(Prepare(p) /\ UNCHANGED <<buildVars, runVars>>)
  /\ WF_allVars(RunStep)
  /\ SF_allVars(Begin(Runner, FALSE) /\ UNCHANGED <<buildVars, runVars>>)

Spec == ReproduceInit /\ [][Next]_allVars /\ Fairness

-----------------------------------------------------------------------------
\* What the manifest calls completed, or complete.json lists, was measured with a
\* binary built from exactly the source and pipeline versions on record, on the whole
\* published data, whatever was edited, rebuilt, downloaded or interrupted
\* meanwhile (an edit that is undone apart); and complete.json never carries the
\* hash of a manifest from before the measurement was accepted.
AcceptedIsRecorded ==
  /\ manifest = "completed" \/ listed \notin {"none", "torn"} =>
       /\ measured.binary = recorded.source
       /\ measured.data = recorded.data /\ recorded.data = 1..Blocks
  /\ listed \in {"none", "torn", "completed"}

\* A .part file, an unfinished build or a manifest that an interrupted or refused
\* run left behind never stands in the way of the next: who starts the run again,
\* with the sources at rest and no two downloads at the same time, gets a whole
\* data file and a completed run.
RerunCompletes == []~overlap => []<>(manifest = "completed" /\ Whole(name.path))
=============================================================================
