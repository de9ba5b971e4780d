----------------------------- MODULE ArduinoBuild -----------------------------
(***************************************************************************)
(* tools/grevir_irqgen/arduino_build.py: the two-pass build of a sketch.   *)
(* A build stages a copy of the sketch in a work directory of its own,     *)
(* compiles the interrupt probe, generates the bindings, compiles the      *)
(* staged sketch with them, and publishes the firmware artifacts and then  *)
(* a firmware marker in the output directory, which builds share.          *)
(*                                                                         *)
(* A step in the work directory is one action as long as nothing else can  *)
(* see it; the copy and the output directory take one for every file.      *)
(* What a compiler reads is a unit: a version of each file of the staged   *)
(* sketch, and one of the libraries, which stay where they are.  A unit    *)
(* determines the interrupt bindings and the artifacts the compiler        *)
(* exports.  A build that raises has failed, one that is interrupted is    *)
(* killed, at any step.                                                    *)
(***************************************************************************)
EXTENDS Naturals, FiniteSets

CONSTANTS
  Build,      \* builds; each is also its two uuids
  Crashable,  \* builds that may fail or be killed anywhere
  Version,    \* versions of the sketch
  Part,       \* the files of the sketch
  Library,    \* versions of the --library directories
  File,       \* names of firmware artifacts
  Bindings,   \* the bindings of a unit, which its static assertions check
  Exports,    \* the artifacts the compiler exports for a unit
  None

Unit == [sketch : [Part -> Version], library : Library]

ASSUME ArduinoAssumption ==
  /\ Crashable \subseteq Build
  /\ Exports \in [Unit -> SUBSET File] /\ DOMAIN Bindings = Unit
  /\ None \notin Build \cup Version \cup Unit

VARIABLES
  sketch,  \* the sketch as the developer has it
  library, \* the libraries as the developer has them
  work,    \* the work directories
  output,  \* the artifacts in the output directory
  marker,  \* grevir_irq_firmware_ready.json
  pc,      \* the step each build is at
  done,    \* the artifacts each build has published: its dictionary `artifacts`
  overlap  \* history: a build was started while another was running

vars == <<sketch, library, work, output, marker, pc, done, overlap>>

Empty == [stage |-> [p \in Part |-> None], plan |-> None, export |-> None]

NoMarker == [attempt |-> None, plan |-> None, artifacts |-> <<>>]

Ended == {"ready", "failed", "killed"}

Running(b) == pc[b] \notin Ended \cup {"waiting"}

Init ==
  /\ sketch \in Version /\ library \in Library
  /\ work = [b \in Build |-> Empty]
  /\ output = [f \in File |-> None]
  /\ marker = NoMarker
  /\ pc = [b \in Build |-> "waiting"]
  /\ done = [b \in Build |-> {}]
  /\ overlap = FALSE

Move(b, from, to) == pc[b] = from /\ pc' = [pc EXCEPT ![b] = to]

Edit ==
  /\ \/ sketch' \in Version \ {sketch} /\ UNCHANGED library
     \/ library' \in Library \ {library} /\ UNCHANGED sketch
  /\ UNCHANGED <<work, output, marker, pc, done, overlap>>

StartBuild(b) ==
  /\ Move(b, "waiting", "begin")
  /\ overlap' = (overlap \/ \E other \in Build : Running(other))
  /\ UNCHANGED <<sketch, library, work, output, marker, done>>

\* Mutant: the marker of the last build stays until it is replaced.
MarkerKept == marker

MarkerCleared == NoMarker

RemoveMarker(b) ==
  /\ Move(b, "begin", "stage")
  /\ marker' = MarkerCleared
  /\ UNCHANGED <<sketch, library, work, output, done, overlap>>

\* Mutant: all builds work in one directory.
SharedDirectory(b) == CHOOSE d \in Build : TRUE

WorkDirectory(b) == b

Here(b) == work[WorkDirectory(b)]

Copied(b) == \A p \in Part : Here(b).stage[p] # None

\* copytree, one file after the other: the sketch may be edited in between.
Stage(b) ==
  /\ pc[b] = "stage"
  /\ \E p \in Part :
       /\ Here(b).stage[p] = None
       /\ work' = [work EXCEPT ![WorkDirectory(b)].stage[p] = sketch]
  /\ UNCHANGED <<sketch, library, output, marker, pc, done, overlap>>

StageEnds(b) ==
  /\ Move(b, "stage", "generate")
  /\ Copied(b)
  /\ UNCHANGED <<sketch, library, work, output, marker, done, overlap>>

\* Mutant: the second pass compiles the sketch itself.
CompiledInPlace(b) == [sketch |-> [p \in Part |-> sketch], library |-> library]

\* What a compiler reads now.
Compiled(b) == [sketch |-> Here(b).stage, library |-> library]

\* The probe is compiled from the staged sketch and planned, emitted and verified in
\* the work directory.
Generate(b) ==
  /\ Move(b, "generate", "compile")
  /\ work' = [work EXCEPT ![WorkDirectory(b)].plan = [sketch |-> Here(b).stage, library |-> library]]
  /\ UNCHANGED <<sketch, library, output, marker, done, overlap>>

\* Mutant: the static assertions do not look at the bindings.
Unasserted(b) == TRUE

\* The static assertions of the generated source.
BindingsMatch(b) == Bindings[Here(b).plan] = Bindings[Compiled(b)]

\* The strict pass.
CompileStrict(b) ==
  /\ Move(b, "compile", IF BindingsMatch(b) THEN "publish" ELSE "failed")
  /\ work' = [work EXCEPT ![WorkDirectory(b)].export = Compiled(b)]
  /\ UNCHANGED <<sketch, library, output, marker, done, overlap>>

Exported(b) == Exports[Here(b).export]

Publish(b) ==
  /\ pc[b] = "publish"
  /\ \E f \in Exported(b) \ done[b] :
       /\ output' = [output EXCEPT ![f] = Here(b).export]
       /\ done' = [done EXCEPT ![b] = @ \cup {f}]
  /\ UNCHANGED <<sketch, library, work, marker, pc, overlap>>

\* Mutant: the marker is written as soon as one artifact is.
SomePublished(b) == done[b] # {}

AllPublished(b) == Exported(b) \subseteq done[b]

\* Mutant: a build that exports nothing is marked all the same.
AnyIsMarked(b) == "mark"

NoneIsRejected(b) == IF done[b] = {} THEN "failed" ELSE "mark"

PublishEnds(b) ==
  /\ Move(b, "publish", NoneIsRejected(b))
  /\ AllPublished(b)
  /\ UNCHANGED <<sketch, library, work, output, marker, done, overlap>>

WriteMarker(b) ==
  /\ Move(b, "mark", "ready")
  /\ marker' = [attempt |-> b, plan |-> Here(b).plan,
                artifacts |-> [f \in done[b] |-> Here(b).export]]
  /\ UNCHANGED <<sketch, library, work, output, done, overlap>>

\* Any command fails, or the build is killed.
Fail(b) ==
  /\ b \in Crashable
  /\ Running(b)
  /\ \E end \in {"failed", "killed"} : pc' = [pc EXCEPT ![b] = end]
  /\ UNCHANGED <<sketch, library, work, output, marker, done, overlap>>

BuildStep(b) ==
  \/ RemoveMarker(b) \/ Stage(b) \/ StageEnds(b) \/ Generate(b) \/ CompileStrict(b)
  \/ Publish(b) \/ PublishEnds(b) \/ WriteMarker(b)

Next ==
  \/ Edit
  \/ \E b \in Build : StartBuild(b) \/ BuildStep(b) \/ Fail(b)

Spec == Init /\ [][Next]_vars

-----------------------------------------------------------------------------
(* Properties. *)

\* As long as builds do not overlap, the firmware marker stands only beside the
\* complete and not empty set of artifacts it lists, which the compiler exported for one
\* unit: neither a crash between two artifacts nor a later build that fails leaves it over
\* files of two builds (arduino_build.py:49,109-125).
MarkerCoversOutput ==
  (marker # NoMarker /\ ~overlap) =>
    \E unit \in Unit :
      /\ DOMAIN marker.artifacts = Exports[unit] /\ Exports[unit] # {}
      /\ \A f \in DOMAIN marker.artifacts :
           marker.artifacts[f] = unit /\ output[f] = unit

\* The artifacts a marker names were compiled from the copy of the sketch that its plan
\* was made for, and their bindings are those of the plan, although the sketch and the
\* libraries are edited during the copy or between the two passes and other builds run
\* at the same time (arduino_build.py:50-53,98-122).
FirmwareIsOneSketch ==
  \A f \in DOMAIN marker.artifacts :
    /\ marker.artifacts[f].sketch = marker.plan.sketch
    /\ Bindings[marker.artifacts[f]] = Bindings[marker.plan]

\* A build none of whose commands fails publishes, although the sketch is edited and
\* other builds run or failed anywhere: it never fails of itself unless the compiler
\* exports nothing or a library was edited between its two passes
\* (arduino_build.py:50-60,99-118).
UndisturbedBuildPublishes ==
  \A b \in Build \ Crashable :
    pc[b] = "failed" =>
      \/ Exports[work[b].export] = {}
      \/ work[b].plan.library # work[b].export.library
=============================================================================
