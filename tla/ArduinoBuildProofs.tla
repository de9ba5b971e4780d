-------------------------- MODULE ArduinoBuildProofs --------------------------
(***************************************************************************)
(* Machine-checked proofs about ArduinoBuild, for any number of builds,    *)
(* versions, files and artifacts, whichever builds fail or are killed and however *)
(* they overlap.                                                           *)
(***************************************************************************)
EXTENDS ArduinoBuild, TLAPS

-----------------------------------------------------------------------------
(* The inductive invariant. *)

Maybe(S) == S \cup {None}

Copies == [Part -> Maybe(Version)]

Directory == [stage : Copies, plan : Maybe(Unit), export : Maybe(Unit)]

Early == {"waiting", "begin", "stage", "generate", "compile"}

Steps == Early \cup {"publish", "mark"} \cup Ended

ArduinoTypeOK ==
  /\ sketch \in Version /\ library \in Library
  /\ work \in [Build -> Directory]
  /\ output \in [File -> Maybe(Unit)]
  /\ pc \in [Build -> Steps]
  /\ done \in [Build -> SUBSET File]
  /\ overlap \in BOOLEAN

\* What a build has put in its own work directory at each step, whatever others do.
WorkByStep ==
  \A b \in Build :
    /\ pc[b] \in {"generate", "compile", "publish", "mark"} => work[b].stage \in [Part -> Version]
    /\ pc[b] \in {"compile", "publish", "mark"} =>
         work[b].plan \in Unit /\ work[b].plan.sketch = work[b].stage
    /\ pc[b] \in {"publish", "mark"} =>
         /\ work[b].export \in Unit /\ work[b].export.sketch = work[b].stage
         /\ Bindings[work[b].export] = Bindings[work[b].plan]

PublishedByStep ==
  \A b \in Build :
    /\ pc[b] \in Early => done[b] = {}
    /\ pc[b] = "publish" => done[b] \subseteq Exports[work[b].export]
    /\ pc[b] = "mark" => done[b] = Exports[work[b].export] /\ done[b] # {}

\* A marker names the artifacts of one unit, all of them, and a plan that fits them.
MarkerWhole ==
  marker # NoMarker =>
    \E unit \in Unit :
      /\ DOMAIN marker.artifacts = Exports[unit] /\ Exports[unit] # {}
      /\ \A f \in DOMAIN marker.artifacts : marker.artifacts[f] = unit
      /\ unit.sketch = marker.plan.sketch /\ Bindings[unit] = Bindings[marker.plan]

\* Without overlap a build has the output directory to itself: the old marker is gone
\* before the first artifact is replaced, and those it published are still there.
Exclusive == \A b, c \in Build : Running(b) /\ Running(c) => b = c

OwnOutput(b) ==
  /\ (Running(b) /\ pc[b] # "begin") => marker = NoMarker
  /\ pc[b] \in {"publish", "mark"} => \A f \in done[b] : output[f] = work[b].export

MarkerTrue ==
  marker # NoMarker => \A f \in DOMAIN marker.artifacts : output[f] = marker.artifacts[f]

AloneInv == ~overlap => Exclusive /\ MarkerTrue /\ \A b \in Build : OwnOutput(b)

ArduinoInv ==
  /\ ArduinoTypeOK
  /\ WorkByStep
  /\ PublishedByStep
  /\ MarkerWhole
  /\ UndisturbedBuildPublishes
  /\ AloneInv

-----------------------------------------------------------------------------
(* Work directories. *)

\* Putting a part into the work directory of b leaves the other parts, and the directories
\* of the other builds.
LEMMA StageReplaced ==
  ASSUME work \in [Build -> Directory], NEW b \in Build, NEW s \in Copies,
         work' = [work EXCEPT ![b].stage = s]
  PROVE  /\ work' \in [Build -> Directory]
         /\ \A c \in Build : c # b => work'[c] = work[c]
<1>1. [work[b] EXCEPT !.stage = s] \in Directory
  BY DEF Directory
<1>2. work' = [work EXCEPT ![b] = [work[b] EXCEPT !.stage = s]]
  OBVIOUS
<1> QED BY <1>1, <1>2

LEMMA PlanReplaced ==
  ASSUME work \in [Build -> Directory], NEW b \in Build, NEW u \in Unit,
         work' = [work EXCEPT ![b].plan = u]
  PROVE  /\ work' \in [Build -> Directory]
         /\ work'[b].stage = work[b].stage /\ work'[b].plan = u
<1>1. /\ [work[b] EXCEPT !.plan = u] \in Directory
      /\ [work[b] EXCEPT !.plan = u].stage = work[b].stage
      /\ [work[b] EXCEPT !.plan = u].plan = u
  BY DEF Directory, Maybe
<1>2. work' = [work EXCEPT ![b] = [work[b] EXCEPT !.plan = u]]
  OBVIOUS
<1> QED BY <1>1, <1>2

LEMMA ExportReplaced ==
  ASSUME work \in [Build -> Directory], NEW b \in Build, NEW u \in Unit,
         work' = [work EXCEPT ![b].export = u]
  PROVE  /\ work' \in [Build -> Directory]
         /\ work'[b].stage = work[b].stage /\ work'[b].plan = work[b].plan
         /\ work'[b].export = u
<1>1. /\ [work[b] EXCEPT !.export = u] \in Directory
      /\ [work[b] EXCEPT !.export = u].stage = work[b].stage
      /\ [work[b] EXCEPT !.export = u].plan = work[b].plan
      /\ [work[b] EXCEPT !.export = u].export = u
  BY DEF Directory, Maybe
<1>2. work' = [work EXCEPT ![b] = [work[b] EXCEPT !.export = u]]
  OBVIOUS
<1> QED BY <1>1, <1>2

\* One file copied.
LEMMA PartCopied ==
  ASSUME ArduinoTypeOK, NEW b \in Build, Stage(b)
  PROVE  /\ pc[b] = "stage" /\ work' \in [Build -> Directory]
         /\ \A c \in Build : c # b => work'[c] = work[c]
         /\ UNCHANGED <<sketch, library, output, marker, pc, done, overlap>>
<1>1. PICK p \in Part : work' = [work EXCEPT ![b].stage = [work[b].stage EXCEPT ![p] = sketch]]
  BY DEF Stage, WorkDirectory
<1>2. work \in [Build -> Directory] /\ work[b].stage \in Copies /\ sketch \in Maybe(Version)
  BY DEF ArduinoTypeOK, Directory, Maybe
<1>3. [work[b].stage EXCEPT ![p] = sketch] \in Copies
  BY <1>2 DEF Copies
<1>4. work' \in [Build -> Directory] /\ \A c \in Build : c # b => work'[c] = work[c]
  BY <1>1, <1>2, <1>3, StageReplaced
<1> QED BY <1>4 DEF Stage

\* What a compiler reads is a unit once the whole sketch is copied.
LEMMA UnitRead ==
  ASSUME ArduinoTypeOK, NEW b \in Build, work[b].stage \in [Part -> Version]
  PROVE  /\ Compiled(b) = [sketch |-> work[b].stage, library |-> library]
         /\ Compiled(b) \in Unit /\ Compiled(b) \in Maybe(Unit)
         /\ Compiled(b).sketch = work[b].stage
BY DEF Compiled, Here, WorkDirectory, Unit, Maybe, ArduinoTypeOK

LEMMA ArduinoInit == Init => ArduinoInv
<1> SUFFICES ASSUME Init PROVE ArduinoInv
  OBVIOUS
<1>1. ArduinoTypeOK
  BY DEF Init, ArduinoTypeOK, Empty, Directory, Copies, Maybe, Steps, Early
<1>2. WorkByStep /\ PublishedByStep /\ UndisturbedBuildPublishes
  BY DEF Init, WorkByStep, PublishedByStep, UndisturbedBuildPublishes
<1>3. MarkerWhole /\ AloneInv
  BY DEF Init, MarkerWhole, AloneInv, Exclusive, Running, MarkerTrue, OwnOutput
<1> QED BY <1>1, <1>2, <1>3 DEF ArduinoInv

\* A build that moves leaves the other builds where they are.
LEMMA MoveOthers ==
  ASSUME ArduinoTypeOK, NEW b \in Build, NEW from, NEW to \in Steps, Move(b, from, to)
  PROVE  /\ pc' \in [Build -> Steps]
         /\ pc[b] = from /\ pc'[b] = to
         /\ \A c \in Build : c # b => pc'[c] = pc[c]
BY DEF Move, ArduinoTypeOK

\* A step in the work directory of b leaves those of the others.
LEMMA WorkOthers ==
  ASSUME ArduinoTypeOK, NEW b \in Build, Generate(b) \/ CompileStrict(b)
  PROVE  \A c \in Build : c # b => pc'[c] = pc[c] /\ work'[c] = work[c]
<1>1. work \in [Build -> Directory]
  BY DEF ArduinoTypeOK
<1>2. PICK v : \/ work' = [work EXCEPT ![b].plan = v]
               \/ work' = [work EXCEPT ![b].export = v]
  BY DEF Generate, CompileStrict, WorkDirectory
<1>3. \A c \in Build : c # b => work'[c] = work[c]
  BY <1>1, <1>2
<1>4. PICK from, to : Move(b, from, to)
  BY DEF Generate, CompileStrict
<1> QED BY <1>3, <1>4 DEF Move, ArduinoTypeOK

\* What the two passes put into the work directory.
LEMMA GenerateWrites ==
  ASSUME ArduinoTypeOK, WorkByStep, NEW b \in Build, Generate(b)
  PROVE  /\ pc[b] = "generate" /\ pc'[b] = "compile" /\ pc' \in [Build -> Steps]
         /\ work' \in [Build -> Directory]
         /\ work'[b].stage = work[b].stage /\ work'[b].plan = Compiled(b)
         /\ Compiled(b) \in Unit /\ Compiled(b).sketch = work[b].stage
         /\ work[b].stage \in [Part -> Version]
<1>1. "compile" \in Steps
  BY DEF Steps, Early
<1>2. pc[b] = "generate" /\ pc'[b] = "compile" /\ pc' \in [Build -> Steps]
  BY <1>1, MoveOthers DEF Generate
<1>3. work[b].stage \in [Part -> Version]
  BY <1>2 DEF WorkByStep
<1>4. Compiled(b) \in Unit /\ Compiled(b).sketch = work[b].stage
  BY <1>3, UnitRead
<1>5. work' = [work EXCEPT ![b].plan = Compiled(b)]
  BY DEF Generate, Compiled, Here, WorkDirectory
<1>6. work \in [Build -> Directory]
  BY DEF ArduinoTypeOK
<1>7. /\ work' \in [Build -> Directory]
      /\ work'[b].stage = work[b].stage /\ work'[b].plan = Compiled(b)
  BY <1>4, <1>5, <1>6, PlanReplaced
<1> QED BY <1>2, <1>3, <1>4, <1>7

LEMMA StrictWrites ==
  ASSUME ArduinoTypeOK, WorkByStep, NEW b \in Build, CompileStrict(b)
  PROVE  /\ pc[b] = "compile" /\ pc' \in [Build -> Steps]
         /\ pc'[b] = IF Bindings[work[b].plan] = Bindings[Compiled(b)] THEN "publish" ELSE "failed"
         /\ work' \in [Build -> Directory]
         /\ work'[b].stage = work[b].stage /\ work'[b].plan = work[b].plan
         /\ work'[b].export = Compiled(b)
         /\ Compiled(b) \in Unit /\ Compiled(b).sketch = work[b].stage
         /\ work[b].stage \in [Part -> Version]
<1>1. {"publish", "failed"} \subseteq Steps
  BY DEF Steps, Ended
<1>2. /\ pc[b] = "compile" /\ pc' \in [Build -> Steps]
      /\ pc'[b] = IF BindingsMatch(b) THEN "publish" ELSE "failed"
  BY <1>1, MoveOthers DEF CompileStrict
<1>3. work[b].stage \in [Part -> Version]
  BY <1>2 DEF WorkByStep
<1>4. Compiled(b) \in Unit /\ Compiled(b).sketch = work[b].stage
  BY <1>3, UnitRead
<1>5. work' = [work EXCEPT ![b].export = Compiled(b)]
  BY DEF CompileStrict, WorkDirectory
<1>6. work \in [Build -> Directory]
  BY DEF ArduinoTypeOK
<1>7. /\ work' \in [Build -> Directory]
      /\ work'[b].stage = work[b].stage /\ work'[b].plan = work[b].plan
      /\ work'[b].export = Compiled(b)
  BY <1>4, <1>5, <1>6, ExportReplaced
<1>8. BindingsMatch(b) <=> Bindings[work[b].plan] = Bindings[Compiled(b)]
  BY DEF BindingsMatch, Here, WorkDirectory
<1> QED BY <1>2, <1>3, <1>4, <1>7, <1>8

LEMMA ArduinoTypeStep == ArduinoTypeOK /\ WorkByStep /\ [Next]_vars => ArduinoTypeOK'
<1> SUFFICES ASSUME ArduinoTypeOK, WorkByStep, [Next]_vars PROVE ArduinoTypeOK'
  OBVIOUS
<1> USE DEF ArduinoTypeOK
<1>a. Steps = {"waiting", "begin", "stage", "generate", "compile", "publish", "mark",
               "ready", "failed", "killed"}
  BY DEF Steps, Early, Ended
<1>b. \A b \in Build : work[b].export \in Maybe(Unit)
  BY DEF Directory
<1>1. CASE Edit \/ UNCHANGED vars
  BY <1>1 DEF Edit, vars
<1>2. ASSUME NEW b \in Build, StartBuild(b) \/ RemoveMarker(b) \/ WriteMarker(b)
      PROVE  ArduinoTypeOK'
  BY <1>2, <1>a, MoveOthers DEF StartBuild, RemoveMarker, WriteMarker
<1>3. ASSUME NEW b \in Build, Stage(b) \/ StageEnds(b) PROVE ArduinoTypeOK'
  <2>1. CASE Stage(b)
    BY <2>1, PartCopied
  <2>2. CASE StageEnds(b)
    BY <2>2, <1>a, MoveOthers DEF StageEnds
  <2> QED BY <1>3, <2>1, <2>2
<1>4. ASSUME NEW b \in Build, Generate(b) PROVE ArduinoTypeOK'
  BY <1>4, GenerateWrites DEF Generate
<1>5. ASSUME NEW b \in Build, CompileStrict(b) PROVE ArduinoTypeOK'
  BY <1>5, StrictWrites DEF CompileStrict
<1>6. ASSUME NEW b \in Build, Publish(b) PROVE ArduinoTypeOK'
  <2>1. PICK f \in Exported(b) \ done[b] :
          /\ output' = [output EXCEPT ![f] = Here(b).export]
          /\ done' = [done EXCEPT ![b] = @ \cup {f}]
    BY <1>6 DEF Publish
  <2>2. output' \in [File -> Maybe(Unit)]
    BY <2>1, <1>b DEF Here, WorkDirectory
  <2>3. f \in File
    BY <1>6, <2>1, ArduinoAssumption DEF Publish, WorkByStep, Exported, Here, WorkDirectory
  <2> QED BY <1>6, <2>1, <2>2, <2>3 DEF Publish
<1>7. ASSUME NEW b \in Build, PublishEnds(b) PROVE ArduinoTypeOK'
  BY <1>7, <1>a, MoveOthers DEF PublishEnds, NoneIsRejected
<1>8. ASSUME NEW b \in Build, Fail(b) PROVE ArduinoTypeOK'
  BY <1>8, <1>a DEF Fail
<1> QED BY <1>1, <1>2, <1>3, <1>4, <1>5, <1>6, <1>7, <1>8 DEF Next, BuildStep

-----------------------------------------------------------------------------
(* The steps of one build. *)

LEMMA WorkStep == ArduinoTypeOK /\ WorkByStep /\ [Next]_vars => WorkByStep'
<1> SUFFICES ASSUME ArduinoTypeOK, WorkByStep, [Next]_vars PROVE WorkByStep'
  OBVIOUS
<1> USE DEF WorkByStep
<1>b. {"begin", "stage", "generate", "compile", "publish", "mark", "ready", "failed",
       "killed"} \subseteq Steps
  BY DEF Steps, Early, Ended
<1>1. CASE Edit \/ UNCHANGED vars
  BY <1>1 DEF Edit, vars
<1>2. ASSUME NEW b \in Build,
             StartBuild(b) \/ RemoveMarker(b) \/ PublishEnds(b) \/ WriteMarker(b)
      PROVE  WorkByStep'
  BY <1>2, <1>b, MoveOthers
  DEF StartBuild, RemoveMarker, PublishEnds, NoneIsRejected, WriteMarker
<1>3. ASSUME NEW b \in Build, Stage(b) \/ StageEnds(b) PROVE WorkByStep'
  <2>1. CASE Stage(b)
    BY <2>1, PartCopied
  <2>2. CASE StageEnds(b)
    <3>1. work[b].stage \in Copies /\ \A p \in Part : work[b].stage[p] # None
      BY <2>2 DEF StageEnds, Copied, Here, WorkDirectory, ArduinoTypeOK, Directory
    <3>2. work[b].stage \in [Part -> Version]
      BY <3>1 DEF Copies, Maybe
    <3> QED BY <2>2, <3>2, <1>b, MoveOthers DEF StageEnds
  <2> QED BY <1>3, <2>1, <2>2
<1>4. ASSUME NEW b \in Build, Generate(b) PROVE WorkByStep'
  <2>1. /\ pc'[b] = "compile" /\ work'[b].stage = work[b].stage /\ work'[b].plan = Compiled(b)
        /\ Compiled(b) \in Unit /\ Compiled(b).sketch = work[b].stage
        /\ work[b].stage \in [Part -> Version]
    BY <1>4, GenerateWrites
  <2> QED BY <1>4, <2>1, WorkOthers
<1>5. ASSUME NEW b \in Build, CompileStrict(b) PROVE WorkByStep'
  <2>1. /\ pc'[b] = IF Bindings[work[b].plan] = Bindings[Compiled(b)] THEN "publish" ELSE "failed"
        /\ work'[b].stage = work[b].stage /\ work'[b].plan = work[b].plan
        /\ work'[b].export = Compiled(b) /\ pc[b] = "compile"
        /\ Compiled(b) \in Unit /\ Compiled(b).sketch = work[b].stage
        /\ work[b].stage \in [Part -> Version]
    BY <1>5, StrictWrites
  <2> QED BY <1>5, <2>1, WorkOthers
<1>6. ASSUME NEW b \in Build, Publish(b) PROVE WorkByStep'
  BY <1>6 DEF Publish
<1>7. ASSUME NEW b \in Build, Fail(b) PROVE WorkByStep'
  BY <1>7 DEF Fail, ArduinoTypeOK
<1> QED BY <1>1, <1>2, <1>3, <1>4, <1>5, <1>6, <1>7 DEF Next, BuildStep

LEMMA PublishedStep ==
  ArduinoTypeOK /\ WorkByStep /\ PublishedByStep /\ [Next]_vars => PublishedByStep'
<1> SUFFICES ASSUME ArduinoTypeOK, WorkByStep, PublishedByStep, [Next]_vars
             PROVE  PublishedByStep'
  OBVIOUS
<1> USE DEF PublishedByStep, Early
<1>a. done \in [Build -> SUBSET File]
  BY DEF ArduinoTypeOK
<1>b. {"begin", "stage", "generate", "compile", "publish", "mark", "ready", "failed",
       "killed"} \subseteq Steps
  BY DEF Steps, Ended
<1>1. CASE Edit \/ UNCHANGED vars
  BY <1>1 DEF Edit, vars
<1>2. ASSUME NEW b \in Build, StartBuild(b) \/ RemoveMarker(b) \/ WriteMarker(b)
      PROVE  PublishedByStep'
  BY <1>2, <1>b, MoveOthers DEF StartBuild, RemoveMarker, WriteMarker
<1>3. ASSUME NEW b \in Build, Stage(b) \/ StageEnds(b) PROVE PublishedByStep'
  <2>1. CASE Stage(b)
    BY <2>1, PartCopied
  <2>2. CASE StageEnds(b)
    BY <2>2, <1>b, MoveOthers DEF StageEnds
  <2> QED BY <1>3, <2>1, <2>2
<1>4. ASSUME NEW b \in Build, Generate(b) PROVE PublishedByStep'
  BY <1>4, <1>b, MoveOthers, WorkOthers DEF Generate
<1>5. ASSUME NEW b \in Build, CompileStrict(b) PROVE PublishedByStep'
  <2>1. pc[b] = "compile" /\ pc'[b] \in {"publish", "failed"} /\ done' = done
    BY <1>5, <1>b, MoveOthers DEF CompileStrict
  <2> QED BY <1>5, <2>1, WorkOthers
<1>6. ASSUME NEW b \in Build, Publish(b) PROVE PublishedByStep'
  BY <1>6, <1>a DEF Publish, Exported, Here, WorkDirectory
<1>7. ASSUME NEW b \in Build, PublishEnds(b) PROVE PublishedByStep'
  <2>1. /\ pc[b] = "publish" /\ Exports[work[b].export] \subseteq done[b]
        /\ pc'[b] = IF done[b] = {} THEN "failed" ELSE "mark"
        /\ \A c \in Build : c # b => pc'[c] = pc[c]
    BY <1>7, <1>b, MoveOthers
    DEF PublishEnds, NoneIsRejected, AllPublished, Exported, Here, WorkDirectory
  <2>2. done[b] = Exports[work[b].export] /\ work' = work /\ done' = done
    BY <1>7, <2>1 DEF PublishEnds
  <2> QED BY <2>1, <2>2
<1>8. ASSUME NEW b \in Build, Fail(b) PROVE PublishedByStep'
  BY <1>8 DEF Fail, ArduinoTypeOK
<1> QED BY <1>1, <1>2, <1>3, <1>4, <1>5, <1>6, <1>7, <1>8 DEF Next, BuildStep

LEMMA MarkerStep ==
  ArduinoTypeOK /\ WorkByStep /\ PublishedByStep /\ MarkerWhole /\ [Next]_vars => MarkerWhole'
<1> SUFFICES ASSUME ArduinoTypeOK, WorkByStep, PublishedByStep, MarkerWhole, [Next]_vars
             PROVE  MarkerWhole'
  OBVIOUS
<1>1. CASE UNCHANGED marker
  BY <1>1 DEF MarkerWhole
<1>2. ASSUME NEW b \in Build, RemoveMarker(b) PROVE MarkerWhole'
  BY <1>2 DEF RemoveMarker, MarkerCleared, MarkerWhole
<1>3. ASSUME NEW b \in Build, WriteMarker(b) PROVE MarkerWhole'
  <2>1. /\ pc[b] = "mark"
        /\ marker' = [attempt |-> b, plan |-> work[b].plan,
                      artifacts |-> [f \in done[b] |-> work[b].export]]
    BY <1>3 DEF WriteMarker, Move, Here, WorkDirectory
  <2>2. /\ work[b].export \in Unit /\ work[b].export.sketch = work[b].plan.sketch
        /\ Bindings[work[b].export] = Bindings[work[b].plan]
    BY <2>1 DEF WorkByStep
  <2>3. done[b] = Exports[work[b].export] /\ done[b] # {}
    BY <2>1 DEF PublishedByStep
  <2> QED BY <2>1, <2>2, <2>3 DEF MarkerWhole
<1> QED
  BY <1>1, <1>2, <1>3 DEF Next, BuildStep, Edit, StartBuild, Stage, StageEnds, Generate,
                          CompileStrict,
                          Publish, PublishEnds, Fail, vars

LEMMA FailureStep ==
  ArduinoTypeOK /\ WorkByStep /\ PublishedByStep /\ UndisturbedBuildPublishes /\ [Next]_vars
    => UndisturbedBuildPublishes'
<1> SUFFICES ASSUME ArduinoTypeOK, WorkByStep, PublishedByStep, UndisturbedBuildPublishes,
                    [Next]_vars
             PROVE  UndisturbedBuildPublishes'
  OBVIOUS
<1> USE DEF UndisturbedBuildPublishes
<1>b. {"begin", "stage", "generate", "compile", "publish", "mark", "ready", "failed",
       "killed"} \subseteq Steps
  BY DEF Steps, Early, Ended
<1>1. CASE Edit \/ UNCHANGED vars
  BY <1>1 DEF Edit, vars
<1>2. ASSUME NEW b \in Build, StartBuild(b) \/ RemoveMarker(b) \/ WriteMarker(b)
      PROVE  UndisturbedBuildPublishes'
  BY <1>2, <1>b, MoveOthers DEF StartBuild, RemoveMarker, WriteMarker
<1>3. ASSUME NEW b \in Build, Stage(b) \/ StageEnds(b) PROVE UndisturbedBuildPublishes'
  <2>1. CASE Stage(b)
    BY <2>1, PartCopied
  <2>2. CASE StageEnds(b)
    BY <2>2, <1>b, MoveOthers DEF StageEnds
  <2> QED BY <1>3, <2>1, <2>2
<1>4. ASSUME NEW b \in Build, Generate(b) PROVE UndisturbedBuildPublishes'
  <2>1. pc'[b] = "compile"
    BY <1>4, <1>b, MoveOthers DEF Generate
  <2> QED BY <1>4, <2>1, WorkOthers
<1>5. ASSUME NEW b \in Build, CompileStrict(b) PROVE UndisturbedBuildPublishes'
  <2>1. /\ pc'[b] = IF Bindings[work[b].plan] = Bindings[Compiled(b)] THEN "publish" ELSE "failed"
        /\ work'[b].plan = work[b].plan /\ work'[b].export = Compiled(b) /\ pc[b] = "compile"
        /\ Compiled(b) \in Unit /\ Compiled(b).sketch = work[b].stage
    BY <1>5, StrictWrites
  <2>2. work[b].plan \in Unit /\ work[b].plan.sketch = work[b].stage
    BY <2>1 DEF WorkByStep
  <2>3. work[b].plan.library = Compiled(b).library => work[b].plan = Compiled(b)
    BY <2>1, <2>2 DEF Unit
  <2> QED BY <1>5, <2>1, <2>3, WorkOthers
<1>6. ASSUME NEW b \in Build, Publish(b) PROVE UndisturbedBuildPublishes'
  BY <1>6 DEF Publish
<1>7. ASSUME NEW b \in Build, PublishEnds(b) PROVE UndisturbedBuildPublishes'
  <2>1. pc[b] = "publish" /\ Exports[work[b].export] \subseteq done[b]
    BY <1>7 DEF PublishEnds, Move, AllPublished, Exported, Here, WorkDirectory
  <2>2. done[b] = {} => Exports[work[b].export] = {}
    BY <2>1
  <2> QED BY <1>7, <2>2, <1>b, MoveOthers DEF PublishEnds, NoneIsRejected
<1>8. ASSUME NEW b \in Build, Fail(b) PROVE UndisturbedBuildPublishes'
  BY <1>8 DEF Fail, ArduinoTypeOK
<1> QED BY <1>1, <1>2, <1>3, <1>4, <1>5, <1>6, <1>7, <1>8 DEF Next, BuildStep

-----------------------------------------------------------------------------
(* Builds in turn. *)

\* While builds do not overlap, a step of a build need only be right for that build.
LEMMA AloneKept ==
  ASSUME ArduinoTypeOK, AloneInv, NEW b \in Build, Running(b), overlap' = overlap,
         \A c \in Build : c # b => pc'[c] = pc[c],
         ~overlap => MarkerTrue' /\ OwnOutput(b)'
  PROVE  AloneInv'
<1> SUFFICES ASSUME ~overlap
             PROVE  (Exclusive /\ MarkerTrue /\ \A c \in Build : OwnOutput(c))'
  BY DEF AloneInv
<1>1. \A c \in Build : c # b => ~Running(c)'
  BY DEF AloneInv, Exclusive, Running
<1>2. Exclusive'
  BY <1>1 DEF Exclusive
<1>3. \A c \in Build : c # b => OwnOutput(c)'
  BY <1>1 DEF Running, OwnOutput, Ended
<1> QED BY <1>2, <1>3

LEMMA AloneStep ==
  ArduinoTypeOK /\ WorkByStep /\ PublishedByStep /\ AloneInv /\ [Next]_vars => AloneInv'
<1> SUFFICES ASSUME ArduinoTypeOK, WorkByStep, PublishedByStep, AloneInv, [Next]_vars
             PROVE  AloneInv'
  OBVIOUS
<1> USE DEF Running, OwnOutput, Ended
<1>a. output \in [File -> Maybe(Unit)] /\ done \in [Build -> SUBSET File]
  BY DEF ArduinoTypeOK
<1>b. {"begin", "stage", "generate", "compile", "publish", "mark", "ready", "failed",
       "killed"} \subseteq Steps
  BY DEF Steps, Early
<1>1. CASE Edit \/ UNCHANGED vars
  BY <1>1 DEF Edit, vars, AloneInv, Exclusive, MarkerTrue
<1>2. ASSUME NEW b \in Build, StartBuild(b) PROVE AloneInv'
  <2> SUFFICES ASSUME ~overlap, \A c \in Build : ~Running(c)
               PROVE  (Exclusive /\ MarkerTrue /\ \A c \in Build : OwnOutput(c))'
    BY <1>2 DEF StartBuild, AloneInv
  <2>1. pc'[b] = "begin" /\ \A c \in Build : c # b => ~Running(c)'
    BY <1>2, <1>b, MoveOthers DEF StartBuild
  <2>2. Exclusive' /\ \A c \in Build : OwnOutput(c)'
    BY <2>1 DEF Exclusive
  <2>3. MarkerTrue'
    BY <1>2 DEF StartBuild, AloneInv, MarkerTrue
  <2> QED BY <2>2, <2>3
<1>3. ASSUME NEW b \in Build, RemoveMarker(b) PROVE AloneInv'
  <2>1. Running(b) /\ pc'[b] = "stage" /\ \A c \in Build : c # b => pc'[c] = pc[c]
    BY <1>3, <1>b, MoveOthers DEF RemoveMarker
  <2> QED BY <1>3, <2>1, AloneKept DEF RemoveMarker, MarkerCleared, MarkerTrue
<1>4. ASSUME NEW b \in Build, Stage(b) \/ StageEnds(b) \/ Generate(b) PROVE AloneInv'
  <2>1. /\ Running(b) /\ pc[b] # "begin" /\ pc'[b] \in {"stage", "generate", "compile"}
        /\ \A c \in Build : c # b => pc'[c] = pc[c]
        /\ UNCHANGED <<output, marker, overlap>>
    <3>1. CASE Stage(b)
      BY <3>1, PartCopied
    <3>2. CASE StageEnds(b) \/ Generate(b)
      BY <3>2, <1>b, MoveOthers DEF StageEnds, Generate
    <3> QED BY <1>4, <3>1, <3>2
  <2>2. ~overlap => MarkerTrue' /\ OwnOutput(b)'
    BY <1>4, <2>1 DEF AloneInv, MarkerTrue
  <2> QED BY <2>1, <2>2, AloneKept
<1>5. ASSUME NEW b \in Build, CompileStrict(b) PROVE AloneInv'
  <2>1. /\ pc[b] = "compile" /\ pc'[b] \in {"publish", "failed"}
        /\ \A c \in Build : c # b => pc'[c] = pc[c]
    BY <1>5, <1>b, MoveOthers DEF CompileStrict
  <2>2. done'[b] = {}
    BY <1>5, <2>1 DEF CompileStrict, PublishedByStep, Early
  <2>3. ~overlap => MarkerTrue' /\ OwnOutput(b)'
    BY <1>5, <2>1, <2>2 DEF CompileStrict, AloneInv, MarkerTrue
  <2> QED BY <1>5, <2>1, <2>3, AloneKept DEF CompileStrict
<1>6. ASSUME NEW b \in Build, Publish(b) PROVE AloneInv'
  <2>1. PICK f \in Exported(b) \ done[b] :
          /\ output' = [output EXCEPT ![f] = work[b].export]
          /\ done' = [done EXCEPT ![b] = @ \cup {f}]
    BY <1>6 DEF Publish, Here, WorkDirectory
  <2>2. /\ pc[b] = "publish" /\ f \in File
        /\ UNCHANGED <<work, pc, marker, overlap>>
    BY <1>6, <2>1, ArduinoAssumption
    DEF Publish, WorkByStep, Exported, Here, WorkDirectory
  <2>3. ~overlap => marker = NoMarker /\ \A g \in done[b] : output[g] = work[b].export
    BY <2>2 DEF AloneInv
  <2>4. ~overlap => \A g \in done'[b] : output'[g] = work'[b].export
    BY <2>1, <2>2, <2>3, <1>a
  <2> QED BY <2>2, <2>3, <2>4, AloneKept DEF MarkerTrue
<1>7. ASSUME NEW b \in Build, PublishEnds(b) PROVE AloneInv'
  <2>1. /\ pc[b] = "publish" /\ pc'[b] \in {"mark", "failed"}
        /\ \A c \in Build : c # b => pc'[c] = pc[c]
    BY <1>7, <1>b, MoveOthers DEF PublishEnds, NoneIsRejected
  <2>2. ~overlap => MarkerTrue' /\ OwnOutput(b)'
    BY <1>7, <2>1 DEF PublishEnds, AloneInv, MarkerTrue
  <2> QED BY <1>7, <2>1, <2>2, AloneKept DEF PublishEnds
<1>8. ASSUME NEW b \in Build, WriteMarker(b) PROVE AloneInv'
  <2>1. /\ pc[b] = "mark" /\ pc'[b] = "ready"
        /\ \A c \in Build : c # b => pc'[c] = pc[c]
    BY <1>8, <1>b, MoveOthers DEF WriteMarker
  <2>2. marker'.artifacts = [f \in done[b] |-> work[b].export] /\ output' = output
    BY <1>8 DEF WriteMarker, Here, WorkDirectory
  <2>3. ~overlap => MarkerTrue' /\ OwnOutput(b)'
    BY <2>1, <2>2 DEF AloneInv, MarkerTrue
  <2> QED BY <1>8, <2>1, <2>3, AloneKept DEF WriteMarker
<1>9. ASSUME NEW b \in Build, Fail(b) PROVE AloneInv'
  <2>1. /\ Running(b) /\ pc'[b] \in {"failed", "killed"}
        /\ \A c \in Build : c # b => pc'[c] = pc[c]
    BY <1>9 DEF Fail, ArduinoTypeOK
  <2>2. ~overlap => MarkerTrue' /\ OwnOutput(b)'
    BY <1>9, <2>1 DEF Fail, AloneInv, MarkerTrue
  <2> QED BY <1>9, <2>1, <2>2, AloneKept DEF Fail
<1> QED
  BY <1>1, <1>2, <1>3, <1>4, <1>5, <1>6, <1>7, <1>8, <1>9 DEF Next, BuildStep

LEMMA ArduinoInvariant == Spec => []ArduinoInv
<1>1. ArduinoInv /\ [Next]_vars => ArduinoInv'
  BY ArduinoTypeStep, WorkStep, PublishedStep, MarkerStep, FailureStep, AloneStep
  DEF ArduinoInv
<1> QED BY <1>1, ArduinoInit, PTL DEF Spec

\* The firmware marker of builds in turn stands only beside the complete artifacts it
\* lists, wherever builds failed or were killed (arduino_build.py:49,109-125).
THEOREM MarkerCovers == Spec => []MarkerCoversOutput
<1>1. ArduinoInv => MarkerCoversOutput
  BY DEF ArduinoInv, AloneInv, MarkerTrue, MarkerWhole, MarkerCoversOutput
<1> QED BY <1>1, ArduinoInvariant, PTL

\* The artifacts a marker names were compiled from the copy of the sketch that its plan was
\* made for, with the bindings of that plan, also of builds that overlap
\* (arduino_build.py:50-53,98-122).
THEOREM FirmwareOneSketch == Spec => []FirmwareIsOneSketch
<1>1. ArduinoInv => FirmwareIsOneSketch
  BY DEF ArduinoInv, MarkerWhole, FirmwareIsOneSketch, NoMarker
<1> QED BY <1>1, ArduinoInvariant, PTL

\* A build fails of itself only when the compiler exports nothing or a library was edited
\* between its passes (arduino_build.py:50-60,99-118).
THEOREM UndisturbedPublishes == Spec => []UndisturbedBuildPublishes
<1>1. ArduinoInv => UndisturbedBuildPublishes
  BY DEF ArduinoInv
<1> QED BY <1>1, ArduinoInvariant, PTL
=============================================================================
