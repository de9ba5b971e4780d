----------------------- MODULE BindingGenerationProofs -----------------------
(***************************************************************************)
(* Machine-checked proofs about BindingGeneration, for any number of       *)
(* builds and versions, whichever builds may be killed or may overlap and  *)
(* whichever versions are rejected.                                        *)
(***************************************************************************)
EXTENDS BindingGeneration, TLAPS

-----------------------------------------------------------------------------
(* Types. *)

Markers ==
  [attempt : Maybe(Build), plan : Maybe(Version),
   output : Maybe(Version) \X Maybe(Version)]

Directory ==
  [marker : Markers, attempt : Maybe(Build), plan : Maybe(Version),
   header : Maybe(Version), source : Maybe(Version)]

Memory == [decoded : Maybe(Version), files : Directory]

Emitting == {"check", "read", "header", "source", "marker"}
Verifying == {"v_marker", "v_attempt", "v_plan", "v_header", "v_source", "verify"}

Steps ==
  {"waiting", "probe", "decide", "begin", "clear", "attempt", "decode", "plan", "emit",
   "reject", "compile"} \cup Emitting \cup Verifying \cup Ended

GenerationTypeOK ==
  /\ app \in Version
  /\ object \in Maybe(Version)
  /\ fresh \in BOOLEAN
  /\ disk \in Directory
  /\ pc \in [Build -> Steps]
  /\ strict \in [Build -> BOOLEAN]
  /\ seen \in [Build -> Memory]
  /\ overlapped \in BOOLEAN

\* Replacing one file leaves a directory.
LEMMA FileReplaced ==
  ASSUME NEW d \in Directory
  PROVE  /\ \A m \in Markers : [d EXCEPT !.marker = m] \in Directory
         /\ \A a \in Maybe(Build) : [d EXCEPT !.attempt = a] \in Directory
         /\ \A v \in Maybe(Version) : /\ [d EXCEPT !.plan = v] \in Directory
                                      /\ [d EXCEPT !.header = v] \in Directory
                                      /\ [d EXCEPT !.source = v] \in Directory
BY DEF Directory

\* What a build holds in memory after it has decoded a record or read files.
LEMMA MemoryReplaced ==
  ASSUME seen \in [Build -> Memory], NEW b \in Build
  PROVE  /\ seen[b].files \in Directory
         /\ \A v \in Maybe(Version) : [seen EXCEPT ![b].decoded = v] \in [Build -> Memory]
         /\ \A d \in Directory : [seen EXCEPT ![b].files = d] \in [Build -> Memory]
<1>1. seen[b] \in Memory /\ seen[b].files \in Directory
  BY DEF Memory
<1>2. ASSUME NEW v \in Maybe(Version) PROVE [seen[b] EXCEPT !.decoded = v] \in Memory
  BY <1>1 DEF Memory
<1>3. ASSUME NEW d \in Directory PROVE [seen[b] EXCEPT !.files = d] \in Memory
  BY <1>1 DEF Memory
<1> QED BY <1>1, <1>2, <1>3

LEMMA BlankType == Blank \in Memory
BY DEF Memory, Blank, NoFiles, NoMarker, Directory, Markers, Maybe

LEMMA GenerationTypeInit == Init => GenerationTypeOK
<1>1. NoFiles \in Directory
  BY DEF NoFiles, NoMarker, Directory, Markers, Maybe
<1> QED BY <1>1, BlankType DEF Init, GenerationTypeOK, Maybe, Steps

\* A move keeps the type of the step, and an end that of all a build holds.
LEMMA MoveType ==
  ASSUME GenerationTypeOK, NEW b \in Build, NEW from, NEW to \in Steps, Move(b, from, to)
  PROVE  pc' \in [Build -> Steps]
BY DEF Move, GenerationTypeOK

LEMMA EndType ==
  ASSUME GenerationTypeOK, NEW b \in Build, NEW from, NEW to \in Steps, End(b, from, to)
  PROVE  /\ pc' \in [Build -> Steps]
         /\ seen' \in [Build -> Memory]
         /\ strict' \in [Build -> BOOLEAN]
BY MoveType, BlankType DEF End, Forget, GenerationTypeOK

LEMMA GenerationTypeStep == GenerationTypeOK /\ [Next]_vars => GenerationTypeOK'
<1> SUFFICES ASSUME GenerationTypeOK, [Next]_vars PROVE GenerationTypeOK'
  OBVIOUS
<1>a. disk \in Directory /\ seen \in [Build -> Memory] /\ object \in Maybe(Version)
  BY DEF GenerationTypeOK
<1>b. WithoutMarker \in Directory
  <2>1. NoMarker \in Markers
    BY DEF NoMarker, Markers, Maybe
  <2> QED BY <1>a, <2>1, FileReplaced DEF WithoutMarker
<1>c. \A b \in Build : Known(b) \in Directory /\ seen[b].decoded \in Maybe(Version)
  BY <1>a DEF Known, Memory
<1>d. \A d \in Directory : /\ d.marker \in Markers /\ d.attempt \in Maybe(Build)
                           /\ d.plan \in Maybe(Version) /\ d.header \in Maybe(Version)
                           /\ d.source \in Maybe(Version)
  BY DEF Directory
<1>e. Steps = {"waiting", "probe", "decide", "begin", "clear", "attempt", "decode", "plan",
               "emit", "check", "read", "header", "source", "marker", "v_marker", "v_attempt",
               "v_plan", "v_header", "v_source", "verify", "reject", "compile", "built",
               "failed", "killed"}
  BY DEF Steps, Emitting, Verifying, Ended
<1>1. CASE Edit
  BY <1>1 DEF Edit, GenerationTypeOK
<1>2. ASSUME NEW b \in Build, StartBuild(b) PROVE GenerationTypeOK'
  BY <1>2, <1>e, MoveType DEF StartBuild, GenerationTypeOK
<1>3. ASSUME NEW b \in Build, CompileProbe(b) \/ Decide(b) PROVE GenerationTypeOK'
  BY <1>3, <1>e, MoveType DEF CompileProbe, Decide, GenerationTypeOK, Maybe
<1>4. ASSUME NEW b \in Build, BeginTransaction(b) PROVE GenerationTypeOK'
  BY <1>4, <1>b, <1>e, MoveType DEF BeginTransaction, GenerationTypeOK
<1>5. ASSUME NEW b \in Build, PlanClear(b) \/ EmitClear(b) \/ RejectAttempt(b)
      PROVE  GenerationTypeOK'
  BY <1>5, <1>b, <1>e, MoveType DEF PlanClear, EmitClear, RejectAttempt, GenerationTypeOK
<1>6. ASSUME NEW b \in Build, PlanAttempt(b) PROVE GenerationTypeOK'
  <2>1. disk' \in Directory
    BY <1>6, <1>a, FileReplaced DEF PlanAttempt, Attempt, Maybe
  <2> QED BY <1>6, <2>1, <1>e, MoveType DEF PlanAttempt, GenerationTypeOK
<1>7. ASSUME NEW b \in Build, PlanDecode(b) PROVE GenerationTypeOK'
  <2>1. CASE object \in Rejected
    BY <1>7, <2>1, <1>e, EndType DEF PlanDecode, GenerationTypeOK
  <2>2. CASE object \notin Rejected
    <3>1. seen' \in [Build -> Memory]
      BY <1>7, <2>2, <1>a, MemoryReplaced DEF PlanDecode
    <3> QED BY <1>7, <2>2, <3>1, <1>e, MoveType DEF PlanDecode, GenerationTypeOK
  <2> QED BY <2>1, <2>2
<1>8. ASSUME NEW b \in Build, PlanWrite(b) PROVE GenerationTypeOK'
  <2>1. disk' \in Directory
    BY <1>8, <1>a, <1>c, FileReplaced DEF PlanWrite
  <2> QED BY <1>8, <2>1, <1>e, MoveType DEF PlanWrite, GenerationTypeOK
<1>9. ASSUME NEW b \in Build, EmitCheck(b) PROVE GenerationTypeOK'
  BY <1>9, <1>e, MoveType DEF EmitCheck, GenerationTypeOK
<1>10. ASSUME NEW b \in Build, EmitRead(b) PROVE GenerationTypeOK'
  <2>1. [Known(b) EXCEPT !.plan = disk.plan] \in Directory
    BY <1>a, <1>c, <1>d, FileReplaced
  <2>2. seen' \in [Build -> Memory]
    BY <1>10, <2>1, <1>a, MemoryReplaced DEF EmitRead, Sees
  <2> QED BY <1>10, <2>2, <1>e, MoveType DEF EmitRead, GenerationTypeOK
<1>11. ASSUME NEW b \in Build, EmitFails(b) PROVE GenerationTypeOK'
  BY <1>11, <1>e, EndType DEF EmitFails, GenerationTypeOK
<1>12. ASSUME NEW b \in Build, EmitHeader(b) \/ EmitSource(b) PROVE GenerationTypeOK'
  <2>1. disk' \in Directory
    BY <1>12, <1>a, <1>c, <1>d, FileReplaced DEF EmitHeader, EmitSource
  <2> QED BY <1>12, <2>1, <1>e, MoveType DEF EmitHeader, EmitSource, GenerationTypeOK
<1>13. ASSUME NEW b \in Build, EmitMarker(b) PROVE GenerationTypeOK'
  <2>1. ReadyMarker(b) \in Markers
    BY <1>c, <1>d DEF ReadyMarker, Markers, Maybe
  <2>2. disk' \in Directory
    BY <1>13, <1>a, <2>1, FileReplaced DEF EmitMarker
  <2>3. NoFiles \in Directory
    BY BlankType DEF Blank, Memory
  <2>4. seen' \in [Build -> Memory]
    BY <1>13, <1>a, <2>3, MemoryReplaced DEF EmitMarker
  <2> QED BY <1>13, <2>2, <2>4, <1>e, MoveType DEF EmitMarker, GenerationTypeOK
<1>14. ASSUME NEW b \in Build, VerifyRead(b) PROVE GenerationTypeOK'
  <2>1. PICK d \in Directory, to \in Steps, from \in Steps : Move(b, from, to) /\ Sees(b, d)
    BY <1>14, <1>a, <1>c, <1>d, <1>e, FileReplaced DEF VerifyRead
  <2>2. seen' \in [Build -> Memory]
    BY <2>1, <1>a, MemoryReplaced DEF Sees
  <2> QED BY <1>14, <2>1, <2>2, MoveType DEF VerifyRead, GenerationTypeOK
<1>15. ASSUME NEW b \in Build, VerifyPasses(b) PROVE GenerationTypeOK'
  <2>1. CASE strict[b]
    BY <1>15, <2>1, <1>e, EndType DEF VerifyPasses, GenerationTypeOK
  <2>2. CASE ~strict[b]
    BY <1>15, <2>2, <1>e, MoveType DEF VerifyPasses, GenerationTypeOK
  <2> QED BY <2>1, <2>2
<1>16. ASSUME NEW b \in Build, VerifyFails(b) \/ Compile(b) \/ Kill(b)
       PROVE  GenerationTypeOK'
  BY <1>16, <1>e, EndType DEF VerifyFails, Compile, Kill, GenerationTypeOK
<1>17. CASE UNCHANGED vars
  BY <1>17 DEF vars, GenerationTypeOK
<1> QED
  BY <1>1, <1>2, <1>3, <1>4, <1>5, <1>6, <1>7, <1>8, <1>9, <1>10, <1>11, <1>12, <1>13,
     <1>14, <1>15, <1>16, <1>17 DEF Next, BuildStep

-----------------------------------------------------------------------------
(* The inductive invariants. *)

\* A marker names one plan for both outputs; what is read of it at one time stays so.
OnePlan(marker) == marker.output = <<marker.plan, marker.plan>>

MarkersWellFormed ==
  /\ OnePlan(disk.marker)
  /\ \A b \in Build : OnePlan(seen[b].files.marker)

\* A build reaches the compiler only with files it has accepted in memory.
CompilesAccepted ==
  \A b \in Build : pc[b] = "compile" => Accepts(seen[b].files, None)

AcceptInv == MarkersWellFormed /\ CompilesAccepted

\* A build that generates, from the removal of the old marker to the new one.
Generating == {"clear", "attempt", "decode", "plan", "emit"} \cup Emitting

\* Without overlap a build has the directory to itself; what each of its steps has
\* done to the files still stands at the next.
Exclusive == \A b, c \in Build : Running(b) /\ Running(c) => b = c

OwnAttempt(b) ==
  /\ pc[b] \in Generating => ~Present(disk.marker)
  /\ pc[b] \in {"decode", "plan", "emit"} \cup Emitting => disk.attempt = b
  /\ pc[b] = "plan" => seen[b].decoded = object
  /\ pc[b] \in {"emit"} \cup Emitting => disk.plan = object
  /\ pc[b] \in {"header", "source", "marker"} => seen[b].files.plan = object
  /\ pc[b] \in {"source", "marker"} => disk.header = object
  /\ pc[b] = "marker" => disk.source = object
  /\ pc[b] \in Verifying \cup {"compile"} => Present(disk.marker) /\ fresh

\* What the marker says of the directory, and of the object while it is up to date.
MarkerTrue ==
  Present(disk.marker) => Accepts(disk, None) /\ (fresh => disk.marker.plan = object)

AloneInv ==
  ~overlapped => Exclusive /\ MarkerTrue /\ \A b \in Build : OwnAttempt(b)

GenerationInv == GenerationTypeOK /\ AcceptInv /\ AloneInv

-----------------------------------------------------------------------------
(* Accepted files. *)

LEMMA AcceptInit == Init => AcceptInv
BY DEF Init, AcceptInv, MarkersWellFormed, CompilesAccepted, OnePlan, Blank, NoFiles, NoMarker

\* A step of b that neither touches the marker nor what b has read, and does not bring b
\* to the compiler.
LEMMA AcceptKept ==
  ASSUME GenerationTypeOK, AcceptInv, NEW b \in Build, NEW from, NEW to, to # "compile",
         Move(b, from, to), disk'.marker = disk.marker \/ disk'.marker = NoMarker,
         \A c \in Build : \/ seen'[c].files = seen[c].files
                          \/ c = b /\ OnePlan(seen'[c].files.marker)
  PROVE  AcceptInv'
<1>1. MarkersWellFormed'
  BY DEF AcceptInv, MarkersWellFormed, OnePlan, NoMarker
<1>2. \A c \in Build : pc'[c] = "compile" => pc[c] = "compile" /\ c # b
  BY DEF Move, GenerationTypeOK
<1>3. CompilesAccepted'
  BY <1>2 DEF AcceptInv, CompilesAccepted, Accepts
<1> QED BY <1>1, <1>3 DEF AcceptInv

LEMMA AcceptStep == GenerationTypeOK /\ AcceptInv /\ [Next]_vars => AcceptInv'
<1> SUFFICES ASSUME GenerationTypeOK, AcceptInv, [Next]_vars PROVE AcceptInv'
  OBVIOUS
<1> USE DEF OnePlan
<1>a. disk \in Directory /\ seen \in [Build -> Memory]
  BY DEF GenerationTypeOK
<1>b. \A b \in Build : seen[b] \in Memory /\ Known(b) \in Directory
  BY <1>a DEF Known, Memory
<1>c. WithoutMarker.marker = NoMarker
  BY <1>a DEF WithoutMarker, Directory
<1>d. OnePlan(disk.marker) /\ OnePlan(NoMarker) /\ \A b \in Build : OnePlan(Known(b).marker)
  BY DEF AcceptInv, MarkersWellFormed, OnePlan, NoMarker, Known
<1>e. ASSUME NEW b \in Build, NEW from, NEW to, End(b, from, to)
      PROVE  \A c \in Build : \/ seen'[c].files = seen[c].files
                              \/ c = b /\ OnePlan(seen'[c].files.marker)
  <2>1. \A c \in Build : seen'[c] = IF c = b THEN Blank ELSE seen[c]
    BY <1>a, <1>e DEF End, Forget
  <2> QED BY <2>1, <1>d DEF Blank, NoFiles
<1>1. CASE Edit \/ UNCHANGED vars
  BY <1>1 DEF Edit, vars, AcceptInv, MarkersWellFormed, CompilesAccepted
<1>2. ASSUME NEW b \in Build,
             StartBuild(b) \/ CompileProbe(b) \/ Decide(b) \/ EmitCheck(b)
      PROVE  AcceptInv'
  BY <1>2, AcceptKept DEF StartBuild, CompileProbe, Decide, EmitCheck
<1>3. ASSUME NEW b \in Build,
             BeginTransaction(b) \/ PlanClear(b) \/ EmitClear(b) \/ RejectAttempt(b)
      PROVE  AcceptInv'
  BY <1>3, <1>c, AcceptKept DEF BeginTransaction, PlanClear, EmitClear, RejectAttempt
<1>4. ASSUME NEW b \in Build,
             PlanAttempt(b) \/ PlanWrite(b) \/ EmitHeader(b) \/ EmitSource(b)
      PROVE  AcceptInv'
  <2>1. disk'.marker = disk.marker
    BY <1>4, <1>a DEF PlanAttempt, PlanWrite, EmitHeader, EmitSource, Directory
  <2> QED BY <1>4, <2>1, AcceptKept DEF PlanAttempt, PlanWrite, EmitHeader, EmitSource
<1>5. ASSUME NEW b \in Build, PlanDecode(b) PROVE AcceptInv'
  <2>1. CASE object \in Rejected
    BY <1>5, <2>1, <1>e, AcceptKept DEF PlanDecode, End
  <2>2. CASE object \notin Rejected
    <3>1. \A c \in Build : seen'[c].files = seen[c].files
      BY <1>5, <2>2, <1>a, <1>b DEF PlanDecode, Memory
    <3> QED BY <1>5, <2>2, <3>1, AcceptKept DEF PlanDecode
  <2> QED BY <2>1, <2>2
<1>6. ASSUME NEW b \in Build, NEW d \in Directory, OnePlan(d.marker), Sees(b, d)
      PROVE  \A c \in Build : \/ seen'[c].files = seen[c].files
                              \/ c = b /\ OnePlan(seen'[c].files.marker)
  <2>1. \A c \in Build : seen'[c].files = IF c = b THEN d ELSE seen[c].files
    BY <1>6, <1>a, <1>b DEF Sees, Memory
  <2> QED BY <1>6, <2>1
<1>7. ASSUME NEW b \in Build, EmitRead(b) PROVE AcceptInv'
  <2>1. [Known(b) EXCEPT !.plan = disk.plan] \in Directory
    BY <1>a, <1>b, FileReplaced DEF Directory
  <2>2. [Known(b) EXCEPT !.plan = disk.plan].marker = Known(b).marker
    BY <1>b DEF Directory
  <2> QED BY <1>7, <2>1, <2>2, <1>d, <1>6, AcceptKept DEF EmitRead
<1>8. ASSUME NEW b \in Build, VerifyRead(b) PROVE AcceptInv'
  <2>1. /\ [Known(b) EXCEPT !.marker = disk.marker].marker = disk.marker
        /\ [Known(b) EXCEPT !.attempt = disk.attempt].marker = Known(b).marker
        /\ [Known(b) EXCEPT !.plan = disk.plan].marker = Known(b).marker
        /\ [Known(b) EXCEPT !.header = disk.header].marker = Known(b).marker
        /\ [Known(b) EXCEPT !.source = disk.source].marker = Known(b).marker
    BY <1>b DEF Directory
  <2>2. /\ disk.marker \in Markers /\ disk.attempt \in Maybe(Build)
        /\ {disk.plan, disk.header, disk.source} \subseteq Maybe(Version)
    BY <1>a DEF Directory
  <2>3. PICK d \in Directory, from, to \in Verifying :
          Move(b, from, to) /\ Sees(b, d) /\ OnePlan(d.marker)
    BY <1>8, <2>1, <2>2, <1>b, <1>d, FileReplaced DEF VerifyRead, Verifying
  <2>4. to # "compile"
    BY DEF Verifying
  <2> QED BY <1>8, <2>3, <2>4, <1>6, AcceptKept DEF VerifyRead
<1>9. ASSUME NEW b \in Build, EmitMarker(b) PROVE AcceptInv'
  <2>1. disk'.marker = ReadyMarker(b) /\ OnePlan(ReadyMarker(b))
    BY <1>9, <1>a DEF EmitMarker, Directory, ReadyMarker, OnePlan
  <2>2. \A c \in Build : seen'[c].files = IF c = b THEN NoFiles ELSE seen[c].files
    BY <1>9, <1>a, <1>b DEF EmitMarker, Memory
  <2>3. MarkersWellFormed'
    BY <2>1, <2>2, <1>d DEF MarkersWellFormed, NoFiles, Known
  <2>4. \A c \in Build : pc'[c] = "compile" => pc[c] = "compile" /\ c # b
    BY <1>9 DEF EmitMarker, Move, GenerationTypeOK
  <2>5. CompilesAccepted'
    BY <2>2, <2>4 DEF AcceptInv, CompilesAccepted, Accepts
  <2> QED BY <2>3, <2>5 DEF AcceptInv
<1>10. ASSUME NEW b \in Build, VerifyPasses(b) PROVE AcceptInv'
  <2>1. CASE strict[b]
    BY <1>10, <2>1, <1>e, AcceptKept DEF VerifyPasses, End
  <2>2. CASE ~strict[b]
    <3>1. Accepts(Known(b), None)
      BY <1>10, <2>2 DEF VerifyPasses, Expected
    <3>2. \A c \in Build : pc'[c] = "compile" => pc[c] = "compile" \/ c = b
      BY <1>10, <2>2 DEF VerifyPasses, Move, GenerationTypeOK
    <3>3. CompilesAccepted'
      BY <1>10, <2>2, <3>1, <3>2 DEF VerifyPasses, AcceptInv, CompilesAccepted, Known
    <3> QED BY <1>10, <2>2, <3>3 DEF VerifyPasses, AcceptInv, MarkersWellFormed
  <2> QED BY <2>1, <2>2
<1>11. ASSUME NEW b \in Build, EmitFails(b) \/ VerifyFails(b) \/ Compile(b) \/ Kill(b)
       PROVE  AcceptInv'
  <2>1. PICK from, to : End(b, from, to) /\ to # "compile" /\ UNCHANGED disk
    BY <1>11 DEF EmitFails, VerifyFails, Compile, Kill
  <2> QED BY <2>1, <1>e, AcceptKept DEF End
<1> QED
  BY <1>1, <1>2, <1>3, <1>4, <1>5, <1>7, <1>8, <1>9, <1>10, <1>11 DEF Next, BuildStep

\* What a build hands to the compiler is one generation, although any other builds replaced
\* files while it read them (verify.py:31-48).
THEOREM AcceptedCoherent == Spec => []AcceptedIsCoherent
<1>1. AcceptInv => AcceptedIsCoherent
  BY DEF AcceptInv, MarkersWellFormed, CompilesAccepted, AcceptedIsCoherent, Accepts, OnePlan
<1> QED
  BY <1>1, GenerationTypeInit, GenerationTypeStep, AcceptInit, AcceptStep, PTL DEF Spec

-----------------------------------------------------------------------------
(* Builds in turn. *)

LEMMA AloneInit == Init => AloneInv
BY DEF Init, AloneInv, Exclusive, Running, MarkerTrue, Present, OwnAttempt, NoFiles, Generating,
       Emitting, Verifying

\* While builds do not overlap, a step of b need only be right for b.
LEMMA AloneKept ==
  ASSUME GenerationTypeOK, AloneInv, NEW b \in Build, NEW from, NEW to, Move(b, from, to),
         Running(b), overlapped' = overlapped,
         ~overlapped => MarkerTrue' /\ OwnAttempt(b)'
  PROVE  AloneInv'
<1> SUFFICES ASSUME ~overlapped
             PROVE  (Exclusive /\ MarkerTrue /\ \A c \in Build : OwnAttempt(c))'
  BY DEF AloneInv
<1>1. \A c \in Build : c # b => ~Running(c) /\ pc'[c] = pc[c]
  BY DEF AloneInv, Exclusive, Move, GenerationTypeOK
<1>2. \A c \in Build : c # b => ~Running(c)'
  BY <1>1 DEF Running
<1>3. Exclusive'
  BY <1>2 DEF Exclusive
<1>4. \A c \in Build : c # b => OwnAttempt(c)'
  BY <1>2 DEF Running, OwnAttempt, Ended, Generating, Emitting, Verifying
<1> QED BY <1>3, <1>4

LEMMA AloneStep ==
  GenerationTypeOK /\ AcceptInv /\ AloneInv /\ [Next]_vars => AloneInv'
<1> SUFFICES ASSUME GenerationTypeOK, AcceptInv, AloneInv, [Next]_vars PROVE AloneInv'
  OBVIOUS
<1>a. disk \in Directory /\ seen \in [Build -> Memory] /\ pc \in [Build -> Steps]
  BY DEF GenerationTypeOK
<1>b. \A b \in Build : seen[b] \in Memory /\ Known(b) \in Directory
  BY <1>a DEF Known, Memory
<1>c. WithoutMarker = [marker |-> NoMarker, attempt |-> disk.attempt, plan |-> disk.plan,
                       header |-> disk.header, source |-> disk.source]
  BY <1>a DEF WithoutMarker, Directory
<1> USE DEF OwnAttempt, Generating, Emitting, Verifying, Running, Ended
<1>1. CASE Edit
  BY <1>1 DEF Edit, AloneInv, Exclusive, MarkerTrue, Accepts
<1>2. ASSUME NEW b \in Build, StartBuild(b) PROVE AloneInv'
  <2> SUFFICES ASSUME ~overlapped, Others(b) = {}
               PROVE  (Exclusive /\ MarkerTrue /\ \A c \in Build : OwnAttempt(c))'
    BY <1>2 DEF StartBuild, AloneInv
  <2>1. \A c \in Build : pc'[c] = IF c = b THEN "probe" ELSE pc[c]
    BY <1>2, <1>a DEF StartBuild, Move
  <2>2. \A c \in Build : c # b => ~Running(c) /\ ~Running(c)'
    BY <2>1 DEF Others
  <2>3. Exclusive'
    BY <2>2 DEF Exclusive
  <2>4. MarkerTrue'
    BY <1>2 DEF StartBuild, AloneInv, MarkerTrue, Accepts
  <2>5. \A c \in Build : OwnAttempt(c)'
    BY <2>1, <2>2
  <2> QED BY <2>3, <2>4, <2>5
<1>3. ASSUME NEW b \in Build, CompileProbe(b) PROVE AloneInv'
  <2>1. ~overlapped => MarkerTrue' /\ OwnAttempt(b)'
    BY <1>3, <1>a DEF CompileProbe, Move, AloneInv, MarkerTrue, Accepts
  <2> QED BY <1>3, <2>1, AloneKept DEF CompileProbe, Move
<1>4. ASSUME NEW b \in Build, Decide(b) PROVE AloneInv'
  <2>1. ~overlapped => MarkerTrue' /\ OwnAttempt(b)'
    BY <1>4, <1>a DEF Decide, OutOfDate, Move, AloneInv, MarkerTrue, Accepts
  <2> QED BY <1>4, <2>1, AloneKept DEF Decide, Move
<1>5. ASSUME NEW b \in Build,
             BeginTransaction(b) \/ PlanClear(b) \/ EmitClear(b) \/ RejectAttempt(b)
      PROVE  AloneInv'
  <2>1. ~overlapped => MarkerTrue' /\ OwnAttempt(b)'
    BY <1>5, <1>a, <1>c DEF BeginTransaction, PlanClear, EmitClear, RejectAttempt, Move,
                            AloneInv, MarkerTrue, Present
  <2> QED BY <1>5, <2>1, AloneKept
          DEF BeginTransaction, PlanClear, EmitClear, RejectAttempt, Move
<1>6. ASSUME NEW b \in Build, PlanAttempt(b) PROVE AloneInv'
  <2>1. disk'.marker = disk.marker /\ disk'.attempt = b
    BY <1>6, <1>a DEF PlanAttempt, Attempt, Directory
  <2>2. ~overlapped => MarkerTrue' /\ OwnAttempt(b)'
    BY <1>6, <2>1, <1>a DEF PlanAttempt, Move, AloneInv, MarkerTrue, Present
  <2> QED BY <1>6, <2>2, AloneKept DEF PlanAttempt, Move
<1>7. ASSUME NEW b \in Build, PlanDecode(b), object \notin Rejected PROVE AloneInv'
  <2>1. seen'[b].decoded = object
    BY <1>7, <1>a, <1>b DEF PlanDecode, Memory
  <2>2. ~overlapped => MarkerTrue' /\ OwnAttempt(b)'
    BY <1>7, <2>1, <1>a DEF PlanDecode, Move, AloneInv, MarkerTrue, Accepts
  <2> QED BY <1>7, <2>2, AloneKept DEF PlanDecode, Move
<1>8. ASSUME NEW b \in Build, PlanWrite(b) PROVE AloneInv'
  <2>1. disk' = [marker |-> disk.marker, attempt |-> disk.attempt, plan |-> seen[b].decoded,
                 header |-> disk.header, source |-> disk.source]
    BY <1>8, <1>a DEF PlanWrite, Directory
  <2>2. ~overlapped => MarkerTrue' /\ OwnAttempt(b)'
    BY <1>8, <2>1, <1>a DEF PlanWrite, Move, AloneInv, MarkerTrue, Present
  <2> QED BY <1>8, <2>2, AloneKept DEF PlanWrite, Move
<1>9. ASSUME NEW b \in Build, EmitCheck(b) PROVE AloneInv'
  <2>1. ~overlapped => MarkerTrue' /\ OwnAttempt(b)'
    BY <1>9, <1>a DEF EmitCheck, Move, AloneInv, MarkerTrue, Accepts
  <2> QED BY <1>9, <2>1, AloneKept DEF EmitCheck, Move
<1>10. ASSUME NEW b \in Build, EmitRead(b) PROVE AloneInv'
  <2>1. seen'[b].files.plan = disk.plan
    BY <1>10, <1>a, <1>b DEF EmitRead, Sees, Memory, Directory
  <2>2. ~overlapped => MarkerTrue' /\ OwnAttempt(b)'
    BY <1>10, <2>1, <1>a DEF EmitRead, Move, AloneInv, MarkerTrue, Accepts
  <2> QED BY <1>10, <2>2, AloneKept DEF EmitRead, Move
<1>11. ASSUME NEW b \in Build, EmitHeader(b) PROVE AloneInv'
  <2>1. disk' = [marker |-> disk.marker, attempt |-> disk.attempt, plan |-> disk.plan,
                 header |-> Known(b).plan, source |-> disk.source]
    BY <1>11, <1>a DEF EmitHeader, Directory
  <2>2. ~overlapped => MarkerTrue' /\ OwnAttempt(b)'
    BY <1>11, <2>1, <1>a DEF EmitHeader, Known, Move, AloneInv, MarkerTrue, Present
  <2> QED BY <1>11, <2>2, AloneKept DEF EmitHeader, Move
<1>12. ASSUME NEW b \in Build, EmitSource(b) PROVE AloneInv'
  <2>1. disk' = [marker |-> disk.marker, attempt |-> disk.attempt, plan |-> disk.plan,
                 header |-> disk.header, source |-> Known(b).plan]
    BY <1>12, <1>a DEF EmitSource, Directory
  <2>2. ~overlapped => MarkerTrue' /\ OwnAttempt(b)'
    BY <1>12, <2>1, <1>a DEF EmitSource, Known, Move, AloneInv, MarkerTrue, Present
  <2> QED BY <1>12, <2>2, AloneKept DEF EmitSource, Move
<1>13. ASSUME NEW b \in Build, EmitMarker(b) PROVE AloneInv'
  <2>1. disk' = [marker |-> ReadyMarker(b), attempt |-> disk.attempt, plan |-> disk.plan,
                 header |-> disk.header, source |-> disk.source]
    BY <1>13, <1>a DEF EmitMarker, Directory
  <2>2. ReadyMarker(b) # NoMarker
    BY BuildAssumption DEF ReadyMarker, NoMarker
  <2>3. ~overlapped => MarkerTrue' /\ OwnAttempt(b)'
    BY <1>13, <2>1, <2>2, <1>a
    DEF EmitMarker, Known, ReadyMarker, Move, AloneInv, MarkerTrue, Present, Accepts
  <2> QED BY <1>13, <2>3, AloneKept DEF EmitMarker, Move
<1>14. ASSUME NEW b \in Build, VerifyRead(b) PROVE AloneInv'
  <2>1. PICK from \in Verifying, to \in Verifying \ {"v_marker"} : Move(b, from, to)
    BY <1>14 DEF VerifyRead
  <2>2. ~overlapped => MarkerTrue' /\ OwnAttempt(b)'
    BY <1>14, <2>1, <1>a DEF VerifyRead, Move, AloneInv, MarkerTrue, Accepts
  <2> QED BY <1>14, <2>1, <2>2, AloneKept DEF VerifyRead, Move
<1>15. ASSUME NEW b \in Build, VerifyPasses(b) PROVE AloneInv'
  <2>1. PICK to \in {"v_marker", "compile"} : Move(b, "verify", to)
    BY <1>15 DEF VerifyPasses, End
  <2>2. ~overlapped => MarkerTrue' /\ OwnAttempt(b)'
    BY <1>15, <2>1, <1>a DEF VerifyPasses, Move, AloneInv, MarkerTrue, Accepts
  <2> QED BY <1>15, <2>1, <2>2, AloneKept DEF VerifyPasses, Move
<1>16. ASSUME NEW b \in Build, NEW from, NEW to \in Ended \cup {"reject"}, End(b, from, to),
              Running(b), UNCHANGED <<app, object, fresh, disk, overlapped>>
       PROVE  AloneInv'
  <2>1. ~overlapped => MarkerTrue' /\ OwnAttempt(b)'
    BY <1>16, <1>a DEF End, Move, AloneInv, MarkerTrue, Accepts
  <2> QED BY <1>16, <2>1, AloneKept DEF End
<1>17. ASSUME NEW b \in Build, PlanDecode(b), object \in Rejected PROVE AloneInv'
  BY <1>16, <1>17 DEF PlanDecode, End, Move
<1>18. ASSUME NEW b \in Build, EmitFails(b) PROVE AloneInv'
  BY <1>16, <1>18 DEF EmitFails, End, Move
<1>19. ASSUME NEW b \in Build, VerifyFails(b) PROVE AloneInv'
  BY <1>16, <1>19 DEF VerifyFails, End, Move
<1>20. ASSUME NEW b \in Build, Compile(b) PROVE AloneInv'
  BY <1>16, <1>20 DEF Compile, End, Move
<1>21. ASSUME NEW b \in Build, Kill(b) PROVE AloneInv'
  BY <1>16, <1>21 DEF Kill
<1>22. CASE UNCHANGED vars
  BY <1>22 DEF vars, AloneInv, Exclusive, MarkerTrue, Accepts
<1> QED
  BY <1>1, <1>2, <1>3, <1>4, <1>5, <1>6, <1>7, <1>8, <1>9, <1>10, <1>11, <1>12, <1>13,
     <1>14, <1>15, <1>17, <1>18, <1>19, <1>20, <1>21, <1>22 DEF Next, BuildStep

LEMMA GenerationInvariant == Spec => []GenerationInv
<1>1. Init => GenerationInv
  BY GenerationTypeInit, AcceptInit, AloneInit DEF GenerationInv
<1>2. GenerationInv /\ [Next]_vars => GenerationInv'
  BY GenerationTypeStep, AcceptStep, AloneStep DEF GenerationInv
<1> QED BY <1>1, <1>2, PTL DEF Spec

\* As long as builds run in turn, the ready marker stands only beside the complete outputs
\* it names, wherever builds were killed (transaction.py:24, __main__.py:36,53,84).
THEOREM MarkerComplete == Spec => []MarkerMeansComplete
<1>1. GenerationInv => MarkerMeansComplete
  BY DEF GenerationInv, AloneInv, MarkerTrue, MarkerMeansComplete
<1> QED BY <1>1, GenerationInvariant, PTL

\* As long as builds run in turn, what goes to the compiler was generated from the probe
\* object as it is, also when the generation was skipped
\* (GrevirInterruptBindings.cmake:60-80).
THEOREM CompiledCurrent == Spec => []CompiledIsCurrent
<1>1. GenerationInv => CompiledIsCurrent
  <2> SUFFICES ASSUME GenerationInv, NEW b \in Build, pc[b] = "compile", ~overlapped
               PROVE  disk.header = object /\ disk.source = object
    BY DEF CompiledIsCurrent
  <2>1. Present(disk.marker) /\ fresh
    BY DEF GenerationInv, AloneInv, OwnAttempt
  <2>2. Accepts(disk, None) /\ disk.marker.plan = object
    BY <2>1 DEF GenerationInv, AloneInv, MarkerTrue
  <2> QED
    BY <2>2 DEF Accepts, GenerationInv, AcceptInv, MarkersWellFormed, OnePlan
<1> QED BY <1>1, GenerationInvariant, PTL
=============================================================================
