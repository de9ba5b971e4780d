--------------------------- MODULE BindingGeneration ---------------------------
(***************************************************************************)
(* The generation of interrupt bindings in one output directory: the build *)
(* rule of cmake/GrevirInterruptBindings.cmake, which runs                 *)
(* tools/grevir_irqgen/transaction.py (plan, emit, verify) when the ready  *)
(* marker is missing or out of date, verifies the directory, and compiles  *)
(* the generated header and source into the firmware.                      *)
(*                                                                         *)
(* Every file is replaced atomically (_write), so a step that writes or    *)
(* deletes a file is one action and so is each read of verify_ready.  A    *)
(* build may be killed between any two steps; a failed write or an         *)
(* injected failure (_fail) ends it the same way.  The builds in Parallel  *)
(* may overlap: two builds of one tree, or the orphaned child of a killed  *)
(* transaction.                                                            *)
(*                                                                         *)
(* File contents are abstracted to the version of the application they     *)
(* stem from: emit() is a function of the plan, a hash identifies what it  *)
(* was computed from, and a plan decodes to the version of its object.     *)
(***************************************************************************)
EXTENDS Naturals, FiniteSets

CONSTANTS
  Build,      \* builds; each is also the uuid of its attempt
  Crashable,  \* the builds that may be killed
  Parallel,   \* the builds that may run at the same time
  Version,    \* contents of the application
  Rejected,   \* versions whose record fails decoding or the identity checks
  Unsupported,\* versions whose plan the emitter has no code for
  None

ASSUME BuildAssumption ==
  /\ Crashable \cup Parallel \subseteq Build
  /\ Rejected \cup Unsupported \subseteq Version
  /\ None \notin Build \cup Version

VARIABLES
  app,     \* the application header and what it includes
  object,  \* the probe object, named by the version it was compiled from
  fresh,   \* the marker is newer than the object
  disk,    \* the files of the output directory
  pc,      \* the step each build is at
  strict,  \* the build is verifying its own attempt
  seen,    \* what each build holds in memory
  overlapped  \* history: two builds were running at once

vars == <<app, object, fresh, disk, pc, strict, seen, overlapped>>

Maybe(S) == S \cup {None}

NoMarker == [attempt |-> None, plan |-> None, output |-> <<None, None>>]

NoFiles ==
  [marker |-> NoMarker, attempt |-> None, plan |-> None, header |-> None,
   source |-> None]

Blank == [decoded |-> None, files |-> NoFiles]

Present(marker) == marker # NoMarker

Ended == {"built", "failed", "killed"}
Running(b) == pc[b] \notin Ended \cup {"waiting"}

-----------------------------------------------------------------------------
Init ==
  /\ app \in Version
  /\ object = None
  /\ fresh = FALSE
  /\ disk = NoFiles
  /\ pc = [b \in Build |-> "waiting"]
  /\ strict = [b \in Build |-> FALSE]
  /\ seen = [b \in Build |-> Blank]
  /\ overlapped = FALSE

Move(b, from, to) == pc[b] = from /\ pc' = [pc EXCEPT ![b] = to]
Forget(b) == seen' = [seen EXCEPT ![b] = Blank]

\* A build's processes end with all they hold.
End(b, from, outcome) ==
  /\ Move(b, from, outcome)
  /\ Forget(b)
  /\ strict' = [strict EXCEPT ![b] = FALSE]

Known(b) == seen[b].files

Sees(b, files) == seen' = [seen EXCEPT ![b].files = files]

Edit ==
  /\ app' \in Version \ {app}
  /\ UNCHANGED <<object, fresh, disk, pc, strict, seen, overlapped>>

Others(b) == {other \in Build \ {b} : Running(other)}

(* The rules of the CMake function. *)
StartBuild(b) ==
  /\ Others(b) = {} \/ Others(b) \cup {b} \subseteq Parallel
  /\ Move(b, "waiting", "probe")
  /\ overlapped' = (overlapped \/ Others(b) # {})
  /\ UNCHANGED <<app, object, fresh, disk, strict, seen>>

\* The probe is compiled again when the application is newer than its object.
CompileProbe(b) ==
  /\ Move(b, "probe", "decide")
  /\ object' = app
  /\ fresh' = (fresh /\ object = app)
  /\ UNCHANGED <<app, disk, strict, seen, overlapped>>

\* Mutant: the rule does not depend on the probe object.
MarkerMissing == ~Present(disk.marker)

\* OUTPUT is missing, or older than the probe object it depends on.
OutOfDate == ~Present(disk.marker) \/ ~fresh

Decide(b) ==
  /\ Move(b, "decide", IF OutOfDate THEN "begin" ELSE "v_marker")
  /\ UNCHANGED <<app, object, fresh, disk, strict, seen, overlapped>>

(* transaction.py and the plan command *)

\* Mutant: the marker of the last attempt stays in place.
MarkerKept == disk

WithoutMarker == [disk EXCEPT !.marker = NoMarker]

BeginTransaction(b) ==
  /\ Move(b, "begin", "clear")
  /\ disk' = WithoutMarker
  /\ strict' = [strict EXCEPT ![b] = TRUE]
  /\ UNCHANGED <<app, object, fresh, seen, overlapped>>

PlanClear(b) ==
  /\ Move(b, "clear", "attempt")
  /\ disk' = WithoutMarker
  /\ UNCHANGED <<app, object, fresh, strict, seen, overlapped>>

\* Mutant: the attempt is recorded only in a new directory.
FirstAttempt(b) == IF disk.attempt = None THEN b ELSE disk.attempt

Attempt(b) == b

PlanAttempt(b) ==
  /\ Move(b, "attempt", "decode")
  /\ disk' = [disk EXCEPT !.attempt = Attempt(b)]
  /\ UNCHANGED <<app, object, fresh, strict, seen, overlapped>>

PlanDecode(b) ==
  /\ IF object \in Rejected
     THEN End(b, "decode", "failed")
     ELSE /\ Move(b, "decode", "plan")
          /\ seen' = [seen EXCEPT ![b].decoded = object]
          /\ UNCHANGED strict
  /\ UNCHANGED <<app, object, fresh, disk, overlapped>>

PlanWrite(b) ==
  /\ Move(b, "plan", "emit")
  /\ disk' = [disk EXCEPT !.plan = seen[b].decoded]
  /\ UNCHANGED <<app, object, fresh, strict, seen, overlapped>>

(* the emit command *)
EmitClear(b) ==
  /\ Move(b, "emit", "check")
  /\ disk' = WithoutMarker
  /\ UNCHANGED <<app, object, fresh, strict, seen, overlapped>>

EmitCheck(b) ==
  /\ disk.attempt = b
  /\ Move(b, "check", "read")
  /\ UNCHANGED <<app, object, fresh, disk, strict, seen, overlapped>>

EmitRead(b) ==
  /\ disk.plan \notin Unsupported
  /\ Move(b, "read", "header")
  /\ Sees(b, [Known(b) EXCEPT !.plan = disk.plan])
  /\ UNCHANGED <<app, object, fresh, disk, strict, overlapped>>

\* Another attempt has begun, or emit() refuses the plan.
EmitFails(b) ==
  /\ \/ disk.attempt # b /\ End(b, "check", "failed")
     \/ disk.plan \in Unsupported /\ End(b, "read", "failed")
  /\ UNCHANGED <<app, object, fresh, disk, overlapped>>

EmitHeader(b) ==
  /\ Move(b, "header", "source")
  /\ disk' = [disk EXCEPT !.header = Known(b).plan]
  /\ UNCHANGED <<app, object, fresh, strict, seen, overlapped>>

EmitSource(b) ==
  /\ Move(b, "source", "marker")
  /\ disk' = [disk EXCEPT !.source = Known(b).plan]
  /\ UNCHANGED <<app, object, fresh, strict, seen, overlapped>>

\* Mutant: the marker names the attempt the emitter has read, and it has read none.
UnsignedMarker(b) ==
  [attempt |-> Known(b).attempt, plan |-> Known(b).plan,
   output |-> <<Known(b).plan, Known(b).plan>>]

ReadyMarker(b) ==
  LET plan == Known(b).plan
  IN  [attempt |-> b, plan |-> plan, output |-> <<plan, plan>>]

EmitMarker(b) ==
  /\ Move(b, "marker", "v_marker")
  /\ disk' = [disk EXCEPT !.marker = ReadyMarker(b)]
  /\ fresh' = TRUE
  /\ seen' = [seen EXCEPT ![b].files = NoFiles]
  /\ UNCHANGED <<app, object, strict, overlapped>>

(* verify_ready *)
VerifyRead(b) ==
  /\ \/ Move(b, "v_marker", "v_attempt") /\ Sees(b, [Known(b) EXCEPT !.marker = disk.marker])
     \/ Move(b, "v_attempt", "v_plan") /\ Sees(b, [Known(b) EXCEPT !.attempt = disk.attempt])
     \/ Move(b, "v_plan", "v_header") /\ Sees(b, [Known(b) EXCEPT !.plan = disk.plan])
     \/ Move(b, "v_header", "v_source") /\ Sees(b, [Known(b) EXCEPT !.header = disk.header])
     \/ Move(b, "v_source", "verify") /\ Sees(b, [Known(b) EXCEPT !.source = disk.source])
  /\ UNCHANGED <<app, object, fresh, disk, strict, overlapped>>

\* Mutant: the outputs are not compared with the marker.
AcceptsAnyOutput(files, attempt) ==
  /\ Present(files.marker)
  /\ files.marker.attempt = files.attempt
  /\ attempt # None => files.marker.attempt = attempt
  /\ files.marker.plan = files.plan

Accepts(files, attempt) ==
  /\ Present(files.marker)
  /\ files.marker.attempt = files.attempt
  /\ attempt # None => files.marker.attempt = attempt
  /\ files.marker.plan = files.plan
  /\ files.marker.output = <<files.header, files.source>>

Expected(b) == IF strict[b] THEN b ELSE None

\* The transaction accepts its attempt, then verify.py accepts the directory.
VerifyPasses(b) ==
  /\ Accepts(Known(b), Expected(b))
  /\ IF strict[b] THEN End(b, "verify", "v_marker")
                  ELSE Move(b, "verify", "compile") /\ UNCHANGED <<seen, strict>>
  /\ UNCHANGED <<app, object, fresh, disk, overlapped>>

\* Only transaction.py takes the marker away when it rejects; verify.py does not.
VerifyFails(b) ==
  /\ ~Accepts(Known(b), Expected(b))
  /\ End(b, "verify", IF strict[b] THEN "reject" ELSE "failed")
  /\ UNCHANGED <<app, object, fresh, disk, overlapped>>

RejectAttempt(b) ==
  /\ Move(b, "reject", "failed")
  /\ disk' = WithoutMarker
  /\ UNCHANGED <<app, object, fresh, strict, seen, overlapped>>

\* The static assertions of the generated source: its plan is the live one and the
\* header's.
BindingsMatch == disk.header = app /\ disk.source = app

\* The compiler reads the generated files and the application again.
Compile(b) ==
  /\ End(b, "compile", IF BindingsMatch THEN "built" ELSE "failed")
  /\ UNCHANGED <<app, object, fresh, disk, overlapped>>

Kill(b) ==
  /\ b \in Crashable
  /\ Running(b)
  /\ End(b, pc[b], "killed")
  /\ UNCHANGED <<app, object, fresh, disk, overlapped>>

BuildStep(b) ==
  \/ CompileProbe(b) \/ Decide(b)
  \/ BeginTransaction(b) \/ PlanClear(b) \/ PlanAttempt(b) \/ PlanDecode(b)
  \/ PlanWrite(b)
  \/ EmitClear(b) \/ EmitCheck(b) \/ EmitRead(b) \/ EmitFails(b) \/ EmitHeader(b)
  \/ EmitSource(b) \/ EmitMarker(b)
  \/ VerifyRead(b) \/ VerifyPasses(b) \/ VerifyFails(b) \/ RejectAttempt(b)
  \/ Compile(b)

Next ==
  \/ Edit
  \/ \E b \in Build : StartBuild(b) \/ BuildStep(b) \/ Kill(b)

Spec == Init /\ [][Next]_vars

\* A build that has been started and is not killed keeps running.
FairSpec == Spec /\ \A b \in Build : WF_vars(BuildStep(b))

-----------------------------------------------------------------------------
(* Properties. *)

\* As long as builds do not overlap, the ready marker stands only beside the complete
\* set of outputs it names: no build killed half-way leaves a marker over files of
\* two generations (transaction.py:24, __main__.py:36,53,84).
MarkerMeansComplete ==
  Present(disk.marker) /\ ~overlapped => Accepts(disk, None)

\* As long as builds do not overlap, what a build goes on to compile was generated
\* from the probe object it has just brought up to date, whatever was edited or killed
\* before: skipping the transaction never reuses the bindings of an older application
\* (GrevirInterruptBindings.cmake:60-80).
CompiledIsCurrent ==
  \A b \in Build :
    pc[b] = "compile" /\ ~overlapped => disk.header = object /\ disk.source = object

\* A build nobody kills ends, and fails only because the application is rejected or
\* was edited under it: no earlier crash leaves the directory in a state that blocks
\* it.  After builds that overlapped that holds of every build that generates again;
\* one that finds the marker up to date may be stuck with what it verifies
\* (transaction.py:24, __main__.py:36-48, verify.py:59).
CrashIsRecovered ==
  \A b \in Build \ (Crashable \cup Parallel) :
    (pc[b] = "probe" /\ ~overlapped) \/ pc[b] = "begin"
      ~> \/ pc[b] = "built"
         \/ pc[b] = "failed" /\ (object \in Rejected \cup Unsupported \/ object # app)

\* What verify_ready accepts is one generation: the marker, plan, header and source
\* that were read one after the other belong together, however many other builds
\* replaced files meanwhile (verify.py:31-48).
AcceptedIsCoherent ==
  \A b \in Build :
    pc[b] = "compile" =>
      LET files == seen[b].files
      IN  files.plan = files.header /\ files.header = files.source

\* The transaction accepts its attempt only with files that stem from the object it
\* decoded, as verify.py's "complete current ... generation attempt" says.
AcceptedIsOwn ==
  [][\A b \in Build :
       strict[b] /\ VerifyPasses(b) => seen[b].files.plan = seen[b].decoded]_vars
=============================================================================
