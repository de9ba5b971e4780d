---------------------------- MODULE InterruptStart ----------------------------
(***************************************************************************)
(* Application<Spec>::start (src/grevir/interrupt/start.hpp) under         *)
(* SingleThreadStartPolicy, composed with the deferred event queue it      *)
(* prepares and with the interrupts it brings to life.                     *)
(*                                                                         *)
(* Every line of start() is an action of its own: between two of them      *)
(* interrupts fire and other tasks call the queue.  The Board is external: *)
(* a call of it that may fail does so nondeterministically, and any call   *)
(* between the two masks may leave some of the owned sources live, which   *)
(* is why fail() masks them again.  The cleanup follows that second mask   *)
(* and is taken to unmask nothing.                                         *)
(*                                                                         *)
(* start() is called from the top level of a task, not from a callback,    *)
(* and setup_modules() may call everything but dispatch().  A raw or       *)
(* direct handler runs in the interrupt and changes nothing here; it may   *)
(* post, which AppPost covers.  A further call of start(), nested in a     *)
(* module's setup or after the first is over, is answered from result_.    *)
(***************************************************************************)
EXTENDS MainLoopQueue

CONSTANTS
  Source,  \* the interrupt sources of the binding plan
  EventOf  \* the deferred event of a source; NoEvent for a raw or direct handler

ASSUME SourceAssumption == EventOf \in [Source -> Event \cup {NoEvent}]

VARIABLES
  stage,      \* the line start() is at; "idle" before, "done" after it
  started,    \* started_
  starter,    \* the task that runs start()
  result,     \* the StartResult being built, and what the first call returned
  recorded,   \* result_
  told,       \* what a replayed call was last told, and whether start() was over
  installed,  \* sources whose handler is registered
  live,       \* sources that are unmasked
  queueBy     \* who prepared or stopped the queue last: "nobody", "start", "app"

startVars == <<stage, started, starter, result, recorded, told, installed, live, queueBy>>
allVars == <<vars, startVars>>

NoResult == [outcome |-> "success", origin |-> "success"]

\* DeferredContextPlan<Spec>::selected
DeferredSelected == \E s \in Source : EventOf[s] # NoEvent

InStart == stage \notin {"idle", "done"}

-----------------------------------------------------------------------------
StartInit ==
  /\ Init
  /\ stage = "idle"
  /\ started = FALSE
  /\ starter = NoTask
  /\ result = NoResult
  /\ recorded = NoResult
  /\ told = [over |-> FALSE, outcome |-> "nothing"]
  /\ installed = {}
  /\ live \in SUBSET Source  \* as the boot loader left them
  /\ queueBy = "nobody"

(* SingleThreadStartPolicy::execute *)

\* Mutant: the policy forgets that it has run.
MayStartAgain == TRUE

MayStart == ~started

CallStart(t) ==
  /\ ~InStart
  /\ MayStart
  /\ \A f \in Frame : Caller(f) = t => ~Active(f)
  /\ started' = TRUE
  /\ starter' = t
  /\ stage' = "mask"
  /\ UNCHANGED <<vars, result, recorded, told, installed, live, queueBy>>

\* Mutant: result_ keeps its initial value.
RecordNothing(returned) == recorded

RecordResult(returned) == returned

\* The body returns: result_ is assigned what it returned.
BodyReturns ==
  /\ stage' = "done"
  /\ recorded' = RecordResult(result')

(* Application::start *)
MaskOwned ==
  /\ stage = "mask"
  /\ live' = {}
  /\ stage' = IF DeferredSelected THEN "prepare" ELSE "configure"
  /\ UNCHANGED <<vars, started, starter, result, recorded, told, installed, queueBy>>

\* fail(reason): the rest of start() is abandoned for the cleanup path.
Fail(reason) ==
  /\ result' = [outcome |-> reason, origin |-> reason]
  /\ stage' = "fail_mask"

PrepareQueue ==
  /\ stage = "prepare"
  /\ Prepare(starter)
  /\ stage' = "configure"
  /\ queueBy' = "start"
  /\ UNCHANGED <<started, starter, result, recorded, told, installed, live>>

PrepareRefused ==
  /\ stage = "prepare"
  /\ ~MayPrepare
  /\ Fail("event_context_failed")
  /\ UNCHANGED <<vars, started, starter, recorded, told, installed, live, queueBy>>

\* The board may leave sources live while it configures or registers them.
BoardLeaves == \E more \in SUBSET Source : live' = live \cup more

Configure ==
  /\ stage = "configure"
  /\ BoardLeaves
  /\ \/ stage' = "setup" /\ UNCHANGED result
     \/ Fail("configuration_failed")
  /\ UNCHANGED <<vars, started, starter, recorded, told, installed, queueBy>>

SetupModules ==
  /\ stage = "setup"
  /\ BoardLeaves
  /\ stage' = "install"
  /\ UNCHANGED <<vars, started, starter, result, recorded, told, installed, queueBy>>

\* Mutant: a source that cannot be registered is skipped.
InstallRefusedSkipped ==
  /\ stage' = "settle"
  /\ UNCHANGED result

InstallRefused == Fail("registration_failed")

\* The generated install_bindings registers the sources one after the other and
\* returns at the first that fails; those before it stay registered.
InstallNext ==
  /\ stage = "install"
  /\ BoardLeaves
  /\ \E s \in Source \ installed :
       \/ installed' = installed \cup {s} /\ UNCHANGED <<stage, result>>
       \/ InstallRefused /\ UNCHANGED installed
  /\ UNCHANGED <<vars, started, starter, recorded, told, queueBy>>

InstallDone ==
  /\ stage = "install"
  /\ installed = Source
  /\ stage' = "settle"
  /\ UNCHANGED <<vars, started, starter, result, recorded, told, installed, live, queueBy>>

SettlePending ==
  /\ stage = "settle"
  /\ BoardLeaves
  /\ \/ stage' = "enable" /\ UNCHANGED result
     \/ Fail("pending_policy_failed")
  /\ UNCHANGED <<vars, started, starter, recorded, told, installed, queueBy>>

EnableOwned ==
  /\ stage = "enable"
  /\ live' = Source
  /\ UNCHANGED <<vars, started, starter, result, told, installed, queueBy>>
  /\ BodyReturns

(* Application::fail *)

\* Mutant: the owned sources are not masked before the queue is stopped.
FailUnmasked ==
  /\ stage = "fail_mask"
  /\ stage' = "fail_stop"
  /\ UNCHANGED <<vars, started, starter, result, recorded, told, installed, live, queueBy>>

FailMask ==
  /\ stage = "fail_mask"
  /\ live' = {}
  /\ stage' = "fail_stop"
  /\ UNCHANGED <<vars, started, starter, result, recorded, told, installed, queueBy>>

\* Mutant: queue_prepared is left at its default.
StopsAlways == DeferredSelected

\* Mutant: the queue of a failed start is left open.
StopsNever == FALSE

\* queue_prepared is false only on the path where prepare() was refused.
StopsQueue == DeferredSelected /\ result.origin # "event_context_failed"

FailStop ==
  /\ stage = "fail_stop"
  /\ StopsQueue
  /\ Stop(starter)
  /\ queueBy' = "start"
  /\ stage' = "fail_cleanup"
  /\ UNCHANGED <<started, starter, result, recorded, told, installed, live>>

FailWithoutStop ==
  /\ stage = "fail_stop"
  /\ ~StopsQueue
  /\ stage' = "fail_cleanup"
  /\ UNCHANGED <<vars, started, starter, result, recorded, told, installed, live, queueBy>>

CleanupFailed == [outcome |-> "cleanup_failed", origin |-> result.origin]

FailCleanup ==
  /\ stage = "fail_cleanup"
  /\ \/ installed' = {} /\ UNCHANGED result
     \/ /\ installed' \in SUBSET installed
        /\ result' = CleanupFailed
  /\ UNCHANGED <<vars, started, starter, told, live, queueBy>>
  /\ BodyReturns

StartStep ==
  \/ MaskOwned \/ PrepareQueue \/ PrepareRefused \/ Configure \/ SetupModules
  \/ InstallNext \/ InstallDone \/ SettlePending \/ EnableOwned
  \/ FailMask \/ FailStop \/ FailWithoutStop \/ FailCleanup

-----------------------------------------------------------------------------
(* Everything else that runs. *)

\* t is in application code: outside start(), or in a module's setup.
AppCode(t) == InUserCode(t) /\ (t = starter /\ InStart => stage = "setup")

\* start() called again: from a module's setup it is told the initial value of result_.
ReplayStart(t) ==
  /\ AppCode(t)
  /\ InStart => t = starter
  /\ ~MayStart
  /\ told' = [over |-> ~InStart, outcome |-> recorded.outcome]
  /\ UNCHANGED <<vars, stage, started, starter, result, recorded, installed, live, queueBy>>

AppPrepare(t) ==
  /\ AppCode(t)
  /\ Prepare(t)
  /\ queueBy' = "app"
  /\ UNCHANGED <<stage, started, starter, result, recorded, told, installed, live>>

AppStop(t) ==
  /\ AppCode(t)
  /\ Stop(t)
  /\ queueBy' = "app"
  /\ UNCHANGED <<stage, started, starter, result, recorded, told, installed, live>>

AppPost(t, e) ==
  /\ AppCode(t)
  /\ Post(e)
  /\ UNCHANGED startVars

AppTurn(t) ==
  /\ t = starter => ~InStart
  /\ MainLoopTurn(t)
  /\ UNCHANGED startVars

QueueStep(f) ==
  /\ FrameStep(f)
  /\ UNCHANGED startVars

\* dispatch_bound_interrupt of a deferred event: the PostResult is discarded.
Interrupt(s) ==
  /\ s \in live
  /\ EventOf[s] # NoEvent
  /\ Post(EventOf[s])
  /\ UNCHANGED startVars

StartNext ==
  \/ StartStep
  \/ \E t \in Task : CallStart(t) \/ ReplayStart(t) \/ AppPrepare(t) \/ AppStop(t) \/ AppTurn(t)
  \/ \E t \in Task, e \in Event : AppPost(t, e)
  \/ \E f \in Frame : QueueStep(f)
  \/ \E s \in Source : Interrupt(s)

StartSpec == StartInit /\ [][StartNext]_allVars

-----------------------------------------------------------------------------
(* Properties. *)

Deferred == { s \in Source : EventOf[s] # NoEvent }

\* From the first mask on, an interrupt that can fire finds the queue ready, unless
\* the application itself stopped it: the firing is never lost to not_ready, neither
\* while start() runs nor while a failed start is being undone.  It needs the order
\* mask, prepare, configure and the order mask, stop (start.hpp:28-34,51-53).
LiveSourceFindsQueue ==
  stage \notin {"idle", "mask"} /\ live \cap Deferred # {}
    => ready \/ queueBy = "app"

\* Whoever is told that start() succeeded, by its first call or by one made after it was
\* over, finds every source registered and the queue ready and bound to the starting
\* task, unless the application has taken the queue over since (start.hpp:30-45,
\* emit.py:156-171, single_thread_start_policy.hpp:14-21).
SuccessIsWired ==
  stage = "done" /\ (result.outcome = "success" \/ told = [over |-> TRUE, outcome |-> "success"]) =>
    /\ installed = Source
    /\ DeferredSelected /\ queueBy # "app" => ready /\ IsOwner(starter)

\* A start that reports failure leaves no source live, and no queue open that it
\* opened, even when the board's cleanup fails too (start.hpp:50-58).
FailedStartIsQuiet ==
  stage = "done" /\ result.outcome # "success" =>
    /\ live = {}
    /\ ready => queueBy = "app"

\* A start that is refused because the queue is in use leaves it to its user: no step
\* of start() ever closes it (start.hpp:31,53).
RefusedStartKeepsQueue ==
  [][result.origin = "event_context_failed" /\ ready /\ ~ready'
       => queueBy' = "app"]_allVars

\* Once a start has succeeded its sources stay live and registered for ever: a later
\* call of start(), by any task, is answered from the recorded result and does not go
\* through the mask, prepare, install sequence again
\* (single_thread_start_policy.hpp:14-21).
Wired == live = Source /\ installed = Source

StartedStaysLive ==
  [](stage = "done" /\ result.outcome = "success" => []Wired)
=============================================================================
