---------------------------- MODULE MainLoopQueue ----------------------------
(***************************************************************************)
(* grevir::event::detail::MainLoopQueue<Spec> (src/grevir/event/queue.hpp):*)
(* the bounded queue that carries deferred interrupt events to callbacks   *)
(* run from the main loop.                                                 *)
(*                                                                         *)
(* Granularity.  Every public function takes Board::EventLock around each  *)
(* block that reads or writes the statics; a block is one action.          *)
(* dispatch() gives the lock up around every callback, so it is the only   *)
(* operation of several actions: Dispatch, then per round TakeNext, Invoke *)
(* and CallbackReturns, then Leave.  Anything may run between two of them: *)
(* an interrupt posting, another task stopping or preparing the queue, or  *)
(* the callback itself calling back into the queue.                        *)
(*                                                                         *)
(* A frame <<t, d>> is the d-th nested dispatch() call on the stack of     *)
(* task t.  A prepare or dispatch that is refused, dispatch(0) and          *)
(* overrun() change no state and have no action.                           *)
(***************************************************************************)
EXTENDS Naturals, FiniteSets

CONSTANTS
  Task,          \* callers of prepare, stop and dispatch
  ElideEvents,   \* events whose route has Elide delivery
  StreamEvents,  \* events whose route has Stream delivery
  Capacity,      \* QueueCapacity<Board>::value
  IndexModulus,  \* 2^w for the w-bit index_type
  Restricted,    \* TRUE: a policy with a task identity; FALSE: unrestricted_v1
  MaxBudget,     \* bound on the budget given to dispatch
  MaxDepth,      \* bound on nested dispatch calls of one task
  NoTask, NoEvent

Event == ElideEvents \cup StreamEvents

\* QueueCapacity::valid asserts 1 .. maximum_queue_capacity (2048).
ASSUME CapacityAssumption == Capacity \in 1..2048
\* TypeForMaxValue<capacity> is an unsigned type that can hold capacity.
ASSUME IndexAssumption == IndexModulus \in Nat /\ Capacity < IndexModulus
ASSUME EventAssumption ==
  /\ ElideEvents \cap StreamEvents = {}
  /\ NoEvent \notin Event
  /\ NoTask \notin Task
ASSUME BoundAssumption ==
  /\ Restricted \in BOOLEAN
  /\ MaxBudget \in Nat \ {0}
  /\ MaxDepth \in Nat \ {0}

VARIABLES
  records,      \* records_: the ring of dispatch records
  head,         \* head_
  count,        \* count_
  ready,        \* ready_
  overrun,      \* overrun_
  dispatching,  \* dispatching_
  pending,      \* Pending<Spec, Event>::value of every Elide event
  owner,        \* the token the context policy is bound to
  phase,        \* where each dispatch frame stands
  left,         \* budget - handled of each frame
  local,        \* the record each frame copied out of the ring
  answer        \* the event last posted and the PostResult returned for it

queueVars == <<records, head, count, ready, overrun, pending, owner, answer>>
frameVars == <<phase, left, local>>
ringVars == <<records, head, count>>
vars == <<records, head, count, ready, overrun, dispatching, pending, owner,
          phase, left, local, answer>>

-----------------------------------------------------------------------------
(* Data. *)

Record ==
  [invoke : Event \cup {NoEvent}, argument : ElideEvents \cup {NoEvent}]
Answer == {"none", "queued", "coalesced", "full", "not_ready"}
EmptyRecord == [invoke |-> NoEvent, argument |-> NoEvent]

Frame == Task \X (1..MaxDepth)
Caller(f) == f[1]
Active(f) == phase[f] # "off"

\* t is not between two blocks of dispatch(): it is in application code.
InUserCode(t) ==
  \A f \in Frame : Caller(f) = t => phase[f] \in {"off", "run"}

\* f is the frame the next call of dispatch() by its task would use.
Fresh(f) ==
  /\ InUserCode(Caller(f))
  /\ \A g \in Frame : Caller(g) = Caller(f) => (Active(g) <=> g[2] < f[2])

Innermost(f) ==
  \A g \in Frame : Caller(g) = Caller(f) /\ f[2] < g[2] => ~Active(g)

\* static_cast<index_type>
Wrap(n) == n % IndexModulus

\* The ring slot of the i-th queued record.
Slot(i) == Wrap((head + i) % Capacity)

Queued == { Slot(i) : i \in 0..count - 1 }

\* Mutant: records are dropped and their flags stay set.
FlagsKept == pending

\* The pending flags after clear_records().
ClearedFlags ==
  [e \in ElideEvents |->
     pending[e] /\ \A s \in Queued : records[s].argument # e]

IsOwner(t) == Restricted => owner = t
Bound(t) == IF Restricted THEN t ELSE owner

-----------------------------------------------------------------------------
Init ==
  /\ records = [s \in 0..Capacity - 1 |-> EmptyRecord]
  /\ head = 0
  /\ count = 0
  /\ ready = FALSE
  /\ overrun = FALSE
  /\ dispatching = FALSE
  /\ pending = [e \in ElideEvents |-> FALSE]
  /\ owner = NoTask
  /\ phase = [f \in Frame |-> "off"]
  /\ left = [f \in Frame |-> 0]
  /\ local = [f \in Frame |-> EmptyRecord]
  /\ answer = <<NoEvent, "none">>

(* prepare() *)
\* Mutant: prepare() does not wait for the dispatch in progress.
MayPrepareUnderDispatch == ~ready

MayPrepare == ~ready /\ ~dispatching

Prepare(t) ==
  /\ InUserCode(t)
  /\ MayPrepare
  /\ owner' = Bound(t)
  /\ pending' = ClearedFlags
  /\ head' = 0
  /\ count' = 0
  /\ overrun' = FALSE
  /\ ready' = TRUE
  /\ UNCHANGED <<records, dispatching, frameVars, answer>>

(* stop() *)
Stop(t) ==
  /\ InUserCode(t)
  /\ ready' = FALSE
  /\ pending' = ClearedFlags
  /\ head' = 0
  /\ count' = 0
  /\ UNCHANGED <<records, overrun, dispatching, owner, frameVars, answer>>

(* post() and post_from_isr(): any task or interrupt, at any point outside *)
(* another locked block.                                                   *)
Coalesces(e) == e \in ElideEvents /\ pending[e]

RecordOf(e) ==
  [invoke |-> e, argument |-> IF e \in ElideEvents THEN e ELSE NoEvent]

FlagsAfterPost(e) == [x \in ElideEvents |-> pending[x] \/ x = e]

\* tail is an empty slot unless the ring is full.
HasRoom == count # Capacity

NotReady(e) ==
  /\ ~ready
  /\ answer' = <<e, "not_ready">>
  /\ UNCHANGED <<ringVars, ready, overrun, dispatching, pending, owner,
                 frameVars>>

Coalesce(e) ==
  /\ ready
  /\ Coalesces(e)
  /\ answer' = <<e, "coalesced">>
  /\ UNCHANGED <<ringVars, ready, overrun, dispatching, pending, owner,
                 frameVars>>

Overflow(e) ==
  /\ ready
  /\ ~Coalesces(e)
  /\ ~HasRoom
  /\ overrun' = TRUE
  /\ answer' = <<e, "full">>
  /\ UNCHANGED <<ringVars, ready, dispatching, pending, owner, frameVars>>

Enqueue(e) ==
  /\ ready
  /\ ~Coalesces(e)
  /\ HasRoom
  /\ records' = [records EXCEPT ![Slot(count)] = RecordOf(e)]
  /\ pending' = FlagsAfterPost(e)
  /\ count' = Wrap(count + 1)
  /\ answer' = <<e, "queued">>
  /\ UNCHANGED <<head, ready, overrun, dispatching, owner, frameVars>>

Post(e) == NotReady(e) \/ Coalesce(e) \/ Overflow(e) \/ Enqueue(e)

(* clear_overrun() *)
ClearOverrun(t) ==
  /\ InUserCode(t)
  /\ overrun' = FALSE
  /\ UNCHANGED <<ringVars, ready, dispatching, pending, owner, frameVars,
                 answer>>

(* dispatch(budget) *)
\* Mutant: a callback or another task may enter dispatch() again.
MayDispatchAgain(t) == ready /\ IsOwner(t)

MayDispatch(t) == ready /\ ~dispatching /\ IsOwner(t)

Dispatch(f, budget) ==
  /\ Fresh(f)
  /\ MayDispatch(Caller(f))
  /\ dispatching' = TRUE
  /\ phase' = [phase EXCEPT ![f] = "loop"]
  /\ left' = [left EXCEPT ![f] = budget]
  /\ UNCHANGED <<queueVars, local>>

\* Mutant: the flag is left for the callback to clear.
FlagsUntouched(r) == pending

\* The flag of an Elide record is cleared in the block that removes it.
FlagsAfterTake(r) == [e \in ElideEvents |-> pending[e] /\ r.argument # e]

\* Mutant: the head runs past the end of the ring.
HeadPastEnd == Wrap(head + 1)

NextHead == Wrap((head + 1) % Capacity)

\* Mutant: the last unit of the budget is never used.
HasSpareBudget(f) == left[f] > 1

HasBudget(f) == left[f] > 0

TakeNext(f) ==
  /\ phase[f] = "loop"
  /\ HasBudget(f)
  /\ ready
  /\ count # 0
  /\ local' = [local EXCEPT ![f] = records[head]]
  /\ pending' = FlagsAfterTake(records[head])
  /\ head' = NextHead
  /\ count' = Wrap(count - 1)
  /\ phase' = [phase EXCEPT ![f] = "taken"]
  /\ UNCHANGED <<records, ready, overrun, dispatching, owner, left, answer>>

\* Mutant: the dispatch guard is given up with the lock, before the callback.
InvokeUnguarded(f) ==
  /\ phase[f] = "taken"
  /\ phase' = [phase EXCEPT ![f] = "run"]
  /\ dispatching' = FALSE
  /\ UNCHANGED <<queueVars, left, local>>

\* The callback starts only after the lock is given up.
Invoke(f) ==
  /\ phase[f] = "taken"
  /\ phase' = [phase EXCEPT ![f] = "run"]
  /\ UNCHANGED <<queueVars, dispatching, left, local>>

\* Mutant: handled is not counted up.
ReturnsUncounted(f) ==
  /\ phase[f] = "run"
  /\ Innermost(f)
  /\ phase' = [phase EXCEPT ![f] = "loop"]
  /\ local' = [local EXCEPT ![f] = EmptyRecord]
  /\ UNCHANGED <<queueVars, dispatching, left>>

CallbackReturns(f) ==
  /\ phase[f] = "run"
  /\ Innermost(f)
  /\ phase' = [phase EXCEPT ![f] = "loop"]
  /\ left' = [left EXCEPT ![f] = @ - 1]
  /\ local' = [local EXCEPT ![f] = EmptyRecord]
  /\ UNCHANGED <<queueVars, dispatching>>

\* Mutant: finding nothing to take returns at once, the guard still set.
EndLoopReturning(f) ==
  /\ phase[f] = "loop"
  /\ ~HasBudget(f) \/ ~ready \/ count = 0
  /\ phase' = [phase EXCEPT ![f] = IF HasBudget(f) THEN "off" ELSE "leave"]
  /\ UNCHANGED <<queueVars, dispatching, left, local>>

\* The loop ends: budget used, or (in a locked block) nothing left to take.
Exhausted(f) == ~HasBudget(f) \/ ~ready \/ count = 0

EndLoop(f) ==
  /\ phase[f] = "loop"
  /\ Exhausted(f)
  /\ phase' = [phase EXCEPT ![f] = "leave"]
  /\ UNCHANGED <<queueVars, dispatching, left, local>>

\* Mutant: the closing block of dispatch() is missing.
LeaveGuarded(f) ==
  /\ phase[f] = "leave"
  /\ phase' = [phase EXCEPT ![f] = "off"]
  /\ left' = [left EXCEPT ![f] = 0]
  /\ UNCHANGED <<queueVars, dispatching, local>>

Leave(f) ==
  /\ phase[f] = "leave"
  /\ dispatching' = FALSE
  /\ phase' = [phase EXCEPT ![f] = "off"]
  /\ left' = [left EXCEPT ![f] = 0]
  /\ UNCHANGED <<queueVars, local>>

FrameStep(f) ==
  TakeNext(f) \/ Invoke(f) \/ CallbackReturns(f) \/ EndLoop(f) \/ Leave(f)

MainLoopTurn(t) ==
  \E f \in Frame, budget \in 1..MaxBudget : Caller(f) = t /\ Dispatch(f, budget)

Next ==
  \/ \E t \in Task : Prepare(t) \/ Stop(t) \/ ClearOverrun(t) \/ MainLoopTurn(t)
  \/ \E e \in Event : Post(e)
  \/ \E f \in Frame : FrameStep(f)

Spec == Init /\ [][Next]_vars

\* The main loop keeps calling dispatch(), callbacks return, and a task that
\* is inside dispatch() keeps running.  Nothing is assumed of the callers of
\* post, prepare, stop and clear_overrun.
Fairness ==
  /\ WF_vars(\E t \in Task : MainLoopTurn(t))
  /\ \A f \in Frame : WF_vars(FrameStep(f))

FairSpec == Spec /\ Fairness

-----------------------------------------------------------------------------
(* Properties. *)

\* Every static keeps its type: in particular head_ stays a slot of the ring and
\* count_ never exceeds the capacity, although both are computed in index_type.
TypeOK ==
  /\ records \in [0..Capacity - 1 -> Record]
  /\ head \in 0..Capacity - 1
  /\ count \in 0..Capacity
  /\ ready \in BOOLEAN
  /\ overrun \in BOOLEAN
  /\ dispatching \in BOOLEAN
  /\ pending \in [ElideEvents -> BOOLEAN]
  /\ owner \in Task \cup {NoTask}
  /\ phase \in [Frame -> {"off", "loop", "taken", "run", "leave"}]
  /\ left \in [Frame -> 0..MaxBudget]
  /\ local \in [Frame -> Record]
  /\ answer \in (Event \cup {NoEvent}) \X Answer

\* Callbacks never overlap and never nest, whatever tasks and callbacks call:
\* at most one dispatch() call is past its opening guard at any time
\* (queue.hpp:73, "main-loop dispatch does not nest callbacks").
OneDispatcher ==
  \A f, g \in Frame : Active(f) /\ Active(g) => f = g

\* Under a policy with a task identity every callback runs on the task the queue
\* is bound to now, even when others stop and prepare the queue while it runs
\* (queue.hpp:40,73, "main-loop callbacks stay on the task that prepared").
CallbacksOnOwner ==
  Restricted => \A f \in Frame : Active(f) => Caller(f) = owner

\* A pending flag is set exactly while one queued record refers to it.  A flag left
\* set by stop, prepare or dispatch would make every later firing of the event
\* coalesce with a record that does not exist; a flag cleared too soon would let
\* the event fill the queue (queue.hpp:83-85,123,132,146-148).
PendingTracksQueue ==
  \A e \in ElideEvents :
    Cardinality({i \in 0..count - 1 : records[Slot(i)].argument = e})
      = IF pending[e] THEN 1 ELSE 0

\* While a dispatch() call is in progress the queue is neither reopened nor bound to
\* another task: a callback of the last life never runs in the next one
\* (queue.hpp:40,74,94).
NoRebirthUnderDispatch ==
  [][(\E f \in Frame : Active(f)) => owner' = owner /\ (ready' => ready)]_vars

\* Every dispatch() call returns, however fast interrupts refill the queue and
\* callbacks repost: the budget bounds the work of one call (queue.hpp:77,90).
DispatchReturns == \A f \in Frame : Active(f) ~> ~Active(f)

\* Every accepted record leaves the ring: no order of posts, budgets, nested calls
\* and restarts leaves one queued for ever behind a dispatcher that gave up, a
\* guard that was never reset or newer records (queue.hpp:73-94).
AcceptedIsTaken == \A k \in 0..Capacity - 1 : k \in Queued ~> k \notin Queued

-----------------------------------------------------------------------------
(* The abstract service. *)

Worker(f) == phase[f] \in {"taken", "run"}

Service == INSTANCE EventService WITH
  open    <- ready,
  backlog <- [i \in 1..count |-> records[Slot(i - 1)].invoke],
  lossy   <- overrun,
  server  <- owner,
  current <- IF \E f \in Frame : Worker(f)
             THEN local[CHOOSE f \in Frame : Worker(f)].invoke ELSE NoEvent,
  worker  <- IF \E f \in Frame : Worker(f)
             THEN Caller(CHOOSE f \in Frame : Worker(f)) ELSE NoTask

\* The ring, its flags and its frames implement the abstract service step by step:
\* first-in first-out, no firing lost, duplicated or absorbed after its service
\* began, overrun set exactly by refusals, one firing served at a time.
ImplementsService == Service!Spec

\* Under fairness the abstract service's own fairness is implemented too.
ImplementsFairService == Service!FairSpec
=============================================================================
