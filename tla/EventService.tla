---------------------------- MODULE EventService ----------------------------
(***************************************************************************)
(* What grevir::event promises an application, with no ring buffer, no     *)
(* pending flags and no call frames: a bounded first-in first-out backlog  *)
(* of firings that any context may publish to, served one at a time by the *)
(* task that opened it.                                                    *)
(*                                                                         *)
(*   - An accepted firing is served once, in order, or dropped by Close.   *)
(*   - A firing of an Elide event that is still in the backlog absorbs     *)
(*     further firings; one whose service has begun absorbs none.          *)
(*   - A firing is refused only when the backlog is full, and then `lossy` *)
(*     remembers it until the service is reopened or Forgive is called.    *)
(*                                                                         *)
(* MainLoopQueue is the module that implements it.                         *)
(***************************************************************************)
EXTENDS Naturals, Sequences, SequencesExt

CONSTANTS
  Task,          \* tasks (threads, or the one main loop of a bare MCU)
  ElideEvents,   \* events routed with Elide delivery
  StreamEvents,  \* events routed with Stream delivery
  Capacity,      \* Board::event_queue_capacity
  Restricted,    \* TRUE when only the task that opened the service may serve
  NoTask, NoEvent

Event == ElideEvents \cup StreamEvents

VARIABLES
  open,     \* the service accepts firings
  backlog,  \* accepted firings whose service has not begun
  lossy,    \* a firing was refused for lack of room
  server,   \* the task the service is bound to
  current,  \* the event being served
  worker,   \* the task serving it
  answer    \* the event last published and what its publisher was told

vars == <<open, backlog, lossy, server, current, worker, answer>>

Init ==
  /\ open = FALSE
  /\ backlog = <<>>
  /\ lossy = FALSE
  /\ server = NoTask
  /\ current = NoEvent
  /\ worker = NoTask
  /\ answer = <<NoEvent, "none">>

\* The service reopens only when nothing of its last life is still being served.
Open(t) ==
  /\ ~open
  /\ current = NoEvent
  /\ open' = TRUE
  /\ backlog' = <<>>
  /\ lossy' = FALSE
  /\ server' = IF Restricted THEN t ELSE server
  /\ UNCHANGED <<current, worker, answer>>

\* Closing drops the backlog; the service in progress, if any, runs to its end.
Close ==
  /\ open' = FALSE
  /\ backlog' = <<>>
  /\ UNCHANGED <<lossy, server, current, worker, answer>>

Absorbed(e) == e \in ElideEvents /\ Contains(backlog, e)

Ignore(e) ==
  /\ ~open
  /\ answer' = <<e, "not_ready">>
  /\ UNCHANGED <<open, backlog, lossy, server, current, worker>>

Absorb(e) ==
  /\ open
  /\ Absorbed(e)
  /\ answer' = <<e, "coalesced">>
  /\ UNCHANGED <<open, backlog, lossy, server, current, worker>>

Accept(e) ==
  /\ open
  /\ ~Absorbed(e)
  /\ Len(backlog) < Capacity
  /\ backlog' = Append(backlog, e)
  /\ answer' = <<e, "queued">>
  /\ UNCHANGED <<open, lossy, server, current, worker>>

Refuse(e) ==
  /\ open
  /\ ~Absorbed(e)
  /\ Len(backlog) = Capacity
  /\ lossy' = TRUE
  /\ answer' = <<e, "full">>
  /\ UNCHANGED <<open, backlog, server, current, worker>>

Begin(t) ==
  /\ open
  /\ current = NoEvent
  /\ backlog # <<>>
  /\ Restricted => t = server
  /\ current' = Head(backlog)
  /\ backlog' = Tail(backlog)
  /\ worker' = t
  /\ UNCHANGED <<open, lossy, server, answer>>

End ==
  /\ current # NoEvent
  /\ current' = NoEvent
  /\ worker' = NoTask
  /\ UNCHANGED <<open, backlog, lossy, server, answer>>

Forgive ==
  /\ lossy' = FALSE
  /\ UNCHANGED <<open, backlog, server, current, worker, answer>>

Next ==
  \/ \E t \in Task : Open(t) \/ Begin(t)
  \/ \E e \in Event : Ignore(e) \/ Absorb(e) \/ Accept(e) \/ Refuse(e)
  \/ Close
  \/ End
  \/ Forgive

\* A backlog that stays open and idle is eventually served, and a service ends.
Fairness == WF_vars(\E t \in Task : Begin(t)) /\ WF_vars(End)

Spec == Init /\ [][Next]_vars

FairSpec == Spec /\ Fairness
=============================================================================
