----------------------------- MODULE EventProofs -----------------------------
(***************************************************************************)
(* Machine-checked proofs about the event runtime: MainLoopQueue, for      *)
(* every set of tasks and events, every capacity the board may declare,    *)
(* every index width that holds it, both kinds of context policy and any   *)
(* depth of nested calls; and InterruptStart, for every set of sources and *)
(* every assignment of events to them as well.                             *)
(***************************************************************************)
EXTENDS InterruptStart, FiniteSetTheorems, SequenceTheorems, TLAPS

-----------------------------------------------------------------------------
(* Index arithmetic. *)

LEMMA ModSmall ==
  ASSUME NEW n \in Nat \ {0}, NEW k \in Nat, k < n
  PROVE  k % n = k
OBVIOUS

LEMMA ModOneTurn ==
  ASSUME NEW n \in Nat \ {0}, NEW k \in Nat, n <= k, k < 2 * n
  PROVE  k % n = k - n
OBVIOUS

\* The ring slot of the k-th place counted from slot 0, without modulo: it never
\* leaves the ring and never wraps in index_type.
LEMMA RingIndex ==
  ASSUME NEW k \in 0..2 * Capacity - 1
  PROVE  (k % Capacity) % IndexModulus = IF k < Capacity THEN k ELSE k - Capacity
<1>0. /\ Capacity \in Nat \ {0}
      /\ IndexModulus \in Nat \ {0}
      /\ k \in Nat
  BY CapacityAssumption, IndexAssumption
<1>1. CASE k < Capacity
  <2>1. k % Capacity = k
    BY <1>0, <1>1, ModSmall
  <2>2. k % IndexModulus = k
    BY <1>0, <1>1, IndexAssumption, ModSmall
  <2> QED BY <1>1, <2>1, <2>2
<1>2. CASE Capacity <= k
  <2>0. k < 2 * Capacity
    BY <1>0
  <2>1. k % Capacity = k - Capacity
    BY <1>0, <1>2, <2>0, ModOneTurn
  <2>2. k - Capacity \in Nat /\ k - Capacity < IndexModulus
    BY <1>0, <1>2, <2>0, IndexAssumption
  <2>3. (k - Capacity) % IndexModulus = k - Capacity
    BY <1>0, <2>2, ModSmall
  <2> QED BY <1>0, <1>2, <2>1, <2>3
<1> QED BY <1>0, <1>1, <1>2

\* The slot of a queued record, or of the first free place.
LEMMA SlotValue ==
  ASSUME head \in 0..Capacity - 1, NEW i \in 0..Capacity
  PROVE  Slot(i) = IF head + i < Capacity THEN head + i ELSE (head + i) - Capacity
<1>1. head + i \in 0..2 * Capacity - 1
  BY CapacityAssumption
<1> QED BY <1>1, RingIndex, Zenon DEF Slot, Wrap

\* The head after a record is taken.
LEMMA AdvancedHead ==
  ASSUME head \in 0..Capacity - 1
  PROVE  NextHead = IF head + 1 < Capacity THEN head + 1 ELSE 0
<1>1. head + 1 \in 0..2 * Capacity - 1
  BY CapacityAssumption
<1>2. head + 1 < Capacity \/ head + 1 = Capacity
  BY CapacityAssumption
<1>3. NextHead = IF head + 1 < Capacity THEN head + 1 ELSE (head + 1) - Capacity
  BY <1>1, RingIndex, Zenon DEF NextHead, Wrap
<1> QED BY <1>2, <1>3, CapacityAssumption

\* A count that stays within the capacity does not wrap in index_type.
LEMMA CountFits ==
  ASSUME NEW n \in 0..Capacity
  PROVE  Wrap(n) = n
BY CapacityAssumption, IndexAssumption DEF Wrap

-----------------------------------------------------------------------------
(* Type correctness. *)

\* A frame that holds a record still has budget for it: without this, counting
\* the callback could take `left` below zero.
BudgetInUse == \A f \in Frame : phase[f] \in {"taken", "run"} => left[f] > 0

TypeInv == TypeOK /\ BudgetInUse

LEMMA TypeInit == Init => TypeInv
<1> SUFFICES ASSUME Init PROVE TypeInv
  OBVIOUS
<1>1. head \in 0..Capacity - 1 /\ count \in 0..Capacity
  BY CapacityAssumption DEF Init
<1>2. left \in [Frame -> 0..MaxBudget]
  BY BoundAssumption DEF Init
<1>3. EmptyRecord \in Record
  BY DEF EmptyRecord, Record
<1> QED BY <1>1, <1>2, <1>3 DEF Init, TypeInv, BudgetInUse, TypeOK, Answer

LEMMA TypeStep == TypeInv /\ [Next]_vars => TypeInv'
<1> SUFFICES ASSUME TypeInv, [Next]_vars PROVE TypeInv'
  OBVIOUS
<1> USE DEF TypeInv, BudgetInUse, queueVars, frameVars, ringVars
<1>a. head \in 0..Capacity - 1 /\ count \in 0..Capacity /\ 0 \in 0..Capacity - 1
      /\ 0 \in 0..Capacity
  BY CapacityAssumption DEF TypeOK
<1>b. ClearedFlags \in [ElideEvents -> BOOLEAN]
  BY DEF ClearedFlags, TypeOK
<1>1. ASSUME NEW t \in Task, Prepare(t) PROVE TypeInv'
  BY <1>1, <1>a, <1>b DEF Prepare, TypeOK, Bound
<1>2. ASSUME NEW t \in Task, Stop(t) PROVE TypeInv'
  BY <1>2, <1>a, <1>b DEF Stop, TypeOK
<1>3. ASSUME NEW t \in Task, ClearOverrun(t) PROVE TypeInv'
  BY <1>3 DEF ClearOverrun, TypeOK
<1>4. ASSUME NEW t \in Task, MainLoopTurn(t) PROVE TypeInv'
  BY <1>4, BoundAssumption DEF MainLoopTurn, Dispatch, TypeOK
<1>5. ASSUME NEW e \in Event, NotReady(e) PROVE TypeInv'
  BY <1>5 DEF NotReady, TypeOK, Answer
<1>6. ASSUME NEW e \in Event, Coalesce(e) PROVE TypeInv'
  BY <1>6 DEF Coalesce, TypeOK, Answer
<1>7. ASSUME NEW e \in Event, Overflow(e) PROVE TypeInv'
  BY <1>7 DEF Overflow, TypeOK, Answer
<1>8. ASSUME NEW e \in Event, Enqueue(e) PROVE TypeInv'
  <2>1. count + 1 \in 0..Capacity /\ count' = count + 1
    <3>1. count # Capacity /\ count' = Wrap(count + 1)
      BY <1>8 DEF Enqueue, HasRoom
    <3>2. count + 1 \in 0..Capacity
      BY <1>a, <3>1, CapacityAssumption
    <3> QED BY <3>1, <3>2, CountFits
  <2>2. RecordOf(e) \in Record
    BY DEF RecordOf, Record
  <2>3. FlagsAfterPost(e) \in [ElideEvents -> BOOLEAN]
    BY DEF FlagsAfterPost, TypeOK
  <2> QED BY <1>8, <2>1, <2>2, <2>3 DEF Enqueue, TypeOK, Answer
<1>9. ASSUME NEW f \in Frame, TakeNext(f) PROVE TypeInv'
  <2>1. head' \in 0..Capacity - 1
    BY <1>9, <1>a, AdvancedHead, CapacityAssumption DEF TakeNext
  <2>2. count' \in 0..Capacity
    <3>1. count - 1 \in 0..Capacity
      BY <1>9, <1>a, CapacityAssumption DEF TakeNext
    <3> QED BY <1>9, <3>1, CountFits DEF TakeNext
  <2>3. FlagsAfterTake(records[head]) \in [ElideEvents -> BOOLEAN]
    BY DEF FlagsAfterTake, TypeOK
  <2> QED BY <1>9, <2>1, <2>2, <2>3 DEF TakeNext, HasBudget, TypeOK
<1>10. ASSUME NEW f \in Frame, Invoke(f) PROVE TypeInv'
  BY <1>10 DEF Invoke, TypeOK
<1>11. ASSUME NEW f \in Frame, CallbackReturns(f) PROVE TypeInv'
  <2>1. left[f] \in 1..MaxBudget
    BY <1>11 DEF CallbackReturns, TypeOK
  <2>2. left' \in [Frame -> 0..MaxBudget]
    BY <1>11, <2>1, BoundAssumption DEF CallbackReturns, TypeOK
  <2>3. local' \in [Frame -> Record]
    BY <1>11 DEF CallbackReturns, TypeOK, EmptyRecord, Record
  <2>4. phase' = [phase EXCEPT ![f] = "loop"]
        /\ \A g \in Frame : g # f => left'[g] = left[g]
    BY <1>11 DEF CallbackReturns, TypeOK
  <2>5. BudgetInUse'
    BY <2>4 DEF TypeOK
  <2> QED BY <1>11, <2>2, <2>3, <2>5 DEF CallbackReturns, TypeOK
<1>12. ASSUME NEW f \in Frame, EndLoop(f) PROVE TypeInv'
  BY <1>12 DEF EndLoop, TypeOK
<1>13. ASSUME NEW f \in Frame, Leave(f) PROVE TypeInv'
  <2>1. left' \in [Frame -> 0..MaxBudget]
    BY <1>13, BoundAssumption DEF Leave, TypeOK
  <2>2. phase' = [phase EXCEPT ![f] = "off"]
        /\ \A g \in Frame : g # f => left'[g] = left[g]
    BY <1>13 DEF Leave, TypeOK
  <2>3. BudgetInUse'
    BY <2>2 DEF TypeOK
  <2> QED BY <1>13, <2>1, <2>3 DEF Leave, TypeOK
<1>14. CASE UNCHANGED vars
  BY <1>14 DEF vars, TypeOK
<1> QED
  BY <1>1, <1>2, <1>3, <1>4, <1>5, <1>6, <1>7, <1>8, <1>9, <1>10, <1>11, <1>12,
     <1>13, <1>14 DEF Next, Post, FrameStep

\* Every static of the queue keeps its type; head_ is always a slot of the ring and
\* count_ at most the capacity (queue.hpp:86-87,129,136).
THEOREM TypeCorrect == Spec => []TypeOK
<1>1. TypeInv => TypeOK
  BY DEF TypeInv
<1> QED BY <1>1, TypeInit, TypeStep, PTL DEF Spec

-----------------------------------------------------------------------------
(* Serialised callbacks. *)

\* dispatching_ is the flag of a mutual exclusion whose critical section is a
\* dispatch() call: it is set while a frame is active, and then the frame belongs
\* to the bound task.  Neither property below is inductive without this.
GuardHeld ==
  /\ dispatching <=> \E f \in Frame : Active(f)
  /\ OneDispatcher
  /\ CallbacksOnOwner

LEMMA GuardInit == Init => GuardHeld
BY DEF Init, GuardHeld, OneDispatcher, CallbacksOnOwner, Active

\* The frames keep their activity, the guard its value and the queue its owner.
LEMMA GuardKept ==
  ASSUME TypeInv, GuardHeld, dispatching' = dispatching, owner' = owner,
         \A g \in Frame : Active(g)' <=> Active(g)
  PROVE  GuardHeld'
BY DEF GuardHeld, OneDispatcher, CallbacksOnOwner

LEMMA GuardStep == TypeInv /\ GuardHeld /\ [Next]_vars => GuardHeld'
<1> SUFFICES ASSUME TypeInv, GuardHeld, [Next]_vars PROVE GuardHeld'
  OBVIOUS
<1> USE DEF queueVars, frameVars, ringVars
<1>a. phase \in [Frame -> {"off", "loop", "taken", "run", "leave"}]
  BY DEF TypeInv, TypeOK
<1>1. ASSUME NEW t \in Task, Prepare(t) PROVE GuardHeld'
  <2>1. \A g \in Frame : ~Active(g) /\ ~Active(g)'
    BY <1>1 DEF Prepare, MayPrepare, GuardHeld, Active
  <2>2. dispatching' = FALSE
    BY <1>1 DEF Prepare, MayPrepare, TypeInv, TypeOK
  <2> QED BY <2>1, <2>2 DEF GuardHeld, OneDispatcher, CallbacksOnOwner
<1>2. ASSUME NEW t \in Task, Stop(t) PROVE GuardHeld'
  BY <1>2, GuardKept DEF Stop, Active
<1>3. ASSUME NEW t \in Task, ClearOverrun(t) PROVE GuardHeld'
  BY <1>3, GuardKept DEF ClearOverrun, Active
<1>4. ASSUME NEW t \in Task, MainLoopTurn(t) PROVE GuardHeld'
  <2>1. PICK f \in Frame, budget \in 1..MaxBudget : Dispatch(f, budget)
    BY <1>4 DEF MainLoopTurn
  <2>2. \A g \in Frame : ~Active(g)
    BY <2>1 DEF Dispatch, MayDispatch, GuardHeld
  <2>3. \A g \in Frame : Active(g)' <=> g = f
    BY <1>a, <2>1, <2>2 DEF Dispatch, Active
  <2>4. dispatching' = TRUE /\ (Restricted => Caller(f) = owner')
    BY <2>1 DEF Dispatch, MayDispatch, IsOwner
  <2> QED BY <2>3, <2>4 DEF GuardHeld, OneDispatcher, CallbacksOnOwner
<1>5. ASSUME NEW e \in Event, Post(e) PROVE GuardHeld'
  BY <1>5, GuardKept DEF Post, NotReady, Coalesce, Overflow, Enqueue, Active
<1>6. ASSUME NEW f \in Frame, TakeNext(f) PROVE GuardHeld'
  <2>1. \A g \in Frame : Active(g)' <=> Active(g)
    BY <1>a, <1>6 DEF TakeNext, Active
  <2> QED BY <1>6, <2>1, GuardKept DEF TakeNext
<1>7. ASSUME NEW f \in Frame, Invoke(f) PROVE GuardHeld'
  <2>1. \A g \in Frame : Active(g)' <=> Active(g)
    BY <1>a, <1>7 DEF Invoke, Active
  <2> QED BY <1>7, <2>1, GuardKept DEF Invoke
<1>8. ASSUME NEW f \in Frame, CallbackReturns(f) PROVE GuardHeld'
  <2>1. \A g \in Frame : Active(g)' <=> Active(g)
    BY <1>a, <1>8 DEF CallbackReturns, Active
  <2> QED BY <1>8, <2>1, GuardKept DEF CallbackReturns
<1>9. ASSUME NEW f \in Frame, EndLoop(f) PROVE GuardHeld'
  <2>1. \A g \in Frame : Active(g)' <=> Active(g)
    BY <1>a, <1>9 DEF EndLoop, Active
  <2> QED BY <1>9, <2>1, GuardKept DEF EndLoop
<1>10. ASSUME NEW f \in Frame, Leave(f) PROVE GuardHeld'
  <2>1. Active(f)
    BY <1>10 DEF Leave, Active
  <2>2. \A g \in Frame : Active(g) => g = f
    BY <2>1 DEF GuardHeld, OneDispatcher
  <2>3. \A g \in Frame : ~Active(g)'
    BY <1>a, <1>10, <2>2 DEF Leave, Active
  <2>4. dispatching' = FALSE
    BY <1>10 DEF Leave
  <2> QED BY <2>3, <2>4 DEF GuardHeld, OneDispatcher, CallbacksOnOwner
<1>11. CASE UNCHANGED vars
  BY <1>11, GuardKept DEF vars, Active
<1> QED
  BY <1>1, <1>2, <1>3, <1>4, <1>5, <1>6, <1>7, <1>8, <1>9, <1>10, <1>11
  DEF Next, FrameStep

LEMMA GuardInvariant == Spec => [](TypeInv /\ GuardHeld)
<1> QED BY TypeInit, TypeStep, GuardInit, GuardStep, PTL DEF Spec

\* At most one dispatch() call is past its guard, for any number of tasks and any
\* depth of calls from callbacks back into the queue (queue.hpp:73-74,94).
THEOREM CallbacksSerialised == Spec => []OneDispatcher
<1>1. GuardHeld => OneDispatcher
  BY DEF GuardHeld
<1> QED BY <1>1, GuardInvariant, PTL

\* Under a policy with a task identity, a dispatch() call in progress belongs to the
\* task the queue is bound to (queue.hpp:40-41,73).
THEOREM CallbacksBound == Spec => []CallbacksOnOwner
<1>1. GuardHeld => CallbacksOnOwner
  BY DEF GuardHeld
<1> QED BY <1>1, GuardInvariant, PTL

\* No step reopens or rebinds the queue under a dispatch() call in progress
\* (queue.hpp:40).
THEOREM NoRebirth == Spec => NoRebirthUnderDispatch
<1> DEFINE Kept == (\E f \in Frame : Active(f)) => owner' = owner /\ (ready' => ready)
<1>1. ASSUME GuardHeld, [Next]_vars PROVE [Kept]_vars
  <2> USE DEF queueVars, frameVars, ringVars
  <2> SUFFICES ASSUME \E f \in Frame : Active(f), Next
               PROVE  owner' = owner /\ (ready' => ready)
    BY <1>1
  <2>1. dispatching
    BY <1>1 DEF GuardHeld
  <2>2. ASSUME NEW t \in Task, Prepare(t) \/ Stop(t) \/ ClearOverrun(t) \/ MainLoopTurn(t)
        PROVE  owner' = owner /\ (ready' => ready)
    <3>1. ~Prepare(t)
      BY <2>1 DEF Prepare, MayPrepare
    <3>2. ASSUME Stop(t) PROVE owner' = owner /\ ~ready'
      BY <3>2 DEF Stop
    <3>3. ASSUME ClearOverrun(t) PROVE owner' = owner /\ ready' = ready
      BY <3>3 DEF ClearOverrun
    <3>4. ASSUME MainLoopTurn(t) PROVE owner' = owner /\ ready' = ready
      BY <3>4 DEF MainLoopTurn, Dispatch
    <3> QED BY <2>2, <3>1, <3>2, <3>3, <3>4
  <2>3. ASSUME NEW e \in Event, Post(e)
        PROVE  owner' = owner /\ (ready' => ready)
    BY <2>3 DEF Post, NotReady, Coalesce, Overflow, Enqueue
  <2>4. ASSUME NEW f \in Frame, FrameStep(f)
        PROVE  owner' = owner /\ (ready' => ready)
    BY <2>4 DEF FrameStep, TakeNext, Invoke, CallbackReturns, EndLoop, Leave
  <2> QED BY <2>2, <2>3, <2>4 DEF Next
<1> QED BY <1>1, GuardInvariant, PTL DEF Spec, NoRebirthUnderDispatch

-----------------------------------------------------------------------------
(* The pending flags and the ring. *)

Argument(i) == records[Slot(i)].argument

\* What the window of queued records looks like.  HasFlag and Distinct are needed
\* to show that taking or dropping a record clears the one flag that refers to it.
QueuedWellFormed ==
  \A i \in 0..count - 1 : \E e \in Event : records[Slot(i)] = RecordOf(e)
HasRecord ==
  \A e \in ElideEvents : pending[e] => \E i \in 0..count - 1 : Argument(i) = e
HasFlag ==
  \A i \in 0..count - 1 : Argument(i) \in ElideEvents => pending[Argument(i)]
Distinct ==
  \A i, j \in 0..count - 1 :
    Argument(i) = Argument(j) /\ Argument(i) \in ElideEvents => i = j

RingInv == QueuedWellFormed /\ HasRecord /\ HasFlag /\ Distinct

LEMMA RingInit == Init => RingInv
<1> SUFFICES ASSUME Init PROVE RingInv
  OBVIOUS
<1>1. count = 0 /\ \A e \in ElideEvents : ~pending[e]
  BY DEF Init
<1>2. 0..count - 1 = {}
  BY <1>1
<1> QED BY <1>1, <1>2 DEF RingInv, QueuedWellFormed, HasRecord, HasFlag, Distinct

\* Dropping every record with clear_records() leaves no flag behind.
LEMMA RingCleared ==
  ASSUME TypeInv, RingInv, count' = 0, pending' = ClearedFlags
  PROVE  RingInv'
<1>1. ASSUME NEW e \in ElideEvents PROVE ~pending'[e]
  <2>1. CASE pending[e]
    <3>1. PICK i \in 0..count - 1 : Argument(i) = e
      BY <2>1 DEF RingInv, HasRecord
    <3>2. Slot(i) \in Queued
      BY DEF Queued
    <3> QED BY <3>1, <3>2 DEF ClearedFlags, Argument
  <2>2. CASE ~pending[e]
    BY <2>2 DEF ClearedFlags
  <2> QED BY <2>1, <2>2
<1>2. (0..count - 1)' = {}
  OBVIOUS
<1> QED BY <1>1, <1>2 DEF RingInv, QueuedWellFormed, HasRecord, HasFlag, Distinct

\* A step that leaves the ring and the flags alone.
LEMMA RingKept ==
  ASSUME RingInv, UNCHANGED <<records, head, count, pending>>
  PROVE  RingInv'
<1>1. \A i : Slot(i)' = Slot(i)
  BY DEF Slot
<1>2. \A i : Argument(i)' = Argument(i)
  BY <1>1 DEF Argument
<1> QED BY <1>1, <1>2
    DEF RingInv, QueuedWellFormed, HasRecord, HasFlag, Distinct

\* Distinct positions of the ring have distinct slots.
LEMMA SlotsDiffer ==
  ASSUME TypeInv, NEW i \in 0..Capacity - 1, NEW j \in 0..Capacity - 1, i # j
  PROVE  Slot(i) # Slot(j)
<1>1. head \in 0..Capacity - 1 /\ i \in 0..Capacity /\ j \in 0..Capacity
  BY CapacityAssumption DEF TypeInv, TypeOK
<1>2. Slot(i) = IF head + i < Capacity THEN head + i ELSE (head + i) - Capacity
  BY <1>1, SlotValue
<1>3. Slot(j) = IF head + j < Capacity THEN head + j ELSE (head + j) - Capacity
  BY <1>1, SlotValue
<1> QED BY <1>1, <1>2, <1>3, CapacityAssumption

\* A position of the ring names one of its slots.
LEMMA SlotInRing ==
  ASSUME TypeInv, NEW i \in 0..Capacity - 1
  PROVE  Slot(i) \in 0..Capacity - 1
<1>1. head \in 0..Capacity - 1 /\ i \in 0..Capacity
  BY CapacityAssumption DEF TypeInv, TypeOK
<1>2. Slot(i) = IF head + i < Capacity THEN head + i ELSE (head + i) - Capacity
  BY <1>1, SlotValue
<1> QED BY <1>1, <1>2, CapacityAssumption

\* Taking the first record renumbers the others by one.
LEMMA SlotShifted ==
  ASSUME TypeInv, head' = NextHead, NEW i \in 0..Capacity - 1
  PROVE  Slot(i)' = Slot(i + 1)
<1>1. head \in 0..Capacity - 1 /\ i + 1 \in 0..Capacity /\ Capacity \in Nat
  BY CapacityAssumption DEF TypeInv, TypeOK
<1>2. head' = IF head + 1 < Capacity THEN head + 1 ELSE 0
  BY <1>1, AdvancedHead
<1>3. head' \in 0..Capacity - 1 /\ head' + i \in 0..2 * Capacity - 1
  BY <1>1, <1>2, CapacityAssumption
<1>4. Slot(i)' = IF head' + i < Capacity THEN head' + i ELSE (head' + i) - Capacity
  BY <1>3, RingIndex, Zenon DEF Slot, Wrap
<1>5. Slot(i + 1) = IF head + (i + 1) < Capacity THEN head + (i + 1)
                    ELSE (head + (i + 1)) - Capacity
  BY <1>1, SlotValue
<1>6. head + 1 < Capacity \/ head + 1 = Capacity
  BY <1>1
<1> QED BY <1>1, <1>2, <1>4, <1>5, <1>6, CapacityAssumption

\* Enqueue fills the place behind the window.
LEMMA RingEnqueue ==
  ASSUME TypeInv, RingInv, NEW e \in Event, Enqueue(e)
  PROVE  RingInv'
<1> SUFFICES ASSUME NEW n, n = count PROVE RingInv'
  OBVIOUS
<1>1. /\ n \in 0..Capacity - 1
      /\ count' = n + 1
      /\ head' = head
      /\ pending' = FlagsAfterPost(e)
      /\ records' = [records EXCEPT ![Slot(n)] = RecordOf(e)]
      /\ ~Coalesces(e)
  <2>1. count \in 0..Capacity - 1 /\ count + 1 \in 0..Capacity
    BY CapacityAssumption DEF Enqueue, HasRoom, TypeInv, TypeOK
  <2> QED BY <2>1, CountFits DEF Enqueue
<1>2. \A i : Slot(i)' = Slot(i)
  BY <1>1 DEF Slot
<1>3. Slot(n) \in 0..Capacity - 1
  BY <1>1, SlotInRing
<1>4. \A i \in 0..n - 1 : Slot(i) # Slot(n) /\ Slot(i) \in 0..Capacity - 1
  BY <1>1, SlotsDiffer, SlotInRing, CapacityAssumption
<1>5. \A i \in 0..n - 1 : records'[Slot(i)'] = records[Slot(i)]
  BY <1>1, <1>2, <1>4 DEF TypeInv, TypeOK
<1>6. records'[Slot(n)'] = RecordOf(e)
  BY <1>1, <1>2, <1>3 DEF TypeInv, TypeOK
<1>7. \A i \in 0..n - 1 : Argument(i)' = Argument(i)
  BY <1>5 DEF Argument
<1>8. Argument(n)' = IF e \in ElideEvents THEN e ELSE NoEvent
  BY <1>6 DEF Argument, RecordOf
<1>9. \A i \in 0..count' - 1 : i \in 0..n - 1 \/ i = n
  BY <1>1
<1>10. n \in 0..count' - 1 /\ \A i \in 0..n - 1 : i \in 0..count' - 1
  BY <1>1, CapacityAssumption
<1>11. \A i \in 0..n - 1 : Argument(i) \in ElideEvents => Argument(i) # e
  BY <1>1 DEF RingInv, HasFlag, Coalesces
<1>12. NoEvent \notin ElideEvents
  BY EventAssumption DEF Event
<1>13. QueuedWellFormed'
  BY <1>5, <1>6, <1>9 DEF RingInv, QueuedWellFormed, RecordOf
<1>14. HasRecord'
  <2> SUFFICES ASSUME NEW x \in ElideEvents, pending'[x]
               PROVE  \E i \in 0..count' - 1 : Argument(i)' = x
    BY DEF HasRecord
  <2>1. pending[x] \/ x = e
    BY <1>1 DEF FlagsAfterPost
  <2>2. CASE pending[x]
    BY <1>7, <1>10, <2>2 DEF RingInv, HasRecord
  <2>3. CASE x = e
    BY <1>8, <1>10, <2>3
  <2> QED BY <2>1, <2>2, <2>3
<1>15. HasFlag'
  <2> SUFFICES ASSUME NEW i \in 0..count' - 1, Argument(i)' \in ElideEvents
               PROVE  pending'[Argument(i)']
    BY DEF HasFlag
  <2>1. CASE i \in 0..n - 1
    BY <1>1, <1>7, <2>1 DEF RingInv, HasFlag, FlagsAfterPost
  <2>2. CASE i = n
    BY <1>1, <1>8, <1>12, <2>2 DEF FlagsAfterPost
  <2> QED BY <1>9, <2>1, <2>2
<1>16. Distinct'
  BY <1>7, <1>8, <1>9, <1>11, <1>12 DEF RingInv, Distinct
<1> QED BY <1>13, <1>14, <1>15, <1>16 DEF RingInv

\* TakeNext removes the record at the head and clears the flag it refers to.
LEMMA RingTake ==
  ASSUME TypeInv, RingInv, NEW f \in Frame, TakeNext(f)
  PROVE  RingInv'
<1>1. /\ count \in 1..Capacity
      /\ count' = count - 1
      /\ head' = NextHead
      /\ records' = records
      /\ pending' = FlagsAfterTake(records[head])
  <2>1. count \in 1..Capacity /\ count - 1 \in 0..Capacity
    BY CapacityAssumption DEF TakeNext, TypeInv, TypeOK
  <2> QED BY <2>1, CountFits DEF TakeNext
<1>2. Slot(0) = head
  <2>1. head \in 0..Capacity - 1 /\ 0 \in 0..Capacity
    BY CapacityAssumption DEF TypeInv, TypeOK
  <2>2. Slot(0) = IF head + 0 < Capacity THEN head + 0 ELSE (head + 0) - Capacity
    BY <2>1, SlotValue
  <2> QED BY <2>1, <2>2, CapacityAssumption
<1>3. \A i \in 0..count' - 1 : i + 1 \in 0..count - 1 /\ Slot(i)' = Slot(i + 1)
  <2> TAKE i \in 0..count' - 1
  <2>1. i \in 0..Capacity - 1 /\ i + 1 \in 0..count - 1
    BY <1>1, CapacityAssumption
  <2> QED BY <1>1, <2>1, SlotShifted
<1>4. \A i \in 0..count' - 1 : Argument(i)' = Argument(i + 1)
  BY <1>1, <1>3 DEF Argument
<1>5. 0 \in 0..count - 1 /\ Argument(0) = records[head].argument
  BY <1>1, <1>2, CapacityAssumption DEF Argument
<1>6. \A e \in ElideEvents : pending'[e] <=> pending[e] /\ Argument(0) # e
  BY <1>1, <1>5 DEF FlagsAfterTake
<1>7. QueuedWellFormed'
  BY <1>1, <1>3 DEF RingInv, QueuedWellFormed, RecordOf
<1>8. HasRecord'
  <2> SUFFICES ASSUME NEW e \in ElideEvents, pending'[e]
               PROVE  \E i \in 0..count' - 1 : Argument(i)' = e
    BY DEF HasRecord
  <2>1. PICK i \in 0..count - 1 : Argument(i) = e
    BY <1>6 DEF RingInv, HasRecord
  <2>2. i # 0
    BY <1>6, <2>1
  <2>3. i - 1 \in 0..count' - 1 /\ (i - 1) + 1 = i
    BY <1>1, <2>2, CapacityAssumption
  <2>4. Argument(i - 1)' = e
    BY <1>4, <2>1, <2>3
  <2> QED BY <2>3, <2>4
<1>9. HasFlag'
  <2> SUFFICES ASSUME NEW i \in 0..count' - 1, Argument(i)' \in ElideEvents
               PROVE  pending'[Argument(i)']
    BY DEF HasFlag
  <2>1. Argument(i)' = Argument(i + 1) /\ i + 1 \in 0..count - 1 /\ i + 1 # 0
    BY <1>3, <1>4
  <2>2. pending[Argument(i + 1)]
    BY <2>1 DEF RingInv, HasFlag
  <2>3. Argument(0) # Argument(i + 1)
    BY <1>5, <2>1 DEF RingInv, Distinct
  <2> QED BY <1>6, <2>1, <2>2, <2>3
<1>10. Distinct'
  <2> SUFFICES ASSUME NEW i \in 0..count' - 1, NEW j \in 0..count' - 1,
                      Argument(i)' = Argument(j)', Argument(i)' \in ElideEvents
               PROVE  i = j
    BY DEF Distinct
  <2>1. i + 1 = j + 1
    BY <1>3, <1>4 DEF RingInv, Distinct
  <2> QED BY <2>1, <1>1
<1> QED BY <1>7, <1>8, <1>9, <1>10 DEF RingInv

LEMMA RingStep == TypeInv /\ RingInv /\ [Next]_vars => RingInv'
<1> SUFFICES ASSUME TypeInv, RingInv, [Next]_vars PROVE RingInv'
  OBVIOUS
<1> USE DEF queueVars, ringVars
<1>1. ASSUME NEW t \in Task, Prepare(t) PROVE RingInv'
  BY <1>1, RingCleared DEF Prepare
<1>2. ASSUME NEW t \in Task, Stop(t) PROVE RingInv'
  BY <1>2, RingCleared DEF Stop
<1>3. ASSUME NEW t \in Task, ClearOverrun(t) \/ MainLoopTurn(t) PROVE RingInv'
  BY <1>3, RingKept DEF ClearOverrun, MainLoopTurn, Dispatch
<1>4. ASSUME NEW e \in Event, Post(e) PROVE RingInv'
  <2>1. CASE Enqueue(e)
    BY <2>1, RingEnqueue
  <2>2. CASE NotReady(e) \/ Coalesce(e) \/ Overflow(e)
    BY <2>2, RingKept DEF NotReady, Coalesce, Overflow
  <2> QED BY <1>4, <2>1, <2>2 DEF Post
<1>5. ASSUME NEW f \in Frame, FrameStep(f) PROVE RingInv'
  <2>1. CASE TakeNext(f)
    BY <2>1, RingTake
  <2>2. CASE Invoke(f) \/ CallbackReturns(f) \/ EndLoop(f) \/ Leave(f)
    BY <2>2, RingKept DEF Invoke, CallbackReturns, EndLoop, Leave
  <2> QED BY <1>5, <2>1, <2>2 DEF FrameStep
<1>6. CASE UNCHANGED vars
  BY <1>6, RingKept DEF vars
<1> QED BY <1>1, <1>2, <1>3, <1>4, <1>5, <1>6 DEF Next

\* A pending flag is set exactly while one queued record refers to it, through any
\* order of posts, takes, stops and restarts (queue.hpp:83-85,123,132,146-148).
THEOREM PendingExact == Spec => []PendingTracksQueue
<1>1. TypeInv /\ RingInv => PendingTracksQueue
  <2> SUFFICES ASSUME TypeInv, RingInv, NEW e \in ElideEvents
               PROVE  Cardinality({i \in 0..count - 1 : Argument(i) = e})
                        = IF pending[e] THEN 1 ELSE 0
    BY DEF PendingTracksQueue, Argument
  <2>1. CASE pending[e]
    <3>1. PICK i \in 0..count - 1 : Argument(i) = e
      BY <2>1 DEF RingInv, HasRecord
    <3>2. {j \in 0..count - 1 : Argument(j) = e} = {i}
      BY <3>1 DEF RingInv, Distinct
    <3> QED BY <2>1, <3>2, FS_Singleton
  <2>2. CASE ~pending[e]
    <3>1. {j \in 0..count - 1 : Argument(j) = e} = {}
      BY <2>2 DEF RingInv, HasFlag
    <3> QED BY <2>2, <3>1, FS_EmptySet
  <2> QED BY <2>1, <2>2
<1> QED BY <1>1, TypeInit, TypeStep, RingInit, RingStep, PTL DEF Spec

-----------------------------------------------------------------------------
(* MainLoopQueue implements EventService.                                  *)
(*                                                                         *)
(* The map sends the window of queued records to the backlog, overrun_ to  *)
(* `lossy`, the bound task to `server`, and the frame that holds a record  *)
(* copied out of the ring to `current` and `worker`.  Starting a callback, *)
(* entering dispatch() and leaving it are stutters of the service.         *)

-----------------------------------------------------------------------------
(* The mapped state, named. *)

Firing(i) == records[Slot(i)].invoke
Backlog == [i \in 1..count |-> Firing(i - 1)]
Serving == \E f \in Frame : Worker(f)
Server == CHOOSE f \in Frame : Worker(f)
Current == IF Serving THEN local[Server].invoke ELSE NoEvent
ServedBy == IF Serving THEN Caller(Server) ELSE NoTask

\* The record a frame copied out of the ring names an event: otherwise a callback in
\* progress could look like no service at all.
ServesEvent ==
  \A f \in Frame : Worker(f) => \E e \in Event : local[f] = RecordOf(e)

MapInv == TypeInv /\ GuardHeld /\ RingInv /\ ServesEvent

-----------------------------------------------------------------------------
(* The record at the head. *)

LEMMA HeadIsFirst ==
  ASSUME TypeInv
  PROVE  Slot(0) = head
<1>1. head \in 0..Capacity - 1 /\ 0 \in 0..Capacity
  BY CapacityAssumption DEF TypeInv, TypeOK
<1>2. Slot(0) = IF head + 0 < Capacity THEN head + 0 ELSE (head + 0) - Capacity
  BY <1>1, SlotValue
<1> QED BY <1>1, <1>2, CapacityAssumption

LEMMA TakenIsRecord ==
  ASSUME TypeInv, RingInv, NEW f \in Frame, TakeNext(f)
  PROVE  \E e \in Event : records[head] = RecordOf(e)
<1>1. 0 \in 0..count - 1
  BY CapacityAssumption DEF TakeNext, TypeInv, TypeOK
<1> QED BY <1>1, HeadIsFirst DEF RingInv, QueuedWellFormed

-----------------------------------------------------------------------------
(* Frames. *)

\* A step that touches no frame's record and starts or ends no service.
LEMMA ServesKept ==
  ASSUME ServesEvent,
         \A g \in Frame : Worker(g)' => Worker(g) /\ local'[g] = local[g]
  PROVE  ServesEvent'
BY DEF ServesEvent, RecordOf

LEMMA ServesStep == TypeInv /\ RingInv /\ ServesEvent /\ [Next]_vars => ServesEvent'
<1> SUFFICES ASSUME TypeInv, RingInv, ServesEvent, [Next]_vars PROVE ServesEvent'
  OBVIOUS
<1> USE DEF queueVars, frameVars, ringVars
<1>a. /\ phase \in [Frame -> {"off", "loop", "taken", "run", "leave"}]
      /\ local \in [Frame -> Record]
  BY DEF TypeInv, TypeOK
<1>1. ASSUME NEW t \in Task, Prepare(t) \/ Stop(t) \/ ClearOverrun(t)
      PROVE  ServesEvent'
  BY <1>1, ServesKept DEF Prepare, Stop, ClearOverrun, Worker
<1>2. ASSUME NEW t \in Task, MainLoopTurn(t) PROVE ServesEvent'
  BY <1>a, <1>2, ServesKept DEF MainLoopTurn, Dispatch, Worker
<1>3. ASSUME NEW e \in Event, Post(e) PROVE ServesEvent'
  BY <1>3, ServesKept DEF Post, NotReady, Coalesce, Overflow, Enqueue, Worker
<1>4. ASSUME NEW f \in Frame, TakeNext(f) PROVE ServesEvent'
  <2>1. PICK e \in Event : records[head] = RecordOf(e)
    BY <1>4, TakenIsRecord
  <2>2. local'[f] = RecordOf(e)
    BY <1>a, <1>4, <2>1 DEF TakeNext
  <2>3. \A g \in Frame : g # f => (Worker(g)' <=> Worker(g)) /\ local'[g] = local[g]
    BY <1>a, <1>4 DEF TakeNext, Worker
  <2> QED BY <2>2, <2>3 DEF ServesEvent, RecordOf
<1>5. ASSUME NEW f \in Frame, Invoke(f) PROVE ServesEvent'
  BY <1>a, <1>5, ServesKept DEF Invoke, Worker
<1>6. ASSUME NEW f \in Frame, CallbackReturns(f) PROVE ServesEvent'
  BY <1>a, <1>6, ServesKept DEF CallbackReturns, Worker
<1>7. ASSUME NEW f \in Frame, EndLoop(f) \/ Leave(f) PROVE ServesEvent'
  BY <1>a, <1>7, ServesKept DEF EndLoop, Leave, Worker
<1>8. CASE UNCHANGED vars
  BY <1>8, ServesKept DEF vars, Worker
<1> QED BY <1>1, <1>2, <1>3, <1>4, <1>5, <1>6, <1>7, <1>8 DEF Next, FrameStep

LEMMA MapInvariant == Spec => []MapInv
<1>1. Init => ServesEvent
  BY DEF Init, ServesEvent, Worker
<1> QED BY <1>1, ServesStep, TypeInit, TypeStep, GuardInit, GuardStep, RingInit,
           RingStep, PTL DEF Spec, MapInv

\* At most one frame serves, so the CHOOSE of the map has one possible outcome.
LEMMA TheServer ==
  GuardHeld => \A f \in Frame : Worker(f) =>
    Current = local[f].invoke /\ ServedBy = Caller(f)
<1> SUFFICES ASSUME GuardHeld, NEW f \in Frame, Worker(f)
             PROVE  Current = local[f].invoke /\ ServedBy = Caller(f)
  OBVIOUS
<1>1. \A g \in Frame : Worker(g) => g = f
  BY DEF GuardHeld, OneDispatcher, Active, Worker
<1>2. Server = f
  BY <1>1 DEF Server
<1>3. Serving
  BY DEF Serving
<1> QED BY <1>2, <1>3 DEF Current, ServedBy

LEMMA TheServerNext ==
  GuardHeld' => \A f \in Frame : Worker(f)' =>
    Current' = local'[f].invoke /\ ServedBy' = Caller(f)
<1>1. GuardHeld' => (\A f \in Frame : Worker(f) =>
                       Current = local[f].invoke /\ ServedBy = Caller(f))'
  BY TheServer, PTL
<1> QED BY <1>1 DEF Caller

LEMMA NoServer ==
  ASSUME \A f \in Frame : ~Worker(f)
  PROVE  Current = NoEvent /\ ServedBy = NoTask
BY DEF Current, ServedBy, Serving

LEMMA NoServerNext ==
  ASSUME \A f \in Frame : ~Worker(f)'
  PROVE  Current' = NoEvent /\ ServedBy' = NoTask
BY DEF Current, ServedBy, Serving

\* A step that starts or ends no service.
LEMMA ServiceKept ==
  ASSUME GuardHeld, GuardHeld',
         \A g \in Frame : Worker(g)' <=> Worker(g),
         \A g \in Frame : Worker(g) => local'[g] = local[g]
  PROVE  Current' = Current /\ ServedBy' = ServedBy
<1>1. CASE \E f \in Frame : Worker(f)
  <2>1. PICK f \in Frame : Worker(f)
    BY <1>1
  <2> QED BY <2>1, TheServer, TheServerNext
<1>2. CASE \A f \in Frame : ~Worker(f)
  BY <1>2, NoServer, NoServerNext
<1> QED BY <1>1, <1>2

\* No service is in progress while no dispatch() call is.
LEMMA IdleServesNobody ==
  ASSUME GuardHeld, ~dispatching
  PROVE  \A f \in Frame : ~Worker(f)
BY DEF GuardHeld, Active, Worker

-----------------------------------------------------------------------------
(* The backlog. *)

LEMMA BacklogIsSeq ==
  TypeInv /\ RingInv =>
    /\ Backlog \in Seq(Event)
    /\ Len(Backlog) = count
    /\ \A i \in 1..count : Backlog[i] = Firing(i - 1)
<1> SUFFICES ASSUME TypeInv, RingInv
             PROVE  /\ Backlog \in Seq(Event)
                    /\ Len(Backlog) = count
                    /\ \A i \in 1..count : Backlog[i] = Firing(i - 1)
  OBVIOUS
<1>1. count \in Nat
  BY CapacityAssumption DEF TypeInv, TypeOK
<1>2. \A i \in 1..count : Firing(i - 1) \in Event
  <2> TAKE i \in 1..count
  <2>1. i - 1 \in 0..count - 1
    BY <1>1
  <2>2. PICK e \in Event : records[Slot(i - 1)] = RecordOf(e)
    BY <2>1 DEF RingInv, QueuedWellFormed
  <2> QED BY <2>2 DEF Firing, RecordOf
<1>3. Backlog \in [1..count -> Event]
  BY <1>2 DEF Backlog
<1>4. Backlog \in Seq(Event)
  BY <1>1, <1>3, SeqDef
<1>5. Len(Backlog) = count
  BY <1>1, <1>3, <1>4, LenProperties
<1> QED BY <1>4, <1>5 DEF Backlog

LEMMA BacklogIsSeqNext ==
  TypeInv' /\ RingInv' =>
    /\ Backlog' \in Seq(Event)
    /\ Len(Backlog') = count'
    /\ \A i \in 1..count' : Backlog'[i] = Firing(i - 1)'
<1>1. (TypeInv /\ RingInv)' =>
        (/\ Backlog \in Seq(Event)
         /\ Len(Backlog) = count
         /\ \A i \in 1..count : Backlog[i] = Firing(i - 1))'
  BY BacklogIsSeq, PTL
<1> QED BY <1>1 DEF Event

LEMMA BacklogKept ==
  ASSUME UNCHANGED ringVars
  PROVE  Backlog' = Backlog
BY DEF ringVars, Backlog, Firing, Slot

LEMMA BacklogDropped ==
  ASSUME count' = 0
  PROVE  Backlog' = <<>>
BY DEF Backlog

\* An Elide event is pending exactly while it is in the backlog.
LEMMA PendingIsInBacklog ==
  ASSUME TypeInv, RingInv, NEW e \in ElideEvents
  PROVE  pending[e] <=> \E i \in 1..Len(Backlog) : Backlog[i] = e
<1>0. e # NoEvent /\ count \in Nat
  BY CapacityAssumption, EventAssumption DEF Event, TypeInv, TypeOK
<1>1. ASSUME NEW i \in 0..count - 1
      PROVE  Argument(i) = e <=> Firing(i) = e
  <2>1. PICK x \in Event : records[Slot(i)] = RecordOf(x)
    BY DEF RingInv, QueuedWellFormed
  <2>2. Firing(i) = x /\ Argument(i) = IF x \in ElideEvents THEN x ELSE NoEvent
    BY <2>1 DEF RecordOf, Argument, Firing
  <2> QED BY <1>0, <2>2
<1>2. pending[e] <=> \E i \in 0..count - 1 : Argument(i) = e
  BY DEF RingInv, HasRecord, HasFlag
<1>3. (\E i \in 0..count - 1 : Firing(i) = e)
        <=> \E i \in 1..count : Firing(i - 1) = e
  <2>1. ASSUME NEW i \in 0..count - 1, Firing(i) = e
        PROVE  \E j \in 1..count : Firing(j - 1) = e
    <3>1. i + 1 \in 1..count /\ (i + 1) - 1 = i
      BY <1>0
    <3> QED BY <2>1, <3>1
  <2>2. \A j \in 1..count : j - 1 \in 0..count - 1
    BY <1>0
  <2> QED BY <2>1, <2>2
<1> QED BY <1>1, <1>2, <1>3, BacklogIsSeq

-----------------------------------------------------------------------------
(* One step of the queue is one step of the service, or a stutter. *)

\* prepare() reopens the service: its guard leaves no callback of the last life.
LEMMA PrepareOpens ==
  ASSUME MapInv, MapInv', NEW t \in Task, Prepare(t)
  PROVE  Service!Open(t)
<1>1. \A g \in Frame : ~Worker(g) /\ ~Worker(g)'
  BY IdleServesNobody DEF Prepare, MayPrepare, frameVars, Worker, MapInv
<1>2. Current = NoEvent /\ Current' = NoEvent /\ ServedBy = NoTask /\ ServedBy' = NoTask
  BY <1>1, NoServer, NoServerNext
<1>3. Backlog' = <<>>
  BY BacklogDropped DEF Prepare
<1> QED BY <1>2, <1>3
    DEF Prepare, MayPrepare, Bound, Service!Open, Backlog, Firing, Current, ServedBy,
        Serving, Server

LEMMA StopCloses ==
  ASSUME MapInv, MapInv', NEW t \in Task, Stop(t)
  PROVE  Service!Close
<1>1. Current' = Current /\ ServedBy' = ServedBy
  BY ServiceKept DEF Stop, frameVars, Worker, MapInv
<1>2. Backlog' = <<>>
  BY BacklogDropped DEF Stop
<1> QED BY <1>1, <1>2
    DEF Stop, Service!Close, Backlog, Firing, Current, ServedBy, Serving, Server

LEMMA ClearForgives ==
  ASSUME MapInv, MapInv', NEW t \in Task, ClearOverrun(t)
  PROVE  Service!Forgive
<1>1. Current' = Current /\ ServedBy' = ServedBy
  BY ServiceKept DEF ClearOverrun, frameVars, Worker, MapInv
<1>2. Backlog' = Backlog
  BY BacklogKept DEF ClearOverrun
<1> QED BY <1>1, <1>2
    DEF ClearOverrun, Service!Forgive, Backlog, Firing, Current, ServedBy, Serving,
        Server

\* Absorption is decided by the pending flag, not by looking at the ring.
LEMMA CoalescesAbsorbs ==
  ASSUME MapInv, NEW e \in Event
  PROVE  Coalesces(e) <=> Service!Absorbed(e)
BY PendingIsInBacklog
DEF MapInv, Coalesces, Service!Absorbed, Service!Contains, Backlog, Firing

LEMMA PostPublishes ==
  ASSUME MapInv, MapInv', NEW e \in Event, NotReady(e) \/ Coalesce(e) \/ Overflow(e)
  PROVE  Service!Ignore(e) \/ Service!Absorb(e) \/ Service!Refuse(e)
<1>1. Current' = Current /\ ServedBy' = ServedBy
  BY ServiceKept DEF NotReady, Coalesce, Overflow, frameVars, Worker, MapInv
<1>2. Backlog' = Backlog
  BY BacklogKept DEF NotReady, Coalesce, Overflow
<1>3. Len(Backlog) = count
  BY BacklogIsSeq DEF MapInv
<1>4. Coalesces(e) <=> Service!Absorbed(e)
  BY CoalescesAbsorbs
<1>5. CASE NotReady(e)
  BY <1>1, <1>2, <1>5
  DEF NotReady, Service!Ignore, Backlog, Firing, Current, ServedBy, Serving, Server
<1>6. CASE Coalesce(e)
  BY <1>1, <1>2, <1>4, <1>6
  DEF Coalesce, Service!Absorb, Backlog, Firing, Current, ServedBy, Serving, Server
<1>7. CASE Overflow(e)
  BY <1>1, <1>2, <1>3, <1>4, <1>7
  DEF Overflow, HasRoom, Service!Refuse, Backlog, Firing, Current, ServedBy, Serving,
      Server
<1> QED BY <1>5, <1>6, <1>7

\* The record lands in the slot behind the window, which no queued record uses.
LEMMA EnqueueAppends ==
  ASSUME MapInv, MapInv', NEW e \in Event, Enqueue(e)
  PROVE  Backlog' = Append(Backlog, e)
<1> SUFFICES ASSUME NEW n, n = count PROVE Backlog' = Append(Backlog, e)
  OBVIOUS
<1>1. /\ n \in 0..Capacity - 1
      /\ count' = n + 1
      /\ head' = head
      /\ records' = [records EXCEPT ![Slot(n)] = RecordOf(e)]
  <2>1. count \in 0..Capacity - 1 /\ count + 1 \in 0..Capacity
    BY CapacityAssumption DEF Enqueue, HasRoom, MapInv, TypeInv, TypeOK
  <2> QED BY <2>1, CountFits DEF Enqueue
<1>2. \A i : Firing(i)' = records'[Slot(i)].invoke
  BY <1>1 DEF Slot, Firing
<1>3. /\ Backlog \in Seq(Event) /\ Len(Backlog) = n
      /\ \A i \in 1..n : Backlog[i] = Firing(i - 1)
  BY BacklogIsSeq DEF MapInv
<1>4. /\ Backlog' \in Seq(Event) /\ Len(Backlog') = n + 1
      /\ \A i \in 1..n + 1 : Backlog'[i] = Firing(i - 1)'
  BY <1>1, BacklogIsSeqNext DEF MapInv
<1>5. Firing(n)' = e
  <2>1. records'[Slot(n)] = RecordOf(e)
    BY <1>1, SlotInRing DEF MapInv, TypeInv, TypeOK
  <2> QED BY <1>2, <2>1 DEF RecordOf
<1>6. \A i \in 1..n : Firing(i - 1)' = Firing(i - 1)
  <2> TAKE i \in 1..n
  <2>1. i - 1 \in 0..Capacity - 1 /\ i - 1 # n
    BY <1>1, CapacityAssumption
  <2>2. Slot(i - 1) # Slot(n) /\ Slot(i - 1) \in 0..Capacity - 1
    BY <1>1, <2>1, SlotsDiffer, SlotInRing DEF MapInv
  <2>3. records'[Slot(i - 1)] = records[Slot(i - 1)]
    BY <1>1, <2>2 DEF MapInv, TypeInv, TypeOK
  <2> QED BY <1>2, <2>3 DEF Firing
<1>7. /\ Append(Backlog, e) \in Seq(Event)
      /\ Len(Append(Backlog, e)) = n + 1
      /\ \A i \in 1..n : Append(Backlog, e)[i] = Backlog[i]
      /\ Append(Backlog, e)[n + 1] = e
  BY <1>3, AppendProperties
<1>8. \A i \in 1..n + 1 : Backlog'[i] = Append(Backlog, e)[i]
  <2>1. ASSUME NEW i \in 1..n
        PROVE  Backlog'[i] = Append(Backlog, e)[i]
    BY <1>1, <1>3, <1>4, <1>6, <1>7
  <2>2. Backlog'[n + 1] = Append(Backlog, e)[n + 1]
    <3>1. n + 1 \in 1..n + 1 /\ (n + 1) - 1 = n
      BY <1>1, CapacityAssumption
    <3> QED BY <1>4, <1>5, <1>7, <3>1
  <2>3. \A i \in 1..n + 1 : i \in 1..n \/ i = n + 1
    BY <1>1, CapacityAssumption
  <2> QED BY <2>1, <2>2, <2>3
<1> QED BY <1>4, <1>7, <1>8, SeqEqual

LEMMA EnqueueAccepts ==
  ASSUME MapInv, MapInv', NEW e \in Event, Enqueue(e)
  PROVE  Service!Accept(e)
<1>1. Current' = Current /\ ServedBy' = ServedBy
  BY ServiceKept DEF Enqueue, frameVars, Worker, MapInv
<1>2. Backlog' = Append(Backlog, e)
  BY EnqueueAppends
<1>3. Len(Backlog) < Capacity
  <2>1. Len(Backlog) = count /\ count \in 0..Capacity /\ count # Capacity
    BY BacklogIsSeq DEF Enqueue, HasRoom, MapInv, TypeInv, TypeOK
  <2> QED BY <2>1, CapacityAssumption
<1>4. Coalesces(e) <=> Service!Absorbed(e)
  BY CoalescesAbsorbs
<1> QED BY <1>1, <1>2, <1>3, <1>4
    DEF Enqueue, Service!Accept, Backlog, Firing, Current, ServedBy, Serving, Server

\* The record at the head is the oldest firing, and the others keep their order.
LEMMA TakeRemovesHead ==
  ASSUME MapInv, MapInv', NEW f \in Frame, TakeNext(f)
  PROVE  Backlog # <<>> /\ Backlog' = Tail(Backlog)
         /\ records[head].invoke = Head(Backlog)
<1> SUFFICES ASSUME NEW n, n = count
             PROVE  Backlog # <<>> /\ Backlog' = Tail(Backlog)
                    /\ records[head].invoke = Head(Backlog)
  OBVIOUS
<1>1. /\ n \in 1..Capacity
      /\ count' = n - 1
      /\ head' = NextHead
      /\ records' = records
  <2>1. count \in 1..Capacity /\ count - 1 \in 0..Capacity
    BY CapacityAssumption DEF TakeNext, MapInv, TypeInv, TypeOK
  <2> QED BY <2>1, CountFits DEF TakeNext
<1>2. /\ Backlog \in Seq(Event) /\ Len(Backlog) = n
      /\ \A i \in 1..n : Backlog[i] = Firing(i - 1)
  BY BacklogIsSeq DEF MapInv
<1>3. /\ Backlog' \in Seq(Event) /\ Len(Backlog') = n - 1
      /\ \A i \in 1..n - 1 : Backlog'[i] = Firing(i - 1)'
  BY <1>1, BacklogIsSeqNext DEF MapInv
<1>4. Backlog # <<>>
  BY <1>1, <1>2, EmptySeq
<1>5. /\ Tail(Backlog) \in Seq(Event)
      /\ Len(Tail(Backlog)) = n - 1
      /\ \A i \in 1..n - 1 : Tail(Backlog)[i] = Backlog[i + 1]
  BY <1>2, <1>4, HeadTailProperties
<1>6. \A i \in 1..n - 1 : Backlog'[i] = Tail(Backlog)[i]
  <2> TAKE i \in 1..n - 1
  <2>1. i - 1 \in 0..Capacity - 1 /\ (i - 1) + 1 = i /\ (i + 1) - 1 = i /\ i + 1 \in 1..n
    BY <1>1, CapacityAssumption
  <2>2. Slot(i - 1)' = Slot((i - 1) + 1)
    BY <1>1, <2>1, SlotShifted DEF MapInv
  <2>3. Firing(i - 1)' = Firing(i)
    BY <1>1, <2>1, <2>2 DEF Firing
  <2>4. Backlog[i + 1] = Firing(i)
    BY <1>2, <2>1
  <2> QED BY <1>3, <1>5, <2>3, <2>4
<1>7. Backlog' = Tail(Backlog)
  BY <1>3, <1>5, <1>6, SeqEqual
<1>8. records[head].invoke = Head(Backlog)
  <2>1. Backlog[1] = Firing(0)
    <3>1. 1 \in 1..n /\ 1 - 1 = 0
      BY <1>1, CapacityAssumption
    <3> QED BY <1>2, <3>1
  <2>2. Firing(0) = records[head].invoke
    BY HeadIsFirst DEF Firing, MapInv
  <2> QED BY <2>1, <2>2
<1> QED BY <1>4, <1>7, <1>8

\* Copying the head out under the lock is the moment its service begins.
LEMMA TakeBegins ==
  ASSUME MapInv, MapInv', NEW f \in Frame, TakeNext(f)
  PROVE  Service!Begin(Caller(f))
<1>a. /\ phase \in [Frame -> {"off", "loop", "taken", "run", "leave"}]
      /\ local \in [Frame -> Record]
  BY DEF MapInv, TypeInv, TypeOK
<1>1. \A g \in Frame : ~Worker(g)
  BY DEF TakeNext, MapInv, GuardHeld, OneDispatcher, Active, Worker
<1>2. Worker(f)' /\ local'[f] = records[head]
  BY <1>a DEF TakeNext, Worker
<1>3. Current = NoEvent
  BY <1>1, NoServer
<1>4. Current' = local'[f].invoke /\ ServedBy' = Caller(f)
  BY <1>2, TheServerNext DEF MapInv
<1>5. Restricted => Caller(f) = owner
  BY DEF TakeNext, MapInv, GuardHeld, CallbacksOnOwner, Active
<1>6. Backlog # <<>> /\ Backlog' = Tail(Backlog) /\ Current' = Head(Backlog)
  BY <1>2, <1>4, TakeRemovesHead
<1>7. ready /\ UNCHANGED <<ready, overrun, owner, answer>>
  BY DEF TakeNext
<1> QED BY <1>3, <1>4, <1>5, <1>6, <1>7
    DEF Service!Begin, Backlog, Firing, Current, ServedBy, Serving, Server

LEMMA ReturnEnds ==
  ASSUME MapInv, MapInv', NEW f \in Frame, CallbackReturns(f)
  PROVE  Service!End
<1>a. phase \in [Frame -> {"off", "loop", "taken", "run", "leave"}]
  BY DEF MapInv, TypeInv, TypeOK
<1>1. Worker(f) /\ \A g \in Frame : Worker(g) => g = f
  BY DEF CallbackReturns, MapInv, GuardHeld, OneDispatcher, Active, Worker
<1>2. Current # NoEvent
  <2>1. PICK e \in Event : local[f] = RecordOf(e)
    BY <1>1 DEF MapInv, ServesEvent
  <2>2. Current = e
    BY <1>1, <2>1, TheServer DEF MapInv, RecordOf
  <2> QED BY <2>2, EventAssumption
<1>3. \A g \in Frame : ~Worker(g)'
  BY <1>a, <1>1 DEF CallbackReturns, Worker
<1>4. Current' = NoEvent /\ ServedBy' = NoTask
  BY <1>3, NoServerNext
<1>5. Backlog' = Backlog
  BY BacklogKept DEF CallbackReturns, queueVars, ringVars
<1> QED BY <1>2, <1>4, <1>5
    DEF CallbackReturns, queueVars, Service!End, Backlog, Firing, Current, ServedBy,
        Serving, Server

\* Entering dispatch(), starting the callback and leaving are not seen outside.
LEMMA SilentStep ==
  ASSUME MapInv, MapInv', NEW f \in Frame,
         \/ Invoke(f) \/ EndLoop(f) \/ Leave(f)
         \/ \E budget \in 1..MaxBudget : Dispatch(f, budget)
  PROVE  UNCHANGED Service!vars
<1>a. phase \in [Frame -> {"off", "loop", "taken", "run", "leave"}]
  BY DEF MapInv, TypeInv, TypeOK
<1>1. \A g \in Frame : Worker(g)' <=> Worker(g)
  <2>1. ASSUME Invoke(f) PROVE \A g \in Frame : Worker(g)' <=> Worker(g)
    BY <1>a, <2>1 DEF Invoke, Worker
  <2>2. ASSUME EndLoop(f) \/ Leave(f) PROVE \A g \in Frame : Worker(g)' <=> Worker(g)
    BY <1>a, <2>2 DEF EndLoop, Leave, Worker
  <2>3. ASSUME NEW budget \in 1..MaxBudget, Dispatch(f, budget)
        PROVE  \A g \in Frame : Worker(g)' <=> Worker(g)
    <3>1. \A g \in Frame : ~Worker(g)
      BY <2>3, IdleServesNobody DEF Dispatch, MayDispatch, MapInv
    <3> QED BY <1>a, <2>3, <3>1 DEF Dispatch, Worker
  <2> QED BY <2>1, <2>2, <2>3
<1>2. local' = local /\ UNCHANGED queueVars
  BY DEF Invoke, EndLoop, Leave, Dispatch
<1>3. Current' = Current /\ ServedBy' = ServedBy
  BY <1>1, <1>2, ServiceKept DEF MapInv
<1>4. Backlog' = Backlog
  BY <1>2, BacklogKept DEF queueVars, ringVars
<1> QED BY <1>2, <1>3, <1>4
    DEF queueVars, Service!vars, Backlog, Firing, Current, ServedBy, Serving, Server

LEMMA StutterStep ==
  ASSUME MapInv, MapInv', UNCHANGED vars
  PROVE  UNCHANGED Service!vars
<1>1. Current' = Current /\ ServedBy' = ServedBy
  BY ServiceKept DEF vars, Worker, MapInv
<1>2. Backlog' = Backlog
  BY BacklogKept DEF vars, ringVars
<1> QED BY <1>1, <1>2
    DEF vars, Service!vars, Backlog, Firing, Current, ServedBy, Serving, Server

LEMMA QueueInitIsServiceInit == Init => Service!Init
<1> SUFFICES ASSUME Init PROVE Service!Init
  OBVIOUS
<1>1. Current = NoEvent /\ ServedBy = NoTask
  BY NoServer DEF Init, Worker
<1>2. Backlog = <<>>
  BY DEF Init, Backlog
<1> QED BY <1>1, <1>2
    DEF Init, Service!Init, Backlog, Firing, Current, ServedBy, Serving, Server

LEMMA QueueStepIsServiceStep ==
  MapInv /\ MapInv' /\ [Next]_vars => [Service!Next]_(Service!vars)
<1> SUFFICES ASSUME MapInv, MapInv', [Next]_vars
             PROVE  Service!Next \/ UNCHANGED Service!vars
  OBVIOUS
<1>1. ASSUME NEW t \in Task, Prepare(t) \/ Stop(t) \/ ClearOverrun(t)
      PROVE  Service!Next
  BY <1>1, PrepareOpens, StopCloses, ClearForgives DEF Service!Next
<1>2. ASSUME NEW t \in Task, MainLoopTurn(t) PROVE UNCHANGED Service!vars
  BY <1>2, SilentStep DEF MainLoopTurn
<1>3. ASSUME NEW e \in Event, Post(e) PROVE Service!Next
  BY <1>3, PostPublishes, EnqueueAccepts DEF Post, Service!Next, Service!Event, Event
<1>4. ASSUME NEW f \in Frame, TakeNext(f) PROVE Service!Next
  <2>1. Caller(f) \in Task
    BY DEF Caller, Frame
  <2> QED BY <1>4, <2>1, TakeBegins DEF Service!Next
<1>5. ASSUME NEW f \in Frame, CallbackReturns(f) PROVE Service!Next
  BY <1>5, ReturnEnds DEF Service!Next
<1>6. ASSUME NEW f \in Frame, Invoke(f) \/ EndLoop(f) \/ Leave(f)
      PROVE  UNCHANGED Service!vars
  BY <1>6, SilentStep
<1>7. CASE UNCHANGED vars
  BY <1>7, StutterStep
<1> QED BY <1>1, <1>2, <1>3, <1>4, <1>5, <1>6, <1>7 DEF Next, FrameStep

\* The ring, its flags and its frames implement the abstract service step by step:
\* first-in first-out, no firing lost, duplicated or absorbed after its service began,
\* overrun set exactly by refusals, one firing served at a time on the bound task,
\* for any number of tasks and events and any capacity (queue.hpp:37-94,114-148).
THEOREM QueueImplementsService == Spec => ImplementsService
<1> QED BY QueueInitIsServiceInit, QueueStepIsServiceStep, MapInvariant, PTL
        DEF Spec, ImplementsService, Service!Spec

-----------------------------------------------------------------------------
(* The start of an application: the inductive invariant of InterruptStart. *)

Preparing == {"idle", "mask", "prepare"}
Opened == {"configure", "setup", "install", "settle", "enable"}
Undoing == {"fail_mask", "fail_stop", "fail_cleanup"}

Refused == result.origin = "event_context_failed"

StartTypeOK ==
  /\ stage \in Preparing \cup Opened \cup Undoing \cup {"done"}
  /\ installed \subseteq Source
  /\ live \subseteq Source
  /\ queueBy \in {"nobody", "start", "app"}

\* start() is entered once, by a task.
StartsOnce ==
  /\ started <=> stage # "idle"
  /\ started => starter \in Task

\* What the first call will return: a success until a line of start() fails, and never
\* again after it.
ResultByStage ==
  /\ stage \in Preparing \cup Opened => result = NoResult
  /\ stage \in Undoing => result.outcome # "success"
  /\ stage = "done" => recorded = result
  /\ told.over => stage = "done" /\ told.outcome = result.outcome

\* Where the sources cannot be live, and where all of them are registered.
SourcesByStage ==
  /\ stage \in {"prepare", "fail_stop", "fail_cleanup"} => live = {}
  /\ stage \in Undoing /\ Refused => live = {}
  /\ stage = "done" /\ result.outcome # "success" => live = {}
  /\ stage \in {"settle", "enable"} => installed = Source
  /\ stage = "done" /\ result.outcome = "success" => installed = Source /\ live = Source

\* start() holds the queue it prepared unless the application has taken it over.
QueueHeld == queueBy = "app" \/ (queueBy = "start" /\ ready)

\* Who the queue belongs to at each stage.
QueueByStage ==
  /\ queueBy = "nobody" => ~ready
  /\ queueBy = "start" => DeferredSelected /\ (ready => IsOwner(starter))
  /\ stage \in Preparing => queueBy # "start"
  /\ stage = "prepare" => DeferredSelected
  /\ stage \in Opened /\ DeferredSelected => QueueHeld
  /\ stage \in Undoing \cup {"done"} /\ Refused => DeferredSelected /\ queueBy # "start"
  /\ stage \in {"fail_mask", "fail_stop"} /\ DeferredSelected => Refused \/ QueueHeld
  /\ stage = "done" /\ result.outcome = "success" /\ DeferredSelected => QueueHeld
  /\ stage = "fail_cleanup" /\ ready => queueBy = "app"
  /\ stage = "done" /\ result.outcome # "success" /\ ready => queueBy = "app"

StartInv ==
  StartTypeOK /\ StartsOnce /\ ResultByStage /\ SourcesByStage /\ QueueByStage

LEMMA StartInvInit == StartInit => StartInv
<1> SUFFICES ASSUME StartInit PROVE StartInv
  OBVIOUS
<1> USE DEF StartInit, Init, NoResult
<1>1. StartTypeOK
  BY DEF StartTypeOK, Preparing
<1>2. StartsOnce
  BY DEF StartsOnce
<1>3. ResultByStage
  BY DEF ResultByStage, Preparing, Opened, Undoing
<1>4. SourcesByStage
  BY DEF SourcesByStage, Preparing, Undoing
<1>5. QueueByStage
  BY DEF QueueByStage, Preparing, Opened, Undoing
<1> QED BY <1>1, <1>2, <1>3, <1>4, <1>5 DEF StartInv

\* The steps of the queue that neither open nor close nor bind it.
LEMMA QueueQuiet ==
  ASSUME \/ \E e \in Event : Post(e)
         \/ \E t \in Task : MainLoopTurn(t)
         \/ \E f \in Frame : FrameStep(f)
  PROVE  UNCHANGED <<ready, owner>>
<1> USE DEF queueVars, frameVars, ringVars
<1>1. ASSUME NEW e \in Event, Post(e) PROVE UNCHANGED <<ready, owner>>
  BY <1>1 DEF Post, NotReady, Coalesce, Overflow, Enqueue
<1>2. ASSUME NEW t \in Task, MainLoopTurn(t) PROVE UNCHANGED <<ready, owner>>
  BY <1>2 DEF MainLoopTurn, Dispatch
<1>3. ASSUME NEW f \in Frame, FrameStep(f) PROVE UNCHANGED <<ready, owner>>
  BY <1>3 DEF FrameStep, TakeNext, Invoke, CallbackReturns, EndLoop, Leave
<1> QED BY <1>1, <1>2, <1>3

LEMMA StartInvKept ==
  ASSUME StartInv, UNCHANGED <<startVars, ready, owner>>
  PROVE  StartInv'
BY DEF StartInv, StartTypeOK, StartsOnce, ResultByStage, SourcesByStage, QueueByStage,
       QueueHeld, IsOwner, Refused, DeferredSelected, startVars

\* A replay tells what was recorded, which once the body is left is its result.
LEMMA ReplayKept ==
  ASSUME StartInv, NEW t \in Task, ReplayStart(t)
  PROVE  StartInv'
<1>1. UNCHANGED <<ready, owner, stage, started, starter, result, recorded, installed, live,
                  queueBy>>
  BY DEF ReplayStart, vars, queueVars
<1>2. told'.over => stage' = "done" /\ told'.outcome = result'.outcome
  BY DEF ReplayStart, InStart, MayStart, StartInv, StartsOnce, ResultByStage
<1>3. StartTypeOK' /\ StartsOnce' /\ SourcesByStage'
  BY <1>1 DEF StartInv, StartTypeOK, StartsOnce, SourcesByStage, Refused
<1>4. ResultByStage'
  BY <1>1, <1>2 DEF StartInv, ResultByStage
<1>5. QueueByStage'
  BY <1>1 DEF StartInv, QueueByStage, QueueHeld, IsOwner, Refused, DeferredSelected
<1> QED BY <1>3, <1>4, <1>5 DEF StartInv

LEMMA StartInvStep == StartInv /\ [StartNext]_allVars => StartInv'
<1> SUFFICES ASSUME StartInv, [StartNext]_allVars PROVE StartInv'
  OBVIOUS
<1> USE DEF StartInv, StartTypeOK, StartsOnce, ResultByStage, SourcesByStage, QueueByStage,
            QueueHeld, Refused, Preparing, Opened, Undoing, NoResult
<1>1. CASE MaskOwned
  BY <1>1 DEF MaskOwned, vars, DeferredSelected, IsOwner
<1>2. CASE PrepareQueue
  BY <1>2 DEF PrepareQueue, Prepare, Bound, DeferredSelected, IsOwner
<1>3. CASE PrepareRefused
  BY <1>3 DEF PrepareRefused, Fail, vars, DeferredSelected, IsOwner
<1>4. CASE Configure
  BY <1>4 DEF Configure, BoardLeaves, Fail, vars, DeferredSelected, IsOwner
<1>5. CASE SetupModules
  BY <1>5 DEF SetupModules, BoardLeaves, vars, DeferredSelected, IsOwner
<1>6. CASE InstallNext
  BY <1>6 DEF InstallNext, InstallRefused, BoardLeaves, Fail, vars, DeferredSelected, IsOwner
<1>7. CASE InstallDone
  BY <1>7 DEF InstallDone, vars, DeferredSelected, IsOwner
<1>8. CASE SettlePending
  BY <1>8 DEF SettlePending, BoardLeaves, Fail, vars, DeferredSelected, IsOwner
<1>9. CASE EnableOwned
  BY <1>9 DEF EnableOwned, BodyReturns, RecordResult, vars, DeferredSelected, IsOwner
<1>10. CASE FailMask
  BY <1>10 DEF FailMask, vars, DeferredSelected, IsOwner
<1>11. CASE FailStop
  BY <1>11 DEF FailStop, StopsQueue, Stop, DeferredSelected, IsOwner
<1>12. CASE FailWithoutStop
  BY <1>12 DEF FailWithoutStop, StopsQueue, vars, DeferredSelected, IsOwner
<1>13. CASE FailCleanup
  BY <1>13 DEF FailCleanup, CleanupFailed, BodyReturns, RecordResult, vars,
               DeferredSelected, IsOwner
<1>14. ASSUME NEW t \in Task, CallStart(t) PROVE StartInv'
  BY <1>14 DEF CallStart, InStart, MayStart, vars, DeferredSelected, IsOwner
<1>15. ASSUME NEW t \in Task, ReplayStart(t) PROVE StartInv'
  BY <1>15, ReplayKept
<1>16. ASSUME NEW t \in Task, AppPrepare(t) PROVE StartInv'
  BY <1>16 DEF AppPrepare, Prepare, DeferredSelected, IsOwner
<1>17. ASSUME NEW t \in Task, AppStop(t) PROVE StartInv'
  BY <1>17 DEF AppStop, Stop, DeferredSelected, IsOwner
<1>18. ASSUME NEW t \in Task, NEW e \in Event, AppPost(t, e) PROVE StartInv'
  BY <1>18, QueueQuiet, StartInvKept DEF AppPost
<1>19. ASSUME NEW t \in Task, AppTurn(t) PROVE StartInv'
  BY <1>19, QueueQuiet, StartInvKept DEF AppTurn
<1>20. ASSUME NEW f \in Frame, QueueStep(f) PROVE StartInv'
  BY <1>20, QueueQuiet, StartInvKept DEF QueueStep
<1>21. ASSUME NEW s \in Source, Interrupt(s) PROVE StartInv'
  BY <1>21, QueueQuiet, StartInvKept, SourceAssumption DEF Interrupt
<1>22. CASE UNCHANGED allVars
  BY <1>22, StartInvKept DEF allVars, vars
<1> QED
  BY <1>1, <1>2, <1>3, <1>4, <1>5, <1>6, <1>7, <1>8, <1>9, <1>10, <1>11, <1>12, <1>13,
     <1>14, <1>15, <1>16, <1>17, <1>18, <1>19, <1>20, <1>21, <1>22
  DEF StartNext, StartStep

LEMMA StartInvariant == StartSpec => []StartInv
<1> QED BY StartInvInit, StartInvStep, PTL DEF StartSpec

-----------------------------------------------------------------------------
(* The queue under start(). *)

\* start() and the interrupts it brings to life use the queue only through its public
\* functions: every step of the composition is a step of MainLoopQueue or leaves the
\* queue alone, so all that this module shows of the queue holds under it
\* (start.hpp:31,53, binding.hpp, queue.hpp).
THEOREM StartUsesQueue == StartSpec => Spec
<1>1. StartInit => Init
  BY DEF StartInit
<1>2. StartInv /\ [StartNext]_allVars => [Next]_vars
  <2> SUFFICES ASSUME StartInv, [StartNext]_allVars PROVE [Next]_vars
    OBVIOUS
  <2>a. InStart => starter \in Task
    BY DEF StartInv, StartsOnce, InStart
  <2>1. CASE \/ MaskOwned \/ PrepareRefused \/ Configure \/ SetupModules \/ InstallNext
             \/ InstallDone \/ SettlePending \/ EnableOwned \/ FailMask
             \/ FailWithoutStop \/ FailCleanup
    BY <2>1 DEF MaskOwned, PrepareRefused, Configure, SetupModules, InstallNext, InstallDone,
                SettlePending, EnableOwned, FailMask, FailWithoutStop, FailCleanup
  <2>2. CASE PrepareQueue
    <3>1. Prepare(starter) /\ starter \in Task
      BY <2>a, <2>2 DEF PrepareQueue, InStart
    <3> QED BY <3>1 DEF Next
  <2>3. CASE FailStop
    <3>1. Stop(starter) /\ starter \in Task
      BY <2>a, <2>3 DEF FailStop, InStart
    <3> QED BY <3>1 DEF Next
  <2>4. ASSUME NEW t \in Task, CallStart(t) \/ ReplayStart(t) PROVE UNCHANGED vars
    BY <2>4 DEF CallStart, ReplayStart
  <2>5. ASSUME NEW t \in Task, AppPrepare(t) \/ AppStop(t) \/ AppTurn(t) PROVE Next
    BY <2>5 DEF AppPrepare, AppStop, AppTurn, Next
  <2>6. ASSUME NEW t \in Task, NEW e \in Event, AppPost(t, e) PROVE Next
    BY <2>6 DEF AppPost, Next
  <2>7. ASSUME NEW f \in Frame, QueueStep(f) PROVE Next
    BY <2>7 DEF QueueStep, Next
  <2>8. ASSUME NEW s \in Source, Interrupt(s) PROVE Next
    BY <2>8, SourceAssumption DEF Interrupt, Next
  <2>9. CASE UNCHANGED allVars
    BY <2>9 DEF allVars
  <2> QED
    BY <2>1, <2>2, <2>3, <2>4, <2>5, <2>6, <2>7, <2>8, <2>9 DEF StartNext, StartStep
<1> QED BY <1>1, <1>2, StartInvariant, PTL DEF StartSpec, Spec

-----------------------------------------------------------------------------
(* What start() promises. *)

\* A deferred interrupt that can fire finds the queue ready, from the first mask on, in
\* every interleaving with the application and whatever call of the board fails
\* (start.hpp:28-34,51-53).
THEOREM InterruptsFindQueue == StartSpec => []LiveSourceFindsQueue
<1>1. StartInv => LiveSourceFindsQueue
  <2> SUFFICES ASSUME StartInv, stage \notin {"idle", "mask"}, live \cap Deferred # {}
               PROVE  ready \/ queueBy = "app"
    BY DEF LiveSourceFindsQueue
  <2>1. DeferredSelected /\ live # {}
    BY DEF Deferred, DeferredSelected
  <2> QED
    BY <2>1 DEF StartInv, StartTypeOK, SourcesByStage, QueueByStage, QueueHeld, Preparing,
                Opened, Undoing
<1> QED BY <1>1, StartInvariant, PTL

\* Whoever is told of a success finds every source registered and the queue ready and
\* bound to the starting task (start.hpp:30-45, single_thread_start_policy.hpp:14-21).
THEOREM SuccessWires == StartSpec => []SuccessIsWired
<1>1. StartInv => SuccessIsWired
  <2> SUFFICES ASSUME StartInv, stage = "done",
                      result.outcome = "success"
                        \/ told = [over |-> TRUE, outcome |-> "success"]
               PROVE  /\ installed = Source
                      /\ DeferredSelected /\ queueBy # "app" => ready /\ IsOwner(starter)
    BY DEF SuccessIsWired
  <2>1. result.outcome = "success"
    BY DEF StartInv, ResultByStage
  <2> QED
    BY <2>1 DEF StartInv, SourcesByStage, QueueByStage, QueueHeld
<1> QED BY <1>1, StartInvariant, PTL

\* A failed start leaves no source live and no queue open that it opened
\* (start.hpp:50-58).
THEOREM FailureIsQuiet == StartSpec => []FailedStartIsQuiet
<1>1. StartInv => FailedStartIsQuiet
  BY DEF StartInv, SourcesByStage, QueueByStage, FailedStartIsQuiet
<1> QED BY <1>1, StartInvariant, PTL

\* After a refused prepare() start() never closes the queue (start.hpp:31,53).
THEOREM RefusalKeepsQueue == StartSpec => RefusedStartKeepsQueue
<1> DEFINE Kept ==
      result.origin = "event_context_failed" /\ ready /\ ~ready' => queueBy' = "app"
<1>1. ASSUME StartInv, [StartNext]_allVars PROVE [Kept]_allVars
  <2> SUFFICES ASSUME StartNext, result.origin = "event_context_failed", ready, ~ready'
               PROVE  queueBy' = "app"
    BY <1>1
  <2>1. ~UNCHANGED <<ready, owner>>
    OBVIOUS
  <2>2. ~StartStep
    BY DEF StartStep, MaskOwned, PrepareQueue, PrepareRefused, Configure, SetupModules,
           InstallNext, InstallDone, SettlePending, EnableOwned, FailMask, FailStop,
           FailWithoutStop, FailCleanup, StopsQueue, Prepare, vars
  <2>3. ASSUME NEW t \in Task,
               CallStart(t) \/ ReplayStart(t) \/ AppPrepare(t) \/ AppStop(t) \/ AppTurn(t)
        PROVE  queueBy' = "app"
    BY <2>1, <2>3, QueueQuiet DEF CallStart, ReplayStart, AppPrepare, AppStop, AppTurn, vars
  <2>4. ~\E t \in Task, e \in Event : AppPost(t, e)
    BY <2>1, QueueQuiet DEF AppPost
  <2>5. ~\E f \in Frame : QueueStep(f)
    BY <2>1, QueueQuiet DEF QueueStep
  <2>6. ~\E s \in Source : Interrupt(s)
    BY <2>1, QueueQuiet, SourceAssumption DEF Interrupt
  <2> QED BY <2>2, <2>3, <2>4, <2>5, <2>6 DEF StartNext
<1> QED BY <1>1, StartInvariant, PTL DEF StartSpec, RefusedStartKeepsQueue

\* Once a start has succeeded its sources stay live and registered for ever, whoever
\* calls start() again (single_thread_start_policy.hpp:14-21).
THEOREM SuccessLasts == StartSpec => StartedStaysLive
<1> DEFINE Succeeded == stage = "done" /\ result.outcome = "success"
<1>1. StartInv /\ Succeeded => Wired
  BY DEF StartInv, SourcesByStage, Wired
<1>2. StartInv /\ Succeeded /\ [StartNext]_allVars => Succeeded'
  <2> SUFFICES ASSUME StartInv, Succeeded, [StartNext]_allVars PROVE Succeeded'
    OBVIOUS
  <2>1. ~StartStep
    BY DEF StartStep, MaskOwned, PrepareQueue, PrepareRefused, Configure, SetupModules,
           InstallNext, InstallDone, SettlePending, EnableOwned, FailMask, FailStop,
           FailWithoutStop, FailCleanup
  <2>2. ASSUME NEW t \in Task,
               CallStart(t) \/ ReplayStart(t) \/ AppPrepare(t) \/ AppStop(t) \/ AppTurn(t)
        PROVE  UNCHANGED <<stage, result>>
    BY <2>2 DEF CallStart, MayStart, StartInv, StartsOnce, ReplayStart, AppPrepare, AppStop,
                AppTurn, startVars
  <2>3. ASSUME \/ \E t \in Task, e \in Event : AppPost(t, e)
               \/ \E f \in Frame : QueueStep(f)
               \/ \E s \in Source : Interrupt(s)
        PROVE  UNCHANGED <<stage, result>>
    BY <2>3 DEF AppPost, QueueStep, Interrupt, startVars
  <2>4. CASE UNCHANGED allVars
    BY <2>4 DEF allVars, startVars
  <2> QED BY <2>1, <2>2, <2>3, <2>4 DEF StartNext
<1> QED BY <1>1, <1>2, StartInvariant, PTL DEF StartSpec, StartedStaysLive
=============================================================================
