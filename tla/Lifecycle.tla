------------------------------- MODULE Lifecycle -------------------------------
(***************************************************************************)
(* The modules of an application: how Application and AllocatedApplication *)
(* close the declared modules under their dependencies (ModuleClosureVa),  *)
(* collect the claims they allocate around, order the modules              *)
(* (LifecycleOrder) and call their callbacks (Runner).                     *)
(*                                                                         *)
(* The closure and the order are template recursions; every instantiation  *)
(* is an action here, on the list it is given.  LifecycleVisit's recursion *)
(* is unrolled into a stack of the modules still to visit and those being  *)
(* visited.  A callback is one action.  What it does is the application's  *)
(* affair, and the parameters of a module are one callback of it.          *)
(*                                                                         *)
(* A module is one value, whether as descriptor or bound: a RequestedModule*)
(* is in the set requested, any other is its own ExistingModule.           *)
(***************************************************************************)
EXTENDS Naturals, Sequences, SequencesExt

CONSTANTS
  Module,        \* module types
  Applications   \* the applications to compose: records of impl, via, requested, roots

ASSUME ApplicationAssumption ==
  \A app \in Applications :
    /\ {app.impl, app.via} \subseteq [Module -> Seq(Module)]
    /\ app.roots \in Seq(Module)
    /\ app.requested \subseteq Module
    \* Only a descriptor can name a descriptor.
    /\ \A m \in Module : ToSet(app.impl[m]) \cap app.requested = {}
    /\ \A m \in Module \ app.requested : ToSet(app.via[m]) \cap app.requested = {}

VARIABLES
  app,        \* the application: impl (ImplicitDeps, Impl::Deps), via (the Deps of the
              \* parameters, the Dependencies of a descriptor), requested, roots
  allocated,  \* TRUE for an AllocatedApplication
  stage,      \* "collect", "order", "rejected", "setup", "loop"
  purpose,    \* what is being closed: "descriptors", "claims" of one, "modules"
  todo,       \* the modules ModuleClosureVa has still to look at
  closure,    \* Contained; AllModules in the end
  descriptors,\* Assemble's Descriptors
  unread,     \* those whose claims have not been collected
  collected,  \* the modules whose claims the allocation is given
  stack,      \* visits LifecycleVisit has begun or has still to begin
  order,      \* Done; the type list of ModuleRunner in the end
  ran         \* the callbacks called in this pass of runSetup or runLoop

input == <<app, allocated>>
assembly == <<descriptors, unread, collected>>
closing == <<purpose, todo, closure, assembly>>
vars == <<input, stage, closing, stack, order, ran>>

-----------------------------------------------------------------------------
Init ==
  /\ app \in Applications
  /\ allocated \in BOOLEAN
  /\ app.requested # {} => allocated
  /\ stage = "collect"
  /\ purpose = IF allocated THEN "descriptors" ELSE "modules"
  /\ todo = app.roots
  /\ closure = <<>>
  /\ descriptors = <<>> /\ unread = <<>> /\ collected = {}
  /\ stack = <<>>
  /\ order = <<>>
  /\ ran = <<>>

\* Mutant: the parameters bring no dependencies.
DepsWithoutParams(m) == app.impl[m]

\* Deps of a module, and of a descriptor's Bind.
Deps(m) == app.impl[m] \o app.via[m]

\* Deps of a descriptor: those of an ExistingModule stay hidden.
DescriptorDeps(m) == IF m \in app.requested THEN app.via[m] ELSE <<>>

(* ModuleClosureVa *)

\* setl::RemoveAll
RemoveAll(list, removed) ==
  LET kept[i \in 0..Len(list)] ==
        IF i = 0 THEN <<>>
        ELSE IF Contains(removed, list[i]) THEN kept[i - 1]
        ELSE Append(kept[i - 1], list[i])
  IN  kept[Len(list)]

Rest(m) ==
  RemoveAll((IF purpose = "descriptors" THEN DescriptorDeps(m) ELSE Deps(m)) \o Tail(todo),
            Append(closure, m))

Collect ==
  /\ stage = "collect"
  /\ todo # <<>>
  /\ closure' = Append(closure, Head(todo))
  /\ todo' = Rest(Head(todo))
  /\ UNCHANGED <<input, stage, purpose, assembly, stack, order, ran>>

Closed(what) == stage = "collect" /\ purpose = what /\ todo = <<>>

CloseDescriptors ==
  /\ Closed("descriptors")
  /\ purpose' = "claims"
  /\ descriptors' = closure
  /\ unread' = closure
  /\ closure' = <<>>
  /\ UNCHANGED <<input, stage, todo, collected, stack, order, ran>>

(* Assemble::Claims: a RequestedModule has its own, an ExistingModule its closure's. *)
ReadRequested ==
  /\ Closed("claims")
  /\ unread # <<>>
  /\ Head(unread) \in app.requested
  /\ collected' = collected \cup {Head(unread)}
  /\ unread' = Tail(unread)
  /\ UNCHANGED <<input, stage, purpose, todo, closure, descriptors, stack, order, ran>>

OpenExisting ==
  /\ Closed("claims")
  /\ unread # <<>> /\ closure = <<>>
  /\ Head(unread) \notin app.requested
  /\ todo' = <<Head(unread)>>
  /\ UNCHANGED <<input, stage, purpose, closure, assembly, stack, order, ran>>

\* Mutant: an ExistingModule has only the claims of its own parameters.
OwnClaims(modules) == {Head(modules)}

ModuleClaims(modules) == ToSet(modules)

ReadExisting ==
  /\ Closed("claims")
  /\ closure # <<>>
  /\ collected' = collected \cup ModuleClaims(closure)
  /\ unread' = Tail(unread)
  /\ closure' = <<>>
  /\ UNCHANGED <<input, stage, purpose, todo, descriptors, stack, order, ran>>

\* The descriptors are bound to the allocation and compose an Application.
BindDescriptors ==
  /\ Closed("claims")
  /\ unread = <<>>
  /\ purpose' = "modules"
  /\ todo' = descriptors
  /\ UNCHANGED <<input, stage, closure, assembly, stack, order, ran>>

ToVisit(m) == [node |-> m, entered |-> FALSE]
Entered(m) == [node |-> m, entered |-> TRUE]
Visits(list) == [i \in DOMAIN list |-> ToVisit(list[i])]

StartOrder ==
  /\ Closed("modules")
  /\ stage' = "order"
  /\ stack' = Visits(closure)
  /\ UNCHANGED <<input, closing, order, ran>>

(* LifecycleVisitList and LifecycleVisit: lists are visited from the right. *)
Top == Last(stack)

Visiting(m) == Contains(stack, Entered(m))

\* Mutant: a module that was placed already is placed again.
CompleteNever(m) == FALSE

Complete(m) == Contains(order, m)

AtVisit == stage = "order" /\ stack # <<>> /\ ~Top.entered

SkipComplete ==
  /\ AtVisit
  /\ Complete(Top.node)
  /\ stack' = Front(stack)
  /\ UNCHANGED <<input, stage, closing, order, ran>>

\* Mutant: a module that is being visited is passed over.
IgnoreCycle ==
  /\ AtVisit
  /\ ~Complete(Top.node)
  /\ Visiting(Top.node)
  /\ stack' = Front(stack)
  /\ UNCHANGED <<input, stage, closing, order, ran>>

\* GREVIR_CORE_DEPENDENCY_CYCLE: the application does not compile.
RejectCycle ==
  /\ AtVisit
  /\ ~Complete(Top.node)
  /\ Visiting(Top.node)
  /\ stage' = "rejected"
  /\ UNCHANGED <<input, closing, stack, order, ran>>

\* Mutant: the order of the closure is kept, as the runner once had it.
AgendaWithoutDeps(m) == <<Entered(m)>>

Agenda(m) == <<Entered(m)>> \o Visits(Deps(m))

Descend ==
  /\ AtVisit
  /\ ~Complete(Top.node)
  /\ ~Visiting(Top.node)
  /\ stack' = Front(stack) \o Agenda(Top.node)
  /\ UNCHANGED <<input, stage, closing, order, ran>>

\* Mutant: a module is put behind those placed before it.
PlacedBehind(m) == Append(order, m)

\* catr: the runner goes through the list backwards.
Placed(m) == <<m>> \o order

Place ==
  /\ stage = "order"
  /\ stack # <<>>
  /\ Top.entered
  /\ order' = Placed(Top.node)
  /\ stack' = Front(stack)
  /\ UNCHANGED <<input, stage, closing, ran>>

(* Runner *)
Backwards == Reverse(order)

Of(phase, m) == [phase |-> phase, node |-> m]

\* One callback of every module.
AllOf(phase) == [i \in DOMAIN Backwards |-> Of(phase, Backwards[i])]

TwoPhases == AllOf("params") \o AllOf("module")

\* paramsSetup of a bound module; SelectedTimerParameter sets its timer up.
ParamsSetup(m) ==
  (IF m \in app.requested THEN <<Of("owner", m)>> ELSE <<>>) \o <<Of("params", m)>>

Setup(m) == Append(ParamsSetup(m), Of("module", m))

Interleaved == FlattenSeq([i \in DOMAIN Backwards |-> Setup(Backwards[i])])

\* Mutant: an allocated application is set up like any other.
PassInPhases == TwoPhases

\* The callbacks of one pass of runSetup or runLoop.
Pass == IF allocated /\ stage = "setup" THEN Interleaved ELSE TwoPhases

StartSetup ==
  /\ stage = "order"
  /\ stack = <<>>
  /\ stage' = "setup"
  /\ UNCHANGED <<input, closing, stack, order, ran>>

InPass == stage \in {"setup", "loop"}

Call ==
  /\ InPass
  /\ Len(ran) < Len(Pass)
  /\ ran' = Append(ran, Pass[Len(ran) + 1])
  /\ UNCHANGED <<input, stage, closing, stack, order>>

StartLoop ==
  /\ InPass
  /\ Len(ran) = Len(Pass)
  /\ stage' = "loop"
  /\ ran' = <<>>
  /\ UNCHANGED <<input, closing, stack, order>>

Next ==
  \/ Collect \/ CloseDescriptors \/ ReadRequested \/ OpenExisting \/ ReadExisting
  \/ BindDescriptors \/ StartOrder
  \/ SkipComplete \/ RejectCycle \/ Descend \/ Place
  \/ StartSetup \/ Call \/ StartLoop

Spec == Init /\ [][Next]_vars

-----------------------------------------------------------------------------
(* Properties. *)

DependsOn(m) == ToSet(app.impl[m]) \cup ToSet(app.via[m])

\* The modules reached from a set along edges, the set included.
Reached(S, Edges(_)) ==
  { m \in Module :
      \A T \in SUBSET Module :
        S \subseteq T /\ (\A n \in T : Edges(n) \subseteq T) => m \in T }

Used == Reached(ToSet(app.roots), DependsOn)
Cyclic == \E m \in Used : m \in Reached(DependsOn(m), DependsOn)

HasRun(phase, m) == Contains(ran, Of(phase, m))

\* The allocation is given the claims of every module the application will have, in one
\* list and before any of them is bound; only what the implementation of a requested
\* module brings in is left to the final conflict check
\* (allocated_application.hpp:46-47,74-100).
AllocationSeesClaims ==
  allocated /\ purpose = "modules" =>
    collected = Reached(ToSet(app.roots),
                        LAMBDA m : IF m \in app.requested THEN ToSet(app.via[m])
                                   ELSE DependsOn(m))

\* In either phase of a pass the callback of a module comes after those of all it
\* depends on, shared or listed wherever: "a dependency-first callback order"
\* (lifecycle_order.hpp:41, README.md:62).
DependenciesFirst ==
  \A i \in DOMAIN ran : ran[i].phase # "owner" =>
    \A d \in DependsOn(ran[i].node) :
      \E j \in 1..i - 1 : ran[j] = Of(ran[i].phase, d)

\* A pass calls every module that is declared or depended on, each once per phase,
\* however often it is listed; a timer is set up for every requested module and for no
\* other (README.md:65-66, module.hpp:134-142, allocated_application.hpp:67-70).
EachOnce ==
  /\ \A i, j \in DOMAIN ran : ran[i] = ran[j] => i = j
  /\ InPass /\ Len(ran) = Len(Pass) =>
       \A m \in Module :
         /\ \A phase \in {"params", "module"} : HasRun(phase, m) <=> m \in Used
         /\ HasRun("owner", m) <=> m \in Used \cap app.requested /\ stage = "setup"

\* An application compiles exactly when no module it uses depends on itself, directly
\* or through others (README.md:66-67, lifecycle_order.hpp:35).
CycleIsRejected ==
  /\ stage = "rejected" => Cyclic
  /\ InPass => ~Cyclic

\* Modules that nothing depends on run in the reverse of their order in the closure:
\* sorting dependencies first moves only modules that something depends on
\* (lifecycle_order.hpp:7-8).
ReverseOrderKept ==
  \A i, j \in DOMAIN closure :
    LET m == closure[i]
        n == closure[j]
    IN  /\ i < j
        /\ \A user \in Used : {m, n} \cap DependsOn(user) = {}
        => /\ HasRun("module", m) => HasRun("module", n)
           /\ HasRun("params", m) => HasRun("params", n)

\* The parameters of all modules are called before any module, except in the setup of
\* an allocated application: there the whole setup of a module is over before the timer
\* and the parameters of one that depends on it are set up, the timer first
\* (allocated_application.hpp:67-70,102-104).
PhasesInOrder ==
  \A j \in DOMAIN ran : ran[j].phase # "module" =>
    IF allocated /\ stage = "setup"
    THEN /\ \A d \in DependsOn(ran[j].node) :
              \E i \in 1..j - 1 : ran[i] = Of("module", d)
         /\ ran[j].phase = "params" /\ ran[j].node \in app.requested =>
              \E i \in 1..j - 1 : ran[i] = Of("owner", ran[j].node)
    ELSE \A i \in 1..j - 1 : ran[i].phase = "params"
=============================================================================
