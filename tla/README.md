# TLA+ verification of grevir-core

grevir-core is a header-only C++23 library, with a small Python tool, from which
applications for microcontrollers are composed: modules with dependencies and
resource claims, interrupts bound at build time to handlers, and a bounded queue
that carries interrupt events to the main loop. Much of it is evaluated at compile
time. This directory holds TLA+ models of the parts that have state, order or
failure, TLC configurations that check them, and TLAPS proofs of most of the invariants for
every value of the constants.

## Inventory

| Component | State | Operations | Hard part |
|---|---|---|---|
| Deferred event queue (`src/grevir/event/queue.hpp`) | ring of records, head, count, ready, overrun, dispatching, a pending flag per Elide event, the owner token of the context policy | prepare, stop, post, post_from_isr, clear_overrun, dispatch | dispatch gives the lock up around every callback, so interrupts, other tasks and the callback itself interleave with it |
| Application start (`interrupt/start.hpp`, `single_thread_start_policy.hpp`) | started, result; the interrupt masks and registrations of the board; the queue | start, and its internal fail | sources fire between any two lines; every board call may fail half-way |
| Bound dispatch (`interrupt/handler.hpp`, `event/route.hpp`, `install.hpp`) | none | raw, direct or deferred call of one source | handlers are seen differently by the probe and by the strict compilation; the answer of the post is discarded |
| Binding generation (`cmake/GrevirInterruptBindings.cmake`, `tools/grevir_irqgen`) | probe object, attempt file, plan, header, source, ready marker | plan, emit, verify, the build rule around them | a build killed between two files; two builds of one directory |
| Arduino build (`arduino_build.py`) | staged tree, output directory, firmware marker | one command | artifacts published one by one |
| Plan protocol and validation (`protocol.py`, `probe_record.hpp`, `binding.hpp`) | none (functions) | encode, decode, validate, validate_inventory | completeness of the checks |
| Context policy (`event/context_policy.hpp`, `queue_capacity.hpp`) | none | is_owner; the policy identity | two names in one field |
| Catalog and demand (`catalog.hpp`, `demand.hpp`) | none (functions) | sort, compare | four arrays sorted in step |
| Module closure and lifecycle (`core/module.hpp`, `lifecycle_order.hpp`, `application.hpp`, `allocated_application.hpp`) | type lists; at run time only the position in a pass of callbacks | close, collect claims, bind, order, runSetup, runLoop | shared dependencies, cycles, two orders of setup, claims hidden behind a descriptor |
| Allocation search (`core/allocation/search.hpp`) | partial placement, visited, exhausted | search | backtracking under a budget |
| Resource claims (`resource_claims.hpp`, `resource_checks.hpp`) | none (functions) | has_conflict, the pairwise scans | symmetric and complete comparison of claim kinds |
| Resource graph (`resource_graph.hpp`) | none (functions) | RootDependencies, ResourceFinder | two notions of a root |
| Object reader, device map, board traits, singletons | none | parsing, type lookups | none a model checker reaches |

How they interact. An application is declared as descriptors. The lifecycle
component closes and orders them; the search allocates their requests; the catalog
and the demand summary collect the events that have handlers. A probe of the
application is compiled, the generator turns it into a plan and a binding unit, and
the strict build compiles that unit. At run time `Application::start` masks the
owned sources, prepares the queue, configures the board, installs the generated
bindings and enables the sources. From then on a source calls
`dispatch_bound_interrupt`, which for a deferred event posts to the queue, and the
main loop dispatches it.

What makes each correct:

* queue: callbacks never overlap, run on the owner, are neither lost nor duplicated
  nor run in a later life of the queue; dispatch returns; an accepted record is served;
* start: no firing finds an unready queue, success means fully wired, failure leaves
  nothing live and does not disturb somebody else's queue;
* generation: the marker stands only beside one complete generation; what is compiled
  stems from the current application; a crash never blocks the next build;
* lifecycle: dependency first, once, cycles rejected; an allocation is given the claims
  of all that is known before it;
* search: first solution, or the right reason for none, at the exact cost;
* Arduino build: the firmware marker covers the files beside it, and what one build
  marks stems from the one copy of the sketch it planned for, with the planned bindings;
* protocol, validation, catalog, handlers, context policy: the probe compiles exactly
  when events, handlers, requests, bindings and context are right, the generator agrees
  with it on all but the names that only it checks, and what is bound in the end is the
  live application's;
* claims: an application compiles exactly if no two of its claims clash;
* resource graph: resources built on a common one have a root in common.

## Modules

| Module | Models | How it corresponds to the code |
|---|---|---|
| `EventService` | what the queue promises | abstract: a sequence, no ring, flags or frames |
| `MainLoopQueue` | `detail::MainLoopQueue` | one action per `EventLock` block. `dispatch()` is `Dispatch`, then per round `TakeNext`, `Invoke`, `CallbackReturns`, and `EndLoop`, `Leave`. A frame is a task and a nesting depth |
| `InterruptStart` | `Application::start`, `fail`, the start policy | extends `MainLoopQueue`; `stage` is the line start() is at, one action per line; interrupts and application code of every task run in between. `recorded` is result_, which `ReplayStart` answers a further call from. The board is external and nondeterministic |
| `EventProofs` | | theorems about the queue alone, and that it implements `EventService`, safety part; theorems about start, and that it uses the queue as `MainLoopQueue` says |
| `BindingGeneration` | the build rule, transaction, plan, emit, verify | one action per file written, deleted or read; contents are abstracted to the application version they stem from. Builds run in turn, and those in `Parallel` also at the same time; `overlapped` remembers that some did |
| `BindingGenerationProofs` | | theorems about the marker and what is compiled |
| `Lifecycle` | ModuleClosureVa, ExistingModule's and RequestedModule's claims, Assemble, LifecycleVisit, Runner | one action per template instantiation, with the recursion as a stack, and one per callback. `purpose` says which list ModuleClosureVa works on: the descriptors, the modules behind one of them, or the bound modules |
| `LifecycleProofs` | | theorems about closure, claims, cycles, order and passes |
| `AllocationSearch` | `allocation::search` | one action per candidate looked at and per return of visit() |
| `AllocationSearchProofs` | | soundness, completeness and cost of the search |
| `ArduinoBuild` | `arduino_build.py` | one action per step in a build's own work directory, and per file while the sketch is copied and in the output directory that builds share. What is compiled is a unit: a version of each file of the copy, and one of the libraries, which are not copied; contents are the unit they stem from |
| `ArduinoBuildProofs` | | theorems about the firmware marker |
| `BindingPlan` | catalog, HandlerChoice, BindingGate, demand summary, `validate_inventory`, `validate`, DeferredContextPlan, ContextPolicyIdentity, the probe record, `_validate_plan`, the generated assertions | functions of the code are operators; the actions are the parts of the probe compilation in the order in which the compiler meets them, the generator (decode, compare with the configuration of the build, emit), an edit and the strict compilation. A list of checks of which the first failing one is reported is `FirstFailure`. What the board answers is chosen where it is first read |
| `BindingPlanProofs` | | theorems about what the probe, the generator and the strict compilation accept |
| `ResourceClaims` | `has_conflict`, the `*ConflictTest` templates | each template is an operator, or a recursive function over sequences, which returns the diagnostics it raises; compiling is one step |
| `ResourceGraph` | RootDependencies, ResourceFinder | templates are operators, the recursion through the graph a recursive function; a query is one action |
| `ResourceProofs` | | theorems about the scans of claims and about the roots of resources |
| `SequenceLemmas` | | facts about sequences that more than one of the proof modules cites |
| `MC*` | | constants of the TLC instances |

`MainLoopQueue` implements `EventService` (`ImplementsService`,
`ImplementsFairService`): the backlog is the ring read from head, `lossy` is
overrun_, and the firing being served is the record copied out by the one frame that
is between `TakeNext` and `CallbackReturns`. Operators whose comment says *Mutant*
are wrong variants of the definition that follows them: exchanging one for it breaks
a property, which shows that the property depends on that line of the code.

Assumptions of the models about code outside the repository:

* `Board::EventLock` excludes every other locked block, interrupts included;
* the context policy either gives every task a token of its own (`Restricted`) or is
  `UnrestrictedMainLoopContext`;
* `start()` is called from the top level of a task, as SingleThreadStartPolicy
  requires, and `setup_modules()` does not dispatch;
* `mask_owned` and `enable_owned` cannot fail; every other board call may fail. One
  between the two masks of a failing start may leave sources live; `cleanup`, which runs
  after the second, unmasks nothing, whether it fails or not. `FailedStartIsQuiet` rests
  on that: the code masks last before the cleanup and not after it;
* a file is replaced atomically (`os.replace`), and make or ninja runs a rule when
  its output is missing or older than a dependency;
* what the Arduino CLI exports and which bindings a probe has depend on what is compiled
  alone, and a failing command raises; a directory of libraries is read as one;
* `Board::Allocate` may state any requests and candidates, and may return any bindings
  when it succeeds and none when it fails;
* only a descriptor can name a descriptor as its dependency, and the parameters of a
  module claim for that module;
* `AutoFor::FullScanner` applies its operator to every pair of two modules;
* `setl::RemoveAll(list, removed)` drops from list what removed contains.

## Runs

| Run | Question | Bounds |
|---|---|---|
| `queue_tasks` | safety and refinement of the queue | 2 tasks, 2 Elide and 1 Stream event, ring of 3, index modulo 4, budget to 2, nesting to 2, restricted policy |
| `queue_progress` | liveness and fair refinement | 2 tasks, 1 + 1 events, ring of 2, unrestricted policy |
| `start_tasks` | start with failing board calls | 2 tasks, 3 sources (Elide, Stream, direct), ring of 1, no nesting |
| `generation_builds` | crash recovery and concurrent builds | 3 builds, 2 of which may overlap and be killed and 1 that runs alone, 4 versions of which 1 is rejected by the decoder and 1 by the emitter |
| `generation_foreign_plan` | finding, see below | 2 builds at once, 2 good versions |
| `lifecycle_graphs` | claims, closure, order and callbacks | all graphs of 3 modules with up to one dependency from the module and one from its parameters or descriptor, any set of them requested, all root lists of up to 2, both kinds of application; symmetric in the modules |
| `search_all` | every small problem | 3 rows, 2 columns, 0 to 4 units, every table and relation, budgets 0 to 7 and 14 |
| `arduino_builds` | crash recovery and overlap in the output directory, edits during the copy and between the passes | 2 builds, 1 may fail or be killed, a sketch of 2 files in 2 versions, 2 versions of the libraries; units that export two, one and no artifact, with bindings that depend on both |
| `plan_passes` | what the probe and the generator accept, and what an edit makes stale | catalogs of up to 3 of 4 events (one with a bad name, repetitions included); every assignment of no, a raw and an eliding handler, and single events with both kinds, a direct, a streaming or an unsupported route; 12 problems, plans of up to 3 of 12 bindings and at most one more than demanded, 9 deferred contexts, 8 sets of names and 3 configurations of the build, one edit, orders below and above the modulus 4 |
| `resource_graph` | roots and users | all acyclic graphs of 4 resources with up to 2 dependencies, 2 kinds, 2 lists |
| `claims_all` | verdict and diagnostics | all triples of 11 claims in 10 layouts |
| `claims_sharing` | finding, see below | the same |

Why these bounds are enough to meet the interesting cases. A ring of three with two
Elide events has coalescing, wrap-around of head and tail, a full ring and a partly
drained one; index types of exactly capacity + 1 values are the narrowest the code may
select. A budget of two distinguishes the end by budget from the end by an empty ring.
Two tasks and nesting of two allow a callback to dispatch again and a second task to
stop and prepare between its blocks; `Spec` puts no bound on posts or restarts. Liveness
is checked under the unrestricted policy, where every task may dispatch, safety under
the restricted one, where the token adds obligations; the proofs cover both for safety.
Two overlapping builds give every pairwise race on the five files; run in turn, the
first two of three builds let a crash leave files behind and a second one leave more,
and the third, alone, shows what is recovered. Three modules give chains, shared and
uneven dependencies, cycles of each length and self-cycles. Three rows let the search
backtrack over two levels, which leaves stale choices below the current depth, and 14
looks are the most such a table can take. Three bindings are the fewest in which a
binding collides with one that is not its neighbour, and three rows the fewest that the
exchange sort moves twice; the twelve bindings hold each single defect, and pairs that
collide in source, entry or both. The problems repeat a request, miss one and offer a
candidate of another instance. Two of the contexts read the same when lock and context
are joined without their lengths, and two lie on either side of the longest identity,
with lengths of two digits. In `plan_passes` a modulus of 4 stands for 2^16 and 19
characters for 255; the sets of names have an unknown backend, a name that is no
identifier, one too long for the record, a name other than the configured one, and a
hardware target with and without an installer. Two files are enough for a copy that
mixes two versions of a sketch, and one build that fails anywhere for the other to find
what it left. Four resources let two of them meet two levels down, in a resource that
depends on itself or on nothing. Every verdict about claims is about pairs; three claims
are the fewest for which the recursions have a pair to forget, and the ten layouts are
all ways to divide three claims in order into parameters and modules, with an empty
parameter and an empty module added.

`AppTurn`, `AppPost` and the other application actions in `start_tasks` are those of
the queue; nesting is left to the queue's own runs, since start() never nests.

## Fairness

`MainLoopQueue!FairSpec`: some task keeps calling dispatch() while that is possible
(the main loop), a task inside dispatch() keeps running, and callbacks return. The
first is the use the library is made for (`grevir::event::dispatch` from `loop()`);
the others say that tasks are scheduled and handlers terminate. Nothing is assumed of
those who post, prepare, stop or clear the overrun: they may run for ever or never.
`DispatchReturns` needs the budget, `AcceptedIsTaken` needs the guard to be given
back on every path.

`BindingGeneration!FairSpec`: a build that is running and not killed takes its next
step. Builds need not start, and a `Crashable` build may stop anywhere. `CrashIsRecovered`
asks of a build that nobody kills and that runs alone: what it needs is what others left
behind.

The other modules have safety properties only; they are sequential, and TLC's
exploration of every behaviour to its end is what shows that they terminate.

## Proofs

Every theorem holds for all values of the constants that the named assumptions of the
modules allow, and its proof uses nothing else. "By TLC first" below means that the
inductive invariant itself was also checked on a small instance.

### The queue

`EventProofs`, for all tasks, events, capacities from 1 to 2048, index widths
that hold the capacity, budgets and nesting depths:

* `TypeCorrect`: `Spec => []TypeOK`, which contains that head_ is always a slot and
  count_ at most the capacity although both are computed in the index type;
* `CallbacksSerialised`, `CallbacksBound`: `[]OneDispatcher`, `[]CallbacksOnOwner`;
* `NoRebirth`: the action property `NoRebirthUnderDispatch`;
* `PendingExact`: `[]PendingTracksQueue`.

`TypeOK` alone is not inductive: a frame's budget may only be counted down while there
is some, so `TypeInv` adds that a frame between TakeNext and CallbackReturns has budget
left. Serialisation follows from `GuardHeld`: an active frame implies dispatching_,
active frames are one frame, and under a restricted policy its caller is the owner. The
step that could break it is Prepare, which binds a new owner; its guard ~dispatching_ is
why it does not. `PendingTracksQueue` counts records, and a count is not inductive;
`RingInv` says instead that every queued record is well formed, that a set flag has a
queued record, that a queued record of an Elide event has its flag set, and that no two
queued records share a flag. Its steps are arithmetic on slots (`RingIndex`,
`AdvancedHead`, `SlotsDiffer`, `SlotShifted`): taking a record shifts every index by
one, posting adds the slot behind the last.

`QueueImplementsService` is `ImplementsService`: initial states map to initial
states, and each action to an action of `EventService` or a stutter (`TakeNext` to the
service taking its oldest firing, a post to an accepted, merged or lost one, the rest to
what the comments there say). The backlog is a sequence built from the ring, so the
steps need that building it commutes with posting (`Append`) and taking (`Tail`), slots
that wrap included. They also need `ServesEvent`, that a frame past TakeNext holds the
record of some event, or the mapping would have nothing to serve (by TLC first, on
the constants of `queue_tasks`).

### Application start

`StartUsesQueue` (also in `EventProofs`) shows that each step of start() and of its
environment is a step of `MainLoopQueue` or leaves the queue alone, so the queue's
theorems hold under it, and the other proofs use them. `StartInv` relates the line start
is at to the masks, registrations and the queue: where sources are known to be masked or
live and all of them registered, what result is recorded and told, and who prepared the
queue that is open. From it follow `LiveSourceFindsQueue`,
`SuccessIsWired`, `FailedStartIsQuiet` and the action properties
`RefusedStartKeepsQueue` and `StartedStaysLive`. The first version said that whenever
the queue was opened by start its owner is the starting task; TLC refuted it, because
the cleanup also stops a queue that the application took over and bound to another task
meanwhile. The clause holds of a queue that is ready.

### The generators

`BindingGenerationProofs`: `AcceptedIsCoherent` also when builds overlap, and
`MarkerMeansComplete` and `CompiledIsCurrent` while they do not. `AcceptInv` needs no more than
that every marker ever written or read names one generation, and that a build goes to
the compiler only with files it has accepted. `AloneInv` is about builds in turn: at most
one runs (`Exclusive`), a marker on disk is true of the files beside it (`MarkerTrue`,
which is what a killed build leaves and the next one finds), and at each step the
running build has taken the marker away and knows which of the files stem from the
present probe object (`OwnAttempt`).

`ArduinoBuildProofs`: `MarkerCoversOutput` while builds run in turn,
`FirmwareIsOneSketch` and `UndisturbedBuildPublishes` also when they overlap. The copy
may mix versions of a sketch that is edited meanwhile: both passes compile that copy,
but the libraries as they are. So plan and artifacts agree on the sketch because nobody
else writes the copy, and on the bindings because the strict pass compares them; it
fails when an edited library changed them. `ArduinoInv` has what a build's own work
directory holds at each step (`WorkByStep`), what it has published so far, and that a
marker is whole in itself. For builds in turn it adds that the output directory holds
what the marker lists, and that a running build has removed the marker and finds its
published artifacts in place.

### The search

`AllocationSearchProofs`: the four invariants for tables of any size. `SearchInv` says
that everything lexicographically before the current prefix has been looked at and is no
solution: every solution is `Ahead`, in the part of the tree that is left. Then a
success is the first solution, and running out of candidates means that there is none.
`BudgetInv` counts: visited is the cardinality of the set of looks before the current
position, so that exhaustion is exact.

### The lifecycle

`LifecycleProofs`: the six invariants for any modules, dependency lists and requests,
cycles included. `LifecycleInv` (by TLC first, on applications of two kinds) consists of

* `ClosureInv`: what is collected or still to do is known to the application, and
  nothing that is reachable from the roots is lost: it is in the closure or behind an
  element of the worklist. The closure has no element twice;
* `AssemblyInv`: the claims collected are those of known modules, and before the
  allocation of all that were read;
* `ClosedInv`: once the worklist is empty the closure is exactly what is reachable;
* `VisitInv`: every used module is ordered or on LifecycleVisit's stack, and every
  dependency of an entered module is ordered or above it. All that lies above an entered
  module is reachable from it, so that a module met again while it is entered depends on
  itself;
* `OrderInv`: what is ordered has all its dependencies ordered before it;
* `PlaceInv`: the bottom of the stack is the closure itself, and a module that nothing
  depends on is found nowhere above its own place in it. So it is ordered when that place
  is the top, and before all that lie lower;
* `StageInv` and `RunInv`: which list is used at which stage, and that the callbacks run
  so far are a prefix of the pass.

The properties of a pass then follow from the order of the pass as a flattened
sequence (`Spots`: each callback of a pass is a place of the order within a phase).

### The binding plan

`BindingPlanProofs`: the six invariants, for any events, handlers, catalogs, problems,
plans, deferred contexts, names and word sizes. The actions are few; the work is to say
what the functions they call come to:

* `FirstFailureIsNone`: of a list of checks none is reported exactly if none fails, so
  that their order does not matter for the verdict, only for which error is named;
* `CatalogVerdict`, `ProblemVerdict`, `PlanVerdict` and `ContextVerdict`: the static
  assertions pass exactly if the catalog, the problem, the plan and the context are good
  in the sense of `GoodSoFar`, which knows nothing of loops over earlier bindings. The
  first, the third and the fourth hold for the probe, which sees every raw handler, and for
  the strict compilation, where `BindingGate` lets through the bound ones: `Sees`;
* `SortRowsSorts`: after round i of the exchange sort the first i rows are the least of
  all, in order, and the rows are still those it started from. Keys that grow determine a
  sequence (`IncreasingIsUnique`), and that is why the summary the strict compilation
  computes anew is equal to the recorded one, row by row;
* `IdentityInjective`: two policies with one identity have the same lock and the same
  context. A decimal number ends at the underscore, which is no digit, two numbers with
  the same digits are equal, and then so are the names whose lengths they are.
  `DecimalExists` shows first that the recursion of `Decimal` defines a function;
* `RecordDecodes`: a record of the probe passes `_validate_plan` exactly if the board's
  names are such as lines 72-76 of protocol.py want them. So the two validators agree on
  events, handlers, bindings, context and cut orders, and `DecoderAgrees` names the one
  thing they differ in: the probe writes backend, target, board, compiler and application
  as the board has them;
* `EncodeVerdict`: encoding ends the compilation exactly if a text does not fit;
* `StrictMeans` and `FreshCompiles`: what a successful strict compilation leaves true,
  and that it succeeds when nothing was edited.

`PlanInv` (by TLC first, on the constants of `plan_passes`) says per stage what has been
read and is good, that the record is that of the present application until somebody
edits it (`Fresh`), and what stays true of the record however it is edited (`Recorded`):
its rows are rows, its orders are words, and its names, capacity and policy are those of
the probe's board. `BoundIsLive` compares the live board with that of the probe, which only
`Recorded` still knows about after an edit.

### Resources

`ResourceProofs`. `VerdictFollowsPolicy` and `DiagnosticsPointRight` hold for every set
of designators, ranges, ids and uses, and for every division of any number of claims into
modules and parameters in which each claim has one place (`LayoutAssumption`). They
assume what the policy is about: a resource that is divided is not one of several names
(only a pin is), and ids of shared uses are no numbers of ranges (`claims_sharing`
shows what that means). `ConflictIsClash` shows case by case that `has_conflict` is the
policy for two claims, in either order. The scans skip and repeat much: each compares the first
two elements, then goes on without the second and without the first. `PairScan` says that
this meets every pair, `SelfParamsFinds`, `ModuleScanFinds`, `SelfModulesFinds` and
`DiagnosticsFind` what that comes to at each level, where the scan of a lower level may
run more than once or, for a lone element, only once. `CompileFinds` puts it into the
numbers of the layout. The invariant is the properties themselves, with what never
changes: there is one step to compile.

`RootsMeet`, for every acyclic graph of any size: what a resource is built on is the least
set closed under its dependencies, its roots are in that set (`RootsAreParts`), and
whatever it is built on has no other roots than its own (`PartsShareRoots`). So a
common part has a root, which is common.

### Induction over data

The provers cannot instantiate the induction theorems of the library, which take an
operator. Where a proof needs induction (`RemoveAll`, flattening, the sort, decimal
numbers, the depth of the search), it is done for a set: `Induct` says that a set of
numbers which holds 0 and with each number the next is all of them. A function that is
defined by recursion is known by its equations only once it exists: `LoopExists` gives
that for a loop with a finite number of rounds, `RecursionExists` for a recursion along
a rank: a number, the length of a list, the place of a resource in the order of
dependencies.

### Only model-checked

* Liveness, fairness and what is stated with them: `DispatchReturns`,
  `AcceptedIsTaken`, `ImplementsFairService`, `CrashIsRecovered`. Beyond the prover.
* That the sequential modules come to an end: liveness again, and TLC's exploration of
  every behaviour to its end on the small instances.

## Findings

`generation_foreign_plan` (expected violation). `verify.py` says that it validates "a
complete current Grevir interrupt generation attempt". `_emit` compares the attempt file
with its own attempt and then reads the plan, which names no attempt. When two builds of
one directory overlap, the other one can replace the plan after the comparison, or have
replaced only one of the two files before it. The output set is then marked and accepted
as this attempt's although it comes from the plan the other attempt decoded.
`AcceptedIsOwn` is about the step in which verify_ready passes for the strict build of
an attempt; the trace ends with it. The set is still coherent (`AcceptedIsCoherent`),
and the static assertions of the generated unit compare it with the live application, so
the consequence is a failed build or bindings of the newer application.

`claims_sharing` (expected violation). The comment above the shared-use specializations
of has_conflict says that sharing is not permitted "with exclusive ownership". A range
is owned exclusively, but no specialization compares a range_claim with a
shared_use_claim of the same resource, so the primary template calls them compatible.
The comment stands over the specializations for a whole resource; the quoted half is
said of any exclusive ownership. An application that drives a range of a timer's units
and shares the same timer compiles. `VerdictIsPolicy` takes the numbers of a range and
the ids of shared uses for different units, which is what the code does.

## Plan

Done: `MainLoopQueue` with proofs, `InterruptStart`, `BindingGeneration`,
`Lifecycle`, `AllocationSearch`, `ArduinoBuild`, `BindingPlan`, `ResourceClaims`,
`ResourceGraph`. No component with state, order or failure is left without a model.

Every safety property of a passing run is proved. What could follow are bounds on the
number of steps of the sequential modules as invariants, such as `BudgetIsExact` is for
the search, since termination itself is out of the prover's reach.

## Not modelled

* The object reader (`object_section.py`, `probe_section.hpp`): ELF, COFF and Mach-O
  layout. It yields the one record or fails, which is what `PlanDecode` takes from it.
* The byte layout of the probe record, its checksum and the fingerprints: a hash is
  taken to identify what it was computed from.
* The limit of 65535 bytes on the whole record (`probe_record.hpp:58`), and that of 255
  on the parts of an event key: `Long` has the names of the build, sources and entries.
* The fields of a binding beside source and entry: they are checked and compared one
  after the other, as those are. What emit.py demands of a hardware binding in those
  fields is part of what `Device` says of its source and entry.
* The text of the generated files.
* The device map, board traits and singletons: declarations and accessors with no state
  a property could be about. Hardware registers belong to other repositories.
* A resource graph with a cycle does not end compiling; its comment demands a DAG.
* Raw and direct handlers run in the interrupt and are application code, as is what a
  module's callback does.
* `Allocation::validates`, which the board implements.
* The window in which the compiler reads generated files after they were verified, and
  two Arduino builds that publish at the same time, are in the models, but the code
  promises nothing there beyond what the named properties say.
