------------------------------ MODULE BindingPlan ------------------------------
(***************************************************************************)
(* The binding plan on its way from the probe to the strict compilation.   *)
(* The probe collects the events an application has handlers for           *)
(* (handler.hpp, demand.hpp), lets the board allocate bindings, validates  *)
(* them (binding.hpp) and encodes both (probe_record.hpp).  The generator  *)
(* decodes and validates them again (protocol.py) and writes them into the *)
(* generated unit (emit.py), whose static assertions compare them with the *)
(* application as it then is: it may have been edited.                     *)
(*                                                                         *)
(* Event keys are numbers in the order of EventIdentity::operator<=>; one  *)
(* event type has each key.  A name is a model value, but the identities   *)
(* of lock and context are sequences of characters: their encoding into    *)
(* one field is a hazard.  What names a binding beside its source and      *)
(* entry is left out.                                                      *)
(*                                                                         *)
(* What the board answers is chosen where the compiler first reads it.     *)
(***************************************************************************)
EXTENDS Integers, FiniteSets, SequencesExt

CONSTANTS
  Event,        \* event keys
  BadKey,       \* those with a component that is no identifier
  Instance,     \* the instance every event belongs to
  Name,         \* identifiers: what valid_component and _identifier accept
  Text,         \* what a board may state as one of its names
  Long,         \* texts of more than 255 characters
  Handlers,     \* handlers an application may define: functions from Event to Choice
  MaxEvents,    \* bound on the declared events
  Binding,      \* the records Board::Allocate may select
  MaxBindings,  \* bound on their number,
  Spare,        \* and on how many it selects beyond the demanded ones
  Problem,      \* what Board::Allocate may state as its problem
  PwmRequired,  \* events whose request needs PWM
  Board,        \* what the board may have for the deferred context, and its names
  Argument,     \* the names a build may be configured with, which the generator is given
  Device,       \* what emit.py asks of a backend that is hardware, by backend
  WordChar,     \* characters of an identifier
  MaxPolicy,    \* 255: the longest policy identity
  WordModulus   \* 2^16: one more than the probe record can hold in a word

\* The handlers an event has: a raw one, an event one, and the route of the latter.
Choice == [raw : BOOLEAN, event : BOOLEAN, route : {"elide", "stream", "direct", "invalid"}]

\* The names of the build, in the header of the record.
HeaderField == {"backend", "target", "board", "compiler", "application"}

\* All but that of the application are compared, with the build and with the live board.
TargetField == HeaderField \ {"application"}

\* BACKENDS.
Backends == {"mock", "avr", "esp32"}

Digit == <<"0", "1", "2", "3", "4", "5", "6", "7", "8", "9">>

ASSUME BindingPlanAssumption ==
  /\ Event \subseteq Nat /\ BadKey \subseteq Event
  /\ Handlers \subseteq [Event -> Choice]
  /\ \A b \in Binding :
       /\ b = [event |-> b.event, source |-> b.source, entry |-> b.entry,
               shared |-> b.shared, order |-> b.order]
       /\ b.event \in Event /\ b.order \in Nat /\ b.shared \in BOOLEAN
  /\ \A p \in Problem : /\ p = [requests |-> p.requests, candidates |-> p.candidates]
                       /\ p.requests \in Seq(Event)
  /\ Board \subseteq [available : BOOLEAN, capacity : Int, lock : Seq(STRING), context : Seq(STRING),
                      header : [HeaderField -> Text]]
  /\ Argument \subseteq [TargetField -> Text]
  /\ DOMAIN Device \subseteq Backends
  /\ WordChar \subseteq STRING /\ {"l", "c", "_"} \cup ToSet(Digit) \subseteq WordChar
  /\ {MaxEvents, MaxBindings, Spare, MaxPolicy} \subseteq Nat
  /\ WordModulus \in Nat \ {0}

VARIABLES
  declared,  \* EventCatalog::Events, in the order of the descriptors
  handlers,  \* the specializations of on_interrupt and on_event, and the routes
  problem,   \* Allocation::problem
  plan,      \* SelectedPlan: Allocation::plan
  board,     \* Board::event_queue_capacity, EventLock, MainLoopContext and the five names
  stage,     \* where the build is
  error,     \* why the probe did not compile
  record,    \* the probe record, then the plan decoded from it
  probed,    \* history: the board of the probe
  edited     \* history: the application was edited after its probe

vars == <<declared, handlers, problem, plan, board, stage, error, record, probed, edited>>

NoProblem == [state |-> "unread"]
NoPlan == [bindings |-> <<>>, state |-> "unread"]
NoBoard == [state |-> "unread"]
NoRecord == [header |-> <<>>, demands |-> <<>>, bindings |-> <<>>, capacity |-> 0, policy |-> <<>>]

Init ==
  /\ declared \in UNION { [1..n -> Event] : n \in 0..MaxEvents }
  /\ handlers \in Handlers
  /\ problem = NoProblem
  /\ plan = NoPlan
  /\ board = NoBoard /\ probed = NoBoard
  /\ stage = "catalog"
  /\ error = "none"
  /\ record = NoRecord
  /\ edited = FALSE

\* The first check that fails, in the order they are made.
FirstFailure(checks) ==
  LET failing == {i \in DOMAIN checks : checks[i].fails}
  IN IF failing = {} THEN "none"
     ELSE checks[CHOOSE i \in failing : \A j \in failing : i <= j].error

Check(fails, name) == [fails |-> fails, error |-> name]

-----------------------------------------------------------------------------
(* Handlers, catalog and demand summary. *)

\* HandlerChoice::raw.  The probe sees every raw handler, the strict compilation those
\* of the keys that are bound: visible is the set of them.
Raw(e, visible) == handlers[e].raw /\ e \in visible

\* The handler of an event, as the summary and the generated header name it.
Row(e, visible) ==
  LET inIsr == Raw(e, visible) \/ handlers[e].route = "direct"
  IN [key |-> e,
      handler |-> IF Raw(e, visible) THEN "raw" ELSE "event",
      context |-> IF inIsr THEN "isr" ELSE "main_loop",
      delivery |-> IF inIsr THEN "direct"
                   ELSE IF handlers[e].route = "elide" THEN "elide" ELSE "stream"]

\* Mutant: an event may have a handler of both kinds.
NoDuplicateHandler(e, visible) == FALSE

DuplicateHandler(e, visible) == Raw(e, visible) /\ handlers[e].event

InvalidRoute(e) == handlers[e].event /\ handlers[e].route = "invalid"

Unique == IsInjective(declared)

\* The static assertions of EventCatalog, and those of HandlerChoice for its events.
CatalogError(visible) ==
  LET catalog == ToSet(declared)
  IN FirstFailure(<<
       Check(~Unique, "GREVIR_IRQ_DUPLICATE_EVENT_KEY"),
       Check(catalog \cap BadKey # {}, "GREVIR_IRQ_INVALID_EVENT_KEY"),
       Check(\E e \in catalog : DuplicateHandler(e, visible), "GREVIR_IRQ_DUPLICATE_HANDLER"),
       Check(\E e \in catalog : InvalidRoute(e), "GREVIR_IRQ_INVALID_EVENT_ROUTE") >>)

Exchanged(s, i, j) == [s EXCEPT ![i] = s[j], ![j] = s[i]]

\* Mutant: handlers, contexts and deliveries stay where they were.
ExchangeKeys(rows, i, j) ==
  [rows EXCEPT ![i].key = rows[j].key, ![j].key = rows[i].key]

\* The four arrays of the summary, exchanged in step.
ExchangeRows(rows, i, j) == Exchanged(rows, i, j)

\* The inner loop: whatever later row comes before row i is exchanged with it.
LeastFirst(rows, i) ==
  LET After[j \in i..Len(rows)] ==
        IF j = i THEN rows
        ELSE IF After[j - 1][j].key < After[j - 1][i].key
             THEN ExchangeRows(After[j - 1], i, j)
             ELSE After[j - 1]
  IN After[Len(rows)]

SortRows(rows) ==
  LET After[i \in 0..Len(rows)] == IF i = 0 THEN rows ELSE LeastFirst(After[i - 1], i)
  IN After[Len(rows)]

Present(e, visible) == Raw(e, visible) \/ handlers[e].event

\* The rows of the events that have a handler, in the order of the catalog.
PresentRows(visible) ==
  LET Upto[i \in 0..Len(declared)] ==
        IF i = 0 THEN <<>>
        ELSE IF Present(declared[i], visible)
             THEN Append(Upto[i - 1], Row(declared[i], visible))
             ELSE Upto[i - 1]
  IN Upto[Len(declared)]

DemandData(visible) == SortRows(PresentRows(visible))

Keys(rows) == [i \in DOMAIN rows |-> rows[i].key]

-----------------------------------------------------------------------------
(* validate_inventory, validate and the deferred context. *)

\* Mutant: as many requests as events are enough.
RequestsCounted(p) == Len(p.requests) = Len(declared)

\* Exactly one request for each event of the catalog.
RequestsMatch(p) ==
  /\ Len(p.requests) = Len(declared)
  /\ \A e \in ToSet(declared) : Cardinality({j \in DOMAIN p.requests : p.requests[j] = e}) = 1

OwnedByInstance(p) == \A c \in p.candidates : c.owner = Instance[c.request]

ProblemError(p) ==
  FirstFailure(<< Check(~RequestsMatch(p) \/ ~OwnedByInstance(p),
                        "GREVIR_IRQ_BINDING_NOT_IN_INVENTORY") >>)

\* Mutant: only the entry of the binding right before is compared.
EntryOfPrevious(b, i) == i > 1 /\ b[i - 1].entry = b[i].entry

EntryTaken(b, i) == \E j \in 1..(i - 1) : b[j].entry = b[i].entry

\* Mutant: a source is compared with the one before only.
SourceOfPrevious(b, i) == i > 1 /\ b[i - 1].source = b[i].source

SourceTaken(b, i) == \E j \in 1..(i - 1) : b[j].source = b[i].source

\* One round of the loop over the bindings.
BindingError(demands, b, i) ==
  FirstFailure(<<
    Check(b[i].event \notin ToSet(declared) \cap ToSet(Keys(demands)), "unknown_event"),
    Check(b[i].shared, "unsupported_shared_source"),
    Check(~({b[i].source, b[i].entry} \subseteq Name), "invalid_source"),
    Check(i > 1 /\ b[i - 1].event = b[i].event, "duplicate_event"),
    Check(i > 1 /\ b[i - 1].event > b[i].event, "unstable_order"),
    Check(SourceTaken(b, i), "unsupported_shared_source"),
    Check(EntryTaken(b, i), "entry_conflict") >>)

Missing(demands, b) == \E i \in DOMAIN demands : demands[i].key \notin {b[j].event : j \in DOMAIN b}

Validate(demands, p) ==
  LET b == p.bindings
      rounds == [i \in DOMAIN b |->
                   LET found == BindingError(demands, b, i)
                   IN Check(found # "none", found)]
  IN FirstFailure(
       << Check(p.state = "exhausted", "search_exhausted"),
          Check(p.state = "failed", "allocation_failed"),
          Check(Len(b) # Len(demands), "count_mismatch") >>
       \o rounds
       \o << Check(Missing(demands, b), "missing_event") >>)

Suits(c, b) ==
  /\ c.request = b.event /\ c.source = b.source /\ c.entry = b.entry
  /\ ~c.reserved /\ c.period_event
  /\ (b.event \in PwmRequired) => c.pwm

InInventory(p) == \A i \in DOMAIN p.bindings : \E c \in problem.candidates : Suits(c, p.bindings[i])

\* The static assertions of BindingPlan.
PlanError(demands, p) ==
  FirstFailure(<<
    Check(~InInventory(p), "GREVIR_IRQ_BINDING_NOT_IN_INVENTORY"),
    Check(Validate(demands, p) # "none", Validate(demands, p)) >>)

\* What the allocation of the board returns: nothing is selected when it fails.
Plans(demanded) ==
  [bindings : UNION { [1..n -> Binding] :
                        n \in {k \in 0..MaxBindings : k <= demanded + Spare} }, state : {"ok"}]
  \cup [bindings : {<<>>}, state : {"failed", "exhausted"}]

\* DeferredContextPlan::selected.
Deferred(demands) == \E i \in DOMAIN demands : demands[i].context = "main_loop"

Component(text) == text # <<>> /\ ToSet(text) \subseteq WordChar

\* append_number.
Decimal[n \in Nat] == (IF n < 10 THEN <<>> ELSE Decimal[n \div 10]) \o <<Digit[(n % 10) + 1]>>

\* Mutant: the identities are joined without their lengths.
JoinedIdentity(b) == <<"l", "_">> \o b.lock \o <<"_", "c", "_">> \o b.context

\* ContextPolicyIdentity::value.
PolicyIdentity(b) ==
  <<"l">> \o Decimal[Len(b.lock)] \o <<"_">> \o b.lock \o <<"_", "c">>
    \o Decimal[Len(b.context)] \o <<"_">> \o b.context

\* The static assertions of DeferredContextPlan, QueueCapacity and ContextPolicyIdentity.
ContextError(demands, b) ==
  IF ~Deferred(demands) THEN "none"
  ELSE FirstFailure(<<
    Check(~b.available, "GREVIR_EVENT_CONTEXT_UNAVAILABLE"),
    Check(b.capacity \notin 1..2048, "GREVIR_EVENT_CAPACITY_OUT_OF_RANGE"),
    Check(~Component(b.lock) \/ ~Component(b.context), "GREVIR_EVENT_POLICY_COMPONENT_INVALID"),
    Check(Len(PolicyIdentity(b)) > MaxPolicy, "GREVIR_EVENT_POLICY_ID_TOO_LONG") >>)

ContextCapacity(demands, b) == IF Deferred(demands) THEN b.capacity ELSE 0
ContextPolicy(demands, b) == IF Deferred(demands) THEN PolicyIdentity(b) ELSE <<>>

-----------------------------------------------------------------------------
(* The probe. *)

\* A static assertion that fails ends the compilation; the next thing is read otherwise.
Proceed(found, next) ==
  /\ error' = found
  /\ stage' = IF found = "none" THEN next ELSE "rejected"

CompileCatalog ==
  /\ stage = "catalog"
  /\ Proceed(CatalogError(Event), "problem")
  /\ UNCHANGED <<declared, handlers, problem, plan, board, record, probed, edited>>

CompileProblem ==
  /\ stage = "problem"
  /\ \E p \in Problem : problem' = p /\ Proceed(ProblemError(p), "plan")
  /\ UNCHANGED <<declared, handlers, plan, board, record, probed, edited>>

CompilePlan ==
  /\ stage = "plan"
  /\ LET demands == DemandData(Event)
     IN \E p \in Plans(Len(demands)) : plan' = p /\ Proceed(PlanError(demands, p), "context")
  /\ UNCHANGED <<declared, handlers, problem, board, record, probed, edited>>

\* Mutant: the order is written in full.
WholeOrder(n) == n

Word(n) == n % WordModulus

\* The texts that the record holds beside keys and policy.
RecordTexts(p, b) ==
  {b.header[f] : f \in HeaderField}
    \cup {p.bindings[i].source : i \in DOMAIN p.bindings}
    \cup {p.bindings[i].entry : i \in DOMAIN p.bindings}

\* A text whose length does not fit into one byte ends the compilation.
EncodeError(b) == FirstFailure(<< Check(RecordTexts(plan, b) \cap Long # {}, "text_too_long") >>)

\* encode_probe_record: the only lossy field is the dispatch order.
Encode(demands, b) ==
  [header |-> b.header,
   demands |-> demands,
   bindings |-> [i \in DOMAIN plan.bindings |-> [plan.bindings[i] EXCEPT !.order = Word(@)]],
   capacity |-> ContextCapacity(demands, b),
   policy |-> ContextPolicy(demands, b)]

CompileContext ==
  /\ stage = "context"
  /\ LET demands == DemandData(Event)
     IN \E b \in Board :
          LET context == ContextError(demands, b)
              found == IF context = "none" THEN EncodeError(b) ELSE context
          IN /\ board' = b /\ probed' = b
             /\ Proceed(found, "decode")
             /\ record' = IF found = "none" THEN Encode(demands, b) ELSE NoRecord
  /\ UNCHANGED <<declared, handlers, problem, plan, edited>>

-----------------------------------------------------------------------------
(* The generator and the strict compilation. *)

Increasing(s) == \A i \in 2..Len(s) : s[i - 1] < s[i]

\* Mutant: only the backend is looked at.
KnownBackend(h) == h.backend \in Backends

\* The probe has no such check.
ValidHeader(h) == h.backend \in Backends /\ \A f \in HeaderField : h[f] \in Name

\* _validate_plan.
ValidPlan(r) ==
  /\ ValidHeader(r.header)
  /\ Len(r.demands) = Len(r.bindings)
  /\ ToSet(Keys(r.demands)) \cap BadKey = {}
  /\ \A i \in DOMAIN r.demands :
       <<r.demands[i].handler, r.demands[i].context, r.demands[i].delivery>> \in
         {<<"raw", "isr", "direct">>, <<"event", "isr", "direct">>,
          <<"event", "main_loop", "elide">>, <<"event", "main_loop", "stream">>}
  /\ Increasing(Keys(r.demands))
  /\ IF Deferred(r.demands) THEN r.capacity \in 1..2048 /\ Component(r.policy)
     ELSE r.capacity = 0 /\ r.policy = <<>>
  /\ \A i \in DOMAIN r.bindings :
       LET b == r.bindings[i]
           earlier == {r.bindings[j] : j \in 1..(i - 1)}
       IN /\ {b.source, b.entry} \subseteq Name
          /\ b.order \in 0..(WordModulus - 1)
          /\ ~b.shared
          /\ \A e \in earlier : e.entry = b.entry => e.source = b.source
          /\ \A e \in earlier : e.source # b.source
          /\ b.event = r.demands[i].key

\* Mutant: the generated source compares no names.
AnyTarget(names, recorded) == TRUE

SameTarget(names, recorded) == \A f \in TargetField : names[f] = recorded[f]

\* emit writes installers for one target of each kind of hardware, and for its source.
Emitted(r) ==
  r.header.backend \in DOMAIN Device =>
    LET d == Device[r.header.backend]
    IN /\ r.header.target = d.target
       /\ \A i \in DOMAIN r.bindings :
            r.bindings[i].source = d.source /\ r.bindings[i].entry = d.entry

\* The generator: decode, compare with the build's configuration, then emit.
Decode ==
  /\ stage = "decode"
  /\ \E a \in Argument :
       stage' = IF ~ValidPlan(record) THEN "undecodable"
                ELSE IF ~SameTarget(a, record.header) THEN "misconfigured"
                ELSE IF Emitted(record) THEN "strict" ELSE "unsupported"
  /\ UNCHANGED <<declared, handlers, problem, plan, board, error, record, probed, edited>>

\* Another event at a place of the catalog or one event less; the board follows it.
EditEvents ==
  /\ \/ \E i \in DOMAIN declared, e \in Event : declared' = [declared EXCEPT ![i] = e]
     \/ \E i \in DOMAIN declared : declared' = RemoveAt(declared, i)
  /\ problem' = [problem EXCEPT !.requests = declared']
  /\ UNCHANGED <<handlers, plan, board>>

EditHandler ==
  /\ \E e \in Event, c \in Choice : handlers' = [handlers EXCEPT ![e] = c]
  /\ UNCHANGED <<declared, problem, plan, board>>

EditBoard ==
  /\ \/ problem' \in Problem /\ UNCHANGED <<plan, board>>
     \/ /\ \E i \in DOMAIN plan.bindings, b \in Binding :
             plan' = [plan EXCEPT !.bindings[i] = b]
        /\ UNCHANGED <<problem, board>>
     \/ board' \in Board /\ UNCHANGED <<problem, plan>>
  /\ UNCHANGED <<declared, handlers>>

\* The developer edits the application, once: nothing before the strict compilation
\* reads what it changes.
Edit ==
  /\ stage = "strict"
  /\ ~edited
  /\ edited' = TRUE
  /\ EditEvents \/ EditHandler \/ EditBoard
  /\ UNCHANGED <<stage, error, record, probed>>

BoundKeys == {record.bindings[i].event : i \in DOMAIN record.bindings}

SameDemands(live, recorded) == live = recorded

\* Mutant: the generated records leave the order out.
SameSources(live, recorded) ==
  /\ Len(live) = Len(recorded)
  /\ \A i \in DOMAIN live : [live[i] EXCEPT !.order = 0] = [recorded[i] EXCEPT !.order = 0]

SameBindings(live, recorded) == live = recorded

\* Mutant: the live demands are left as they are declared.
LiveUnsorted == PresentRows(BoundKeys)

LiveDemandSet == DemandData(BoundKeys)

\* Mutant: a raw handler needs no binding.
GateOpen == TRUE

\* BindingGate: a raw handler of a key that is not bound is not even declarable.
GateHolds == \A e \in Event : handlers[e].raw => e \in BoundKeys

\* BoundEventKey::Event.
BoundInCatalog == BoundKeys \subseteq ToSet(declared)

\* The assertions of dispatch_bound_interrupt, instantiated once for each source.
DispatchMatches ==
  \A i \in DOMAIN record.demands :
    LET e == record.demands[i].key
    IN /\ Present(e, BoundKeys)
       /\ Row(e, BoundKeys) = record.demands[i]

\* The assertions of the generated header and source, beside those of the application,
\* whose DemandSet is now the generated one.
StrictCompiles ==
  /\ GateHolds
  /\ BoundInCatalog
  /\ CatalogError(BoundKeys) = "none"
  /\ ProblemError(problem) = "none"
  /\ PlanError(record.demands, plan) = "none"
  /\ ContextError(record.demands, board) = "none"
  /\ SameDemands(LiveDemandSet, record.demands)
  /\ ContextCapacity(record.demands, board) = record.capacity
  /\ ContextPolicy(record.demands, board) = record.policy
  /\ SameTarget(board.header, record.header)
  /\ SameBindings(plan.bindings, record.bindings)
  /\ DispatchMatches

CompileStrict ==
  /\ stage = "strict"
  /\ stage' = IF StrictCompiles THEN "bound" ELSE "stale"
  /\ UNCHANGED <<declared, handlers, problem, plan, board, error, record, probed, edited>>

Next ==
  \/ CompileCatalog \/ CompileProblem \/ CompilePlan \/ CompileContext
  \/ Decode \/ Edit \/ CompileStrict

Spec == Init /\ [][Next]_vars

-----------------------------------------------------------------------------
(* Properties. *)

Handled == {e \in ToSet(declared) : handlers[e].raw \/ handlers[e].event}

\* What a valid plan is, whatever order the checks are made in: it binds exactly the
\* demanded events, in their order, each to a source and an entry of its own that the
\* board offers for it.
Valid(p) ==
  LET b == p.bindings
      Injective(field) == Cardinality({b[i][field] : i \in DOMAIN b}) = Len(b)
  IN /\ p.state = "ok"
     /\ {b[i].event : i \in DOMAIN b} = Handled
     /\ Increasing([i \in DOMAIN b |-> b[i].event])
     /\ Injective("source") /\ Injective("entry")
     /\ \A i \in DOMAIN b :
          /\ ~b[i].shared /\ {b[i].source, b[i].entry} \subseteq Name
          /\ \E c \in problem.candidates : Suits(c, b[i])

\* An event whose handler runs in the main loop.
InMainLoop(e) == ~handlers[e].raw /\ handlers[e].route # "direct"

GoodCatalog ==
  /\ Cardinality(ToSet(declared)) = Len(declared)
  /\ \A e \in ToSet(declared) :
       /\ e \notin BadKey
       /\ handlers[e].event => ~handlers[e].raw /\ handlers[e].route # "invalid"

GoodProblem(p) ==
  /\ Len(p.requests) = Len(declared) /\ ToSet(p.requests) = ToSet(declared)
  /\ \A c \in p.candidates : c.owner = Instance[c.request]

GoodContext(b) ==
  (\E e \in Handled : InMainLoop(e)) =>
     /\ b.available /\ b.capacity \in 1..2048
     /\ Component(b.lock) /\ Component(b.context)
     /\ Len(PolicyIdentity(b)) <= MaxPolicy

\* What is right with the application as far as the compiler has read it.
GoodSoFar ==
  /\ GoodCatalog
  /\ problem # NoProblem => GoodProblem(problem)
  /\ plan # NoPlan => Valid(plan)
  /\ board # NoBoard => GoodContext(board)

\* Every text the probe writes has a length of one byte.
Encodable == board # NoBoard => RecordTexts(plan, board) \cap Long = {}

\* The probe is rejected exactly when something it has read is wrong: no order of the
\* checks in validate lets a defect through, and none rejects a good application
\* (catalog.hpp:164-173, handler.hpp:41-52, binding.hpp:46-152, probe_record.hpp:74-75).
VerdictIsRight ==
  stage \in {"problem", "plan", "context", "decode", "rejected"} =>
    (stage = "rejected" <=> ~(GoodSoFar /\ Encodable))

\* The names of the build are such as the generator knows and can write into a source.
Named(b) == b.header.backend \in Backends /\ {b.header[f] : f \in HeaderField} \subseteq Name

\* The two validators, written in two languages, agree about everything but the names of
\* the build: the generator rejects a record of the probe exactly when the board, which
\* the probe does not check, has an unknown backend or a name that is no identifier
\* (binding.hpp:46-93, probe_record.hpp:83-87, protocol.py:64-171).
DecoderAgrees ==
  stage \in {"undecodable", "misconfigured", "unsupported", "strict", "bound", "stale"} =>
    (stage = "undecodable" <=> ~Named(probed))

LiveRow(e) ==
  [key |-> e,
   handler |-> IF handlers[e].raw THEN "raw" ELSE "event",
   context |-> IF InMainLoop(e) THEN "main_loop" ELSE "isr",
   delivery |-> IF InMainLoop(e) THEN handlers[e].route ELSE "direct"]

\* The record's demand summary is in key order and has for every event with a handler
\* exactly the row of that event, although the sort moves four arrays
\* (demand.hpp:38-55).
RowsStayTogether ==
  stage = "decode" =>
    /\ Increasing(Keys(record.demands))
    /\ ToSet(record.demands) = {LiveRow(e) : e \in Handled}

\* A unit that compiles is right for the application as it is now, however it was edited
\* since its probe: every handler it has is bound, raw ones of any event included, by a
\* plan that is valid for it, its target is the one of the probe and has an installer,
\* and a deferred queue has the capacity, the lock and the context of the probe
\* (emit.py:26-50,79-141, handler.hpp:77-100, context_policy.hpp:36-60).
BoundIsLive ==
  stage = "bound" =>
    /\ GoodSoFar
    /\ {e \in Event : handlers[e].raw} \subseteq BoundKeys
    /\ ToSet(record.demands) = {LiveRow(e) : e \in Handled}
    /\ board.header.target = probed.header.target
    /\ board.header.backend \in Backends
    /\ Emitted([header |-> board.header, bindings |-> plan.bindings])
    /\ Deferred(record.demands) =>
         <<board.capacity, board.lock, board.context>>
           = <<probed.capacity, probed.lock, probed.context>>

\* A dispatch order that the 16-bit field of the record cut off is never bound
\* (probe_record.hpp: word(binding.dispatch_order); emit.py:139-141).
TruncatedIsNotBound ==
  stage = "bound" =>
    \A i \in DOMAIN plan.bindings : plan.bindings[i].order < WordModulus

\* An application that is not edited, whose orders fit into the record and whose raw
\* handlers are for declared events is never rejected as stale: the strict compilation
\* recomputes what the probe recorded.
FreshIsBound ==
  stage = "stale" =>
    \/ edited
    \/ \E i \in DOMAIN plan.bindings : plan.bindings[i].order >= WordModulus
    \/ \E e \in Event \ ToSet(declared) : handlers[e].raw
=============================================================================
