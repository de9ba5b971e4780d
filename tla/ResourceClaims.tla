---------------------------- MODULE ResourceClaims ----------------------------
(***************************************************************************)
(* core/resource_claims.hpp, resource_checks.hpp: the compile-time check   *)
(* that no two claims of an application conflict.                          *)
(*                                                                         *)
(* An application is a sequence of modules, a module a sequence of         *)
(* parameters, a parameter a sequence of claims.  A claim is a whole       *)
(* resource, a range of it, or a shared use.  The checks are the           *)
(* recursions of the templates; each returns the diagnostics of the static *)
(* assertions it instantiates, and "conflict" when its value is true       *)
(* without an assertion of its own: `value` is that the set is not empty,  *)
(* and both operands of || are always instantiated.                        *)
(***************************************************************************)
EXTENDS Integers, FiniteSets, SequencesExt

CONSTANTS
  Designator,   \* what resources are designated by: pins, ports, timers
  CanonicalOf,  \* CanonicalGPIO: the resource a pin stands for
  Slots,        \* numbers ranges are made of
  Ids, Uses,    \* ids and parameters of shared uses
  Divided,      \* resources that are claimed in ranges or shared
  Size,         \* claims of an application
  Layout        \* how Size claims are divided into modules and parameters

\* Only a pin is known by several designators (CanonicalGPIO), and a pin is not divided.
ASSUME ResourceClaimsAssumption ==
  /\ CanonicalOf \in [Designator -> Designator]
  /\ Divided \subseteq Designator
  /\ \A t \in Divided, u \in Designator : CanonicalOf[u] = CanonicalOf[t] => u = t
  /\ Slots \subseteq Int /\ Slots # {} /\ Ids \cap Int = {}
  /\ Size \in Nat

\* A layout is a sequence of modules, each a sequence of parameters, each a sequence of
\* the numbers of its claims; every claim is declared once.
ASSUME LayoutAssumption ==
  \A l \in Layout :
    /\ l \in Seq(Seq(Seq(1..Size)))
    /\ \A i \in 1..Size : \E m \in DOMAIN l : \E p \in DOMAIN l[m] : i \in ToSet(l[m][p])
    /\ \A m, n \in DOMAIN l : \A p \in DOMAIN l[m], q \in DOMAIN l[n] :
         \A k \in DOMAIN l[m][p], j \in DOMAIN l[n][q] :
           l[m][p][k] = l[n][q][j] => m = n /\ p = q /\ k = j

Whole(t) == [kind |-> "whole", resource |-> t]
Range_(t, b, e) == [kind |-> "range", resource |-> t, begin |-> b, end |-> e]
Shared(t, id, use) == [kind |-> "shared", resource |-> t, id |-> id, use |-> use]

\* range_claim asserts End > Begin.
Claims ==
  { Whole(t) : t \in Designator }
  \cup { Range_(t, p[1], p[2]) : t \in Divided, p \in {q \in Slots \X Slots : q[1] < q[2]} }
  \cup { Shared(t, id, use) : t \in Divided, id \in Ids, use \in Uses }

VARIABLES
  claims,   \* the claims of the application
  layout,   \* where they are declared
  verdict   \* the diagnostics of the compiler, or "unchecked"

vars == <<claims, layout, verdict>>

Application ==
  [m \in DOMAIN layout |->
     [p \in DOMAIN layout[m] |->
        [i \in DOMAIN layout[m][p] |-> claims[layout[m][p][i]]]]]

Init ==
  /\ claims \in [1..Size -> Claims]
  /\ layout \in Layout
  /\ verdict = {"unchecked"}

-----------------------------------------------------------------------------
(* has_conflict: the primary template and its specializations. *)

\* Mutant: an end is part of its range.
TouchingOverlap(c, d) == c.end >= d.begin /\ d.end >= c.begin

Overlap(c, d) == c.end > d.begin /\ d.end > c.begin

HasConflict(c, d) ==
  CASE c.kind = "whole" /\ d.kind = "whole" ->
         CanonicalOf[c.resource] = CanonicalOf[d.resource]
    [] c.kind = "range" /\ d.kind = "range" -> c.resource = d.resource /\ Overlap(c, d)
    [] c.kind = "shared" /\ d.kind = "shared" ->
         c.resource = d.resource /\ c.id = d.id /\ c.use # d.use
    [] c.kind # d.kind /\ "whole" \in {c.kind, d.kind} -> c.resource = d.resource
    [] OTHER -> c = d

Diagnosed(found, name) == IF found = {} THEN {} ELSE found \cup {name}

-----------------------------------------------------------------------------
(* The recursive scans. *)

\* One more step of the recursion of the Self tests: without the second, without the
\* first element.
WithoutSecond(s) == <<s[1]>> \o SubSeq(s, 3, Len(s))

SelfParams[cs \in Seq(Claims)] ==
  IF Len(cs) < 2 THEN {}
  ELSE (IF HasConflict(cs[1], cs[2]) THEN {"same claim"} ELSE {})
       \cup SelfParams[WithoutSecond(cs)] \cup SelfParams[Tail(cs)]

ClaimsClaim(cs, c) == \E i \in DOMAIN cs : HasConflict(c, cs[i])

ParamParam(pl, pr) ==
  (IF \E i \in DOMAIN pl : ClaimsClaim(pr, pl[i]) THEN {"conflict"} ELSE {})
  \cup SelfParams[pl] \cup SelfParams[pr]

ParamsParams(psl, psr) ==
  Diagnosed(UNION { ParamParam(psl[i], psr[j]) : i \in DOMAIN psl, j \in DOMAIN psr },
            "application")

\* Mutant: a parameter on its own is not looked into, as before 21 September 2026.
LoneUnchecked(param) == {}

LoneParam(param) == SelfParams[param]

\* Mutant: the remaining parameters are compared with the second only.
RestWithoutFirst(s) == Tail(s)

RestWithFirst(s) == WithoutSecond(s)

SelfModuleParams[ps \in Seq(Seq(Claims))] ==
  CASE Len(ps) = 0 -> {}
    [] Len(ps) = 1 -> LoneParam(ps[1])
    [] OTHER ->
         Diagnosed(ParamParam(ps[1], ps[2])
                     \cup SelfModuleParams[RestWithFirst(ps)] \cup SelfModuleParams[Tail(ps)],
                   "same module")

SelfModules[ms \in Seq(Seq(Seq(Claims)))] ==
  IF ms = <<>> THEN {}
  ELSE Diagnosed(SelfModuleParams[ms[1]] \cup SelfModules[Tail(ms)], "application")

\* Application::has_conflict: every pair of modules, and every module by itself.
Diagnostics(ms) ==
  LET between == UNION { UNION { ParamsParams(ms[m], ms[n]) : n \in m + 1 .. Len(ms) } :
                           m \in DOMAIN ms }
  IN  Diagnosed(between \cup SelfModules[ms], "application")

Compile ==
  /\ verdict = {"unchecked"}
  /\ verdict' = Diagnostics(Application) \ {"conflict"}
  /\ UNCHANGED <<claims, layout>>

Next == Compile

Spec == Init /\ [][Next]_vars

-----------------------------------------------------------------------------
(* Properties. *)

\* What a claim occupies: the numbers of a range, the id of a shared use, all of both
\* for the whole resource.
Units(c) ==
  CASE c.kind = "whole" -> {CanonicalOf[c.resource]} \X (Slots \cup Ids)
    [] c.kind = "range" -> {CanonicalOf[c.resource]} \X (c.begin .. c.end - 1)
    [] c.kind = "shared" -> {CanonicalOf[c.resource]} \X {c.id}

\* The policy: no two claims occupy the same unit, unless both share it alike.
Clash(c, d) ==
  /\ Units(c) \cap Units(d) # {}
  /\ (c.kind = "shared" /\ d.kind = "shared") => c.use # d.use

Clashes(S) == \E i, j \in S : i < j /\ Clash(claims[i], claims[j])

ClaimsOfParams == UNION { { ToSet(param) : param \in ToSet(layout[m]) } : m \in DOMAIN layout }
ClaimsOfModule(m) == UNION { ToSet(layout[m][p]) : p \in DOMAIN layout[m] }

\* An application compiles exactly if no two of its claims clash, in whatever parameters
\* and modules and in whatever order they are declared (README.md, Resource-claim policy).
VerdictIsPolicy ==
  verdict # {"unchecked"} => ((verdict = {}) <=> ~Clashes(1..Size))

\* The diagnostics point at the right place: two claims of one parameter, or of one
\* module with several parameters (resource_checks.hpp:37,98).
DiagnosticIsRight ==
  verdict # {"unchecked"} =>
    /\ ("same claim" \in verdict) <=> (\E S \in ClaimsOfParams : Clashes(S))
    /\ ("same module" \in verdict) <=>
         (\E m \in DOMAIN layout : Len(layout[m]) > 1 /\ Clashes(ClaimsOfModule(m)))

\* "Sharing is permitted only between the compatible shared claims below, not with
\* exclusive ownership" (resource_claims.hpp:106-107): a resource a range of which is
\* owned is not shared at the same time.
SharingExcludesRange ==
  verdict = {} =>
    ~ \E i, j \in 1..Size :
        /\ claims[i].kind = "shared" /\ claims[j].kind = "range"
        /\ claims[i].resource = claims[j].resource
=============================================================================
