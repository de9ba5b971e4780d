---------------------------- MODULE LifecycleProofs ----------------------------
(***************************************************************************)
(* Machine-checked proofs about Lifecycle, for any modules, any dependency *)
(* graph, any list of declared modules and both kinds of application.      *)
(***************************************************************************)
EXTENDS Lifecycle, SequenceLemmas

-----------------------------------------------------------------------------
(* The inductive invariant. *)

Visit == [node : Module, entered : BOOLEAN]
Callback == [phase : {"owner", "params", "module"}, node : Module]

LifecycleTypeOK ==
  /\ app \in Applications
  /\ allocated \in BOOLEAN
  /\ app.requested # {} => allocated
  /\ stage \in {"collect", "order", "rejected", "setup", "loop"}
  /\ purpose \in {"descriptors", "claims", "modules"}
  /\ todo \in Seq(Module)
  /\ closure \in Seq(Module)
  /\ descriptors \in Seq(Module)
  /\ unread \in Seq(Module)
  /\ collected \in SUBSET Module
  /\ stack \in Seq(Visit)
  /\ order \in Seq(Module)
  /\ ran \in Seq(Callback)

\* Reached, of a graph that is a function.
ReachedIn(S, G) ==
  { m \in Module :
      \A T \in SUBSET Module : S \subseteq T /\ (\A n \in T : G[n] \subseteq T) => m \in T }

Graph == [m \in Module |-> DependsOn(m)]
DescriptorGraph == [m \in Module |-> ToSet(DescriptorDeps(m))]
\* What is known of a module before its binding.
KnownGraph ==
  [m \in Module |-> IF m \in app.requested THEN ToSet(app.via[m]) ELSE DependsOn(m)]

\* What ModuleClosureVa follows, and from where, for the list it works on.
Follow == IF purpose = "descriptors" THEN DescriptorGraph ELSE Graph
From ==
  IF purpose = "claims" THEN IF closure = <<>> /\ todo = <<>> THEN {} ELSE {Head(unread)}
  ELSE IF purpose = "modules" /\ allocated THEN ToSet(descriptors)
  ELSE ToSet(app.roots)
Seen == ToSet(closure) \cup ToSet(todo)

\* Each module is looked at once, and nothing reached is forgotten.
ClosureInv ==
  /\ IsInjective(closure)
  /\ ToSet(closure) \cap ToSet(todo) = {}
  /\ From \subseteq Seen
  /\ \A m \in ToSet(closure) : Follow[m] \subseteq Seen
  /\ Seen \subseteq ReachedIn(From, Follow)

\* The modules an existing module's claims are taken from.
ClaimsOf(d) == IF d \in app.requested THEN {d} ELSE ReachedIn({d}, Graph)
Known == ReachedIn(ToSet(app.roots), KnownGraph)

\* Descriptors, and the claims read of them so far.
AssemblyInv ==
  /\ collected \subseteq Known
  /\ ~allocated => purpose = "modules"
  /\ purpose = "claims" =>
       /\ ToSet(unread) \subseteq ToSet(descriptors)
       /\ \A d \in ToSet(descriptors) \ ToSet(unread) : ClaimsOf(d) \subseteq collected
       /\ closure # <<>> \/ todo # <<>> =>
            unread # <<>> /\ Head(unread) \notin app.requested
  /\ allocated /\ purpose # "descriptors" =>
       ToSet(descriptors) = ReachedIn(ToSet(app.roots), DescriptorGraph)
  /\ allocated /\ purpose = "modules" => collected = Known

\* The list that is ordered is the closure of the application.
ClosedInv ==
  stage # "collect" =>
    purpose = "modules" /\ ToSet(closure) = Used /\ IsInjective(closure)

\* Nothing is lost between the stack and the order, a module is entered once and placed
\* after that, and the stack above it are modules it depends on.
VisitInv ==
  /\ \A k \in DOMAIN stack : stack[k].node \in Used
  /\ ToSet(order) \subseteq Used
  /\ stage # "collect" =>
       \A m \in Used : m \in ToSet(order) \/ \E k \in DOMAIN stack : stack[k].node = m
  /\ \A k, l \in DOMAIN stack : stack[k] = stack[l] /\ stack[k].entered => k = l
  /\ \A k \in DOMAIN stack : stack[k].entered => stack[k].node \notin ToSet(order)
  /\ \A k \in DOMAIN stack : stack[k].entered =>
       \A d \in DependsOn(stack[k].node) :
         d \in ToSet(order) \/ \E l \in DOMAIN stack : k < l /\ stack[l].node = d
  /\ \A k, l \in DOMAIN stack : k < l /\ stack[k].entered =>
       stack[l].node \in ReachedIn(DependsOn(stack[k].node), Graph)

\* The order is a topological one.
OrderInv ==
  /\ IsInjective(order)
  /\ \A i \in DOMAIN order : \A d \in DependsOn(order[i]) :
       \E j \in DOMAIN order : i < j /\ order[j] = d

\* A module that nothing depends on is visited at its own place in the closure only.
Userless(m) == \A user \in Used : m \notin DependsOn(user)
PlaceInv ==
  /\ \A k \in DOMAIN stack :
       Userless(stack[k].node) => k \in DOMAIN closure /\ closure[k] = stack[k].node
  /\ \A i, j \in DOMAIN closure :
       i < j /\ Userless(closure[i]) /\ Userless(closure[j]) =>
         \A a \in DOMAIN order : order[a] = closure[i] =>
           \E b \in DOMAIN order : a < b /\ order[b] = closure[j]

StageInv ==
  /\ stage = "collect" => stack = <<>> /\ order = <<>>
  /\ stage \in {"order", "rejected"} => todo = <<>>
  /\ stage = "rejected" => Cyclic
  /\ InPass => stack = <<>> /\ todo = <<>>
  /\ ~InPass => ran = <<>>

\* What has run is a beginning of the pass.
RunInv ==
  InPass => \A i \in DOMAIN ran : i \in DOMAIN Pass /\ ran[i] = Pass[i]

LifecycleInv ==
  /\ LifecycleTypeOK /\ ClosureInv /\ AssemblyInv /\ ClosedInv
  /\ VisitInv /\ OrderInv /\ PlaceInv /\ StageInv /\ RunInv

-----------------------------------------------------------------------------
(* RemoveAll. *)

\* setl::RemoveAll, as the set of what is left.
LEMMA RemoveAllElements ==
  ASSUME NEW S, NEW list \in Seq(S), NEW removed \in Seq(S)
  PROVE  /\ RemoveAll(list, removed) \in Seq(S)
         /\ ToSet(RemoveAll(list, removed)) = ToSet(list) \ ToSet(removed)
<1> DEFINE Step(f, i) == IF i = 0 THEN <<>>
                         ELSE IF Contains(removed, list[i]) THEN f[i - 1]
                         ELSE Append(f[i - 1], list[i])
           Steps(f, n) == f = [i \in 0..n |-> Step(f, i)]
           Defined == {n \in Nat : \E f : Steps(f, n)}
           F == CHOOSE f : Steps(f, Len(list))
           Before(n) == {list[i] : i \in 1..n} \ ToSet(removed)
           Right == {n \in Nat : n <= Len(list) =>
                                   F[n] \in Seq(S) /\ ToSet(F[n]) = Before(n)}
<1>0. Len(list) \in Nat
  BY Elements
<1>1. Nat \subseteq Defined
  <2>1. 0 \in Defined
    <3>1. Steps([i \in 0..0 |-> <<>>], 0)
      OBVIOUS
    <3> QED BY <3>1
  <2>2. ASSUME NEW n \in Nat, n \in Defined PROVE n + 1 \in Defined
    <3>1. PICK f : Steps(f, n)
      BY <2>2
    <3> DEFINE g == [i \in 0..n + 1 |-> IF i <= n THEN f[i] ELSE Step(f, i)]
    <3>a. \A i \in 0..n : f[i] = Step(f, i)
      <4> HIDE DEF Step
      <4> QED BY <3>1
    <3>b. \A i \in 0..n : g[i] = f[i]
      <4> HIDE DEF Step
      <4> QED OBVIOUS
    <3>c. \A i \in 0..n : i # 0 => i - 1 \in 0..n
      OBVIOUS
    <3>2. \A i \in 0..n + 1 : g[i] = Step(g, i)
      <4>1. ASSUME NEW i \in 0..n PROVE g[i] = Step(g, i)
        <5>1. g[i] = Step(f, i) /\ (i # 0 => g[i - 1] = f[i - 1])
          <6> HIDE DEF g, Step
          <6> QED BY <3>a, <3>b, <3>c
        <5> HIDE DEF g
        <5> QED BY <5>1
      <4>2. g[n + 1] = Step(g, n + 1)
        <5>1. g[n + 1] = Step(f, n + 1) /\ g[(n + 1) - 1] = f[(n + 1) - 1] /\ n + 1 # 0
          <6> HIDE DEF Step
          <6> QED OBVIOUS
        <5> HIDE DEF g
        <5> QED BY <5>1
      <4>3. \A i \in 0..n + 1 : i \in 0..n \/ i = n + 1
        OBVIOUS
      <4> HIDE DEF g, Step
      <4> QED BY <4>1, <4>2, <4>3
    <3>3. g = [i \in 0..n + 1 |-> g[i]]
      OBVIOUS
    <3> HIDE DEF g, Step
    <3>4. [i \in 0..n + 1 |-> g[i]] = [i \in 0..n + 1 |-> Step(g, i)]
      BY <3>2
    <3>5. Steps(g, n + 1)
      BY <3>3, <3>4
    <3> QED BY <3>5
  <2> HIDE DEF Defined
  <2> QED BY <2>1, <2>2, Induct
<1>2. Steps(F, Len(list))
  <2>1. \E f : Steps(f, Len(list))
    BY <1>0, <1>1
  <2> HIDE DEF Steps
  <2> QED BY <2>1, Zenon
<1>3. RemoveAll(list, removed) = F[Len(list)]
  BY DEF RemoveAll
<1>4. \A i \in 0..Len(list) : F[i] = Step(F, i)
  <2> HIDE DEF F, Step
  <2> QED BY <1>2
<1>5. Nat \subseteq Right
  <2> HIDE DEF F
  <2>1. 0 \in Right
    <3>1. F[0] = <<>>
      BY <1>0, <1>4
    <3>2. <<>> \in Seq(S) /\ ToSet(<<>>) = {}
      BY EmptySeq DEF ToSet
    <3>3. Before(0) = {}
      OBVIOUS
    <3> QED BY <3>1, <3>2, <3>3
  <2>2. ASSUME NEW n \in Nat, n \in Right PROVE n + 1 \in Right
    <3> SUFFICES ASSUME n + 1 <= Len(list)
                 PROVE  F[n + 1] \in Seq(S) /\ ToSet(F[n + 1]) = Before(n + 1)
      OBVIOUS
    <3>1. F[n] \in Seq(S) /\ ToSet(F[n]) = Before(n)
      BY <1>0, <2>2
    <3>2. n + 1 \in 1..Len(list) /\ list[n + 1] \in S
      BY <1>0, Elements
    <3>3. F[n + 1] = IF Contains(removed, list[n + 1]) THEN F[n]
                     ELSE Append(F[n], list[n + 1])
      <4>1. F[n + 1] = Step(F, n + 1)
        BY <1>4, <3>2
      <4>2. (n + 1) - 1 = n /\ n + 1 # 0
        OBVIOUS
      <4> QED BY <4>1, <4>2
    <3>4. Contains(removed, list[n + 1]) <=> list[n + 1] \in ToSet(removed)
      BY Elements
    <3>5. Before(n + 1) = Before(n) \cup ({list[n + 1]} \ ToSet(removed))
      <4>1. \A i \in 1..n + 1 : i \in 1..n \/ i = n + 1
        OBVIOUS
      <4>2. n + 1 \in 1..n + 1 /\ \A i \in 1..n : i \in 1..n + 1
        OBVIOUS
      <4> QED BY <4>1, <4>2
    <3> HIDE DEF Before
    <3>6. CASE Contains(removed, list[n + 1])
      BY <3>1, <3>3, <3>4, <3>5, <3>6
    <3>7. CASE ~Contains(removed, list[n + 1])
      <4>1. F[n + 1] \in Seq(S) /\ ToSet(F[n + 1]) = Before(n) \cup {list[n + 1]}
        BY <3>1, <3>2, <3>3, <3>7, AppendElements
      <4> QED BY <3>4, <3>5, <3>7, <4>1
    <3> QED BY <3>6, <3>7
  <2> HIDE DEF Right
  <2> QED BY <2>1, <2>2, Induct
<1>6. F[Len(list)] \in Seq(S) /\ ToSet(F[Len(list)]) = Before(Len(list))
  <2> HIDE DEF F, Before
  <2> QED BY <1>0, <1>5
<1>7. Before(Len(list)) = ToSet(list) \ ToSet(removed)
  BY Elements DEF ToSet
<1> HIDE DEF F, Before
<1> QED BY <1>3, <1>6, <1>7

-----------------------------------------------------------------------------
(* Reachability. *)

LEMMA ReachedStart ==
  ASSUME NEW G, NEW S, S \subseteq Module
  PROVE  S \subseteq ReachedIn(S, G)
BY DEF ReachedIn

LEMMA ReachedClosed ==
  ASSUME NEW G \in [Module -> SUBSET Module], NEW S, NEW m \in ReachedIn(S, G)
  PROVE  G[m] \subseteq ReachedIn(S, G)
BY DEF ReachedIn

LEMMA ReachedLeast ==
  ASSUME NEW G, NEW S, NEW T, T \subseteq Module, S \subseteq T,
         \A n \in T : G[n] \subseteq T
  PROVE  ReachedIn(S, G) \subseteq T
BY DEF ReachedIn

LEMMA ReachedFurther ==
  ASSUME NEW G \in [Module -> SUBSET Module], NEW S, NEW T, S \subseteq ReachedIn(T, G)
  PROVE  ReachedIn(S, G) \subseteq ReachedIn(T, G)
<1>1. ReachedIn(T, G) \subseteq Module
  BY DEF ReachedIn
<1>2. \A n \in ReachedIn(T, G) : G[n] \subseteq ReachedIn(T, G)
  BY ReachedClosed
<1> QED BY <1>1, <1>2, ReachedLeast

-----------------------------------------------------------------------------
(* The application. *)

LEMMA Input ==
  ASSUME app \in Applications
  PROVE  /\ app.roots \in Seq(Module)
         /\ app.requested \subseteq Module
         /\ \A m \in Module : /\ app.impl[m] \in Seq(Module) /\ app.via[m] \in Seq(Module)
                              /\ ToSet(app.impl[m]) \cap app.requested = {}
         /\ \A m \in Module \ app.requested : ToSet(app.via[m]) \cap app.requested = {}
BY ApplicationAssumption

LEMMA DepsElements ==
  ASSUME app \in Applications, NEW m \in Module
  PROVE  /\ Deps(m) \in Seq(Module) /\ ToSet(Deps(m)) = DependsOn(m)
         /\ DescriptorDeps(m) \in Seq(Module)
         /\ ToSet(DescriptorDeps(m)) = IF m \in app.requested THEN ToSet(app.via[m]) ELSE {}
         /\ DependsOn(m) \subseteq Module /\ ToSet(app.via[m]) \subseteq DependsOn(m)
<1>1. app.impl[m] \in Seq(Module) /\ app.via[m] \in Seq(Module)
  BY Input
<1>2. Deps(m) \in Seq(Module) /\ ToSet(Deps(m)) = DependsOn(m)
  BY <1>1, ConcatElements DEF Deps, DependsOn
<1>3. DependsOn(m) \subseteq Module
  BY <1>1, Elements DEF DependsOn
<1>4. <<>> \in Seq(Module) /\ ToSet(<<>>) = {}
  BY EmptySeq DEF ToSet
<1>5. DescriptorDeps(m) \in Seq(Module)
  BY <1>1, <1>4 DEF DescriptorDeps
<1>6. ToSet(DescriptorDeps(m)) = IF m \in app.requested THEN ToSet(app.via[m]) ELSE {}
  BY <1>4 DEF DescriptorDeps
<1> QED BY <1>2, <1>3, <1>5, <1>6 DEF DependsOn

LEMMA Graphs ==
  ASSUME app \in Applications
  PROVE  /\ Graph \in [Module -> SUBSET Module]
         /\ DescriptorGraph \in [Module -> SUBSET Module]
         /\ KnownGraph \in [Module -> SUBSET Module]
         /\ Follow \in [Module -> SUBSET Module]
         /\ \A m \in Module : /\ Graph[m] = DependsOn(m)
                              /\ DescriptorGraph[m] \subseteq KnownGraph[m]
                              /\ KnownGraph[m] \subseteq Graph[m]
<1>1. \A m \in Module :
        /\ DependsOn(m) \subseteq Module
        /\ ToSet(DescriptorDeps(m)) = IF m \in app.requested THEN ToSet(app.via[m]) ELSE {}
        /\ ToSet(app.via[m]) \subseteq DependsOn(m)
  BY DepsElements
<1>2. Graph \in [Module -> SUBSET Module]
  BY <1>1 DEF Graph
<1>3. DescriptorGraph \in [Module -> SUBSET Module]
  BY <1>1 DEF DescriptorGraph
<1>4. KnownGraph \in [Module -> SUBSET Module]
  BY <1>1 DEF KnownGraph
<1>5. \A m \in Module : /\ Graph[m] = DependsOn(m)
                        /\ DescriptorGraph[m] \subseteq KnownGraph[m]
                        /\ KnownGraph[m] \subseteq Graph[m]
  BY <1>1 DEF Graph, DescriptorGraph, KnownGraph
<1> QED BY <1>2, <1>3, <1>4, <1>5 DEF Follow

LEMMA UsedIsReached ==
  ASSUME app \in Applications
  PROVE  Used = ReachedIn(ToSet(app.roots), Graph)
BY DEF Used, Reached, ReachedIn, Graph

\* The application does not change.
LEMMA InputKept ==
  ASSUME UNCHANGED app
  PROVE  /\ \A m : /\ DependsOn(m)' = DependsOn(m) /\ Deps(m)' = Deps(m)
                   /\ DescriptorDeps(m)' = DescriptorDeps(m)
                   /\ ClaimsOf(m)' = ClaimsOf(m) /\ Userless(m)' = Userless(m)
         /\ Graph' = Graph /\ DescriptorGraph' = DescriptorGraph
         /\ KnownGraph' = KnownGraph /\ Known' = Known
         /\ Used' = Used /\ Cyclic' = Cyclic
<1>1. \A m : DependsOn(m)' = DependsOn(m)
  BY DEF DependsOn
<1>2. \A m : Deps(m)' = Deps(m) /\ DescriptorDeps(m)' = DescriptorDeps(m)
  BY DEF Deps, DescriptorDeps
<1>3. Graph' = Graph
  BY <1>1 DEF Graph
<1>4. DescriptorGraph' = DescriptorGraph
  BY <1>2 DEF DescriptorGraph
<1>5. KnownGraph' = KnownGraph
  BY <1>1 DEF KnownGraph
<1>6. Known' = Known /\ \A m : ClaimsOf(m)' = ClaimsOf(m)
  BY <1>3, <1>5 DEF Known, ClaimsOf
<1>7. Used' = Used
  BY DEF Used, Reached, DependsOn
<1>8. Cyclic' = Cyclic
  BY DEF Cyclic, Used, Reached, DependsOn
<1>9. \A m : Userless(m)' = Userless(m)
  BY <1>1, <1>7 DEF Userless
<1> QED BY <1>1, <1>2, <1>3, <1>4, <1>5, <1>6, <1>7, <1>8, <1>9

-----------------------------------------------------------------------------
(* What every step keeps. *)

LEMMA InitTypes == Init => LifecycleTypeOK
<1> SUFFICES ASSUME Init PROVE LifecycleTypeOK
  OBVIOUS
<1>1. app.roots \in Seq(Module)
  BY Input DEF Init
<1> QED BY <1>1, EmptySeq DEF Init, LifecycleTypeOK

\* What ModuleClosureVa goes on with.
LEMMA RestElements ==
  ASSUME LifecycleTypeOK, todo # <<>>
  PROVE  /\ Rest(Head(todo)) \in Seq(Module)
         /\ ToSet(Rest(Head(todo))) =
              (Follow[Head(todo)] \cup ToSet(Tail(todo))) \ (ToSet(closure) \cup {Head(todo)})
<1> DEFINE m == Head(todo)
           edges == IF purpose = "descriptors" THEN DescriptorDeps(m) ELSE Deps(m)
<1>0. app \in Applications /\ todo \in Seq(Module) /\ closure \in Seq(Module)
  BY DEF LifecycleTypeOK
<1>1. m \in Module /\ Tail(todo) \in Seq(Module)
  BY <1>0, HeadAndTail
<1>2. edges \in Seq(Module) /\ ToSet(edges) = Follow[m]
  <2>1. /\ Deps(m) \in Seq(Module) /\ DescriptorDeps(m) \in Seq(Module)
        /\ ToSet(Deps(m)) = DependsOn(m)
    BY <1>0, <1>1, DepsElements
  <2>2. Graph[m] = DependsOn(m) /\ DescriptorGraph[m] = ToSet(DescriptorDeps(m))
    BY <1>1 DEF Graph, DescriptorGraph
  <2> HIDE DEF m
  <2> QED BY <2>1, <2>2 DEF Follow
<1> HIDE DEF edges, m
<1>3. ASSUME NEW rest \in Seq(Module), NEW list, list = edges \o rest,
             NEW removed, removed = Append(closure, m)
      PROVE  /\ RemoveAll(list, removed) \in Seq(Module)
             /\ ToSet(RemoveAll(list, removed)) =
                  (Follow[m] \cup ToSet(rest)) \ (ToSet(closure) \cup {m})
  <2>1. list \in Seq(Module) /\ ToSet(list) = Follow[m] \cup ToSet(rest)
    <3>1. /\ edges \o rest \in Seq(Module)
          /\ ToSet(edges \o rest) = ToSet(edges) \cup ToSet(rest)
      BY <1>2, ConcatElements
    <3> QED BY <1>2, <1>3, <3>1
  <2>2. removed \in Seq(Module) /\ ToSet(removed) = ToSet(closure) \cup {m}
    <3>1. /\ Append(closure, m) \in Seq(Module)
          /\ ToSet(Append(closure, m)) = ToSet(closure) \cup {m}
      BY <1>0, <1>1, AppendElements
    <3> QED BY <1>3, <3>1
  <2>3. /\ RemoveAll(list, removed) \in Seq(Module)
        /\ ToSet(RemoveAll(list, removed)) = ToSet(list) \ ToSet(removed)
    BY <2>1, <2>2, RemoveAllElements
  <2> QED BY <2>1, <2>2, <2>3
<1>5. /\ RemoveAll(edges \o Tail(todo), Append(closure, m)) \in Seq(Module)
      /\ ToSet(RemoveAll(edges \o Tail(todo), Append(closure, m))) =
           (Follow[m] \cup ToSet(Tail(todo))) \ (ToSet(closure) \cup {m})
  BY <1>1, <1>3
<1>6. Rest(m) = RemoveAll(edges \o Tail(todo), Append(closure, m))
  BY DEF Rest, edges
<1> QED BY <1>5, <1>6 DEF m

LEMMA VisitsElements ==
  ASSUME NEW list \in Seq(Module)
  PROVE  /\ Visits(list) \in Seq(Visit) /\ Len(Visits(list)) = Len(list)
         /\ \A i \in 1..Len(list) : /\ Visits(list)[i] = ToVisit(list[i])
                                    /\ Visits(list)[i].node = list[i]
                                    /\ ~Visits(list)[i].entered
<1>1. Len(list) \in Nat /\ DOMAIN list = 1..Len(list) /\ \A i \in 1..Len(list) : list[i] \in Module
  BY Elements
<1>2. \A m \in Module : /\ ToVisit(m) \in Visit
                        /\ ToVisit(m).node = m /\ ToVisit(m).entered = FALSE
  BY DEF ToVisit, Visit
<1>3. Visits(list) = [i \in 1..Len(list) |-> ToVisit(list[i])]
  BY <1>1 DEF Visits
<1>4. Visits(list) \in [1..Len(list) -> Visit]
  BY <1>1, <1>2, <1>3
<1>5. Visits(list) \in Seq(Visit)
  BY <1>1, <1>4, SeqDef
<1>6. Len(Visits(list)) = Len(list)
  BY <1>1, <1>4, <1>5, LenProperties
<1>7. \A i \in 1..Len(list) : Visits(list)[i] = ToVisit(list[i])
  BY <1>3
<1> QED BY <1>1, <1>2, <1>5, <1>6, <1>7

\* The stack a module is entered on.
LEMMA AgendaElements ==
  ASSUME LifecycleTypeOK, stack # <<>>, NEW m, m = Top.node
  PROVE  LET n == Len(stack)
             pushed == Front(stack) \o Agenda(m)
         IN  /\ n \in Nat \ {0} /\ m \in Module
             /\ pushed \in Seq(Visit) /\ Len(pushed) = n + Len(Deps(m))
             /\ \A k \in 1..n - 1 : pushed[k] = stack[k]
             /\ pushed[n] = Entered(m)
             /\ \A i \in 1..Len(Deps(m)) : pushed[n + i] = ToVisit(Deps(m)[i])
<1> DEFINE n == Len(stack)
           later == Visits(Deps(m))
           front == Front(stack)
<1>1. /\ n \in Nat \ {0} /\ stack[n] = Top
      /\ front \in Seq(Visit) /\ Len(front) = n - 1
      /\ \A k \in 1..n - 1 : front[k] = stack[k]
  BY FrontElements DEF LifecycleTypeOK, Top
<1>2. m \in Module
  <2>1. n \in 1..n
    BY <1>1
  <2>2. stack[n] \in Visit
    BY <2>1, Elements DEF LifecycleTypeOK
  <2> QED BY <1>1, <2>2 DEF Visit
<1>3. Deps(m) \in Seq(Module)
  BY <1>2, DepsElements DEF LifecycleTypeOK
<1>4. /\ later \in Seq(Visit) /\ Len(later) = Len(Deps(m))
      /\ \A i \in 1..Len(Deps(m)) : later[i] = ToVisit(Deps(m)[i])
  BY <1>3, VisitsElements
<1>5. Entered(m) \in Visit /\ Agenda(m) = <<Entered(m)>> \o later
  BY <1>2 DEF Entered, Visit, Agenda
<1> HIDE DEF later, front, n
<1>6. /\ Agenda(m) \in Seq(Visit) /\ Len(Agenda(m)) = Len(later) + 1
      /\ Agenda(m)[1] = Entered(m)
      /\ \A i \in 1..Len(later) : Agenda(m)[i + 1] = later[i]
  <2>1. /\ <<Entered(m)>> \o later \in Seq(Visit)
        /\ Len(<<Entered(m)>> \o later) = Len(later) + 1
        /\ (<<Entered(m)>> \o later)[1] = Entered(m)
        /\ \A i \in 1..Len(later) : (<<Entered(m)>> \o later)[i + 1] = later[i]
    BY <1>4, <1>5, PrependElements
  <2> QED BY <1>5, <2>1
<1>7. /\ front \o Agenda(m) \in Seq(Visit)
      /\ Len(front \o Agenda(m)) = (n - 1) + (Len(later) + 1)
      /\ \A k \in 1..n - 1 : (front \o Agenda(m))[k] = stack[k]
      /\ \A i \in 1..Len(later) + 1 : (front \o Agenda(m))[(n - 1) + i] = Agenda(m)[i]
  <2> SUFFICES ASSUME NEW agenda, agenda = Agenda(m) PROVE
        /\ front \o agenda \in Seq(Visit)
        /\ Len(front \o agenda) = (n - 1) + (Len(later) + 1)
        /\ \A k \in 1..n - 1 : (front \o agenda)[k] = stack[k]
        /\ \A i \in 1..Len(later) + 1 : (front \o agenda)[(n - 1) + i] = agenda[i]
    OBVIOUS
  <2>0. agenda \in Seq(Visit) /\ Len(agenda) = Len(later) + 1
    BY <1>6
  <2>1. /\ front \o agenda \in Seq(Visit)
        /\ Len(front \o agenda) = Len(front) + Len(agenda)
        /\ \A k \in 1..Len(front) : (front \o agenda)[k] = front[k]
        /\ \A i \in 1..Len(agenda) : (front \o agenda)[Len(front) + i] = agenda[i]
    <3>1. front \in Seq(Visit) /\ agenda \in Seq(Visit)
      BY <1>1, <2>0
    <3> QED BY ONLY <3>1, ConcatElements
  <2>2. Len(front \o agenda) = (n - 1) + (Len(later) + 1)
    BY <1>1, <2>0, <2>1
  <2>3. \A k \in 1..n - 1 : (front \o agenda)[k] = stack[k]
    BY <1>1, <2>0, <2>1
  <2>4. \A i \in 1..Len(later) + 1 : (front \o agenda)[(n - 1) + i] = agenda[i]
    BY <1>1, <2>0, <2>1
  <2> QED BY <2>1, <2>2, <2>3, <2>4
<1>8. Len(later) \in Nat
  BY <1>4, Elements
<1>9. (front \o Agenda(m))[n] = Entered(m)
  <2>1. 1 \in 1..Len(later) + 1 /\ (n - 1) + 1 = n
    BY <1>1, <1>8
  <2> QED BY <1>6, <1>7, <2>1
<1>10. ASSUME NEW i \in 1..Len(Deps(m))
       PROVE  (front \o Agenda(m))[n + i] = ToVisit(Deps(m)[i])
  <2>1. i \in 1..Len(later) /\ i + 1 \in 1..Len(later) + 1 /\ (n - 1) + (i + 1) = n + i
    BY <1>1, <1>4, <1>8
  <2>2. (front \o Agenda(m))[(n - 1) + (i + 1)] = Agenda(m)[i + 1]
    BY <1>7, <2>1
  <2>3. Agenda(m)[i + 1] = ToVisit(Deps(m)[i])
    BY <1>4, <1>6, <2>1
  <2> QED BY <2>1, <2>2, <2>3
<1>11. (n - 1) + (Len(later) + 1) = n + Len(Deps(m))
  BY <1>1, <1>4, <1>8
<1> QED BY <1>1, <1>2, <1>7, <1>9, <1>10, <1>11 DEF front, n

-----------------------------------------------------------------------------
(* Closing the lists. *)

\* What is closed is all that is reached.
LEMMA ClosedIsReached ==
  ASSUME LifecycleTypeOK, ClosureInv, todo = <<>>
  PROVE  ToSet(closure) = ReachedIn(From, Follow)
<1>1. closure \in Seq(Module) /\ ToSet(closure) \subseteq Module
  BY Elements DEF LifecycleTypeOK
<1>2. ToSet(todo) = {}
  BY EmptySeq DEF ToSet
<1>3. Seen = ToSet(closure)
  BY <1>2 DEF Seen
<1>4. ReachedIn(From, Follow) \subseteq ToSet(closure)
  BY <1>1, <1>3, ReachedLeast DEF ClosureInv
<1> QED BY <1>3, <1>4 DEF ClosureInv

\* While the lists are closed there is nothing else.
LEMMA CollectingKept ==
  ASSUME LifecycleInv, stage = "collect", UNCHANGED <<input, stage, stack, order, ran>>
  PROVE  /\ ClosedInv' /\ VisitInv' /\ OrderInv' /\ PlaceInv' /\ StageInv' /\ RunInv'
         /\ app \in Applications /\ app' = app /\ allocated' = allocated
<1>1. /\ app' = app /\ allocated' = allocated /\ stage' = "collect" /\ ran' = ran
      /\ app \in Applications
  BY DEF LifecycleInv, LifecycleTypeOK, input
<1>2. stack = <<>> /\ order = <<>> /\ stack' = <<>> /\ order' = <<>>
  BY DEF LifecycleInv, StageInv
<1>3. DOMAIN <<>> = {} /\ ToSet(<<>>) = {}
  BY EmptySeq DEF ToSet
<1>4. ClosedInv'
  BY <1>1 DEF ClosedInv
<1>5. VisitInv'
  BY <1>1, <1>2, <1>3 DEF VisitInv
<1>6. OrderInv'
  BY <1>2, <1>3 DEF OrderInv, IsInjective
<1>7. PlaceInv'
  BY <1>2, <1>3 DEF PlaceInv
<1>8. StageInv'
  <2>1. ~InPass /\ ~InPass' /\ ran = <<>>
    BY <1>1 DEF InPass, LifecycleInv, StageInv
  <2> QED BY <1>1, <1>2, <2>1 DEF StageInv
<1>9. RunInv'
  BY <1>1 DEF RunInv, InPass
<1> QED BY <1>1, <1>4, <1>5, <1>6, <1>7, <1>8, <1>9

LEMMA CollectKept ==
  ASSUME LifecycleInv, Collect
  PROVE  LifecycleInv'
<1> DEFINE m == Head(todo)
<1> USE DEF LifecycleInv
<1>0. /\ ClosedInv' /\ VisitInv' /\ OrderInv' /\ PlaceInv' /\ StageInv' /\ RunInv'
      /\ app \in Applications /\ app' = app /\ allocated' = allocated
  BY CollectingKept DEF Collect
<1>1. /\ purpose' = purpose /\ descriptors' = descriptors /\ unread' = unread
      /\ collected' = collected /\ closure' = Append(closure, m) /\ todo' = Rest(m)
      /\ todo # <<>>
  BY DEF Collect, assembly
<1>2. closure \in Seq(Module) /\ todo \in Seq(Module)
  BY DEF LifecycleTypeOK
<1>3. m \in Module /\ Tail(todo) \in Seq(Module) /\ ToSet(todo) = {m} \cup ToSet(Tail(todo))
  BY <1>1, <1>2, HeadAndTail
<1>4. /\ todo' \in Seq(Module)
      /\ ToSet(todo') =
           (Follow[m] \cup ToSet(Tail(todo))) \ (ToSet(closure) \cup {m})
  BY <1>1, RestElements
<1>5. /\ closure' \in Seq(Module) /\ ToSet(closure') = ToSet(closure) \cup {m}
      /\ Len(closure') = Len(closure) + 1 /\ closure'[Len(closure) + 1] = m
      /\ \A i \in 1..Len(closure) : closure'[i] = closure[i]
  BY <1>1, <1>2, <1>3, AppendElements
<1>6. LifecycleTypeOK'
  BY <1>0, <1>1, <1>4, <1>5 DEF LifecycleTypeOK, Collect, input
<1>7. Follow' = Follow /\ From' = From /\ ReachedIn(From, Follow)' = ReachedIn(From, Follow)
  <2>1. Follow' = Follow
    BY <1>0, <1>1, InputKept DEF Follow
  <2>2. closure' # <<>>
    <3>1. Len(closure) \in Nat
      BY <1>2, Elements
    <3> QED BY <1>5, <3>1, EmptySeq
  <2>3. From' = From
    BY <1>0, <1>1, <2>2 DEF From
  <2> QED BY <2>1, <2>3 DEF ReachedIn
<1> HIDE DEF m
<1>8. Seen' = Seen \cup Follow[m]
  BY <1>3, <1>4, <1>5 DEF Seen
<1>9. ClosureInv'
  <2>1. m \notin ToSet(closure)
    BY <1>3 DEF ClosureInv
  <2>2. IsInjective(closure')
    <3>1. /\ DOMAIN closure = 1..Len(closure) /\ Len(closure) \in Nat
          /\ DOMAIN closure' = 1..Len(closure')
          /\ \A i \in 1..Len(closure) : closure[i] \in ToSet(closure)
      BY <1>2, <1>5, Elements
    <3>2. \A i \in 1..Len(closure') : i \in 1..Len(closure) \/ i = Len(closure) + 1
      BY <1>5, <3>1
    <3> SUFFICES ASSUME NEW a \in 1..Len(closure'), NEW b \in 1..Len(closure'),
                        closure'[a] = closure'[b]
                 PROVE  a = b
      BY <3>1 DEF IsInjective
    <3>3. CASE a \in 1..Len(closure) /\ b \in 1..Len(closure)
      BY <1>5, <3>1, <3>3 DEF ClosureInv, IsInjective
    <3>4. CASE a = Len(closure) + 1 \/ b = Len(closure) + 1
      BY <1>5, <2>1, <3>1, <3>2, <3>4
    <3> QED BY <3>2, <3>3, <3>4
  <2>3. ToSet(closure') \cap ToSet(todo') = {}
    BY <1>4, <1>5 DEF ClosureInv
  <2>4. From' \subseteq Seen'
    BY <1>7, <1>8 DEF ClosureInv
  <2>5. \A x \in ToSet(closure') : Follow'[x] \subseteq Seen'
    BY <1>5, <1>7, <1>8 DEF ClosureInv
  <2>6. Seen' \subseteq ReachedIn(From, Follow)'
    <3>1. m \in ReachedIn(From, Follow)
      BY <1>3 DEF ClosureInv, Seen
    <3>2. Follow[m] \subseteq ReachedIn(From, Follow)
      BY <1>0, <3>1, Graphs, ReachedClosed
    <3> QED BY <1>7, <1>8, <3>2 DEF ClosureInv
  <2> QED BY <2>2, <2>3, <2>4, <2>5, <2>6 DEF ClosureInv
<1>10. AssemblyInv'
  <2>1. Known' = Known /\ \A d : ClaimsOf(d)' = ClaimsOf(d)
    BY <1>0, InputKept
  <2>2. ReachedIn(ToSet(app.roots), DescriptorGraph)' = ReachedIn(ToSet(app.roots), DescriptorGraph)
    BY <1>0, InputKept DEF ReachedIn
  <2> QED BY <1>0, <1>1, <2>1, <2>2 DEF AssemblyInv
<1> QED BY <1>0, <1>6, <1>9, <1>10

\* Nothing is being closed.
LEMMA NothingClosed ==
  ASSUME IsInjective(<<>>), closure = <<>>, From \subseteq ToSet(todo),
         ToSet(todo) \subseteq From, From \subseteq Module
  PROVE  ClosureInv
<1>1. ToSet(closure) = {}
  BY EmptySeq DEF ToSet
<1>2. Seen = From
  BY <1>1 DEF Seen
<1> QED BY <1>1, <1>2, ReachedStart DEF ClosureInv

LEMMA InitKept == Init => LifecycleInv
<1> SUFFICES ASSUME Init PROVE LifecycleInv
  OBVIOUS
<1>1. LifecycleTypeOK
  BY InitTypes
<1>2. DOMAIN <<>> = {} /\ ToSet(<<>>) = {}
  BY EmptySeq DEF ToSet
<1>3. stack = <<>> /\ order = <<>> /\ ran = <<>> /\ closure = <<>> /\ stage = "collect"
  BY DEF Init
<1>4. ClosureInv
  <2>1. From = ToSet(app.roots)
    BY DEF From, Init
  <2>2. ToSet(app.roots) \subseteq Module
    BY <1>1, Input, Elements DEF LifecycleTypeOK
  <2>3. IsInjective(<<>>)
    BY <1>2 DEF IsInjective
  <2> QED BY <2>1, <2>2, <2>3, NothingClosed DEF Init
<1>5. AssemblyInv
  BY DEF AssemblyInv, Init
<1>6. ClosedInv
  BY <1>3 DEF ClosedInv
<1>7. VisitInv
  BY <1>2, <1>3 DEF VisitInv
<1>8. OrderInv
  BY <1>2, <1>3 DEF OrderInv, IsInjective
<1>9. PlaceInv
  BY <1>2, <1>3 DEF PlaceInv
<1>10. StageInv
  BY <1>3 DEF StageInv, InPass
<1>11. RunInv
  BY <1>3 DEF RunInv, InPass
<1> QED BY <1>1, <1>4, <1>5, <1>6, <1>7, <1>8, <1>9, <1>10, <1>11 DEF LifecycleInv

\* What a step of the assembly is about.
LEMMA ClosedTodo ==
  ASSUME LifecycleInv, stage = "collect", todo = <<>>,
         UNCHANGED <<input, stage, stack, order, ran>>
  PROVE  /\ ToSet(closure) = ReachedIn(From, Follow)
         /\ app \in Applications /\ app' = app /\ allocated' = allocated
         /\ Known' = Known /\ \A d : ClaimsOf(d)' = ClaimsOf(d)
         /\ ReachedIn(ToSet(app.roots), DescriptorGraph)' =
              ReachedIn(ToSet(app.roots), DescriptorGraph)
         /\ IsInjective(<<>>) /\ ToSet(<<>>) = {} /\ <<>> \in Seq(Module)
         /\ Known \subseteq Module /\ ToSet(app.roots) \subseteq Module
<1>1. app \in Applications /\ app' = app /\ allocated' = allocated
  BY CollectingKept
<1>2. ToSet(closure) = ReachedIn(From, Follow)
  BY ClosedIsReached DEF LifecycleInv
<1>3. Known' = Known /\ \A d : ClaimsOf(d)' = ClaimsOf(d)
  BY <1>1, InputKept
<1>4. ReachedIn(ToSet(app.roots), DescriptorGraph)' =
        ReachedIn(ToSet(app.roots), DescriptorGraph)
  BY <1>1, InputKept DEF ReachedIn
<1>5. DOMAIN <<>> = {} /\ <<>> \in Seq(Module)
  BY EmptySeq
<1>6. IsInjective(<<>>) /\ ToSet(<<>>) = {}
  BY <1>5 DEF IsInjective, ToSet
<1>7. Known \subseteq Module
  BY DEF Known, ReachedIn
<1>8. ToSet(app.roots) \subseteq Module
  BY <1>1, Input, Elements
<1> QED BY <1>1, <1>2, <1>3, <1>4, <1>5, <1>6, <1>7, <1>8

LEMMA CloseDescriptorsKept ==
  ASSUME LifecycleInv, CloseDescriptors
  PROVE  LifecycleInv'
<1> USE DEF LifecycleInv
<1>0. /\ ClosedInv' /\ VisitInv' /\ OrderInv' /\ PlaceInv' /\ StageInv' /\ RunInv'
  BY CollectingKept DEF CloseDescriptors, Closed
<1>1. /\ stage = "collect" /\ purpose = "descriptors" /\ todo = <<>> /\ purpose' = "claims"
      /\ descriptors' = closure /\ unread' = closure /\ closure' = <<>>
      /\ todo' = <<>> /\ collected' = collected
      /\ UNCHANGED <<input, stage, stack, order, ran>>
  BY DEF CloseDescriptors, Closed
<1>2. /\ ToSet(closure) = ReachedIn(From, Follow)
      /\ app \in Applications /\ app' = app /\ allocated' = allocated
      /\ Known' = Known /\ \A d : ClaimsOf(d)' = ClaimsOf(d)
      /\ ReachedIn(ToSet(app.roots), DescriptorGraph)' =
           ReachedIn(ToSet(app.roots), DescriptorGraph)
      /\ IsInjective(<<>>) /\ ToSet(<<>>) = {} /\ <<>> \in Seq(Module)
  BY <1>1, ClosedTodo
<1>3. LifecycleTypeOK'
  BY <1>1, <1>2 DEF LifecycleTypeOK, input
<1>4. ClosureInv'
  <2>1. From' = {}
    BY <1>1 DEF From
  <2> QED BY <1>1, <1>2, <2>1 DEF ClosureInv, Seen
<1>5. AssemblyInv'
  <2>1. ToSet(closure) = ReachedIn(ToSet(app.roots), DescriptorGraph)
    BY <1>1, <1>2 DEF From, Follow
  <2> QED BY <1>1, <1>2, <2>1 DEF AssemblyInv
<1> QED BY <1>0, <1>3, <1>4, <1>5

\* A descriptor's claims are read.
LEMMA ClaimsRead ==
  ASSUME LifecycleInv, purpose = "claims", unread # <<>>,
         stage = "collect", todo = <<>>,
         UNCHANGED <<input, stage, purpose, descriptors, stack, order, ran>>,
         collected' = collected \cup ClaimsOf(Head(unread)),
         ClaimsOf(Head(unread)) \subseteq Known,
         unread' = Tail(unread), todo' = <<>>, closure' = <<>>
  PROVE  LifecycleInv'
<1> DEFINE h == Head(unread)
<1> USE DEF LifecycleInv
<1>0. /\ ClosedInv' /\ VisitInv' /\ OrderInv' /\ PlaceInv' /\ StageInv' /\ RunInv'
  BY CollectingKept
<1>1. /\ app \in Applications /\ app' = app /\ allocated' = allocated
      /\ Known' = Known /\ \A d : ClaimsOf(d)' = ClaimsOf(d)
      /\ ReachedIn(ToSet(app.roots), DescriptorGraph)' =
           ReachedIn(ToSet(app.roots), DescriptorGraph)
      /\ IsInjective(<<>>) /\ ToSet(<<>>) = {} /\ <<>> \in Seq(Module)
      /\ Known \subseteq Module
  BY ClosedTodo
<1>2. h \in Module /\ Tail(unread) \in Seq(Module) /\ ToSet(unread) = {h} \cup ToSet(Tail(unread))
  BY HeadAndTail DEF LifecycleTypeOK
<1>3. LifecycleTypeOK'
  BY <1>1, <1>2 DEF LifecycleTypeOK, input
<1>4. ClosureInv'
  <2>1. From' = {}
    BY DEF From
  <2> QED BY <1>1, <2>1 DEF ClosureInv, Seen
<1>5. AssemblyInv'
  <2> HIDE DEF h
  <2>1. ToSet(unread') \subseteq ToSet(descriptors)
    BY <1>2 DEF AssemblyInv, h
  <2>2. \A d \in ToSet(descriptors) \ ToSet(unread') : ClaimsOf(d) \subseteq collected'
    BY <1>2 DEF AssemblyInv, h
  <2> QED BY <1>1, <2>1, <2>2 DEF AssemblyInv
<1> QED BY <1>0, <1>3, <1>4, <1>5

\* The descriptors are known.
LEMMA DescriptorsKnown ==
  ASSUME app \in Applications
  PROVE  ReachedIn(ToSet(app.roots), DescriptorGraph) \subseteq Known
<1>1. ToSet(app.roots) \subseteq Known
  BY Input, Elements, ReachedStart DEF Known
<1>2. Known \subseteq Module
  BY DEF Known, ReachedIn
<1>3. \A n \in Known : DescriptorGraph[n] \subseteq Known
  <2> TAKE n \in Known
  <2>1. KnownGraph[n] \subseteq Known
    BY Graphs, ReachedClosed DEF Known
  <2> QED BY <1>2, <2>1, Graphs
<1> QED BY <1>1, <1>2, <1>3, ReachedLeast

LEMMA ReadRequestedKept ==
  ASSUME LifecycleInv, ReadRequested
  PROVE  LifecycleInv'
<1> DEFINE h == Head(unread)
<1>1. /\ stage = "collect" /\ purpose = "claims" /\ todo = <<>> /\ unread # <<>>
      /\ h \in app.requested /\ collected' = collected \cup {h}
      /\ unread' = Tail(unread)
      /\ UNCHANGED <<input, stage, purpose, todo, closure, descriptors, stack, order, ran>>
  BY DEF ReadRequested, Closed
<1>2. closure = <<>>
  BY <1>1 DEF LifecycleInv, AssemblyInv
<1>3. ClaimsOf(h) = {h}
  BY <1>1 DEF ClaimsOf
<1>4. h \in Known
  <2>1. h \in ToSet(unread)
    BY <1>1, HeadAndTail DEF LifecycleInv, LifecycleTypeOK
  <2>2. h \in ToSet(descriptors)
    BY <1>1, <2>1 DEF LifecycleInv, AssemblyInv
  <2>3. ToSet(descriptors) \subseteq Known
    BY <1>1, DescriptorsKnown DEF LifecycleInv, AssemblyInv, LifecycleTypeOK
  <2> QED BY <2>2, <2>3
<1> QED BY <1>1, <1>2, <1>3, <1>4, ClaimsRead

LEMMA OpenExistingKept ==
  ASSUME LifecycleInv, OpenExisting
  PROVE  LifecycleInv'
<1> DEFINE h == Head(unread)
<1> USE DEF LifecycleInv
<1>0. /\ ClosedInv' /\ VisitInv' /\ OrderInv' /\ PlaceInv' /\ StageInv' /\ RunInv'
  BY CollectingKept DEF OpenExisting, Closed
<1>1. /\ stage = "collect" /\ purpose = "claims" /\ todo = <<>> /\ unread # <<>>
      /\ closure = <<>> /\ h \notin app.requested /\ todo' = <<h>>
      /\ UNCHANGED <<input, stage, purpose, closure, descriptors, unread, collected,
                     stack, order, ran>>
  BY DEF OpenExisting, Closed, assembly
<1>2. /\ app \in Applications /\ app' = app /\ allocated' = allocated
      /\ Known' = Known /\ \A d : ClaimsOf(d)' = ClaimsOf(d)
      /\ ReachedIn(ToSet(app.roots), DescriptorGraph)' =
           ReachedIn(ToSet(app.roots), DescriptorGraph)
      /\ IsInjective(<<>>)
  BY <1>1, ClosedTodo
<1>3. h \in Module
  BY <1>1, HeadAndTail DEF LifecycleTypeOK
<1>4. todo' \in Seq(Module) /\ ToSet(todo') = {h} /\ todo' # <<>>
  <2>1. todo' \in Seq(Module) /\ Len(todo') = 1 /\ todo'[1] = h
    BY <1>1, <1>3
  <2>2. \A x : x \in ToSet(todo') <=> \E i \in 1..1 : todo'[i] = x
    BY <2>1, Elements
  <2>3. \A i \in 1..1 : i = 1
    OBVIOUS
  <2> QED BY <2>1, <2>2, <2>3, EmptySeq
<1>5. LifecycleTypeOK'
  BY <1>1, <1>2, <1>4 DEF LifecycleTypeOK, input
<1>6. ClosureInv'
  <2>1. From' = {h}
    BY <1>1, <1>4 DEF From
  <2>2. Seen' = {h} /\ ToSet(closure') = {}
    BY <1>1, <1>4, EmptySeq DEF Seen, ToSet
  <2>3. {h} \subseteq ReachedIn({h}, Follow')
    BY <1>3, ReachedStart
  <2>4. ReachedIn(From, Follow)' = ReachedIn({h}, Follow')
    BY <2>1 DEF ReachedIn
  <2> QED BY <1>1, <1>2, <2>1, <2>2, <2>3, <2>4 DEF ClosureInv
<1>7. AssemblyInv'
  BY <1>1, <1>2 DEF AssemblyInv
<1> QED BY <1>0, <1>5, <1>6, <1>7

\* An existing module brings in modules that are not requested only.
LEMMA ExistingClaimsKnown ==
  ASSUME app \in Applications, NEW h \in Known \ app.requested
  PROVE  ReachedIn({h}, Graph) \subseteq Known
<1> DEFINE T == Known \ app.requested
<1>1. T \subseteq Module
  BY DEF Known, ReachedIn
<1>2. \A n \in T : Graph[n] \subseteq T
  <2> TAKE n \in T
  <2>1. n \in Module
    BY <1>1
  <2>2. Graph[n] = DependsOn(n) /\ KnownGraph[n] = DependsOn(n)
    BY <2>1 DEF Graph, KnownGraph
  <2>3. KnownGraph[n] \subseteq Known
    BY Graphs, ReachedClosed DEF Known
  <2>4. DependsOn(n) \cap app.requested = {}
    BY <2>1, Input DEF DependsOn
  <2> QED BY <2>2, <2>3, <2>4
<1>3. ReachedIn({h}, Graph) \subseteq T
  <2> HIDE DEF T
  <2>1. {h} \subseteq T
    BY DEF T
  <2> QED BY <1>1, <1>2, <2>1, ReachedLeast
<1> QED BY <1>3

LEMMA ReadExistingKept ==
  ASSUME LifecycleInv, ReadExisting
  PROVE  LifecycleInv'
<1> DEFINE h == Head(unread)
<1>1. /\ stage = "collect" /\ purpose = "claims" /\ todo = <<>> /\ closure # <<>>
      /\ collected' = collected \cup ToSet(closure)
      /\ unread' = Tail(unread) /\ closure' = <<>>
      /\ UNCHANGED <<input, stage, purpose, todo, descriptors, stack, order, ran>>
  BY DEF ReadExisting, Closed, ModuleClaims
<1>2. unread # <<>> /\ h \notin app.requested /\ app \in Applications
  BY <1>1 DEF LifecycleInv, AssemblyInv, LifecycleTypeOK
<1>3. ToSet(closure) = ClaimsOf(h)
  <2>1. ToSet(closure) = ReachedIn(From, Follow)
    BY <1>1, ClosedIsReached DEF LifecycleInv
  <2>2. From = {h} /\ Follow = Graph
    BY <1>1 DEF From, Follow
  <2> QED BY <1>2, <2>1, <2>2 DEF ClaimsOf
<1>4. h \in Known
  <2>1. h \in ToSet(unread)
    BY <1>2, HeadAndTail DEF LifecycleInv, LifecycleTypeOK
  <2>2. h \in ToSet(descriptors)
    BY <1>1, <2>1 DEF LifecycleInv, AssemblyInv
  <2>3. ToSet(descriptors) \subseteq Known
    BY <1>1, DescriptorsKnown DEF LifecycleInv, AssemblyInv, LifecycleTypeOK
  <2> QED BY <2>2, <2>3
<1>5. ClaimsOf(h) \subseteq Known
  BY <1>2, <1>4, ExistingClaimsKnown DEF ClaimsOf
<1> QED BY <1>1, <1>2, <1>3, <1>5, ClaimsRead

\* All claims have been read when the descriptors' have.
LEMMA AllClaimsRead ==
  ASSUME app \in Applications, NEW D, NEW claims,
         D = ReachedIn(ToSet(app.roots), DescriptorGraph),
         \A d \in D : ClaimsOf(d) \subseteq claims
  PROVE  Known \subseteq claims
<1> DEFINE T == UNION {ClaimsOf(d) : d \in D}
<1>0. D \subseteq Module /\ ToSet(app.roots) \subseteq Module
  BY Input, Elements DEF ReachedIn
<1>1. \A d \in Module : d \in ClaimsOf(d) /\ ClaimsOf(d) \subseteq Module
  <2> TAKE d \in Module
  <2>1. {d} \subseteq ReachedIn({d}, Graph)
    BY ReachedStart
  <2> QED BY <2>1 DEF ClaimsOf, ReachedIn
<1>2. D \subseteq T /\ T \subseteq Module
  BY <1>0, <1>1
<1>3. ToSet(app.roots) \subseteq D
  BY <1>0, ReachedStart
<1>4. ASSUME NEW n \in T PROVE KnownGraph[n] \subseteq T
  <2>1. PICK d \in D : n \in ClaimsOf(d)
    OBVIOUS
  <2>2. n \in Module /\ d \in Module
    BY <1>0, <1>2
  <2>3. CASE d \in app.requested
    <3>1. n = d
      BY <2>1, <2>3 DEF ClaimsOf
    <3>2. DescriptorGraph[d] \subseteq D
      BY Graphs, ReachedClosed
    <3>3. KnownGraph[d] = DescriptorGraph[d]
      BY <2>2, <2>3, DepsElements DEF KnownGraph, DescriptorGraph
    <3> QED BY <1>2, <3>1, <3>2, <3>3
  <2>4. CASE d \notin app.requested
    <3>1. ClaimsOf(d) = ReachedIn({d}, Graph)
      BY <2>4 DEF ClaimsOf
    <3>2. Graph[n] \subseteq ReachedIn({d}, Graph)
      BY <2>1, <3>1, Graphs, ReachedClosed
    <3>3. KnownGraph[n] \subseteq Graph[n]
      BY <2>2, Graphs
    <3> QED BY <3>1, <3>2, <3>3
  <2> QED BY <2>3, <2>4
<1>5. Known \subseteq T
  <2> HIDE DEF T
  <2> QED BY <1>2, <1>3, <1>4, ReachedLeast DEF Known
<1> QED BY <1>5

LEMMA BindDescriptorsKept ==
  ASSUME LifecycleInv, BindDescriptors
  PROVE  LifecycleInv'
<1> USE DEF LifecycleInv
<1>0. /\ ClosedInv' /\ VisitInv' /\ OrderInv' /\ PlaceInv' /\ StageInv' /\ RunInv'
  BY CollectingKept DEF BindDescriptors, Closed
<1>1. /\ stage = "collect" /\ purpose = "claims" /\ todo = <<>> /\ unread = <<>>
      /\ purpose' = "modules" /\ todo' = descriptors
      /\ UNCHANGED <<input, stage, closure, descriptors, unread, collected,
                     stack, order, ran>>
  BY DEF BindDescriptors, Closed, assembly
<1>2. /\ app \in Applications /\ app' = app /\ allocated' = allocated
      /\ Known' = Known
      /\ ReachedIn(ToSet(app.roots), DescriptorGraph)' =
           ReachedIn(ToSet(app.roots), DescriptorGraph)
      /\ IsInjective(<<>>) /\ ToSet(<<>>) = {}
  BY <1>1, ClosedTodo
<1>3. closure = <<>> /\ allocated
  BY <1>1 DEF AssemblyInv
<1>4. LifecycleTypeOK'
  BY <1>1, <1>2 DEF LifecycleTypeOK, input
<1>5. ClosureInv'
  <2>1. From' = ToSet(descriptors)
    BY <1>1, <1>2, <1>3 DEF From
  <2>2. ToSet(descriptors) \subseteq Module
    BY Elements DEF LifecycleTypeOK
  <2>3. Seen' = ToSet(descriptors) /\ ToSet(closure') = {}
    BY <1>1, <1>2, <1>3 DEF Seen
  <2>4. ToSet(descriptors) \subseteq ReachedIn(ToSet(descriptors), Follow')
    BY <2>2, ReachedStart
  <2>5. ReachedIn(From, Follow)' = ReachedIn(ToSet(descriptors), Follow')
    BY <2>1 DEF ReachedIn
  <2> QED BY <1>1, <1>2, <1>3, <2>1, <2>3, <2>4, <2>5 DEF ClosureInv
<1>6. AssemblyInv'
  <2>1. ToSet(descriptors) = ReachedIn(ToSet(app.roots), DescriptorGraph)
    BY <1>1, <1>3 DEF AssemblyInv
  <2>2. \A d \in ToSet(descriptors) : ClaimsOf(d) \subseteq collected
    BY <1>1, <1>2 DEF AssemblyInv
  <2>3. Known \subseteq collected
    BY <1>2, <2>1, <2>2, AllClaimsRead
  <2> QED BY <1>1, <1>2, <1>3, <2>1, <2>3 DEF AssemblyInv
<1> QED BY <1>0, <1>4, <1>5, <1>6

-----------------------------------------------------------------------------
(* Ordering. *)

\* What is closed last is what the application uses.
LEMMA ClosedIsUsed ==
  ASSUME LifecycleTypeOK, ClosureInv, AssemblyInv, purpose = "modules", todo = <<>>
  PROVE  ToSet(closure) = Used
<1> DEFINE D == ReachedIn(ToSet(app.roots), DescriptorGraph)
           R == ToSet(app.roots)
<1>0. app \in Applications
  BY DEF LifecycleTypeOK
<1>1. ToSet(closure) = ReachedIn(From, Graph)
  BY ClosedIsReached DEF Follow
<1>2. Used = ReachedIn(R, Graph)
  BY <1>0, UsedIsReached
<1>3. CASE ~allocated
  BY <1>1, <1>2, <1>3 DEF From
<1>4. CASE allocated
  <2>1. From = D
    BY <1>4 DEF From, AssemblyInv
  <2>2. R \subseteq Module /\ D \subseteq Module
    BY <1>0, Input, Elements DEF ReachedIn
  <2>3. R \subseteq ReachedIn(R, Graph) /\ R \subseteq D
    BY <2>2, ReachedStart
  <2>4. D \subseteq ReachedIn(R, Graph)
    <3>1. ReachedIn(R, Graph) \subseteq Module
      BY DEF ReachedIn
    <3>2. ASSUME NEW n \in ReachedIn(R, Graph)
          PROVE  DescriptorGraph[n] \subseteq ReachedIn(R, Graph)
      <4>1. Graph[n] \subseteq ReachedIn(R, Graph)
        BY <1>0, Graphs, ReachedClosed
      <4>2. DescriptorGraph[n] \subseteq Graph[n]
        BY <1>0, <3>1, Graphs
      <4> QED BY <4>1, <4>2
    <3> QED BY <2>3, <3>1, <3>2, ReachedLeast
  <2>5. ReachedIn(D, Graph) \subseteq ReachedIn(R, Graph)
    BY <1>0, <2>4, Graphs, ReachedFurther
  <2>6. R \subseteq ReachedIn(D, Graph)
    <3>1. D \subseteq ReachedIn(D, Graph)
      BY <2>2, ReachedStart
    <3> QED BY <2>3, <3>1
  <2>7. ReachedIn(R, Graph) \subseteq ReachedIn(D, Graph)
    BY <1>0, <2>6, Graphs, ReachedFurther
  <2> QED BY <1>1, <1>2, <2>1, <2>5, <2>7
<1> QED BY <1>3, <1>4

\* What the closed lists are stays.
LEMMA ClosingKept ==
  ASSUME LifecycleInv, UNCHANGED <<input, closing>>
  PROVE  /\ ClosureInv' /\ AssemblyInv'
         /\ app \in Applications /\ app' = app /\ allocated' = allocated
         /\ purpose' = purpose /\ todo' = todo /\ closure' = closure
         /\ Used' = Used /\ Cyclic' = Cyclic /\ Graph' = Graph
         /\ \A m : DependsOn(m)' = DependsOn(m) /\ Userless(m)' = Userless(m)
<1>1. /\ app \in Applications /\ app' = app /\ allocated' = allocated
      /\ purpose' = purpose /\ todo' = todo /\ closure' = closure
      /\ descriptors' = descriptors /\ unread' = unread /\ collected' = collected
  BY DEF input, closing, assembly, LifecycleInv, LifecycleTypeOK
<1>2. /\ Used' = Used /\ Cyclic' = Cyclic /\ Graph' = Graph
      /\ DescriptorGraph' = DescriptorGraph /\ Known' = Known
      /\ \A m : /\ DependsOn(m)' = DependsOn(m) /\ Userless(m)' = Userless(m)
                /\ ClaimsOf(m)' = ClaimsOf(m)
  BY <1>1, InputKept
<1>3. ClosureInv'
  <2>1. From' = From /\ Follow' = Follow /\ Seen' = Seen
    BY <1>1, <1>2 DEF From, Follow, Seen
  <2>2. ReachedIn(From, Follow)' = ReachedIn(From, Follow)
    BY <2>1 DEF ReachedIn
  <2> QED BY <1>1, <2>1, <2>2 DEF LifecycleInv, ClosureInv
<1>4. AssemblyInv'
  <2>1. ReachedIn(ToSet(app.roots), DescriptorGraph)' =
          ReachedIn(ToSet(app.roots), DescriptorGraph)
    BY <1>1, <1>2 DEF ReachedIn
  <2> QED BY <1>1, <1>2, <2>1 DEF LifecycleInv, AssemblyInv
<1> QED BY <1>1, <1>2, <1>3, <1>4

LEMMA StartOrderKept ==
  ASSUME LifecycleInv, StartOrder
  PROVE  LifecycleInv'
<1> USE DEF LifecycleInv
<1>1. /\ stage = "collect" /\ purpose = "modules" /\ todo = <<>>
      /\ stage' = "order" /\ stack' = Visits(closure)
      /\ UNCHANGED <<input, closing, order, ran>>
  BY DEF StartOrder, Closed
<1>2. /\ ClosureInv' /\ AssemblyInv'
      /\ app \in Applications /\ app' = app /\ allocated' = allocated
      /\ purpose' = purpose /\ todo' = todo /\ closure' = closure
      /\ Used' = Used /\ \A m : DependsOn(m)' = DependsOn(m) /\ Userless(m)' = Userless(m)
  BY <1>1, ClosingKept
<1>3. closure \in Seq(Module)
  BY DEF LifecycleTypeOK
<1>4. ToSet(closure) = Used
  BY <1>1, ClosedIsUsed
<1>5. /\ stack' \in Seq(Visit) /\ Len(stack') = Len(closure)
      /\ \A i \in 1..Len(closure) : stack'[i].node = closure[i] /\ ~stack'[i].entered
  BY <1>1, <1>3, VisitsElements
<1>6. DOMAIN stack' = 1..Len(closure) /\ DOMAIN closure = 1..Len(closure)
  BY <1>3, <1>5, LenProperties
<1>7. order' = <<>> /\ ToSet(order') = {} /\ DOMAIN order' = {}
  BY <1>1, EmptySeq DEF StageInv, ToSet
<1>8. LifecycleTypeOK'
  BY <1>1, <1>2, <1>5 DEF LifecycleTypeOK, input, closing, assembly
<1>9. ClosedInv'
  BY <1>1, <1>2, <1>4 DEF ClosedInv, ClosureInv
<1>10. VisitInv'
  <2>1. \A i \in 1..Len(closure) : closure[i] \in Used
    BY <1>3, <1>4, Elements
  <2>2. \A m \in Used : \E i \in 1..Len(closure) : closure[i] = m
    BY <1>3, <1>4, Elements
  <2> QED BY <1>1, <1>2, <1>5, <1>6, <1>7, <2>1, <2>2 DEF VisitInv
<1>11. OrderInv'
  BY <1>7 DEF OrderInv, IsInjective
<1>12. PlaceInv'
  BY <1>2, <1>5, <1>6, <1>7 DEF PlaceInv
<1>13. StageInv' /\ RunInv'
  <2>1. ~InPass /\ ~InPass'
    BY <1>1 DEF InPass
  <2> QED BY <1>1, <1>2, <2>1 DEF StageInv, RunInv
<1> QED BY <1>2, <1>8, <1>9, <1>10, <1>11, <1>12, <1>13

\* What a visit on the top is about.
LEMMA TopElements ==
  ASSUME LifecycleInv, stage = "order", stack # <<>>
  PROVE  LET n == Len(stack)
             m == Top.node
         IN  /\ n \in Nat \ {0} /\ n \in DOMAIN stack /\ DOMAIN stack = 1..n
             /\ stack[n] = Top /\ m \in Used /\ m \in Module
             /\ \A k \in 1..n : stack[k] \in Visit
             /\ Front(stack) \in Seq(Visit) /\ DOMAIN Front(stack) = 1..n - 1
             /\ \A k \in 1..n - 1 : Front(stack)[k] = stack[k]
<1> DEFINE n == Len(stack)
<1>1. /\ n \in Nat \ {0} /\ stack[n] = Top
      /\ Front(stack) \in Seq(Visit) /\ Len(Front(stack)) = n - 1
      /\ \A k \in 1..n - 1 : Front(stack)[k] = stack[k]
  BY FrontElements DEF LifecycleInv, LifecycleTypeOK, Top
<1>2. DOMAIN stack = 1..n /\ \A k \in 1..n : stack[k] \in Visit
  BY Elements DEF LifecycleInv, LifecycleTypeOK
<1>3. n \in 1..n
  BY <1>1
<1>4. DOMAIN Front(stack) = 1..n - 1
  BY <1>1, LenProperties
<1>5. Top.node \in Used
  BY <1>1, <1>2, <1>3 DEF LifecycleInv, VisitInv
<1>6. Top.node \in Module
  BY <1>1, <1>2, <1>3 DEF Visit
<1> QED BY <1>1, <1>2, <1>3, <1>4, <1>5, <1>6

LEMMA SkipCompleteKept ==
  ASSUME LifecycleInv, SkipComplete
  PROVE  LifecycleInv'
<1> DEFINE n == Len(stack)
           m == Top.node
<1> USE DEF LifecycleInv
<1>1. /\ stage = "order" /\ stack # <<>> /\ ~Top.entered /\ Complete(m)
      /\ stack' = Front(stack)
      /\ UNCHANGED <<input, stage, closing, order, ran>>
  BY DEF SkipComplete, AtVisit
<1>2. /\ ClosureInv' /\ AssemblyInv'
      /\ app \in Applications /\ app' = app /\ allocated' = allocated
      /\ purpose' = purpose /\ todo' = todo /\ closure' = closure
      /\ Used' = Used /\ Cyclic' = Cyclic /\ Graph' = Graph
      /\ \A x : DependsOn(x)' = DependsOn(x) /\ Userless(x)' = Userless(x)
  BY <1>1, ClosingKept
<1>3. /\ n \in Nat \ {0} /\ DOMAIN stack = 1..n /\ stack[n].node = m
      /\ stack' \in Seq(Visit) /\ DOMAIN stack' = 1..n - 1
      /\ \A k \in 1..n - 1 : stack'[k] = stack[k]
  BY <1>1, TopElements
<1>4. m \in ToSet(order)
  BY <1>1, Elements DEF Complete, LifecycleTypeOK
<1> HIDE DEF n, m
<1>5. \A k \in 1..n - 1 : k \in 1..n
  BY <1>3
<1>6. \A k \in 1..n : k \in 1..n - 1 \/ k = n
  BY <1>3
<1>7. LifecycleTypeOK'
  BY <1>1, <1>2, <1>3 DEF LifecycleTypeOK, input, closing, assembly
<1>8. ClosedInv'
  BY <1>1, <1>2 DEF ClosedInv
<1>9. VisitInv'
  <2>1. \A x : ReachedIn(DependsOn(x), Graph)' = ReachedIn(DependsOn(x), Graph)
    BY <1>2 DEF ReachedIn
  <2>2. \A k \in 1..n - 1 : stack'[k].node \in Used'
    BY <1>2, <1>3, <1>5 DEF VisitInv
  <2>3. \A x \in Used : x \in ToSet(order) \/ \E k \in 1..n - 1 : stack'[k].node = x
    BY <1>1, <1>3, <1>4, <1>6 DEF VisitInv
  <2>4. \A k, l \in 1..n - 1 : stack'[k] = stack'[l] /\ stack'[k].entered => k = l
    BY <1>3, <1>5 DEF VisitInv
  <2>5. \A k \in 1..n - 1 : stack'[k].entered => stack'[k].node \notin ToSet(order)
    BY <1>3, <1>5 DEF VisitInv
  <2>6. \A k \in 1..n - 1 : stack'[k].entered =>
          \A d \in DependsOn(stack'[k].node) :
            d \in ToSet(order) \/ \E l \in 1..n - 1 : k < l /\ stack'[l].node = d
    BY <1>3, <1>4, <1>5, <1>6 DEF VisitInv
  <2>7. \A k, l \in 1..n - 1 : k < l /\ stack'[k].entered =>
          stack'[l].node \in ReachedIn(DependsOn(stack'[k].node), Graph)
    BY <1>3, <1>5 DEF VisitInv
  <2>8. /\ order' = order /\ stage' = "order" /\ DOMAIN stack' = 1..n - 1
        /\ ToSet(order') \subseteq Used' /\ Used' = Used
    BY <1>1, <1>2, <1>3 DEF VisitInv
  <2> USE <2>8
  <2>9. \A k \in DOMAIN stack' : stack'[k].entered =>
          \A d \in DependsOn(stack[k].node)' :
            d \in ToSet(order') \/ \E l \in DOMAIN stack' : k < l /\ stack'[l].node = d
    BY <1>2, <2>6
  <2>10. \A k, l \in DOMAIN stack' : k < l /\ stack'[k].entered =>
           stack'[l].node \in ReachedIn(DependsOn(stack[k].node), Graph)'
    BY <1>2, <2>1, <2>7
  <2> HIDE DEF LifecycleInv
  <2> QED BY <2>2, <2>3, <2>4, <2>5, <2>9, <2>10 DEF VisitInv
<1>10. OrderInv'
  BY <1>1, <1>2 DEF OrderInv, IsInjective
<1>11. PlaceInv'
  <2>1. \A k \in 1..n - 1 : Userless(stack'[k].node) =>
          k \in DOMAIN closure /\ closure[k] = stack'[k].node
    BY <1>3, <1>5 DEF PlaceInv
  <2> QED BY <1>1, <1>2, <1>3, <2>1 DEF PlaceInv
<1>12. StageInv' /\ RunInv'
  <2>1. ~InPass /\ ~InPass'
    BY <1>1 DEF InPass
  <2> QED BY <1>1, <1>2, <2>1 DEF StageInv, RunInv
<1> QED BY <1>2, <1>7, <1>8, <1>9, <1>10, <1>11, <1>12

\* A module that is visited below itself depends on itself.
LEMMA RejectCycleKept ==
  ASSUME LifecycleInv, RejectCycle
  PROVE  LifecycleInv'
<1> DEFINE n == Len(stack)
           m == Top.node
<1> USE DEF LifecycleInv
<1>1. /\ stage = "order" /\ stack # <<>> /\ ~Top.entered /\ Visiting(m)
      /\ stage' = "rejected"
      /\ UNCHANGED <<input, closing, stack, order, ran>>
  BY DEF RejectCycle, AtVisit
<1>2. /\ ClosureInv' /\ AssemblyInv'
      /\ app \in Applications /\ app' = app /\ allocated' = allocated
      /\ purpose' = purpose /\ todo' = todo /\ closure' = closure
      /\ Used' = Used /\ Cyclic' = Cyclic /\ Graph' = Graph
      /\ \A x : DependsOn(x)' = DependsOn(x) /\ Userless(x)' = Userless(x)
  BY <1>1, ClosingKept
<1>3. /\ n \in Nat \ {0} /\ DOMAIN stack = 1..n /\ stack[n] = Top /\ m \in Used
      /\ n \in DOMAIN stack
  BY <1>1, TopElements
<1>4. Cyclic
  <2>1. PICK k \in 1..n : stack[k] = Entered(m)
    BY <1>1 DEF Visiting, Contains
  <2>2. stack[k].entered /\ stack[k].node = m
    BY <2>1 DEF Entered
  <2>3. k < n
    BY <1>1, <1>3, <2>2
  <2>4. m \in ReachedIn(DependsOn(m), Graph)
    BY <1>3, <2>2, <2>3 DEF VisitInv
  <2>5. m \in Reached(DependsOn(m), DependsOn)
    BY <2>4 DEF Reached, ReachedIn, Graph
  <2> QED BY <1>3, <2>5 DEF Cyclic
<1>5. LifecycleTypeOK'
  BY <1>1, <1>2 DEF LifecycleTypeOK, input, closing, assembly
<1>6. ClosedInv'
  BY <1>1, <1>2 DEF ClosedInv
<1>7. VisitInv'
  <2>1. \A x : ReachedIn(DependsOn(x), Graph)' = ReachedIn(DependsOn(x), Graph)
    BY <1>2 DEF ReachedIn
  <2> QED BY <1>1, <1>2, <2>1 DEF VisitInv
<1>8. OrderInv'
  BY <1>1, <1>2 DEF OrderInv
<1>9. PlaceInv'
  BY <1>1, <1>2 DEF PlaceInv
<1>10. StageInv' /\ RunInv'
  <2>1. ~InPass /\ ~InPass'
    BY <1>1 DEF InPass
  <2> QED BY <1>1, <1>2, <1>4, <2>1 DEF StageInv, RunInv
<1> QED BY <1>2, <1>5, <1>6, <1>7, <1>8, <1>9, <1>10

LEMMA DescendKept ==
  ASSUME LifecycleInv, Descend
  PROVE  LifecycleInv'
<1> DEFINE n == Len(stack)
           m == Top.node
           deps == Deps(m)
<1>1. /\ stage = "order" /\ stack # <<>> /\ ~Top.entered
      /\ ~Complete(m) /\ ~Visiting(m)
      /\ stack' = Front(stack) \o Agenda(m)
      /\ UNCHANGED <<input, stage, closing, order, ran>>
  BY DEF Descend, AtVisit
<1>2. /\ ClosureInv' /\ AssemblyInv'
      /\ app \in Applications /\ app' = app /\ allocated' = allocated
      /\ purpose' = purpose /\ todo' = todo /\ closure' = closure
      /\ Used' = Used /\ Cyclic' = Cyclic /\ Graph' = Graph
      /\ \A x : DependsOn(x)' = DependsOn(x) /\ Userless(x)' = Userless(x)
  BY <1>1, ClosingKept
<1>3. /\ n \in Nat \ {0} /\ DOMAIN stack = 1..n /\ stack[n].node = m
      /\ m \in Used /\ m \in Module /\ \A k \in 1..n : stack[k] \in Visit
  BY <1>1, TopElements
<1>4. /\ stack' \in Seq(Visit) /\ Len(stack') = n + Len(deps)
      /\ \A k \in 1..n - 1 : stack'[k] = stack[k]
      /\ stack'[n] = Entered(m)
      /\ \A i \in 1..Len(deps) : stack'[n + i] = ToVisit(deps[i])
  BY <1>1, AgendaElements DEF LifecycleInv
<1>5. /\ deps \in Seq(Module) /\ ToSet(deps) = DependsOn(m)
      /\ Len(deps) \in Nat
      /\ \A d : d \in DependsOn(m) <=> \E i \in 1..Len(deps) : deps[i] = d
  BY <1>2, <1>3, DepsElements, Elements
<1>6. DOMAIN stack' = 1..n + Len(deps)
  BY <1>4, LenProperties
<1>7. m \notin ToSet(order) /\ \A k \in 1..n : stack[k] # Entered(m)
  <2>1. order \in Seq(Module)
    BY DEF LifecycleInv, LifecycleTypeOK
  <2>2. m \notin ToSet(order)
    BY <1>1, <2>1, Elements DEF Complete
  <2>3. \A k \in 1..n : stack[k] # Entered(m)
    BY <1>1 DEF Visiting, Contains
  <2> QED BY <2>2, <2>3
<1>8. DependsOn(m) \subseteq Used
  <2>1. Graph[m] \subseteq ReachedIn(ToSet(app.roots), Graph)
    BY <1>2, <1>3, UsedIsReached, Graphs, ReachedClosed
  <2> QED BY <1>2, <1>3, <2>1, UsedIsReached DEF Graph
<1> HIDE DEF n, m, deps
<1>9. \A k \in 1..n + Len(deps) :
        k \in 1..n - 1 \/ k = n \/ (k - n \in 1..Len(deps) /\ n + (k - n) = k)
  BY <1>3, <1>5
<1>10. /\ \A k \in 1..n - 1 : k \in 1..n /\ k < n /\ k \in 1..n + Len(deps)
       /\ n \in 1..n /\ n \in 1..n + Len(deps)
       /\ \A i \in 1..Len(deps) : n + i \in 1..n + Len(deps) /\ n < n + i
       /\ \A k \in 1..n : k \in 1..n - 1 \/ k = n
  BY <1>3, <1>5
<1>11. /\ stack'[n].node = m /\ stack'[n].entered
       /\ \A i \in 1..Len(deps) : stack'[n + i].node = deps[i] /\ ~stack'[n + i].entered
  <2>1. \A x : /\ Entered(x).node = x /\ Entered(x).entered
               /\ ToVisit(x).node = x /\ ~ToVisit(x).entered
    BY DEF Entered, ToVisit
  <2> QED BY <1>4, <2>1
<1>12. \A k \in 1..n + Len(deps) : stack'[k].entered => k \in 1..n
  BY <1>9, <1>10, <1>11
<1>13. \A k \in 1..n + Len(deps) :
         \/ k \in 1..n /\ stack'[k].node = stack[k].node
         \/ n < k /\ stack'[k].node \in DependsOn(m)
  <2> TAKE k \in 1..n + Len(deps)
  <2>1. CASE k \in 1..n - 1
    BY <1>4, <1>10, <2>1
  <2>2. CASE k = n
    BY <1>3, <1>10, <1>11, <2>2
  <2>3. CASE k - n \in 1..Len(deps) /\ n + (k - n) = k
    BY <1>5, <1>10, <1>11, <2>3
  <2> QED BY <1>9, <2>1, <2>2, <2>3
<1>14. LifecycleTypeOK'
  BY <1>1, <1>2, <1>4 DEF LifecycleInv, LifecycleTypeOK, input, closing, assembly
<1>15. ClosedInv'
  BY <1>1, <1>2 DEF LifecycleInv, ClosedInv
<1>16. VisitInv'
  <2>0. VisitInv
    BY DEF LifecycleInv
  <2>1. \A k \in DOMAIN stack' : stack'[k].node \in Used'
    BY <1>2, <1>3, <1>6, <1>8, <1>13, <2>0 DEF VisitInv
  <2>2. \A x \in Used' : x \in ToSet(order') \/ \E k \in DOMAIN stack' : stack'[k].node = x
    <3> TAKE x \in Used'
    <3>1. x \in ToSet(order) \/ \E k \in 1..n : stack[k].node = x
      BY <1>1, <1>2, <1>3, <2>0 DEF VisitInv
    <3>2. \A k \in 1..n : k \in DOMAIN stack' /\ stack'[k].node = stack[k].node
      BY <1>3, <1>4, <1>6, <1>10, <1>11
    <3> QED BY <1>1, <3>1, <3>2
  <2>3. \A k, l \in DOMAIN stack' : stack'[k] = stack'[l] /\ stack'[k].entered => k = l
    <3> SUFFICES ASSUME NEW k \in 1..n + Len(deps), NEW l \in 1..n + Len(deps),
                        stack'[k] = stack'[l], stack'[k].entered
                 PROVE  k = l
      BY <1>6
    <3>1. k \in 1..n /\ l \in 1..n
      BY <1>12
    <3>2. CASE k \in 1..n - 1 /\ l \in 1..n - 1
      BY <1>3, <1>4, <2>0, <3>1, <3>2 DEF VisitInv
    <3>3. CASE k = n \/ l = n
      BY <1>4, <1>7, <1>10, <3>1, <3>3
    <3> QED BY <1>10, <3>1, <3>2, <3>3
  <2>4. \A k \in DOMAIN stack' : stack'[k].entered => stack'[k].node \notin ToSet(order')
    <3> SUFFICES ASSUME NEW k \in 1..n + Len(deps), stack'[k].entered
                 PROVE  stack'[k].node \notin ToSet(order)
      BY <1>1, <1>6
    <3>1. CASE k \in 1..n - 1
      BY <1>3, <1>4, <1>10, <2>0, <3>1 DEF VisitInv
    <3>2. CASE k = n
      BY <1>7, <1>11, <3>2
    <3> QED BY <1>10, <1>12, <3>1, <3>2
  <2>5. \A k \in DOMAIN stack' : stack'[k].entered =>
          \A d \in DependsOn(stack[k].node)' :
            d \in ToSet(order') \/ \E l \in DOMAIN stack' : k < l /\ stack'[l].node = d
    <3> SUFFICES ASSUME NEW k \in DOMAIN stack', stack'[k].entered,
                        NEW d \in DependsOn(stack'[k].node)
                 PROVE  \/ d \in ToSet(order')
                        \/ \E l \in DOMAIN stack' : k < l /\ stack'[l].node = d
      BY <1>2
    <3> SUFFICES \/ d \in ToSet(order)
                 \/ \E l \in 1..n + Len(deps) : k < l /\ stack'[l].node = d
      BY <1>1, <1>6
    <3>0. k \in 1..n + Len(deps)
      BY <1>6
    <3>1. CASE k \in 1..n - 1
      <4>1. \/ d \in ToSet(order)
            \/ \E l \in 1..n : k < l /\ stack[l].node = d
        BY <1>3, <1>4, <1>10, <2>0, <3>1 DEF VisitInv
      <4>2. \A l \in 1..n : l \in 1..n + Len(deps) /\ stack'[l].node = stack[l].node
        BY <1>3, <1>4, <1>10, <1>11
      <4> QED BY <4>1, <4>2
    <3>2. CASE k = n
      <4>1. PICK i \in 1..Len(deps) : deps[i] = d
        BY <1>5, <1>11, <3>2
      <4> QED BY <1>10, <1>11, <3>2, <4>1
    <3> QED BY <1>10, <1>12, <3>0, <3>1, <3>2
  <2>6. \A k, l \in DOMAIN stack' : k < l /\ stack'[k].entered =>
          stack'[l].node \in ReachedIn(DependsOn(stack[k].node), Graph)'
    <3> SUFFICES ASSUME NEW k \in 1..n + Len(deps), NEW l \in 1..n + Len(deps),
                        k < l, stack'[k].entered
                 PROVE  stack'[l].node \in ReachedIn(DependsOn(stack'[k].node), Graph)
      BY <1>2, <1>6 DEF ReachedIn
    <3> DEFINE R == ReachedIn(DependsOn(stack'[k].node), Graph)
    <3>1. CASE k \in 1..n - 1
      <4>1. \A j \in 1..n : k < j => stack[j].node \in R
        BY <1>3, <1>4, <1>10, <2>0, <3>1 DEF VisitInv
      <4>2. m \in R
        BY <1>3, <1>10, <3>1, <4>1
      <4>3. Graph[m] \subseteq R
        BY <1>2, <4>2, Graphs, ReachedClosed
      <4>4. DependsOn(m) \subseteq R
        BY <1>3, <4>3 DEF Graph
      <4> QED BY <1>13, <4>1, <4>4
    <3>2. CASE k = n
      <4>1. stack'[l].node \in DependsOn(m)
        BY <1>3, <1>13, <3>2
      <4>2. DependsOn(m) \subseteq ReachedIn(DependsOn(m), Graph)
        BY <1>2, <1>3, DepsElements, ReachedStart
      <4> QED BY <1>11, <3>2, <4>1, <4>2
    <3> QED BY <1>10, <1>12, <3>1, <3>2
  <2>7. ToSet(order') \subseteq Used'
    BY <1>1, <1>2, <2>0 DEF VisitInv
  <2> QED BY <2>1, <2>2, <2>3, <2>4, <2>5, <2>6, <2>7 DEF VisitInv
<1>17. OrderInv'
  BY <1>1, <1>2 DEF LifecycleInv, OrderInv
<1>18. PlaceInv'
  <2>1. \A k \in 1..n + Len(deps) : Userless(stack'[k].node) =>
          k \in DOMAIN closure /\ closure[k] = stack'[k].node
    <3> TAKE k \in 1..n + Len(deps)
    <3>1. CASE k \in 1..n /\ stack'[k].node = stack[k].node
      BY <1>3, <3>1 DEF LifecycleInv, PlaceInv
    <3>2. CASE stack'[k].node \in DependsOn(m)
      BY <1>3, <3>2 DEF Userless
    <3> QED BY <1>13, <3>1, <3>2
  <2>2. \A k \in DOMAIN stack' : Userless(stack[k].node)' =>
          k \in DOMAIN closure' /\ closure'[k] = stack'[k].node
    BY <1>2, <1>6, <2>1
  <2>3. PlaceInv
    BY DEF LifecycleInv
  <2> QED BY <1>1, <1>2, <2>2, <2>3 DEF PlaceInv
<1>19. StageInv' /\ RunInv'
  <2>1. ~InPass /\ ~InPass'
    BY <1>1 DEF InPass
  <2> QED BY <1>1, <1>2, <2>1 DEF LifecycleInv, StageInv, RunInv
<1> QED BY <1>2, <1>14, <1>15, <1>16, <1>17, <1>18, <1>19 DEF LifecycleInv

LEMMA PlaceKept ==
  ASSUME LifecycleInv, Place
  PROVE  LifecycleInv'
<1> DEFINE n == Len(stack)
           m == Top.node
           p == Len(order)
<1>1. /\ stage = "order" /\ stack # <<>> /\ Top.entered
      /\ order' = <<m>> \o order /\ stack' = Front(stack)
      /\ UNCHANGED <<input, stage, closing, ran>>
  BY DEF Place, Placed
<1>2. /\ ClosureInv' /\ AssemblyInv'
      /\ app \in Applications /\ app' = app /\ allocated' = allocated
      /\ purpose' = purpose /\ todo' = todo /\ closure' = closure
      /\ Used' = Used /\ Cyclic' = Cyclic /\ Graph' = Graph
      /\ \A x : DependsOn(x)' = DependsOn(x) /\ Userless(x)' = Userless(x)
  BY <1>1, ClosingKept
<1>3. /\ n \in Nat \ {0} /\ DOMAIN stack = 1..n
      /\ stack[n].node = m /\ stack[n].entered
      /\ m \in Used /\ m \in Module /\ \A k \in 1..n : stack[k] \in Visit
      /\ stack' \in Seq(Visit) /\ DOMAIN stack' = 1..n - 1
      /\ \A k \in 1..n - 1 : stack'[k] = stack[k]
  BY <1>1, TopElements
<1>4. order \in Seq(Module) /\ closure \in Seq(Module)
  BY DEF LifecycleInv, LifecycleTypeOK
<1>5. p \in Nat /\ DOMAIN order = 1..p
      /\ \A x : x \in ToSet(order) <=> \E i \in 1..p : order[i] = x
  BY <1>4, Elements
<1>6. /\ order' \in Seq(Module) /\ Len(order') = p + 1
      /\ order'[1] = m /\ \A i \in 1..p : order'[i + 1] = order[i]
      /\ ToSet(order') = {m} \cup ToSet(order)
  BY <1>1, <1>3, <1>4, PrependElements
<1>7. DOMAIN order' = 1..p + 1
  BY <1>6, LenProperties
<1> HIDE DEF n, m, p
<1>8. /\ \A k \in 1..n - 1 : k \in 1..n /\ k < n
      /\ n \in 1..n /\ \A k \in 1..n : k \in 1..n - 1 \/ k = n
      /\ \A k \in 1..n : ~ (n < k)
  BY <1>3
<1>9. /\ 1 \in 1..p + 1 /\ \A i \in 1..p : i + 1 \in 1..p + 1 /\ 1 < i + 1
      /\ \A i \in 1..p + 1 : i = 1 \/ \E c \in 1..p : i = c + 1
      /\ \A i, j \in 1..p : i < j => i + 1 < j + 1
  <2>1. \A i \in 1..p + 1 : i = 1 \/ (i - 1 \in 1..p /\ i = (i - 1) + 1)
    BY <1>5
  <2>2. \A i \in 1..p + 1 : i = 1 \/ \E c \in 1..p : i = c + 1
    BY <2>1
  <2> QED BY <1>5, <2>2
<1>10. m \notin ToSet(order)
  BY <1>3, <1>8 DEF LifecycleInv, VisitInv
<1>11. LifecycleTypeOK'
  BY <1>1, <1>2, <1>3, <1>6 DEF LifecycleInv, LifecycleTypeOK, input, closing, assembly
<1>12. ClosedInv'
  BY <1>1, <1>2 DEF LifecycleInv, ClosedInv
<1>13. VisitInv'
  <2>0. VisitInv
    BY DEF LifecycleInv
  <2>1. \A k \in DOMAIN stack' : stack'[k].node \in Used'
    BY <1>2, <1>3, <1>8, <2>0 DEF VisitInv
  <2>2. \A x \in Used' : x \in ToSet(order') \/ \E k \in DOMAIN stack' : stack'[k].node = x
    <3> TAKE x \in Used'
    <3>1. x \in ToSet(order) \/ \E k \in 1..n : stack[k].node = x
      BY <1>1, <1>2, <1>3, <2>0 DEF VisitInv
    <3> QED BY <1>3, <1>6, <1>8, <3>1
  <2>3. \A k, l \in DOMAIN stack' : stack'[k] = stack'[l] /\ stack'[k].entered => k = l
    BY <1>3, <1>8, <2>0 DEF VisitInv
  <2>4. \A k \in DOMAIN stack' : stack'[k].entered => stack'[k].node \notin ToSet(order')
    <3> SUFFICES ASSUME NEW k \in 1..n - 1, stack[k].entered
                 PROVE  stack[k].node \notin {m} \cup ToSet(order)
      BY <1>3, <1>6
    <3>1. stack[k].node \notin ToSet(order)
      BY <1>3, <1>8, <2>0 DEF VisitInv
    <3>2. stack[k].node # m
      <4> SUFFICES ASSUME stack[k].node = m PROVE FALSE
        OBVIOUS
      <4>1. stack[k] = stack[n]
        BY <1>3, <1>8 DEF Visit
      <4> QED BY <1>3, <1>8, <2>0, <4>1 DEF VisitInv
    <3> QED BY <3>1, <3>2
  <2>5. \A k \in DOMAIN stack' : stack'[k].entered =>
          \A d \in DependsOn(stack[k].node)' :
            d \in ToSet(order') \/ \E l \in DOMAIN stack' : k < l /\ stack'[l].node = d
    <3> SUFFICES ASSUME NEW k \in 1..n - 1, stack[k].entered,
                        NEW d \in DependsOn(stack[k].node)
                 PROVE  \/ d \in {m} \cup ToSet(order)
                        \/ \E l \in 1..n - 1 : k < l /\ stack'[l].node = d
      BY <1>2, <1>3, <1>6
    <3>1. d \in ToSet(order) \/ \E l \in 1..n : k < l /\ stack[l].node = d
      BY <1>3, <1>8, <2>0 DEF VisitInv
    <3> QED BY <1>3, <1>8, <3>1
  <2>6. \A k, l \in DOMAIN stack' : k < l /\ stack'[k].entered =>
          stack'[l].node \in ReachedIn(DependsOn(stack[k].node), Graph)'
    <3> SUFFICES ASSUME NEW k \in 1..n - 1, NEW l \in 1..n - 1, k < l, stack[k].entered
                 PROVE  stack[l].node \in ReachedIn(DependsOn(stack[k].node), Graph)
      BY <1>2, <1>3 DEF ReachedIn
    <3> QED BY <1>3, <1>8, <2>0 DEF VisitInv
  <2>7. ToSet(order') \subseteq Used'
    BY <1>2, <1>3, <1>6, <2>0 DEF VisitInv
  <2> QED BY <2>1, <2>2, <2>3, <2>4, <2>5, <2>6, <2>7 DEF VisitInv
<1>14. OrderInv'
  <2>0. OrderInv
    BY DEF LifecycleInv
  <2>1. IsInjective(order')
    <3> SUFFICES ASSUME NEW a \in 1..p + 1, NEW b \in 1..p + 1, order'[a] = order'[b]
                 PROVE  a = b
      BY <1>7 DEF IsInjective
    <3>0. \A i \in 1..p + 1 : i # 1 => order'[i] # m
      <4> TAKE i \in 1..p + 1
      <4>1. CASE \E c \in 1..p : i = c + 1
        BY <1>5, <1>6, <1>10, <4>1
      <4> QED BY <1>9, <4>1
    <3>1. CASE a = 1 \/ b = 1
      BY <1>6, <3>0, <3>1
    <3>2. CASE a # 1 /\ b # 1
      <4>1. PICK c \in 1..p, d \in 1..p : a = c + 1 /\ b = d + 1
        BY <1>9, <3>2
      <4>2. order[c] = order[d]
        BY <1>6, <4>1
      <4> QED BY <1>5, <2>0, <4>1, <4>2 DEF OrderInv, IsInjective
    <3> QED BY <3>1, <3>2
  <2>2. \A i \in DOMAIN order' : \A d \in DependsOn(order[i])' :
          \E j \in DOMAIN order' : i < j /\ order'[j] = d
    <3> SUFFICES ASSUME NEW i \in 1..p + 1, NEW d \in DependsOn(order'[i])
                 PROVE  \E j \in 1..p + 1 : i < j /\ order'[j] = d
      BY <1>2, <1>7
    <3>1. CASE i = 1
      <4>1. d \in DependsOn(stack[n].node)
        BY <1>3, <1>6, <3>1
      <4>2. d \in ToSet(order)
        BY <1>3, <1>8, <4>1 DEF LifecycleInv, VisitInv
      <4>3. PICK j \in 1..p : order[j] = d
        BY <1>5, <4>2
      <4> QED BY <1>6, <1>9, <3>1, <4>3
    <3>2. CASE \E c \in 1..p : i = c + 1
      <4>1. PICK c \in 1..p : i = c + 1
        BY <3>2
      <4>2. order'[i] = order[c]
        BY <1>6, <4>1
      <4>3. PICK j \in 1..p : c < j /\ order[j] = d
        BY <1>5, <2>0, <4>2 DEF OrderInv
      <4> QED BY <1>6, <1>9, <4>1, <4>3
    <3> QED BY <1>9, <3>1, <3>2
  <2> QED BY <2>1, <2>2 DEF OrderInv
<1>15. PlaceInv'
  <2>0. PlaceInv
    BY DEF LifecycleInv
  <2>1. \A k \in DOMAIN stack' : Userless(stack[k].node)' =>
          k \in DOMAIN closure' /\ closure'[k] = stack'[k].node
    BY <1>2, <1>3, <1>8, <2>0 DEF PlaceInv
  <2>2. ASSUME NEW i \in DOMAIN closure, NEW j \in DOMAIN closure, i < j,
               Userless(closure[i]), Userless(closure[j]),
               NEW a \in 1..p + 1, order'[a] = closure[i]
        PROVE  \E b \in 1..p + 1 : a < b /\ order'[b] = closure[j]
    <3>1. CASE a = 1
      <4>0. closure[i] = m
        BY <1>6, <2>2, <3>1
      <4>1. /\ IsInjective(closure) /\ closure[j] \in Used
            /\ DOMAIN closure = 1..Len(closure) /\ Len(closure) \in Nat
        BY <1>1, <1>4, Elements DEF LifecycleInv, ClosedInv
      <4>2. closure[j] \in ToSet(order) \/ \E k \in 1..n : stack[k].node = closure[j]
        BY <1>1, <1>3, <4>1 DEF LifecycleInv, VisitInv
      <4>3. CASE closure[j] \in ToSet(order)
        <5>1. PICK b \in 1..p : order[b] = closure[j]
          BY <1>5, <4>3
        <5> QED BY <1>6, <1>9, <3>1, <5>1
      <4>4. CASE \E k \in 1..n : stack[k].node = closure[j]
        <5>1. PICK k \in 1..n : stack[k].node = closure[j]
          BY <4>4
        <5>2. k \in DOMAIN closure /\ closure[k] = closure[j]
          BY <1>3, <2>0, <2>2, <5>1 DEF PlaceInv
        <5>3. n \in DOMAIN closure /\ closure[n] = closure[i]
          BY <1>3, <1>8, <2>0, <2>2, <4>0 DEF PlaceInv
        <5>4. k = j /\ n = i
          BY <4>1, <5>2, <5>3 DEF IsInjective
        <5> QED BY <1>8, <2>2, <5>4
      <4> QED BY <4>2, <4>3, <4>4
    <3>2. CASE \E c \in 1..p : a = c + 1
      <4>1. PICK c \in 1..p : a = c + 1
        BY <3>2
      <4>2. order[c] = closure[i]
        BY <1>6, <2>2, <4>1
      <4>3. PICK b \in 1..p : c < b /\ order[b] = closure[j]
        BY <1>5, <2>0, <2>2, <4>2 DEF PlaceInv
      <4> QED BY <1>6, <1>9, <4>1, <4>3
    <3> QED BY <1>9, <3>1, <3>2
  <2>3. \A i, j \in DOMAIN closure' :
          i < j /\ Userless(closure[i])' /\ Userless(closure[j])' =>
            \A a \in DOMAIN order' : order'[a] = closure'[i] =>
              \E b \in DOMAIN order' : a < b /\ order'[b] = closure'[j]
    BY <1>2, <1>7, <2>2
  <2> QED BY <2>1, <2>3 DEF PlaceInv
<1>16. StageInv' /\ RunInv'
  <2>1. ~InPass /\ ~InPass'
    BY <1>1 DEF InPass
  <2> QED BY <1>1, <1>2, <2>1 DEF LifecycleInv, StageInv, RunInv
<1> QED BY <1>2, <1>11, <1>12, <1>13, <1>14, <1>15, <1>16 DEF LifecycleInv

-----------------------------------------------------------------------------
(* The passes. *)

Phases == {"owner", "params", "module"}

\* The callbacks of a module in a pass.
Called(m) ==
  IF m \in app.requested /\ stage = "setup" THEN Phases ELSE {"params", "module"}

\* Where the callbacks of a pass are: those of the i-th module at pos[phase][i].
Spots(pass, pos) ==
  LET n == Len(Backwards)
      shared == allocated /\ stage = "setup"
  IN  /\ \A i \in 1..n : \A phase \in Called(Backwards[i]) :
           pos[phase][i] \in 1..Len(pass) /\ pass[pos[phase][i]] = Of(phase, Backwards[i])
      /\ \A p \in 1..Len(pass) :
           \E i \in 1..n : \E phase \in Called(Backwards[i]) : p = pos[phase][i]
      /\ \A i, j \in 1..n : \A phase \in {"params", "module"} :
           i < j => pos[phase][i] < pos[phase][j]
      /\ shared => \A i, j \in 1..n : \A phase \in Called(Backwards[j]) :
                     i < j => pos["module"][i] < pos[phase][j]
      /\ shared => \A i \in 1..n :
                     "owner" \in Called(Backwards[i]) => pos["owner"][i] < pos["params"][i]
      /\ ~shared => \A i, j \in 1..n : pos["params"][i] < pos["module"][j]

Placement == [Phases -> [1..Len(Backwards) -> Nat]]

LEMMA BackwardsElements ==
  ASSUME order \in Seq(Module)
  PROVE  /\ Backwards \in Seq(Module) /\ Len(Backwards) = Len(order)
         /\ Len(order) \in Nat /\ DOMAIN Backwards = 1..Len(order)
         /\ \A i \in 1..Len(order) : Backwards[i] = order[(Len(order) - i) + 1]
<1>1. Len(order) \in Nat /\ \A i \in 1..Len(order) : order[i] \in Module
  BY Elements
<1>2. \A i \in 1..Len(order) : (Len(order) - i) + 1 \in 1..Len(order)
  BY <1>1
<1>3. Backwards = [i \in 1..Len(order) |-> order[(Len(order) - i) + 1]]
  BY DEF Backwards, Reverse
<1>4. Backwards \in [1..Len(order) -> Module]
  BY <1>1, <1>2, <1>3
<1>5. Backwards \in Seq(Module)
  BY <1>1, <1>4, SeqDef
<1>6. Len(Backwards) = Len(order)
  BY <1>1, <1>4, <1>5, LenProperties
<1> QED BY <1>1, <1>3, <1>5, <1>6

LEMMA OfFields ==
  /\ \A phase, m : Of(phase, m).phase = phase /\ Of(phase, m).node = m
  /\ \A phase \in Phases, m \in Module : Of(phase, m) \in Callback
  /\ \A p, m, q, x : Of(p, m) = Of(q, x) => p = q /\ m = x
<1>1. \A phase, m : Of(phase, m).phase = phase /\ Of(phase, m).node = m
  BY DEF Of
<1> QED BY <1>1 DEF Of, Callback, Phases

LEMMA SetupElements ==
  ASSUME NEW m \in Module
  PROVE  /\ Setup(m) \in Seq(Callback)
         /\ m \in app.requested =>
              /\ Len(Setup(m)) = 3 /\ Setup(m)[1] = Of("owner", m)
              /\ Setup(m)[2] = Of("params", m) /\ Setup(m)[3] = Of("module", m)
         /\ m \notin app.requested =>
              /\ Len(Setup(m)) = 2
              /\ Setup(m)[1] = Of("params", m) /\ Setup(m)[2] = Of("module", m)
<1>1. /\ Of("owner", m) \in Callback /\ Of("params", m) \in Callback
      /\ Of("module", m) \in Callback
  BY OfFields DEF Phases
<1>2. /\ <<Of("params", m)>> \in Seq(Callback) /\ Len(<<Of("params", m)>>) = 1
      /\ <<Of("params", m)>>[1] = Of("params", m)
  BY <1>1
<1>3. CASE m \in app.requested
  <2>1. ParamsSetup(m) = <<Of("owner", m)>> \o <<Of("params", m)>>
    BY <1>3 DEF ParamsSetup
  <2>2. /\ ParamsSetup(m) \in Seq(Callback) /\ Len(ParamsSetup(m)) = 1 + 1
        /\ ParamsSetup(m)[1] = Of("owner", m)
        /\ ParamsSetup(m)[1 + 1] = <<Of("params", m)>>[1]
    BY <1>1, <1>2, <2>1, PrependElements
  <2>3. /\ Append(ParamsSetup(m), Of("module", m)) \in Seq(Callback)
        /\ Len(Append(ParamsSetup(m), Of("module", m))) = 3
        /\ Append(ParamsSetup(m), Of("module", m))[1] = Of("owner", m)
        /\ Append(ParamsSetup(m), Of("module", m))[2] = Of("params", m)
        /\ Append(ParamsSetup(m), Of("module", m))[3] = Of("module", m)
    <3> SUFFICES ASSUME NEW s \in Seq(Callback), Len(s) = 2, s[1] = Of("owner", m),
                        s[2] = Of("params", m)
                 PROVE  /\ Append(s, Of("module", m)) \in Seq(Callback)
                        /\ Len(Append(s, Of("module", m))) = 3
                        /\ Append(s, Of("module", m))[1] = Of("owner", m)
                        /\ Append(s, Of("module", m))[2] = Of("params", m)
                        /\ Append(s, Of("module", m))[3] = Of("module", m)
      BY <1>2, <2>2
    <3>1. 1 \in 1..2 /\ 2 \in 1..2 /\ 2 + 1 = 3
      OBVIOUS
    <3>2. Of("module", m) \in Callback /\ s \in Seq(Callback)
      BY <1>1
    <3>3. /\ Append(s, Of("module", m)) \in Seq(Callback)
          /\ Len(Append(s, Of("module", m))) = Len(s) + 1
          /\ \A k \in 1..Len(s) : Append(s, Of("module", m))[k] = s[k]
          /\ Append(s, Of("module", m))[Len(s) + 1] = Of("module", m)
      BY ONLY <3>2, AppendElements
    <3> QED BY <3>1, <3>3
  <2> QED BY <1>3, <2>3 DEF Setup
<1>4. CASE m \notin app.requested
  <2>1. ParamsSetup(m) = <<Of("params", m)>>
    <3>1. ParamsSetup(m) = <<>> \o <<Of("params", m)>>
      BY <1>4 DEF ParamsSetup
    <3> QED BY <1>2, <3>1, ConcatEmptySeq
  <2>2. /\ Append(ParamsSetup(m), Of("module", m)) \in Seq(Callback)
        /\ Len(Append(ParamsSetup(m), Of("module", m))) = 2
        /\ Append(ParamsSetup(m), Of("module", m))[1] = Of("params", m)
        /\ Append(ParamsSetup(m), Of("module", m))[2] = Of("module", m)
    <3> SUFFICES ASSUME NEW s \in Seq(Callback), Len(s) = 1, s[1] = Of("params", m)
                 PROVE  /\ Append(s, Of("module", m)) \in Seq(Callback)
                        /\ Len(Append(s, Of("module", m))) = 2
                        /\ Append(s, Of("module", m))[1] = Of("params", m)
                        /\ Append(s, Of("module", m))[2] = Of("module", m)
      BY <1>2, <2>1
    <3>1. /\ Append(s, Of("module", m)) \in Seq(Callback)
          /\ Len(Append(s, Of("module", m))) = Len(s) + 1
          /\ \A i \in 1..Len(s) : Append(s, Of("module", m))[i] = s[i]
          /\ Append(s, Of("module", m))[Len(s) + 1] = Of("module", m)
      <4>1. s \in Seq(Callback) /\ Of("module", m) \in Callback
        BY <1>1
      <4> QED BY ONLY <4>1, AppendElements
    <3>2. 1 \in 1..1 /\ 1 + 1 = 2
      OBVIOUS
    <3> QED BY <3>1, <3>2
  <2> QED BY <1>4, <2>2 DEF Setup
<1> QED BY <1>3, <1>4

\* One phase after the other.
LEMMA TwoPhasesSpots ==
  ASSUME order \in Seq(Module), app \in Applications,
         ~ (allocated /\ stage = "setup"), app.requested # {} => allocated
  PROVE  TwoPhases \in Seq(Callback) /\ \E pos \in Placement : Spots(TwoPhases, pos)
<1> DEFINE n == Len(Backwards)
           B == Backwards
           pos == [phase \in Phases |-> [i \in 1..n |-> IF phase = "module" THEN n + i ELSE i]]
<1>1. B \in Seq(Module) /\ n \in Nat /\ DOMAIN B = 1..n /\ \A i \in 1..n : B[i] \in Module
  BY BackwardsElements, Elements
<1>2. ASSUME NEW phase \in Phases
      PROVE  /\ AllOf(phase) \in Seq(Callback) /\ Len(AllOf(phase)) = n
             /\ \A i \in 1..n : AllOf(phase)[i] = Of(phase, B[i])
  <2>1. AllOf(phase) = [i \in 1..n |-> Of(phase, B[i])]
    BY <1>1 DEF AllOf
  <2>2. AllOf(phase) \in [1..n -> Callback]
    BY <1>1, <2>1, OfFields
  <2>3. AllOf(phase) \in Seq(Callback)
    BY <1>1, <2>2, SeqDef
  <2>4. Len(AllOf(phase)) = n
    BY <1>1, <2>2, <2>3, LenProperties
  <2> QED BY <2>1, <2>3, <2>4
<1> HIDE DEF n, B
<1>3. /\ TwoPhases \in Seq(Callback) /\ Len(TwoPhases) = n + n
      /\ \A i \in 1..n : TwoPhases[i] = Of("params", B[i])
      /\ \A i \in 1..n : TwoPhases[n + i] = Of("module", B[i])
  <2> SUFFICES ASSUME NEW s \in Seq(Callback), NEW t \in Seq(Callback),
                      Len(s) = n, Len(t) = n,
                      \A i \in 1..n : s[i] = Of("params", B[i]),
                      \A i \in 1..n : t[i] = Of("module", B[i])
               PROVE  /\ s \o t \in Seq(Callback) /\ Len(s \o t) = n + n
                      /\ \A i \in 1..n : (s \o t)[i] = Of("params", B[i])
                      /\ \A i \in 1..n : (s \o t)[n + i] = Of("module", B[i])
    BY <1>2 DEF TwoPhases, Phases
  <2>1. /\ s \o t \in Seq(Callback) /\ Len(s \o t) = Len(s) + Len(t)
        /\ \A i \in 1..Len(s) : (s \o t)[i] = s[i]
        /\ \A i \in 1..Len(t) : (s \o t)[Len(s) + i] = t[i]
    <3>1. s \in Seq(Callback) /\ t \in Seq(Callback)
      OBVIOUS
    <3> QED BY ONLY <3>1, ConcatElements
  <2> QED BY <2>1
<1>4. \A i \in 1..n : Called(B[i]) = {"params", "module"}
  <2>1. app.requested = {} \/ stage # "setup"
    OBVIOUS
  <2> QED BY <2>1 DEF Called
<1>5. /\ pos \in [Phases -> [1..n -> Nat]]
      /\ \A i \in 1..n : pos["params"][i] = i /\ pos["module"][i] = n + i
  BY <1>1 DEF Phases
<1> HIDE DEF pos
<1>6. ASSUME NEW i \in 1..n, NEW phase \in Called(B[i])
      PROVE  pos[phase][i] \in 1..Len(TwoPhases) /\ TwoPhases[pos[phase][i]] = Of(phase, B[i])
  <2>1. i \in 1..n + n /\ n + i \in 1..n + n
    BY <1>1
  <2>2. CASE phase = "params"
    BY <1>3, <1>5, <2>1, <2>2
  <2>3. CASE phase = "module"
    BY <1>3, <1>5, <2>1, <2>3
  <2> QED BY <1>4, <1>6, <2>2, <2>3
<1>7. ASSUME NEW p \in 1..Len(TwoPhases)
      PROVE  \E i \in 1..n : \E phase \in Called(B[i]) : p = pos[phase][i]
  <2>1. p \in 1..n \/ (p - n \in 1..n /\ p = n + (p - n))
    BY <1>1, <1>3
  <2>2. CASE p \in 1..n
    BY <1>4, <1>5, <2>2
  <2>3. CASE p - n \in 1..n /\ p = n + (p - n)
    BY <1>4, <1>5, <2>3
  <2> QED BY <2>1, <2>2, <2>3
<1>8. \A i, j \in 1..n : \A phase \in {"params", "module"} :
        i < j => pos[phase][i] < pos[phase][j]
  BY <1>1, <1>5
<1>9. ASSUME NEW i \in 1..n, NEW j \in 1..n PROVE pos["params"][i] < pos["module"][j]
  <2>1. i < n + j
    BY <1>1
  <2> QED BY <1>5, <2>1
<1>10. Spots(TwoPhases, pos)
  BY <1>6, <1>7, <1>8, <1>9 DEF Spots, n, B
<1> QED BY <1>3, <1>5, <1>10 DEF Placement, n

\* The setups of the modules, one after the other.
LEMMA InterleavedSpots ==
  ASSUME order \in Seq(Module), app \in Applications, allocated, stage = "setup"
  PROVE  Interleaved \in Seq(Callback) /\ \E pos \in Placement : Spots(Interleaved, pos)
<1> DEFINE n == Len(Backwards)
           B == Backwards
           seqs == [i \in DOMAIN Backwards |-> Setup(Backwards[i])]
<1>1. B \in Seq(Module) /\ n \in Nat /\ DOMAIN B = 1..n /\ \A i \in 1..n : B[i] \in Module
  BY BackwardsElements, Elements
<1>2. /\ seqs \in Seq(Seq(Callback)) /\ Len(seqs) = n
      /\ \A i \in 1..n : seqs[i] = Setup(B[i])
  <2>1. seqs = [i \in 1..n |-> Setup(B[i])]
    BY <1>1
  <2>2. \A i \in 1..n : Setup(B[i]) \in Seq(Callback)
    BY <1>1, SetupElements
  <2> HIDE DEF seqs, n, B
  <2>3. seqs \in [1..n -> Seq(Callback)]
    BY <2>1, <2>2
  <2>4. seqs \in Seq(Seq(Callback))
    BY <1>1, <2>3, SeqDef
  <2>5. Len(seqs) = n
    BY <1>1, <2>3, <2>4, LenProperties
  <2> QED BY <2>1, <2>4, <2>5
<1>3. Interleaved = FlattenSeq(seqs)
  BY DEF Interleaved
<1> HIDE DEF seqs, n, B
<1>4. /\ Interleaved \in Seq(Callback)
      /\ \E at \in [0..n -> Nat] : Laid(Interleaved, seqs, n, at)
  BY <1>2, <1>3, FlattenLaid
<1>5. PICK at \in [0..n -> Nat] : Laid(Interleaved, seqs, n, at)
  BY <1>4
<1>6. /\ at[n] = Len(Interleaved)
      /\ \A i \in 1..n : at[i] = at[i - 1] + Len(Setup(B[i]))
      /\ \A i \in 1..n : \A j \in 1..Len(Setup(B[i])) : Interleaved[at[i - 1] + j] = Setup(B[i])[j]
      /\ \A i, k \in 0..n : i <= k => at[i] <= at[k]
      /\ \A p \in 1..Len(Interleaved) :
           \E i \in 1..n : \E j \in 1..Len(Setup(B[i])) : p = at[i - 1] + j
  <2> DEFINE L(i) == Len(Setup(B[i]))
             part(i) == Setup(B[i])
  <2>1. \A i \in 1..n : seqs[i] = part(i) /\ Len(seqs[i]) = L(i)
    BY <1>2
  <2> HIDE DEF L, part
  <2>2. /\ at[n] = Len(Interleaved)
        /\ \A i, k \in 0..n : i <= k => at[i] <= at[k]
    BY <1>5 DEF Laid
  <2>3. /\ \A i \in 1..n : at[i] = at[i - 1] + L(i)
        /\ \A i \in 1..n : \A j \in 1..L(i) : Interleaved[at[i - 1] + j] = part(i)[j]
    <3> SUFFICES ASSUME NEW i \in 1..n
                 PROVE  /\ at[i] = at[i - 1] + L(i)
                        /\ \A j \in 1..L(i) : Interleaved[at[i - 1] + j] = part(i)[j]
      OBVIOUS
    <3>1. /\ at[i] = at[i - 1] + Len(seqs[i])
          /\ \A j \in 1..Len(seqs[i]) : Interleaved[at[i - 1] + j] = seqs[i][j]
      BY <1>5 DEF Laid
    <3> QED BY <2>1, <3>1
  <2>4. \A p \in 1..Len(Interleaved) : \E i \in 1..n : \E j \in 1..L(i) : p = at[i - 1] + j
    BY <1>5, <2>1 DEF Laid
  <2> QED BY <2>2, <2>3, <2>4 DEF L, part
<1>7. /\ \A i \in 1..n : i \in 0..n /\ i - 1 \in 0..n /\ i <= n
      /\ n \in 0..n /\ \A i, j \in 1..n : i < j => i <= j - 1
  BY <1>1
<1>8. \A i \in 1..n : at[i] \in Nat /\ at[i - 1] \in Nat /\ at[i] <= Len(Interleaved)
  BY <1>6, <1>7
<1>9. ASSUME NEW i \in 1..n
      PROVE  /\ B[i] \in app.requested =>
                  /\ at[i] = at[i - 1] + 3
                  /\ Interleaved[at[i - 1] + 1] = Of("owner", B[i])
                  /\ Interleaved[at[i - 1] + 2] = Of("params", B[i])
                  /\ Interleaved[at[i - 1] + 3] = Of("module", B[i])
             /\ B[i] \notin app.requested =>
                  /\ at[i] = at[i - 1] + 2
                  /\ Interleaved[at[i - 1] + 1] = Of("params", B[i])
                  /\ Interleaved[at[i - 1] + 2] = Of("module", B[i])
  <2>1. 1 \in 1..3 /\ 2 \in 1..3 /\ 3 \in 1..3 /\ 1 \in 1..2 /\ 2 \in 1..2
    OBVIOUS
  <2>2. /\ at[i] = at[i - 1] + Len(Setup(B[i]))
        /\ \A j \in 1..Len(Setup(B[i])) : Interleaved[at[i - 1] + j] = Setup(B[i])[j]
    BY <1>6
  <2>3. /\ B[i] \in app.requested =>
             /\ Len(Setup(B[i])) = 3 /\ Setup(B[i])[1] = Of("owner", B[i])
             /\ Setup(B[i])[2] = Of("params", B[i]) /\ Setup(B[i])[3] = Of("module", B[i])
        /\ B[i] \notin app.requested =>
             /\ Len(Setup(B[i])) = 2
             /\ Setup(B[i])[1] = Of("params", B[i]) /\ Setup(B[i])[2] = Of("module", B[i])
    BY <1>1, SetupElements
  <2>4. CASE B[i] \in app.requested
    BY <2>1, <2>2, <2>3, <2>4
  <2>5. CASE B[i] \notin app.requested
    BY <2>1, <2>2, <2>3, <2>5
  <2> QED BY <2>4, <2>5
<1> DEFINE pos == [phase \in Phases |-> [i \in 1..n |->
                     IF phase = "module" THEN at[i]
                     ELSE IF phase = "params" THEN at[i] - 1 ELSE at[i - 1] + 1]]
<1>10. ASSUME NEW i \in 1..n
       PROVE  /\ pos["module"][i] = at[i] /\ pos["params"][i] = at[i] - 1
              /\ pos["owner"][i] = at[i - 1] + 1
  BY DEF Phases
<1>11. \A i \in 1..n : Called(B[i]) = IF B[i] \in app.requested THEN Phases
                                      ELSE {"params", "module"}
  BY DEF Called
<1>12. ASSUME NEW i \in 1..n PROVE at[i - 1] + 2 <= at[i]
  <2> HIDE DEF pos
  <2> QED BY <1>8, <1>9
<1>13. pos \in [Phases -> [1..n -> Nat]]
  <2>1. \A i \in 1..n : at[i] \in Nat /\ at[i] - 1 \in Nat /\ at[i - 1] + 1 \in Nat
    <3> HIDE DEF pos
    <3> QED BY <1>8, <1>12
  <2> QED BY <2>1
<1> HIDE DEF pos
<1>14. ASSUME NEW i \in 1..n, NEW phase \in Called(B[i])
       PROVE  /\ pos[phase][i] \in 1..Len(Interleaved)
              /\ Interleaved[pos[phase][i]] = Of(phase, B[i])
              /\ at[i - 1] < pos[phase][i]
  <2>1. /\ Len(Interleaved) \in Nat /\ at[i] \in Nat /\ at[i - 1] \in Nat
        /\ at[i] <= Len(Interleaved)
    BY <1>4, <1>8, Elements
  <2>2. /\ pos["module"][i] = at[i] /\ pos["params"][i] = at[i] - 1
        /\ pos["owner"][i] = at[i - 1] + 1
    BY <1>10
  <2>3. CASE B[i] \in app.requested
    <3>1. /\ at[i] = at[i - 1] + 3
          /\ Interleaved[at[i - 1] + 1] = Of("owner", B[i])
          /\ Interleaved[at[i - 1] + 2] = Of("params", B[i])
          /\ Interleaved[at[i - 1] + 3] = Of("module", B[i])
      BY <1>9, <2>3
    <3>2. /\ at[i] - 1 = at[i - 1] + 2
          /\ at[i - 1] + 1 \in 1..Len(Interleaved) /\ at[i - 1] < at[i - 1] + 1
          /\ at[i - 1] + 2 \in 1..Len(Interleaved) /\ at[i - 1] < at[i - 1] + 2
          /\ at[i - 1] + 3 \in 1..Len(Interleaved) /\ at[i - 1] < at[i - 1] + 3
      <4>1. at[i - 1] + 3 <= Len(Interleaved) /\ at[i] - 1 = at[i - 1] + 2
        BY <2>1, <3>1
      <4>2. 3 \in Nat /\ 1 \in 1..3 /\ 2 \in 1..3 /\ 3 \in 1..3
        OBVIOUS
      <4> QED BY <2>1, <4>1, <4>2, WithinLength, Zenon
    <3>3. phase \in Phases
      BY <1>11, <1>14, <2>3
    <3>4. CASE phase = "module"
      BY <2>2, <3>1, <3>2, <3>4, Zenon
    <3>5. CASE phase = "params"
      BY <2>2, <3>1, <3>2, <3>5, Zenon
    <3>6. CASE phase = "owner"
      BY <2>2, <3>1, <3>2, <3>6, Zenon
    <3> QED BY <3>3, <3>4, <3>5, <3>6 DEF Phases
  <2>4. CASE B[i] \notin app.requested
    <3>1. /\ at[i] = at[i - 1] + 2
          /\ Interleaved[at[i - 1] + 1] = Of("params", B[i])
          /\ Interleaved[at[i - 1] + 2] = Of("module", B[i])
      BY <1>9, <2>4
    <3>2. /\ at[i] - 1 = at[i - 1] + 1
          /\ at[i - 1] + 1 \in 1..Len(Interleaved) /\ at[i - 1] < at[i - 1] + 1
          /\ at[i - 1] + 2 \in 1..Len(Interleaved) /\ at[i - 1] < at[i - 1] + 2
      BY <2>1, <3>1
    <3>3. phase = "params" \/ phase = "module"
      BY <1>11, <1>14, <2>4
    <3>4. CASE phase = "module"
      BY <2>2, <3>1, <3>2, <3>4, Zenon
    <3>5. CASE phase = "params"
      BY <2>2, <3>1, <3>2, <3>5, Zenon
    <3> QED BY <3>3, <3>4, <3>5
  <2> QED BY <2>3, <2>4
<1>15. ASSUME NEW p \in 1..Len(Interleaved)
       PROVE  \E i \in 1..n : \E phase \in Called(B[i]) : p = pos[phase][i]
  <2>0. PICK i \in 1..n : \E j \in 1..Len(Setup(B[i])) : p = at[i - 1] + j
    BY <1>6
  <2>1. PICK j \in 1..Len(Setup(B[i])) : p = at[i - 1] + j
    BY <2>0
  <2>2. CASE B[i] \in app.requested
    <3>0. Len(Setup(B[i])) = 3
      BY <1>1, <2>2, SetupElements
    <3>1. j = 1 \/ j = 2 \/ j = 3
      BY <3>0
    <3>2. at[i] = at[i - 1] + 3 /\ at[i] - 1 = at[i - 1] + 2
      BY <1>8, <1>9, <2>2
    <3>3. p = pos["owner"][i] \/ p = pos["params"][i] \/ p = pos["module"][i]
      BY <1>10, <2>1, <3>1, <3>2
    <3> QED BY <1>11, <2>2, <3>3 DEF Phases
  <2>3. CASE B[i] \notin app.requested
    <3>0. Len(Setup(B[i])) = 2
      BY <1>1, <2>3, SetupElements
    <3>1. j = 1 \/ j = 2
      BY <3>0
    <3>2. at[i] = at[i - 1] + 2 /\ at[i] - 1 = at[i - 1] + 1
      BY <1>8, <1>9, <2>3
    <3>3. p = pos["params"][i] \/ p = pos["module"][i]
      BY <1>10, <2>1, <3>1, <3>2
    <3> QED BY <1>11, <2>3, <3>3
  <2> QED BY <2>2, <2>3
<1>16. ASSUME NEW i \in 1..n, NEW j \in 1..n, i < j PROVE at[i] <= at[j - 1]
  BY <1>6, <1>7, <1>16
<1>17. ASSUME NEW i \in 1..n, NEW j \in 1..n, i < j,
              NEW phase \in Called(B[j])
       PROVE  pos["module"][i] < pos[phase][j]
  <2>1. at[i] <= at[j - 1]
    BY <1>16, <1>17
  <2>2. at[j - 1] < pos[phase][j] /\ pos[phase][j] \in 1..Len(Interleaved)
    BY <1>14
  <2>3. pos[phase][j] \in Nat
    BY <2>2
  <2>4. pos["module"][i] = at[i] /\ at[i] \in Nat /\ at[j - 1] \in Nat
    BY <1>8, <1>10
  <2> QED BY ONLY <2>1, <2>2, <2>3, <2>4
<1>18. ASSUME NEW i \in 1..n, NEW j \in 1..n, NEW phase \in {"params", "module"}, i < j
       PROVE  pos[phase][i] < pos[phase][j]
  <2>1. at[i] < at[j]
    BY <1>8, <1>12, <1>16, <1>18
  <2>2. CASE phase = "module"
    BY <1>10, <2>1, <2>2
  <2>3. CASE phase = "params"
    BY <1>8, <1>10, <2>1, <2>3
  <2> QED BY <1>18, <2>2, <2>3
<1>19. ASSUME NEW i \in 1..n, "owner" \in Called(B[i])
       PROVE  pos["owner"][i] < pos["params"][i]
  <2>1. B[i] \in app.requested
    BY <1>11, <1>19
  <2> QED BY <1>8, <1>9, <1>10, <2>1
<1>20. Spots(Interleaved, pos)
  BY <1>14, <1>15, <1>17, <1>18, <1>19 DEF Spots, n, B
<1> QED BY <1>4, <1>13, <1>20 DEF Placement, n

LEMMA PassSpots ==
  ASSUME LifecycleTypeOK
  PROVE  Pass \in Seq(Callback) /\ \E pos \in Placement : Spots(Pass, pos)
<1>1. order \in Seq(Module) /\ app \in Applications /\ (app.requested # {} => allocated)
  BY DEF LifecycleTypeOK
<1>2. CASE allocated /\ stage = "setup"
  BY <1>1, <1>2, InterleavedSpots DEF Pass
<1>3. CASE ~ (allocated /\ stage = "setup")
  BY <1>1, <1>3, TwoPhasesSpots DEF Pass
<1> QED BY <1>2, <1>3

LEMMA StartSetupKept ==
  ASSUME LifecycleInv, StartSetup
  PROVE  LifecycleInv'
<1>1. /\ stage = "order" /\ stack = <<>> /\ stage' = "setup"
      /\ UNCHANGED <<input, closing, stack, order, ran>>
  BY DEF StartSetup
<1>2. /\ ClosureInv' /\ AssemblyInv'
      /\ app \in Applications /\ app' = app /\ allocated' = allocated
      /\ purpose' = purpose /\ todo' = todo /\ closure' = closure
      /\ Used' = Used /\ Cyclic' = Cyclic /\ Graph' = Graph
      /\ \A x : DependsOn(x)' = DependsOn(x) /\ Userless(x)' = Userless(x)
  BY <1>1, ClosingKept
<1>3. LifecycleTypeOK'
  BY <1>1, <1>2 DEF LifecycleInv, LifecycleTypeOK, input, closing, assembly
<1>4. ClosedInv'
  BY <1>1, <1>2 DEF LifecycleInv, ClosedInv
<1>5. VisitInv'
  <2>1. \A x : ReachedIn(DependsOn(x), Graph)' = ReachedIn(DependsOn(x), Graph)
    BY <1>2 DEF ReachedIn
  <2> QED BY <1>1, <1>2, <2>1 DEF LifecycleInv, VisitInv
<1>6. OrderInv' /\ PlaceInv'
  BY <1>1, <1>2 DEF LifecycleInv, OrderInv, PlaceInv
<1>7. ran' = <<>> /\ InPass'
  BY <1>1 DEF LifecycleInv, StageInv, InPass
<1>8. StageInv'
  BY <1>1, <1>2, <1>7 DEF LifecycleInv, StageInv, InPass
<1>9. RunInv'
  BY <1>7, EmptySeq DEF RunInv
<1> QED BY <1>2, <1>3, <1>4, <1>5, <1>6, <1>8, <1>9 DEF LifecycleInv

\* A step that only calls or begins a pass.
LEMMA PassStepKept ==
  ASSUME LifecycleInv, InPass, stage' \in {"setup", "loop"},
         UNCHANGED <<input, closing, stack, order>>
  PROVE  /\ ClosureInv' /\ AssemblyInv' /\ ClosedInv' /\ VisitInv' /\ OrderInv'
         /\ PlaceInv' /\ StageInv'
         /\ ran' \in Seq(Callback) => LifecycleTypeOK'
<1>2. /\ ClosureInv' /\ AssemblyInv'
      /\ app \in Applications /\ app' = app /\ allocated' = allocated
      /\ purpose' = purpose /\ todo' = todo /\ closure' = closure
      /\ Used' = Used /\ Cyclic' = Cyclic /\ Graph' = Graph
      /\ \A x : DependsOn(x)' = DependsOn(x) /\ Userless(x)' = Userless(x)
  BY ClosingKept
<1>3. ran' \in Seq(Callback) => LifecycleTypeOK'
  BY <1>2 DEF LifecycleInv, LifecycleTypeOK, input, closing, assembly
<1>4. ClosedInv'
  BY <1>2 DEF LifecycleInv, ClosedInv, InPass
<1>5. VisitInv'
  <2>1. \A x : ReachedIn(DependsOn(x), Graph)' = ReachedIn(DependsOn(x), Graph)
    BY <1>2 DEF ReachedIn
  <2>2. stage # "collect" /\ stage' # "collect"
    BY DEF InPass
  <2> QED BY <1>2, <2>1, <2>2 DEF LifecycleInv, VisitInv
<1>6. OrderInv' /\ PlaceInv'
  BY <1>2 DEF LifecycleInv, OrderInv, PlaceInv
<1>7. StageInv'
  BY <1>2 DEF LifecycleInv, StageInv, InPass
<1> QED BY <1>2, <1>3, <1>4, <1>5, <1>6, <1>7

LEMMA CallKept ==
  ASSUME LifecycleInv, Call
  PROVE  LifecycleInv'
<1>1. /\ InPass /\ Len(ran) < Len(Pass) /\ ran' = Append(ran, Pass[Len(ran) + 1])
      /\ UNCHANGED <<input, stage, closing, stack, order>>
  BY DEF Call
<1>2. /\ ClosureInv' /\ AssemblyInv' /\ ClosedInv' /\ VisitInv' /\ OrderInv'
      /\ PlaceInv' /\ StageInv' /\ (ran' \in Seq(Callback) => LifecycleTypeOK')
  BY <1>1, PassStepKept DEF InPass
<1>3. ran \in Seq(Callback) /\ LifecycleTypeOK /\ RunInv
  BY DEF LifecycleInv, LifecycleTypeOK
<1>4. Pass \in Seq(Callback)
  BY <1>3, PassSpots
<1>5. Len(ran) + 1 \in 1..Len(Pass) /\ Len(ran) \in Nat
  <2>1. Len(ran) \in Nat /\ Len(Pass) \in Nat
    BY <1>3, <1>4, Elements
  <2> QED BY <1>1, <2>1
<1>6. Pass[Len(ran) + 1] \in Callback /\ DOMAIN Pass = 1..Len(Pass)
  BY <1>4, <1>5, Elements
<1>7. /\ ran' \in Seq(Callback) /\ Len(ran') = Len(ran) + 1
      /\ \A i \in 1..Len(ran) : ran'[i] = ran[i]
      /\ ran'[Len(ran) + 1] = Pass[Len(ran) + 1]
  BY <1>1, <1>3, <1>6, AppendElements
<1>8. Pass' = Pass /\ InPass'
  <2>1. app' = app /\ allocated' = allocated /\ stage' = stage /\ order' = order
    BY <1>1 DEF input
  <2> QED BY <1>1, <2>1 DEF Pass, Interleaved, TwoPhases, AllOf, Backwards, Setup,
                           ParamsSetup, InPass
<1>9. RunInv'
  <2>1. DOMAIN ran = 1..Len(ran) /\ DOMAIN ran' = 1..Len(ran) + 1
    BY <1>3, <1>7, LenProperties
  <2>2. \A i \in 1..Len(ran) + 1 : i \in 1..Len(ran) \/ i = Len(ran) + 1
    BY <1>5
  <2>3. ASSUME NEW i \in 1..Len(ran) + 1 PROVE i \in DOMAIN Pass /\ ran'[i] = Pass[i]
    <3>1. CASE i \in 1..Len(ran)
      BY <1>1, <1>3, <1>7, <2>1, <3>1 DEF RunInv
    <3>2. CASE i = Len(ran) + 1
      BY <1>5, <1>6, <1>7, <3>2
    <3> QED BY <2>2, <3>1, <3>2
  <2> QED BY <1>8, <2>1, <2>3 DEF RunInv
<1> QED BY <1>2, <1>7, <1>9 DEF LifecycleInv

LEMMA StartLoopKept ==
  ASSUME LifecycleInv, StartLoop
  PROVE  LifecycleInv'
<1>1. /\ InPass /\ stage' = "loop" /\ ran' = <<>>
      /\ UNCHANGED <<input, closing, stack, order>>
  BY DEF StartLoop
<1>2. /\ ClosureInv' /\ AssemblyInv' /\ ClosedInv' /\ VisitInv' /\ OrderInv'
      /\ PlaceInv' /\ StageInv' /\ (ran' \in Seq(Callback) => LifecycleTypeOK')
  BY <1>1, PassStepKept
<1>3. ran' \in Seq(Callback) /\ DOMAIN ran' = {}
  BY <1>1, EmptySeq
<1>4. RunInv'
  BY <1>3 DEF RunInv
<1> QED BY <1>2, <1>3, <1>4 DEF LifecycleInv

-----------------------------------------------------------------------------
(* The invariant. *)

LEMMA StutterKept ==
  ASSUME LifecycleInv, UNCHANGED vars
  PROVE  LifecycleInv'
<1>1. UNCHANGED <<input, closing, stage, stack, order, ran>>
  BY DEF vars
<1>2. /\ ClosureInv' /\ AssemblyInv'
      /\ app \in Applications /\ app' = app /\ allocated' = allocated
      /\ purpose' = purpose /\ todo' = todo /\ closure' = closure
      /\ Used' = Used /\ Cyclic' = Cyclic /\ Graph' = Graph
      /\ \A x : DependsOn(x)' = DependsOn(x) /\ Userless(x)' = Userless(x)
  BY <1>1, ClosingKept
<1>3. LifecycleTypeOK'
  BY <1>1, <1>2 DEF LifecycleInv, LifecycleTypeOK, input, closing, assembly
<1>4. ClosedInv'
  BY <1>1, <1>2 DEF LifecycleInv, ClosedInv
<1>5. VisitInv'
  <2>1. \A x : ReachedIn(DependsOn(x), Graph)' = ReachedIn(DependsOn(x), Graph)
    BY <1>2 DEF ReachedIn
  <2> QED BY <1>1, <1>2, <2>1 DEF LifecycleInv, VisitInv
<1>6. OrderInv' /\ PlaceInv'
  BY <1>1, <1>2 DEF LifecycleInv, OrderInv, PlaceInv
<1>7. StageInv'
  BY <1>1, <1>2 DEF LifecycleInv, StageInv, InPass
<1>8. RunInv'
  <2>1. Pass' = Pass
    BY <1>1, <1>2 DEF Pass, Interleaved, TwoPhases, AllOf, Backwards, Setup, ParamsSetup
  <2> QED BY <1>1, <2>1 DEF LifecycleInv, RunInv, InPass
<1> QED BY <1>2, <1>3, <1>4, <1>5, <1>6, <1>7, <1>8 DEF LifecycleInv

\* The inductive invariant holds in every state.
THEOREM LifecycleInvariant == Spec => []LifecycleInv
<1>1. Init => LifecycleInv
  BY InitKept
<1>2. LifecycleInv /\ [Next]_vars => LifecycleInv'
  <2> SUFFICES ASSUME LifecycleInv, [Next]_vars PROVE LifecycleInv'
    OBVIOUS
  <2>1. CASE Collect
    BY <2>1, CollectKept
  <2>2. CASE CloseDescriptors
    BY <2>2, CloseDescriptorsKept
  <2>3. CASE ReadRequested
    BY <2>3, ReadRequestedKept
  <2>4. CASE OpenExisting
    BY <2>4, OpenExistingKept
  <2>5. CASE ReadExisting
    BY <2>5, ReadExistingKept
  <2>6. CASE BindDescriptors
    BY <2>6, BindDescriptorsKept
  <2>7. CASE StartOrder
    BY <2>7, StartOrderKept
  <2>8. CASE SkipComplete
    BY <2>8, SkipCompleteKept
  <2>9. CASE RejectCycle
    BY <2>9, RejectCycleKept
  <2>10. CASE Descend
    BY <2>10, DescendKept
  <2>11. CASE Place
    BY <2>11, PlaceKept
  <2>12. CASE StartSetup
    BY <2>12, StartSetupKept
  <2>13. CASE Call
    BY <2>13, CallKept
  <2>14. CASE StartLoop
    BY <2>14, StartLoopKept
  <2>15. CASE UNCHANGED vars
    BY <2>15, StutterKept
  <2> QED
    BY <2>1, <2>2, <2>3, <2>4, <2>5, <2>6, <2>7, <2>8, <2>9, <2>10, <2>11, <2>12,
       <2>13, <2>14, <2>15 DEF Next
<1> QED BY <1>1, <1>2, PTL DEF Spec

-----------------------------------------------------------------------------
(* What follows from it. *)

\* The allocation is given the claims of every module the application will have, in one
\* list and before any of them is bound (allocated_application.hpp:46-47,74-100).
THEOREM AllocationSeesAllClaims == Spec => []AllocationSeesClaims
<1>1. LifecycleInv => AllocationSeesClaims
  <2> SUFFICES ASSUME LifecycleInv, allocated, purpose = "modules"
               PROVE  collected = Reached(ToSet(app.roots),
                        LAMBDA m : IF m \in app.requested THEN ToSet(app.via[m])
                                   ELSE DependsOn(m))
    BY DEF AllocationSeesClaims
  <2>1. collected = Known
    BY DEF LifecycleInv, AssemblyInv
  <2>2. Known = Reached(ToSet(app.roots),
                        LAMBDA m : IF m \in app.requested THEN ToSet(app.via[m])
                                   ELSE DependsOn(m))
    BY DEF Known, Reached, ReachedIn, KnownGraph
  <2> QED BY <2>1, <2>2
<1> QED BY <1>1, LifecycleInvariant, PTL

\* The order in which the runner has the modules.
LEMMA BackwardsIsOrdered ==
  ASSUME LifecycleInv, InPass
  PROVE  LET B == Backwards
             n == Len(Backwards)
         IN  /\ B \in Seq(Module) /\ n \in Nat
             /\ \A i, j \in 1..n : B[i] = B[j] => i = j
             /\ \A m : m \in Used <=> \E i \in 1..n : B[i] = m
             /\ \A i \in 1..n : \A d \in DependsOn(B[i]) : \E j \in 1..n : j < i /\ B[j] = d
             /\ \A i, j \in DOMAIN closure :
                  i < j /\ Userless(closure[i]) /\ Userless(closure[j]) =>
                    \A a \in 1..n : B[a] = closure[i] =>
                      \E b \in 1..n : b < a /\ B[b] = closure[j]
<1> DEFINE B == Backwards
           n == Len(order)
<1>0. order \in Seq(Module) /\ OrderInv /\ PlaceInv
  BY DEF LifecycleInv, LifecycleTypeOK
<1>1. /\ B \in Seq(Module) /\ Len(B) = n /\ n \in Nat
      /\ DOMAIN order = 1..n
      /\ \A i \in 1..n : B[i] = order[(n - i) + 1]
  BY <1>0, BackwardsElements, Elements
<1>2. stack = <<>> /\ stage # "collect"
  BY DEF LifecycleInv, StageInv, InPass
<1>3. ToSet(order) = Used
  <2>1. DOMAIN stack = {}
    BY <1>2, EmptySeq
  <2> QED BY <1>2, <2>1 DEF LifecycleInv, VisitInv
<1> HIDE DEF B, n
<1>4. /\ \A i \in 1..n : (n - i) + 1 \in 1..n /\ (n - ((n - i) + 1)) + 1 = i
      /\ \A i, j \in 1..n : (n - i) + 1 = (n - j) + 1 => i = j
      /\ \A i, j \in 1..n : (n - i) + 1 < j => (n - j) + 1 < i
  BY <1>1
<1>5. \A i \in 1..n : order[i] = B[(n - i) + 1]
  BY <1>1, <1>4
<1>6. \A i, j \in 1..n : B[i] = B[j] => i = j
  <2>1. \A i, j \in 1..n : order[i] = order[j] => i = j
    BY <1>0, <1>1 DEF OrderInv, IsInjective
  <2> QED BY <1>1, <1>4, <2>1
<1>7. ASSUME NEW m PROVE m \in Used <=> \E i \in 1..n : B[i] = m
  <2>1. m \in Used <=> \E i \in 1..n : order[i] = m
    BY <1>0, <1>3, Elements DEF n
  <2> QED BY <1>1, <1>4, <1>5, <2>1
<1>8. ASSUME NEW i \in 1..n, NEW d \in DependsOn(B[i])
      PROVE  \E j \in 1..n : j < i /\ B[j] = d
  <2>1. PICK k \in 1..n : (n - i) + 1 < k /\ order[k] = d
    <3>1. (n - i) + 1 \in 1..n /\ d \in DependsOn(order[(n - i) + 1])
      BY <1>1, <1>4
    <3> QED BY <1>0, <1>1, <3>1 DEF OrderInv
  <2>2. (n - k) + 1 \in 1..n /\ (n - k) + 1 < i /\ B[(n - k) + 1] = d
    BY <1>4, <1>5, <2>1
  <2> QED BY <2>2
<1>9. ASSUME NEW i \in DOMAIN closure, NEW j \in DOMAIN closure, i < j,
             Userless(closure[i]), Userless(closure[j]),
             NEW a \in 1..n, B[a] = closure[i]
      PROVE  \E b \in 1..n : b < a /\ B[b] = closure[j]
  <2>1. PICK k \in 1..n : (n - a) + 1 < k /\ order[k] = closure[j]
    <3>1. (n - a) + 1 \in 1..n /\ order[(n - a) + 1] = closure[i]
      BY <1>1, <1>4, <1>9
    <3> QED BY <1>0, <1>1, <1>9, <3>1 DEF PlaceInv
  <2>2. (n - k) + 1 \in 1..n /\ (n - k) + 1 < a /\ B[(n - k) + 1] = closure[j]
    BY <1>4, <1>5, <2>1
  <2> QED BY <2>2
<1>10. Len(Backwards) = n /\ B = Backwards
  BY <1>1 DEF B
<1> QED BY <1>1, <1>6, <1>7, <1>8, <1>9, <1>10

\* What a whole pass is.
LEMMA PassIsOrdered ==
  ASSUME LifecycleInv, InPass
  PROVE  LET n == Len(Pass)
             shared == allocated /\ stage = "setup"
         IN  /\ n \in Nat /\ \A p \in 1..n : Pass[p] \in Callback
             /\ \A p, q \in 1..n : Pass[p] = Pass[q] => p = q
             /\ \A m \in Module, phase \in Phases :
                  (\E p \in 1..n : Pass[p] = Of(phase, m)) <=> m \in Used /\ phase \in Called(m)
             /\ \A p \in 1..n : Pass[p].phase # "owner" =>
                  \A d \in DependsOn(Pass[p].node) :
                    \E q \in 1..n : q < p /\ Pass[q] = Of(Pass[p].phase, d)
             /\ \A i, j \in DOMAIN closure :
                  i < j /\ Userless(closure[i]) /\ Userless(closure[j]) =>
                    \A phase \in {"params", "module"}, p \in 1..n : Pass[p] = Of(phase, closure[i]) =>
                      \E q \in 1..n : q < p /\ Pass[q] = Of(phase, closure[j])
             /\ shared => \A p \in 1..n : Pass[p].phase # "module" =>
                  \A d \in DependsOn(Pass[p].node) :
                    \E q \in 1..n : q < p /\ Pass[q] = Of("module", d)
             /\ shared => \A p \in 1..n :
                  Pass[p].phase = "params" /\ Pass[p].node \in app.requested =>
                    \E q \in 1..n : q < p /\ Pass[q] = Of("owner", Pass[p].node)
             /\ ~shared => \A p \in 1..n : Pass[p].phase # "module" =>
                  \A q \in 1..n : q < p => Pass[q].phase = "params"
<1> DEFINE B == Backwards
           n == Len(Backwards)
           l == Len(Pass)
           shared == allocated /\ stage = "setup"
<1>1. Pass \in Seq(Callback) /\ \E pos \in Placement : Spots(Pass, pos)
  BY PassSpots DEF LifecycleInv
<1>2. PICK pos \in Placement : Spots(Pass, pos)
  BY <1>1
<1>3. /\ B \in Seq(Module) /\ n \in Nat
      /\ \A i, j \in 1..n : B[i] = B[j] => i = j
      /\ \A m : m \in Used <=> \E i \in 1..n : B[i] = m
      /\ \A i \in 1..n : \A d \in DependsOn(B[i]) : \E j \in 1..n : j < i /\ B[j] = d
      /\ \A i, j \in DOMAIN closure :
           i < j /\ Userless(closure[i]) /\ Userless(closure[j]) =>
             \A a \in 1..n : B[a] = closure[i] =>
               \E b \in 1..n : b < a /\ B[b] = closure[j]
  BY BackwardsIsOrdered
<1>4. /\ \A i \in 1..n : \A phase \in Called(B[i]) :
           pos[phase][i] \in 1..l /\ Pass[pos[phase][i]] = Of(phase, B[i])
      /\ \A p \in 1..l : \E i \in 1..n : \E phase \in Called(B[i]) : p = pos[phase][i]
      /\ \A i, j \in 1..n : \A phase \in {"params", "module"} :
           i < j => pos[phase][i] < pos[phase][j]
      /\ shared => \A i, j \in 1..n : \A phase \in Called(B[j]) :
                     i < j => pos["module"][i] < pos[phase][j]
      /\ shared => \A i \in 1..n :
                     "owner" \in Called(B[i]) => pos["owner"][i] < pos["params"][i]
      /\ ~shared => \A i, j \in 1..n : pos["params"][i] < pos["module"][j]
  BY <1>2 DEF Spots
<1>5. l \in Nat /\ \A p \in 1..l : Pass[p] \in Callback
  BY <1>1, Elements
<1>6. \A m : {"params", "module"} \subseteq Called(m) /\ Called(m) \subseteq Phases
  BY DEF Called, Phases
<1> HIDE DEF B, n, l
<1>7. \A p \in 1..l : \E i \in 1..n : \E phase \in Called(B[i]) :
        /\ p = pos[phase][i] /\ Pass[p] = Of(phase, B[i])
        /\ Pass[p].phase = phase /\ Pass[p].node = B[i]
  BY <1>4, OfFields
<1>8. ASSUME NEW p \in 1..l, NEW i \in 1..n, NEW phase, Pass[p] = Of(phase, B[i])
      PROVE  phase \in Called(B[i]) /\ p = pos[phase][i]
  <2>1. PICK j \in 1..n : \E x \in Called(B[j]) : p = pos[x][j] /\ Pass[p] = Of(x, B[j])
    BY <1>7
  <2>2. PICK x \in Called(B[j]) : p = pos[x][j] /\ Pass[p] = Of(x, B[j])
    BY <2>1
  <2>3. x = phase /\ B[i] = B[j]
    BY <1>8, <2>2, OfFields
  <2> QED BY <1>3, <2>2, <2>3
<1>9. ASSUME NEW p \in 1..l, NEW q \in 1..l, Pass[p] = Pass[q] PROVE p = q
  <2>1. PICK i \in 1..n : \E phase \in Called(B[i]) :
          p = pos[phase][i] /\ Pass[p] = Of(phase, B[i])
    BY <1>7
  <2> QED BY <1>8, <1>9, <2>1
<1>10. ASSUME NEW m \in Module, NEW phase \in Phases
       PROVE  (\E p \in 1..l : Pass[p] = Of(phase, m)) <=> m \in Used /\ phase \in Called(m)
  <2>1. ASSUME NEW p \in 1..l, Pass[p] = Of(phase, m)
        PROVE  m \in Used /\ phase \in Called(m)
    <3>1. PICK i \in 1..n : Pass[p].node = B[i]
      BY <1>7
    <3>2. B[i] = m
      BY <2>1, <3>1, OfFields
    <3>3. phase \in Called(B[i])
      BY <1>8, <2>1, <3>2
    <3> QED BY <1>3, <3>2, <3>3
  <2>2. ASSUME m \in Used, phase \in Called(m)
        PROVE  \E p \in 1..l : Pass[p] = Of(phase, m)
    <3>1. PICK i \in 1..n : B[i] = m
      BY <1>3, <2>2
    <3> QED BY <1>4, <2>2, <3>1
  <2> QED BY <2>1, <2>2
<1>11. ASSUME NEW p \in 1..l, Pass[p].phase # "owner", NEW d \in DependsOn(Pass[p].node)
       PROVE  \E q \in 1..l : q < p /\ Pass[q] = Of(Pass[p].phase, d)
  <2>1. PICK i \in 1..n : \E phase \in Called(B[i]) :
          p = pos[phase][i] /\ Pass[p].phase = phase /\ Pass[p].node = B[i]
    BY <1>7
  <2>2. PICK phase \in Called(B[i]) :
          p = pos[phase][i] /\ Pass[p].phase = phase /\ Pass[p].node = B[i]
    BY <2>1
  <2>3. phase \in {"params", "module"}
    BY <1>6, <1>11, <2>2 DEF Phases
  <2>4. PICK j \in 1..n : j < i /\ B[j] = d
    BY <1>3, <1>11, <2>2
  <2>5. phase \in Called(B[j])
    BY <1>6, <2>3
  <2>6. pos[phase][j] \in 1..l /\ Pass[pos[phase][j]] = Of(phase, d)
    BY <1>4, <2>4, <2>5
  <2>7. pos[phase][j] < p
    BY <1>4, <2>2, <2>3, <2>4
  <2> QED BY <2>2, <2>6, <2>7
<1>12. ASSUME NEW i \in DOMAIN closure, NEW j \in DOMAIN closure, i < j,
              Userless(closure[i]), Userless(closure[j]),
              NEW phase \in {"params", "module"}, NEW p \in 1..l,
              Pass[p] = Of(phase, closure[i])
       PROVE  \E q \in 1..l : q < p /\ Pass[q] = Of(phase, closure[j])
  <2>1. PICK a \in 1..n : Pass[p].node = B[a]
    BY <1>7
  <2>2. B[a] = closure[i]
    BY <1>12, <2>1, OfFields
  <2>3. p = pos[phase][a]
    BY <1>8, <1>12, <2>2
  <2>4. PICK b \in 1..n : b < a /\ B[b] = closure[j]
    BY <1>3, <1>12, <2>2
  <2>5. phase \in Called(B[b])
    BY <1>6
  <2>6. pos[phase][b] \in 1..l /\ Pass[pos[phase][b]] = Of(phase, closure[j])
    BY <1>4, <2>4, <2>5
  <2>7. pos[phase][b] < p
    BY <1>4, <2>3, <2>4
  <2> QED BY <2>6, <2>7
<1>13. ASSUME shared, NEW p \in 1..l, Pass[p].phase # "module",
              NEW d \in DependsOn(Pass[p].node)
       PROVE  \E q \in 1..l : q < p /\ Pass[q] = Of("module", d)
  <2>1. PICK i \in 1..n : \E phase \in Called(B[i]) :
          p = pos[phase][i] /\ Pass[p].phase = phase /\ Pass[p].node = B[i]
    BY <1>7
  <2>2. PICK phase \in Called(B[i]) : p = pos[phase][i] /\ Pass[p].node = B[i]
    BY <2>1
  <2>3. PICK j \in 1..n : j < i /\ B[j] = d
    BY <1>3, <1>13, <2>2
  <2>4. pos["module"][j] \in 1..l /\ Pass[pos["module"][j]] = Of("module", d)
    BY <1>4, <1>6, <2>3
  <2>5. pos["module"][j] < p
    BY <1>4, <1>13, <2>2, <2>3
  <2> QED BY <2>4, <2>5
<1>14. ASSUME shared, NEW p \in 1..l, Pass[p].phase = "params",
              Pass[p].node \in app.requested
       PROVE  \E q \in 1..l : q < p /\ Pass[q] = Of("owner", Pass[p].node)
  <2>1. PICK i \in 1..n : \E phase \in Called(B[i]) :
          p = pos[phase][i] /\ Pass[p].phase = phase /\ Pass[p].node = B[i]
    BY <1>7
  <2>2. p = pos["params"][i] /\ Pass[p].node = B[i]
    BY <1>14, <2>1
  <2>3. "owner" \in Called(B[i])
    BY <1>14, <2>2 DEF Called, Phases
  <2>4. pos["owner"][i] \in 1..l /\ Pass[pos["owner"][i]] = Of("owner", B[i])
    BY <1>4, <2>3
  <2>5. pos["owner"][i] < p
    BY <1>4, <1>14, <2>2, <2>3
  <2> QED BY <2>2, <2>4, <2>5
<1>15. ASSUME ~shared, NEW p \in 1..l, Pass[p].phase # "module", NEW q \in 1..l, q < p
       PROVE  Pass[q].phase = "params"
  <2>1. \A m : Called(m) = {"params", "module"}
    <3>1. app.requested = {} \/ stage # "setup"
      BY <1>15 DEF LifecycleInv, LifecycleTypeOK
    <3> QED BY <3>1 DEF Called
  <2>2. PICK i \in 1..n : \E phase \in Called(B[i]) :
          p = pos[phase][i] /\ Pass[p].phase = phase
    BY <1>7
  <2>3. p = pos["params"][i]
    BY <1>15, <2>1, <2>2
  <2>4. PICK j \in 1..n : \E phase \in Called(B[j]) :
          q = pos[phase][j] /\ Pass[q].phase = phase
    BY <1>7
  <2>5. ~ (q = pos["module"][j])
    <3>1. pos["params"][i] < pos["module"][j]
      BY <1>4, <1>15
    <3> QED BY <1>5, <1>15, <2>3, <3>1
  <2> QED BY <2>1, <2>4, <2>5
<1>16. l = Len(Pass)
  BY DEF l
<1> HIDE DEF shared
<1>17. \A p, q \in 1..l : Pass[p] = Pass[q] => p = q
  BY <1>9
<1>18. \A m \in Module, phase \in Phases :
         (\E p \in 1..l : Pass[p] = Of(phase, m)) <=> m \in Used /\ phase \in Called(m)
  BY <1>10
<1>19. \A p \in 1..l : Pass[p].phase # "owner" =>
         \A d \in DependsOn(Pass[p].node) :
           \E q \in 1..l : q < p /\ Pass[q] = Of(Pass[p].phase, d)
  BY <1>11
<1>20. \A i, j \in DOMAIN closure :
         i < j /\ Userless(closure[i]) /\ Userless(closure[j]) =>
           \A phase \in {"params", "module"}, p \in 1..l : Pass[p] = Of(phase, closure[i]) =>
             \E q \in 1..l : q < p /\ Pass[q] = Of(phase, closure[j])
  BY <1>12
<1>21. shared => \A p \in 1..l : Pass[p].phase # "module" =>
         \A d \in DependsOn(Pass[p].node) :
           \E q \in 1..l : q < p /\ Pass[q] = Of("module", d)
  BY <1>13
<1>22. shared => \A p \in 1..l :
         Pass[p].phase = "params" /\ Pass[p].node \in app.requested =>
           \E q \in 1..l : q < p /\ Pass[q] = Of("owner", Pass[p].node)
  BY <1>14
<1>23. ~shared => \A p \in 1..l : Pass[p].phase # "module" =>
         \A q \in 1..l : q < p => Pass[q].phase = "params"
  BY <1>15
<1> QED BY <1>5, <1>16, <1>17, <1>18, <1>19, <1>20, <1>21, <1>22, <1>23 DEF shared

\* What has run of a pass.
LEMMA RanOfPass ==
  ASSUME LifecycleInv, InPass
  PROVE  /\ Len(ran) \in Nat /\ DOMAIN ran = 1..Len(ran) /\ Len(ran) <= Len(Pass)
         /\ \A i \in 1..Len(ran) : i \in 1..Len(Pass) /\ ran[i] = Pass[i]
<1>1. Len(ran) \in Nat /\ DOMAIN ran = 1..Len(ran)
  BY Elements DEF LifecycleInv, LifecycleTypeOK
<1>2. Pass \in Seq(Callback)
  BY PassSpots DEF LifecycleInv
<1>3. DOMAIN Pass = 1..Len(Pass) /\ Len(Pass) \in Nat
  BY <1>2, Elements
<1>4. \A i \in 1..Len(ran) : i \in 1..Len(Pass) /\ ran[i] = Pass[i]
  BY <1>1, <1>3 DEF LifecycleInv, RunInv
<1>5. Len(ran) <= Len(Pass)
  <2>1. CASE Len(ran) = 0
    BY <1>3, <2>1
  <2>2. CASE Len(ran) # 0
    <3>1. Len(ran) \in 1..Len(ran)
      BY <1>1, <2>2
    <3>2. Len(ran) \in 1..Len(Pass)
      BY <1>4, <3>1
    <3> QED BY <1>3, <3>2
  <2> QED BY <2>1, <2>2
<1> QED BY <1>1, <1>4, <1>5

\* Outside the passes nothing has run.
LEMMA NothingRan ==
  ASSUME LifecycleInv, ~InPass
  PROVE  DOMAIN ran = {}
BY EmptySeq DEF LifecycleInv, StageInv

\* In either phase of a pass the callback of a module comes after those of all it
\* depends on (lifecycle_order.hpp:41, README.md:62).
THEOREM CallbacksFollowDependencies == Spec => []DependenciesFirst
<1>1. LifecycleInv => DependenciesFirst
  <2> SUFFICES ASSUME LifecycleInv, NEW i \in DOMAIN ran, ran[i].phase # "owner",
                      NEW d \in DependsOn(ran[i].node)
               PROVE  \E j \in 1..i - 1 : ran[j] = Of(ran[i].phase, d)
    BY DEF DependenciesFirst
  <2>1. InPass
    BY NothingRan
  <2>2. /\ Len(ran) \in Nat /\ i \in 1..Len(ran) /\ i \in 1..Len(Pass) /\ ran[i] = Pass[i]
        /\ \A j \in 1..Len(ran) : ran[j] = Pass[j]
    BY <2>1, RanOfPass
  <2>3. PICK q \in 1..Len(Pass) : q < i /\ Pass[q] = Of(Pass[i].phase, d)
    <3>1. \A p \in 1..Len(Pass) : Pass[p].phase # "owner" =>
            \A m \in DependsOn(Pass[p].node) :
              \E q \in 1..Len(Pass) : q < p /\ Pass[q] = Of(Pass[p].phase, m)
      BY <2>1, PassIsOrdered
    <3> QED BY <2>2, <3>1
  <2>4. q \in 1..i - 1 /\ q \in 1..Len(ran)
    BY <2>2, <2>3
  <2> QED BY <2>2, <2>3, <2>4
<1> QED BY <1>1, LifecycleInvariant, PTL

\* A pass calls every module that is declared or depended on, each once per phase, and
\* sets a timer up for every requested module only (README.md:65-66, module.hpp:134-142,
\* allocated_application.hpp:67-70).
THEOREM EveryModuleRunsOnce == Spec => []EachOnce
<1>1. LifecycleInv => EachOnce
  <2> SUFFICES ASSUME LifecycleInv PROVE EachOnce
    OBVIOUS
  <2>1. ASSUME NEW i \in DOMAIN ran, NEW j \in DOMAIN ran, ran[i] = ran[j] PROVE i = j
    <3>1. InPass
      BY NothingRan
    <3>2. /\ i \in 1..Len(Pass) /\ ran[i] = Pass[i]
          /\ j \in 1..Len(Pass) /\ ran[j] = Pass[j]
      BY <3>1, RanOfPass
    <3>3. \A p, q \in 1..Len(Pass) : Pass[p] = Pass[q] => p = q
      BY <3>1, PassIsOrdered
    <3> QED BY <2>1, <3>2, <3>3
  <2>2. ASSUME InPass, Len(ran) = Len(Pass), NEW m \in Module
        PROVE  /\ \A phase \in {"params", "module"} : HasRun(phase, m) <=> m \in Used
               /\ HasRun("owner", m) <=> m \in Used \cap app.requested /\ stage = "setup"
    <3>1. \A i \in 1..Len(ran) : ran[i] = Pass[i]
      BY <2>2, RanOfPass
    <3>2. \A phase \in Phases : HasRun(phase, m) <=> m \in Used /\ phase \in Called(m)
      <4> TAKE phase \in Phases
      <4>1. (\E p \in 1..Len(Pass) : Pass[p] = Of(phase, m)) <=> m \in Used /\ phase \in Called(m)
        BY <2>2, PassIsOrdered
      <4>2. HasRun(phase, m) <=> \E p \in 1..Len(ran) : ran[p] = Of(phase, m)
        BY DEF HasRun, Contains
      <4> QED BY <2>2, <3>1, <4>1, <4>2
    <3>3. /\ {"params", "module"} \subseteq Called(m)
          /\ "owner" \in Called(m) <=> m \in app.requested /\ stage = "setup"
      BY DEF Called, Phases
    <3> QED BY <3>2, <3>3 DEF Phases
  <2> QED BY <2>1, <2>2 DEF EachOnce
<1> QED BY <1>1, LifecycleInvariant, PTL

\* Nothing reachable from behind a module in a topological order is the module itself.
LEMMA OrderedIsAcyclic ==
  ASSUME LifecycleInv, InPass
  PROVE  ~Cyclic
<1> DEFINE n == Len(order)
<1>1. /\ order \in Seq(Module) /\ OrderInv /\ app \in Applications
      /\ DOMAIN order = 1..n /\ n \in Nat /\ \A i \in 1..n : order[i] \in Module
  BY Elements DEF LifecycleInv, LifecycleTypeOK
<1>2. \A m \in Used : \E i \in 1..n : order[i] = m
  <2>1. stack = <<>> /\ stage # "collect"
    BY DEF LifecycleInv, StageInv, InPass
  <2>2. DOMAIN stack = {}
    BY <2>1, EmptySeq
  <2>3. Used \subseteq ToSet(order)
    BY <2>1, <2>2 DEF LifecycleInv, VisitInv
  <2> QED BY <1>1, <2>3, Elements
<1> SUFFICES ASSUME NEW m \in Used, m \in Reached(DependsOn(m), DependsOn) PROVE FALSE
  BY DEF Cyclic
<1>3. m \in ReachedIn(DependsOn(m), Graph)
  BY DEF Reached, ReachedIn, Graph
<1>4. PICK i \in 1..n : order[i] = m
  BY <1>2
<1> DEFINE T == {order[j] : j \in {k \in 1..n : i < k}}
<1> HIDE DEF n
<1>5. T \subseteq Module
  BY <1>1
<1>6. DependsOn(m) \subseteq T
  BY <1>1, <1>4 DEF OrderInv
<1>7. ASSUME NEW x \in T PROVE Graph[x] \subseteq T
  <2>1. PICK j \in 1..n : i < j /\ order[j] = x
    OBVIOUS
  <2>2. Graph[x] = DependsOn(order[j])
    BY <1>5, <2>1 DEF Graph
  <2>3. \A d \in DependsOn(order[j]) : \E k \in 1..n : j < k /\ order[k] = d
    BY <1>1 DEF OrderInv
  <2>4. \A k \in 1..n : j < k => i < k
    BY <1>1, <2>1
  <2> QED BY <2>2, <2>3, <2>4
<1>8. m \in T
  <2> HIDE DEF T
  <2>1. ReachedIn(DependsOn(m), Graph) \subseteq T
    BY <1>5, <1>6, <1>7, ReachedLeast
  <2> QED BY <1>3, <2>1
<1>9. PICK j \in 1..n : i < j /\ order[j] = m
  BY <1>8
<1>10. i = j
  BY <1>1, <1>4, <1>9 DEF OrderInv, IsInjective
<1> QED BY <1>1, <1>9, <1>10

\* An application compiles only if no module it uses depends on itself, and is rejected
\* only if one does (README.md:66-67, lifecycle_order.hpp:35).
THEOREM CyclesAreRejected == Spec => []CycleIsRejected
<1>1. LifecycleInv => CycleIsRejected
  BY OrderedIsAcyclic DEF CycleIsRejected, LifecycleInv, StageInv
<1> QED BY <1>1, LifecycleInvariant, PTL

\* Modules that nothing depends on run in the reverse of their order in the closure
\* (lifecycle_order.hpp:7-8).
THEOREM UserlessKeepReverseOrder == Spec => []ReverseOrderKept
<1>1. LifecycleInv => ReverseOrderKept
  <2> SUFFICES ASSUME LifecycleInv, NEW i \in DOMAIN closure, NEW j \in DOMAIN closure,
                      i < j, Userless(closure[i]), Userless(closure[j]),
                      NEW phase \in {"params", "module"}, HasRun(phase, closure[i])
               PROVE  HasRun(phase, closure[j])
    <3>1. \A x, y : (\A user \in Used : {x, y} \cap DependsOn(user) = {})
                      => Userless(x) /\ Userless(y)
      BY DEF Userless
    <3> QED BY <3>1 DEF ReverseOrderKept
  <2>1. PICK p \in 1..Len(ran) : ran[p] = Of(phase, closure[i])
    BY DEF HasRun, Contains
  <2>2. InPass
    <3>1. Len(ran) \in Nat /\ DOMAIN ran = 1..Len(ran)
      BY Elements DEF LifecycleInv, LifecycleTypeOK
    <3> QED BY <2>1, <3>1, NothingRan
  <2>3. /\ Len(ran) \in Nat /\ p \in 1..Len(Pass) /\ ran[p] = Pass[p]
        /\ \A q \in 1..Len(ran) : ran[q] = Pass[q]
    BY <2>2, RanOfPass
  <2>4. PICK q \in 1..Len(Pass) : q < p /\ Pass[q] = Of(phase, closure[j])
    <3>1. \A a, b \in DOMAIN closure :
            a < b /\ Userless(closure[a]) /\ Userless(closure[b]) =>
              \A x \in {"params", "module"}, y \in 1..Len(Pass) : Pass[y] = Of(x, closure[a]) =>
                \E q \in 1..Len(Pass) : q < y /\ Pass[q] = Of(x, closure[b])
      BY <2>2, PassIsOrdered
    <3>2. Pass[p] = Of(phase, closure[i])
      BY <2>1, <2>3
    <3> QED BY <2>3, <3>1, <3>2
  <2>5. q \in 1..Len(ran)
    BY <2>3, <2>4
  <2> QED BY <2>3, <2>4, <2>5 DEF HasRun, Contains
<1> QED BY <1>1, LifecycleInvariant, PTL

\* The parameters of all modules are called before any module, except in the setup of
\* an allocated application, where the whole setup of a module is over before that of one
\* that depends on it (allocated_application.hpp:67-70,102-104).
THEOREM PassesRunInPhases == Spec => []PhasesInOrder
<1>1. LifecycleInv => PhasesInOrder
  <2> SUFFICES ASSUME LifecycleInv, NEW j \in DOMAIN ran, ran[j].phase # "module"
               PROVE  IF allocated /\ stage = "setup"
                      THEN /\ \A d \in DependsOn(ran[j].node) :
                                \E i \in 1..j - 1 : ran[i] = Of("module", d)
                           /\ ran[j].phase = "params" /\ ran[j].node \in app.requested =>
                                \E i \in 1..j - 1 : ran[i] = Of("owner", ran[j].node)
                      ELSE \A i \in 1..j - 1 : ran[i].phase = "params"
    BY DEF PhasesInOrder
  <2>1. InPass
    BY NothingRan
  <2>2. /\ Len(ran) \in Nat /\ j \in 1..Len(ran) /\ j \in 1..Len(Pass) /\ ran[j] = Pass[j]
        /\ \A i \in 1..Len(ran) : i \in 1..Len(Pass) /\ ran[i] = Pass[i]
    BY <2>1, RanOfPass
  <2>3. /\ \A i \in 1..Len(Pass) : i < j => i \in 1..j - 1
        /\ \A i \in 1..j - 1 : i < j /\ i \in 1..Len(ran)
    BY <2>2
  <2>4. CASE allocated /\ stage = "setup"
    <3>1. ASSUME NEW d \in DependsOn(ran[j].node)
          PROVE  \E i \in 1..j - 1 : ran[i] = Of("module", d)
      <4>1. PICK q \in 1..Len(Pass) : q < j /\ Pass[q] = Of("module", d)
        BY <2>1, <2>2, <2>4, <3>1, PassIsOrdered
      <4> QED BY <2>2, <2>3, <4>1
    <3>2. ASSUME ran[j].phase = "params", ran[j].node \in app.requested
          PROVE  \E i \in 1..j - 1 : ran[i] = Of("owner", ran[j].node)
      <4>1. PICK q \in 1..Len(Pass) : q < j /\ Pass[q] = Of("owner", Pass[j].node)
        BY <2>1, <2>2, <2>4, <3>2, PassIsOrdered
      <4> QED BY <2>2, <2>3, <4>1
    <3> QED BY <2>4, <3>1, <3>2
  <2>5. CASE ~ (allocated /\ stage = "setup")
    <3>1. \A q \in 1..Len(Pass) : q < j => Pass[q].phase = "params"
      BY <2>1, <2>2, <2>5, PassIsOrdered
    <3> QED BY <2>2, <2>3, <2>5, <3>1
  <2> QED BY <2>4, <2>5
<1> QED BY <1>1, LifecycleInvariant, PTL
=============================================================================
