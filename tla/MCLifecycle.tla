------------------------------ MODULE MCLifecycle ------------------------------
(* Constants of the TLC instance of Lifecycle. *)
EXTENDS Lifecycle, TLC

CONSTANTS m1, m2, m3

ThreeModules == {m1, m2, m3}

\* No module or one of a set.
AtMostOne(S) == {<<>>} \cup { <<m>> : m \in S }

\* Lists of up to two modules, repetitions included.
Roots == AtMostOne(ThreeModules) \cup (ThreeModules \X ThreeModules)

\* The two dependency lists of a module, itself included: chains, shared, uneven and
\* repeated dependencies, cycles and self-cycles.
Lists(requested) ==
  LET plain == ThreeModules \ requested
  IN [impl : [ThreeModules -> AtMostOne(plain)],
      via : {f \in [ThreeModules -> AtMostOne(ThreeModules)] :
               \A m \in plain : ToSet(f[m]) \subseteq plain},
      requested : {requested}, roots : Roots]

AllApplications == UNION { Lists(requested) : requested \in SUBSET ThreeModules }

Symmetry == Permutations(Module)
=============================================================================
