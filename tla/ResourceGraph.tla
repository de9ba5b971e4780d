----------------------------- MODULE ResourceGraph -----------------------------
(***************************************************************************)
(* The dependency graph of a device's resources                            *)
(* (src/grevir/core/resource_graph.hpp): what a resource comes down to     *)
(* (RootDependencies) and which listed resource uses another               *)
(* (ResourceFinder).  Two resources can be used together when their roots  *)
(* are disjoint.                                                           *)
(*                                                                         *)
(* The templates are pure: a query is one action.  A tuple of types is a   *)
(* sequence.  A graph with a cycle other than a resource that depends on   *)
(* itself alone does not end compiling and is left out.                    *)
(***************************************************************************)
EXTENDS Naturals, SequencesExt

CONSTANTS
  Resource,  \* resource types, in an order that puts dependencies first
  Graphs,    \* the declared dependencies: functions from Resource to Seq(Resource)
  Kinds,     \* the declared resource types: functions from Resource to kinds
  Lists,     \* what a ResourceFinder may be given
  Void

Itself(deps, r) == deps[r] = <<r>>

ASSUME GraphAssumption ==
  /\ Resource \subseteq Nat /\ Void \notin Resource
  /\ Graphs \subseteq [Resource -> Seq(Resource)]
  /\ \A deps \in Graphs, r \in Resource :
       Itself(deps, r) \/ \A i \in DOMAIN deps[r] : deps[r][i] < r
  /\ Lists \subseteq Seq(Resource)

VARIABLES
  deps,    \* Dependency::dependencies
  kind,    \* Dependency::resource_type
  list,    \* ResourceFinder::Resources
  asked,   \* the two resources last asked about
  roots,   \* their RootDependencies
  found    \* ResourceFinder::Resource of the first, of the kind of the second

graphVars == <<deps, kind, list, asked, roots, found>>

GraphInit ==
  /\ deps \in Graphs
  /\ kind \in Kinds
  /\ list \in Lists
  /\ asked = <<>> /\ roots = <<>> /\ found = Void

\* Mutant: only a resource that names itself is a root.
IsSelf(r) == Itself(deps, r)

\* RootDependencyOfHelper: the two specializations for roots.
IsRoot(r) == Itself(deps, r) \/ deps[r] = <<>>

\* RootDependencyOf and RootDependencyFinder.
RootsOf[r \in Resource] ==
  IF IsRoot(r) THEN <<r>> ELSE FlattenSeq([i \in DOMAIN deps[r] |-> RootsOf[deps[r][i]]])

\* RootDependencies: the search begins at what the resource depends on.
RootDependencies(r) == FlattenSeq([i \in DOMAIN deps[r] |-> RootsOf[deps[r][i]]])

\* Mutant: any resource of the kind will do.
OfKind(r, user, k) == kind[user] = k

Fits(r, user, k) == kind[user] = k /\ Contains(deps[user], r)

\* ResourceFinderHelper: the first in the list.
Find(r, k) ==
  LET first == SelectInSeq(list, LAMBDA user : Fits(r, user, k))
  IN IF first = 0 THEN Void ELSE list[first]

Query ==
  /\ \E r, s \in Resource :
       /\ asked' = <<r, s>>
       /\ roots' = <<RootDependencies(r), RootDependencies(s)>>
       /\ found' = Find(r, kind[s])
  /\ UNCHANGED <<deps, kind, list>>

GraphSpec == GraphInit /\ [][Query]_graphVars

-----------------------------------------------------------------------------
(* Properties. *)

\* What a resource is built on, itself included.
Parts(r) ==
  { p \in Resource :
      \A T \in SUBSET Resource :
        r \in T /\ (\A q \in T : ToSet(deps[q]) \subseteq T) => p \in T }

\* The roots of two resources have one in common exactly when the resources are built on
\* a common one, however deep, so that comparing roots finds every conflict; a resource
\* whose own dependencies are empty has no roots of its own (README.md:112-114).  A
\* resource the finder names is one of its list, built on the one asked about, and it names
\* one whenever there is one (resource_graph.hpp:32-37,125-143).
SharedRootsMeet ==
  asked # <<>> =>
    LET r == asked[1]
        s == asked[2]
    IN /\ deps[r] # <<>> /\ deps[s] # <<>> =>
            (ToSet(roots[1]) \cap ToSet(roots[2]) # {} <=> Parts(r) \cap Parts(s) # {})
       /\ IF found = Void
          THEN \A user \in ToSet(list) : kind[user] = kind[s] => r \notin ToSet(deps[user])
          ELSE /\ found \in ToSet(list) /\ kind[found] = kind[s]
               /\ r \in Parts(found)
=============================================================================
