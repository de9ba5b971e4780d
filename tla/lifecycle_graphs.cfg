\* Every dependency graph of three modules, each of which may be a requested one.
SPECIFICATION Spec
CONSTANTS
  m1 = m1
  m2 = m2
  m3 = m3
  Module <- ThreeModules
  Applications <- AllApplications
SYMMETRY Symmetry
INVARIANTS
  AllocationSeesClaims
  DependenciesFirst
  EachOnce
  CycleIsRejected
  ReverseOrderKept
  PhasesInOrder
\* An application with a dependency cycle does not compile: nothing follows.
CHECK_DEADLOCK FALSE
