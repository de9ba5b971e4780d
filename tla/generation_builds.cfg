\* Two builds, in turn or at once, that may be killed anywhere, and one that runs alone.
SPECIFICATION FairSpec
CONSTANTS
  b1 = b1
  b2 = b2
  b3 = b3
  v1 = v1
  v2 = v2
  bad = bad
  odd = odd
  None = None
  Build <- ThreeBuilds
  Crashable <- TwoBuilds
  Parallel <- TwoBuilds
  Version <- AllVersions
  Rejected <- Bad
  Unsupported <- Odd
INVARIANTS
  MarkerMeansComplete
  CompiledIsCurrent
  AcceptedIsCoherent
PROPERTIES
  CrashIsRecovered
