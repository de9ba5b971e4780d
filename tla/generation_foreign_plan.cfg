\* Two builds of the same tree at the same time: is the accepted plan their own?
SPECIFICATION Spec
CONSTANTS
  b1 = b1
  b2 = b2
  b3 = b3
  v1 = v1
  v2 = v2
  bad = bad
  odd = odd
  None = None
  Build <- TwoBuilds
  Crashable <- TwoBuilds
  Parallel <- TwoBuilds
  Version <- GoodVersions
  Rejected = {}
  Unsupported = {}
PROPERTIES
  AcceptedIsOwn
