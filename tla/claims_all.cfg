\* Every application of three claims.
SPECIFICATION Spec
CONSTANTS
  timer = timer
  other = other
  pin = pin
  alias = alias
  id1 = id1
  id2 = id2
  slow = slow
  fast = fast
  Designator <- Resources
  CanonicalOf <- Canonical
  Divided <- OnlyTimer
  Slots <- ThreeSlots
  Ids <- TwoIds
  Uses <- TwoUses
  Size = 3
  Layout <- Layouts
\* A compilation ends.
CHECK_DEADLOCK FALSE
INVARIANTS
  VerdictIsPolicy
  DiagnosticIsRight
