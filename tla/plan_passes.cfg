\* Every plan of up to three bindings for every application of up to three events,
\* which may be edited before the strict compilation.
SPECIFICATION Spec
CONSTANTS
  s1 = s1
  s2 = s2
  s3 = s3
  e1 = e1
  e2 = e2
  e3 = e3
  bad = bad
  long = long
  left = left
  right = right
  Event <- Four
  BadKey <- TheFourth
  Instance <- Owners
  Handlers <- AllHandlers
  Name <- Names
  Text <- BoardTexts
  Long <- LongTexts
  MaxEvents = 3
  Binding <- AllBindings
  MaxBindings = 3
  Spare = 1
  Problem <- Problems
  PwmRequired <- FirstNeedsPwm
  Board <- Boards
  Argument <- Arguments
  Device <- Hardware
  WordChar <- Letters
  MaxPolicy = 19
  WordModulus = 4
\* A build ends.
CHECK_DEADLOCK FALSE
INVARIANTS
  VerdictIsRight
  DecoderAgrees
  RowsStayTogether
  BoundIsLive
  TruncatedIsNotBound
  FreshIsBound
