\* Progress on a two-slot ring under the unrestricted policy and a fair main loop.
SPECIFICATION FairSpec
CONSTANTS
  t1 = t1
  t2 = t2
  a = a
  b = b
  s = s
  NoTask = NoTask
  NoEvent = NoEvent
  Task <- TwoTasks
  ElideEvents <- OneElide
  StreamEvents <- OneStream
  Capacity = 2
  IndexModulus = 4
  Restricted = FALSE
  MaxBudget = 2
  MaxDepth = 2
PROPERTIES
  DispatchReturns
  AcceptedIsTaken
  ImplementsFairService
