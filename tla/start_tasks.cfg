\* Start with two deferred sources and a direct one; a second task uses the queue.
SPECIFICATION StartSpec
CONSTANTS
  t1 = t1
  t2 = t2
  a = a
  b = b
  timer = timer
  uart = uart
  pin = pin
  NoTask = NoTask
  NoEvent = NoEvent
  Task <- TwoTasks
  ElideEvents <- Elide
  StreamEvents <- Stream
  Capacity = 1
  IndexModulus = 2
  Restricted = TRUE
  MaxBudget = 1
  MaxDepth = 1
  Source <- Sources
  EventOf <- Routes
INVARIANTS
  LiveSourceFindsQueue
  SuccessIsWired
  FailedStartIsQuiet
PROPERTIES
  RefusedStartKeepsQueue
  StartedStaysLive
