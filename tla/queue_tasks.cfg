\* Two tasks and interrupts on a three-slot ring under a task-bound policy.
SPECIFICATION Spec
CONSTANTS
  t1 = t1
  t2 = t2
  a = a
  b = b
  s = s
  NoTask = NoTask
  NoEvent = NoEvent
  Task <- TwoTasks
  ElideEvents <- TwoElide
  StreamEvents <- OneStream
  Capacity = 3
  IndexModulus = 4
  Restricted = TRUE
  MaxBudget = 2
  MaxDepth = 2
INVARIANTS
  TypeOK
  OneDispatcher
  CallbacksOnOwner
  PendingTracksQueue
PROPERTIES
  NoRebirthUnderDispatch
  ImplementsService
