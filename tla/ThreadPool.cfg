\* Three workers and one task of each kind (detached, void, with a value).
SPECIFICATION FairSpec
CONSTANTS
  Workers = {w1, w2, w3}
  Tasks = {d1, v1, r1}
  Detached = {d1}
  Void = {v1}
  NoTask = NoTask
  Free = Free
INVARIANTS TypeOK FrontIsThere WakeupsCoverQueue PendingHasOneOwner
PROPERTIES ImplementsTaskPool TasksSettle ShutdownCompletes
CHECK_DEADLOCK FALSE
