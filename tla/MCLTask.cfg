SPECIFICATION FairSpec
CONSTANTS
  Task = {t1, t2, t3}
  NULL = NULL
  Priorities = {1, 2}
  TaskQueueSelectLength = 2
  MaxDepth = 1
INVARIANTS TypeOK IsRunningMeansQueued RunsOnce
PROPERTIES ImplementsSchedule Drains
