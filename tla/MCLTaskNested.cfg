SPECIFICATION Spec
CONSTANTS
  Task = {t1, t2, t3}
  NULL = NULL
  Priorities = {1, 2}
  TaskQueueSelectLength = 2
  MaxDepth = 2
INVARIANTS LinkedUntilFault FaultOnlyByReentry
CHECK_DEADLOCK FALSE
