SPECIFICATION Spec
CONSTANTS
  TasksLen = 2
  Levels = 1
  MaxPosts = 5
INVARIANT AlwaysFifo
CHECK_DEADLOCK FALSE
