SPECIFICATION Spec
CONSTANTS
  MaxTasks = 4
  TaskAddress <- MCTaskAddress
INVARIANT SpinOnlyWhenBlocked
CHECK_DEADLOCK FALSE
