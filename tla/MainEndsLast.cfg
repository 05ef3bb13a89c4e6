\* Ticks before waitpid's argument is read, and nowhere else.
SPECIFICATION ProgramSpec
CONSTANTS
  MaxTasks = 4
  TaskAddress <- MCTaskAddress
  NC = 1
  NL = 1
  TickAt = {"load"}
INVARIANTS
  MainEndsLast
\* The machine ends in Schedule's endless search.
CHECK_DEADLOCK FALSE
