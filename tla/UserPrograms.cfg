\* usr_main, strategy, one collatz and two long running programs; ticks at the
\* instructions the programs survive them at, and at one where they do not.
SPECIFICATION FairProgramSpec
CONSTANTS
  MaxTasks = 5
  TaskAddress <- MCTaskAddress
  NC = 1
  NL = 2
  TickAt <- MCTickAt
INVARIANTS
  WaitsSucceed
  ChildrenReaped
  RightProgram
  BaseIsAncestor
PROPERTIES
  Completes
\* The machine ends in Schedule's endless search.
CHECK_DEADLOCK FALSE
