\* Every program of at most four processes, under a timer that keeps ticking.
SPECIFICATION FairSpec
CONSTANTS
  MaxTasks = 4
  TaskAddress <- MCTaskAddress
INVARIANTS
  TypeOK
  UniquePids
  OneRunning
  WaitersHaveTarget
PROPERTIES
  WokenByTermination
  ImplementsLifecycle
  ReadyEventuallyRuns
  LastWaiterServed
\* Schedule's endless search and the overwritten table are final states.
CHECK_DEADLOCK FALSE
