SPECIFICATION FairSpec
CONSTANTS
  MaxTasks = 5
  TaskAddress <- MCTaskAddress
PROPERTY WaiterEventuallyResumes
CHECK_DEADLOCK FALSE
