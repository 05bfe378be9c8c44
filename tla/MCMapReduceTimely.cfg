\* Timely heartbeats, one worker of two may die at any moment.
SPECIFICATION FairSpec
CONSTANTS
  InitialJobId = 0
  InitialWorkerId = 0
  TaskTimeout = 2
  MaxJobs = 1
  MaxWorkers = 3
  Shapes <- Mixed
  Faults = {"crash"}
  MaxFaults = 1
INVARIANTS
  TypeOK
  TaskExclusive
  HandlerSeesFullOutputs
PROPERTIES
  DoneOutputsKept
  EventuallyDone
CHECK_DEADLOCK FALSE
