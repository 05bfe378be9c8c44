\* One heartbeat of a running worker comes too late.
SPECIFICATION Spec
CONSTANTS
  InitialJobId = 0
  InitialWorkerId = 0
  TaskTimeout = 2
  MaxJobs = 1
  MaxWorkers = 2
  Shapes <- Small
  Faults = {"late"}
  MaxFaults = 1
INVARIANTS
  FinishedMeansDone
CHECK_DEADLOCK FALSE
