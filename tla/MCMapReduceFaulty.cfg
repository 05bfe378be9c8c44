\* Every fault at once: late heartbeats (a tick suffices to give a running worker
\* up), slow writes, and one crash, lost report or I/O error.
SPECIFICATION Spec
CONSTANTS
  InitialJobId = 0
  InitialWorkerId = 0
  TaskTimeout = 1
  MaxJobs = 1
  MaxWorkers = 2
  Shapes <- TwoMaps
  Faults = {"late", "lost", "io", "slow", "crash"}
  MaxFaults = 1
INVARIANTS
  NoForgottenTask
  AssignedMapsServed
CHECK_DEADLOCK FALSE
