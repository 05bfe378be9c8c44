\* Two jobs in the queue, two worker ids; with a timeout of one tick every set
\* of workers can be the set of those judged alive.
SPECIFICATION Spec
CONSTANTS
  InitialJobId = 0
  InitialWorkerId = 0
  TaskTimeout = 1
  MaxJobs = 2
  MaxWorkers = 2
  Shapes <- MCShapes
INVARIANTS
  TypeOK
  QueueListsJobs
  OwnerRecorded
  DoneMeansCompleted
  CompletionSpawnedOnce
PROPERTIES
  DoneIsFinal
  ReducesNeedLiveMaps
  LiveOwnerKeepsTask
  ImplementsJobService
