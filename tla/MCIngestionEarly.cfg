\* One call for one job of two inputs, no fault.
SPECIFICATION Spec
CONSTANTS
  c1 = c1
  c2 = c2
  Calls = {c1}
  Requests <- MCRequests
  Faults = {}
  MaxFaults = 0
  LastDay = 0
  MaxSubmitted = 3
INVARIANTS
  CompletedMeansProcessed
CHECK_DEADLOCK FALSE
