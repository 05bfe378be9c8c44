\* Two overlapping requests at a time, both caches expiring, one midnight.
SPECIFICATION Spec
CONSTANTS
  Calls = {c1, c2}
  Requests <- MCRequests
  Grants <- MCGrants
  NoEvaluator = 0
  Env <- MCEnv
  NotANumber = NotANumber
  DayLength = 2
  MaxTime = 3
  MaxGrants = 2
  MaxChanges = 1
SYMMETRY Symmetry
VIEW View
INVARIANTS
  TypeOK
  ListsAreRecent
  ServedWereValid
  RefusalsAreRecent
