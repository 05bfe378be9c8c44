\* Two overlapping calls, every fault, one midnight.
SPECIFICATION FairSpec
CONSTANTS
  c1 = c1
  c2 = c2
  Calls = {c1, c2}
  Requests <- MCRequests
  Faults = {"timeout", "database", "coordinator", "restart"}
  MaxFaults = 1
  LastDay = 1
  MaxSubmitted = 3
INVARIANTS
  TypeOK
  JobsAreWhole
  SubmittedMatchesRow
  AnsweredMeansForwarded
PROPERTIES
  EventuallyCompleted
CHECK_DEADLOCK FALSE
