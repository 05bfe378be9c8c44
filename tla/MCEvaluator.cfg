\* Two overlapping calls, every fault, one midnight.
SPECIFICATION FairSpec
CONSTANTS
  Calls = {c1, c2}
  Requests <- MCRequests
  Outcomes = {none, cashback}
  NoBenefits = none
  Faults = {"timeout", "crash", "rules", "database", "file"}
  LastDay = 1
INVARIANTS
  TypeOK
  LinesMatchRows
  AnsweredMeansGranted
PROPERTIES
  ImplementsLedger
  EventuallyFiled
CHECK_DEADLOCK FALSE
