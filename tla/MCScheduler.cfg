\* A firing, two changes to the tables and a tick while it reads them.
SPECIFICATION Spec
CONSTANTS
  Firings = {f1}
  Evaluators = {7, 12}
  Rules = {1, 2, 3}
  Owner <- MCOwner
  Rows <- MCRows
  Inputs <- MCInputs
  Tables <- MCTables
  Null = Null
  NotText = NotText
  MaxChanges = 2
  LastMoment = 1
INVARIANTS
  TypeOK
  EvaluatorsOfOneMoment
  JobsHearEveryRule
\* A scheduler that has ended stays so.
CHECK_DEADLOCK FALSE
