\* Two calls append the first lines of a day.
SPECIFICATION Spec
CONSTANTS
  Calls = {c1, c2}
  Requests <- OneCustomer
  Outcomes = {none, cashback}
  NoBenefits = none
  Faults = {}
  LastDay = 0
INVARIANTS
  LinesSeparated
CHECK_DEADLOCK FALSE
