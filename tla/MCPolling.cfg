\* Heartbeats every 2 s, 3 workers that sleep 1 s each, a timeout of 5 s: the
\* least with room for all.  One input is forwarded in time, two need not be.
SPECIFICATION Spec
CONSTANTS
  Workers = {w1, w2, w3}
  NotANumber = NotANumber
  Env <- MCEnv
  Hold = 1
  MaxInputs = 2
SYMMETRY Symmetry
INVARIANTS
  TypeOK
  JudgedAlive
  ForwardedInTime
