----------------------------- MODULE MCPolling -----------------------------
(* Model-checking instance of Polling: three workers, a timeout that just leaves *)
(* room for them, a setting that does not parse and one that is not set.         *)
EXTENDS Polling, TLC

MCEnv ==
  [HEARTBEAT_INTERVAL_MS |-> NotANumber, WAIT_TIME_MS |-> NotANumber,
   TASK_TIMEOUT_SECS |-> 5, GRPC_TIMEOUT_MS |-> NotANumber, API_TIMEOUT_MS |-> 4]

Symmetry == Permutations(Workers)
=============================================================================
