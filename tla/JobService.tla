----------------------------- MODULE JobService -----------------------------
(***************************************************************************)
(* What the coordinator promises to the service that submits jobs, with    *)
(* workers, tasks and time left out: every accepted job has a fresh id, and *)
(* a job that completes does so once, announced by exactly one run of the  *)
(* completion handler, in the step in which poll_job starts to report it   *)
(* done.                                                                   *)
(***************************************************************************)
EXTENDS Integers

CONSTANTS FirstId, MaxJobs

VARIABLES
  next,       \* the id of the next job
  done,       \* the jobs poll_job reports done
  announced   \* how often the completion of each accepted job was announced

vars == <<next, done, announced>>

Accepted == FirstId .. next - 1

Init ==
  /\ next = FirstId
  /\ done = {}
  /\ announced = [j \in {} |-> 0]

Accept ==
  /\ next < FirstId + MaxJobs
  /\ next' = next + 1
  /\ announced' = [j \in Accepted \cup {next} |->
                     IF j = next THEN 0 ELSE announced[j]]
  /\ UNCHANGED done

Complete(j) ==
  /\ j \in Accepted \ done
  /\ done' = done \cup {j}
  /\ announced' = [announced EXCEPT ![j] = 1]
  /\ UNCHANGED next

Next == Accept \/ \E j \in Accepted : Complete(j)

Spec == Init /\ [][Next]_vars
=============================================================================
