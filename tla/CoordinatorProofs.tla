------------------------- MODULE CoordinatorProofs -------------------------
(***************************************************************************)
(* Theorems about Coordinator, for every number of jobs, workers, map and  *)
(* reduce tasks and every timeout.                                         *)
(***************************************************************************)
EXTENDS Coordinator, SequenceTheorems, TLAPS

(* What the steps need of the job they touch. *)

\* A submitted job is well formed.
LEMMA NewJobType ==
  ASSUME NEW shape \in Shapes
  PROVE  WellFormed(NewJob(shape))
  <1>1. shape \in [Kind -> Nat]
    BY CoordinatorAssumption
  <1>2. IdleTask \in TaskRecord
    BY DEF IdleTask, TaskRecord, TaskState
  <1>3. ASSUME NEW k \in Kind
        PROVE  [t \in 0 .. shape[k] - 1 |-> IdleTask] \in TaskList
    <2>1. shape[k] \in TaskCount
      BY DEF TaskCount
    <2>2. [t \in 0 .. shape[k] - 1 |-> IdleTask] \in [0 .. shape[k] - 1 -> TaskRecord]
      BY <1>2
    <2>3. QED
      BY <2>1, <2>2 DEF TaskList
  <1>4. QED
    BY <1>1, <1>3 DEF NewJob, JobRecord, TaskIds, WellFormed

\* A job stays well formed when the state of one of its tasks is set.
LEMMA SetTaskType ==
  ASSUME NEW job, WellFormed(job),
         NEW k \in Kind, NEW t \in TaskIds(job, k),
         NEW state \in TaskState, NEW w \in WorkerId
  PROVE  WellFormed(SetTask(job, k, t, state, w))
  <1> DEFINE rec == [state |-> state, worker |-> w]
             list == [job.tasks[k] EXCEPT ![t] = rec]
             new == SetTask(job, k, t, state, w)
  <1>1. rec \in TaskRecord
    BY DEF TaskRecord
  <1>2. job \in JobRecord /\ job.tasks \in [Kind -> TaskList]
    BY DEF JobRecord, WellFormed
  <1>3. PICK n \in TaskCount : job.tasks[k] \in [0 .. n - 1 -> TaskRecord]
    BY <1>2 DEF TaskList
  <1>4. list \in [0 .. n - 1 -> TaskRecord] /\ DOMAIN list = DOMAIN job.tasks[k]
    BY <1>1, <1>3
  <1>5. list \in TaskList
    BY <1>4 DEF TaskList
  <1>6. new = [job EXCEPT !.tasks = [job.tasks EXCEPT ![k] = list]]
    BY DEF SetTask
  <1>7. /\ new.tasks = [job.tasks EXCEPT ![k] = list]
        /\ new.size = job.size
        /\ new \in JobRecord
    BY <1>2, <1>5, <1>6 DEF JobRecord
  <1> HIDE DEF list, new
  <1>8. QED
    BY <1>2, <1>4, <1>7 DEF TaskIds, WellFormed, new

\* SetTask changes the one task it names and nothing else of the job.
LEMMA SetTaskEffect ==
  ASSUME NEW job, WellFormed(job),
         NEW k \in Kind, NEW t \in TaskIds(job, k), NEW state, NEW w
  PROVE  /\ SetTask(job, k, t, state, w).failed = job.failed
         /\ SetTask(job, k, t, state, w).done = job.done
         /\ \A kk \in Kind : TaskIds(SetTask(job, k, t, state, w), kk) = TaskIds(job, kk)
         /\ SetTask(job, k, t, state, w).tasks[k][t] = [state |-> state, worker |-> w]
         /\ \A kk \in Kind : \A tt \in TaskIds(job, kk) :
              (kk # k \/ tt # t) =>
                SetTask(job, k, t, state, w).tasks[kk][tt] = job.tasks[kk][tt]
  BY DEF SetTask, WellFormed, JobRecord, TaskIds

\* A task on offer is an available task of the phase an open job is in.
LEMMA OfferedTask ==
  ASSUME NEW ws, NEW j, NEW k, NEW t,
         TypeOK, QueueListsJobs, Offered(ws, j, k, t)
  PROVE  /\ j \in DOMAIN jobs
         /\ Open(jobs[j])
         /\ k = Phase(ws, jobs[j])
         /\ k \in Kind
         /\ t \in TaskIds(jobs[j], k)
         /\ Available(ws, jobs[j].tasks[k][t])
  <1>1. PICK i \in Servable(ws) :
          /\ j = jobOrder[i]
          /\ k = Phase(ws, jobs[j])
          /\ t \in AvailableTasks(ws, jobs[j], k)
    BY DEF Offered
  <1>2. i \in DOMAIN jobOrder /\ Open(jobs[j])
    BY <1>1 DEF Servable
  <1>3. j \in DOMAIN jobs
    BY <1>1, <1>2, CoordinatorAssumption DEF TypeOK, QueueListsJobs
  <1>4. QED
    BY <1>1, <1>2, <1>3 DEF AvailableTasks, Phase, Kind

-----------------------------------------------------------------------------
(* Type correctness.  TypeOK needs QueueListsJobs: without it get_task could *)
(* find an id in job_order that is no job, and write a record for it.        *)

\* Refreshing a worker's timer, or taking note of a worker, keeps the timers in range.
LEMMA WorkersType ==
  ASSUME NEW ws, NEW w \in WorkerId,
         DOMAIN ws \subseteq WorkerId, ws \in [DOMAIN ws -> 0 .. TaskTimeout]
  PROVE  /\ DOMAIN Refreshed(ws, w) \subseteq WorkerId
         /\ Refreshed(ws, w) \in [DOMAIN Refreshed(ws, w) -> 0 .. TaskTimeout]
         /\ DOMAIN Seen(ws, w) \subseteq WorkerId
         /\ Seen(ws, w) \in [DOMAIN Seen(ws, w) -> 0 .. TaskTimeout]
  BY CoordinatorAssumption DEF Refreshed, Seen

QueueInv == TypeOK /\ QueueListsJobs

\* QueueInv holds initially.
LEMMA QueueInit == Init => QueueInv
  BY CoordinatorAssumption DEF Init, QueueInv, TypeOK, QueueListsJobs

\* Each step keeps the queue in line with the jobs.
LEMMA QueueStep == QueueInv /\ [Next]_vars => QueueInv'
  <1> SUFFICES ASSUME QueueInv, [Next]_vars PROVE QueueInv'
    OBVIOUS
  <1> USE CoordinatorAssumption
  <1>0. TypeOK /\ QueueListsJobs
    BY DEF QueueInv
  <1>1. CASE Register
    <2>1. nextWorkerId \in WorkerId
      BY <1>0, <1>1 DEF Register, TypeOK, WorkerId
    <2>2. /\ DOMAIN workers' \subseteq WorkerId
          /\ workers' \in [DOMAIN workers' -> 0 .. TaskTimeout]
      BY <1>0, <1>1, <2>1, WorkersType DEF Register, TypeOK
    <2>3. QED
      BY <1>0, <1>1, <2>2 DEF Register, QueueInv, TypeOK, QueueListsJobs
  <1>2. CASE Tick
    <2>1. /\ DOMAIN workers' \subseteq WorkerId
          /\ workers' \in [DOMAIN workers' -> 0 .. TaskTimeout]
      BY <1>0, <1>2 DEF Tick, TypeOK
    <2>2. QED
      BY <1>0, <1>2, <2>1 DEF Tick, QueueInv, TypeOK, QueueListsJobs
  <1>3. ASSUME NEW shape \in Shapes, SubmitJob(shape) PROVE QueueInv'
    <2>1. /\ nextJobId' = nextJobId + 1
          /\ nextJobId \in JobId
          /\ nextJobId' \in InitialJobId .. InitialJobId + MaxJobs
          /\ InitialJobId .. nextJobId' - 1 = DOMAIN jobs \cup {nextJobId}
      BY <1>0, <1>3 DEF SubmitJob, TypeOK, JobId
    <2>2. jobs' \in [InitialJobId .. nextJobId' - 1 -> JobRecord]
      BY <1>0, <1>3, <2>1, NewJobType DEF SubmitJob, TypeOK, WellFormed
    <2>3. ASSUME NEW j \in DOMAIN jobs'
          PROVE  WellFormed(jobs'[j])
      <3>1. jobs'[j] = IF j = nextJobId THEN NewJob(shape) ELSE jobs[j]
        BY <1>3 DEF SubmitJob
      <3>2. j = nextJobId \/ j \in DOMAIN jobs
        BY <1>3 DEF SubmitJob
      <3>3. QED
        BY <1>0, <3>1, <3>2, NewJobType DEF TypeOK
    <2>4. /\ jobOrder' \in Seq(JobId)
          /\ Len(jobOrder') = nextJobId' - InitialJobId
          /\ \A i \in DOMAIN jobOrder' : jobOrder'[i] = InitialJobId + i - 1
      <3>1. jobOrder' = Append(jobOrder, nextJobId)
        BY <1>3 DEF SubmitJob, Enqueued
      <3>2. /\ jobOrder \in Seq(JobId)
            /\ nextJobId \in Int
            /\ Len(jobOrder) = nextJobId - InitialJobId
            /\ \A i \in 1 .. Len(jobOrder) : jobOrder[i] = InitialJobId + i - 1
        BY <1>0 DEF TypeOK, QueueListsJobs
      <3>3. jobOrder' \in Seq(JobId) /\ Len(jobOrder') = Len(jobOrder) + 1
        BY <2>1, <3>1, <3>2, AppendProperties
      <3>4. ASSUME NEW i \in 1 .. Len(jobOrder) + 1
            PROVE  jobOrder'[i] = InitialJobId + i - 1
        BY <2>1, <3>1, <3>2, AppendProperties
      <3>5. QED
        BY <2>1, <3>2, <3>3, <3>4
    <2>5. spawned' \in [DOMAIN jobs' -> Nat]
      BY <1>0, <1>3 DEF SubmitJob, TypeOK
    <2>6. UNCHANGED <<nextWorkerId, workers>>
      BY <1>3 DEF SubmitJob
    <2>7. QED
      BY <1>0, <2>1, <2>2, <2>3, <2>4, <2>5, <2>6
      DEF QueueInv, TypeOK, QueueListsJobs
  <1>4. ASSUME NEW w \in WorkerId, Heartbeat(w) \/ GetTaskWait(w) PROVE QueueInv'
    <2>1. /\ DOMAIN workers' \subseteq WorkerId
          /\ workers' \in [DOMAIN workers' -> 0 .. TaskTimeout]
      BY <1>0, <1>4, WorkersType DEF Heartbeat, GetTaskWait, TypeOK
    <2>2. UNCHANGED <<nextJobId, nextWorkerId, jobs, jobOrder, spawned>>
      BY <1>4 DEF Heartbeat, GetTaskWait
    <2>3. QED
      BY <1>0, <2>1, <2>2 DEF QueueInv, TypeOK, QueueListsJobs
  <1>5. ASSUME NEW w \in WorkerId, NEW j \in DOMAIN jobs, NEW k \in Kind,
               NEW t \in TaskIds(jobs[j], k), GetTask(w, j, k, t)
        PROVE  QueueInv'
    <2> DEFINE new == SetTask(jobs[j], k, t, "InProgress", w)
    <2>1. WellFormed(jobs[j])
      BY <1>0 DEF TypeOK
    <2>3. WellFormed(new)
      BY <2>1, SetTaskType DEF TaskState
    <2>4. jobs' = [jobs EXCEPT ![j] = new]
      BY <1>5 DEF GetTask
    <2>5. /\ DOMAIN workers' \subseteq WorkerId
          /\ workers' \in [DOMAIN workers' -> 0 .. TaskTimeout]
      BY <1>0, <1>5, WorkersType DEF GetTask, TypeOK
    <2>6. UNCHANGED <<nextJobId, nextWorkerId, jobOrder, spawned>>
      BY <1>5 DEF GetTask
    <2> HIDE DEF new
    <2>7. /\ jobs' \in [DOMAIN jobs -> JobRecord]
          /\ \A jj \in DOMAIN jobs : WellFormed(jobs'[jj])
      BY <1>0, <2>3, <2>4 DEF TypeOK, WellFormed
    <2>8. QED
      BY <1>0, <2>5, <2>6, <2>7 DEF QueueInv, TypeOK, QueueListsJobs
  <1>6. ASSUME NEW w \in WorkerId, NEW j \in DOMAIN jobs, NEW k \in Kind,
               NEW t \in TaskIds(jobs[j], k), FinishTask(w, j, k, t)
        PROVE  QueueInv'
    <2> DEFINE new == SetTask(jobs[j], k, t, "Completed", w)
               allDone == AllReducesCompleted(new) /\ AllMapsDone(workers, new)
               ended == [new EXCEPT !.done = allDone]
    <2>1. WellFormed(jobs[j])
      BY <1>0 DEF TypeOK
    <2>3. WellFormed(new)
      BY <2>1, SetTaskType DEF TaskState
    <2>4. /\ jobs' = [jobs EXCEPT ![j] = ended]
          /\ spawned' = [spawned EXCEPT ![j] = IF allDone THEN @ + 1 ELSE @]
          /\ UNCHANGED <<nextJobId, nextWorkerId, jobOrder, workers>>
      BY <1>6 DEF FinishTask
    <2>5. allDone \in BOOLEAN
      BY DEF AllReducesCompleted, AllMapsDone
    <2> HIDE DEF new, allDone
    <2>6. WellFormed(ended)
      BY <2>3, <2>5 DEF JobRecord, TaskIds, WellFormed
    <2>7. spawned' \in [DOMAIN jobs -> Nat]
      BY <1>0, <2>4 DEF TypeOK
    <2> HIDE DEF ended
    <2>8. /\ jobs' \in [DOMAIN jobs -> JobRecord]
          /\ \A jj \in DOMAIN jobs : WellFormed(jobs'[jj])
      BY <1>0, <2>4, <2>6 DEF TypeOK, WellFormed
    <2>9. QED
      BY <1>0, <2>4, <2>7, <2>8 DEF QueueInv, TypeOK, QueueListsJobs
  <1>7. CASE UNCHANGED vars
    BY <1>0, <1>7 DEF vars, QueueInv, TypeOK, QueueListsJobs
  <1>8. QED
    BY <1>1, <1>2, <1>3, <1>4, <1>5, <1>6, <1>7 DEF Next

\* Every state of the coordinator is well typed.
THEOREM TypeCorrect == Spec => []TypeOK
  <1>1. QueueInv => TypeOK
    BY DEF QueueInv
  <1>2. QED
    BY <1>1, QueueInit, QueueStep, PTL DEF Spec

\* Every submitted job is in the queue once, in order of submission.
THEOREM QueueCorrect == Spec => []QueueListsJobs
  <1>1. QueueInv => QueueListsJobs
    BY DEF QueueInv
  <1>2. QED
    BY <1>1, QueueInit, QueueStep, PTL DEF Spec

-----------------------------------------------------------------------------
(* Completion.  The three facts are inductive together with QueueInv: a     *)
(* report acts on an open job only, so `done` is set with every task         *)
(* Completed and spawned counts that one step; get_task skips done jobs.     *)

CompletionInv == OwnerRecorded /\ DoneMeansCompleted /\ CompletionSpawnedOnce

\* CompletionInv holds initially.
LEMMA CompletionInit == Init => CompletionInv
  BY DEF Init, CompletionInv, OwnerRecorded, DoneMeansCompleted, CompletionSpawnedOnce

\* Each step keeps the spawned completion handlers in line with the jobs that are done.
LEMMA CompletionStep == QueueInv /\ CompletionInv /\ [Next]_vars => CompletionInv'
  <1> SUFFICES ASSUME QueueInv, CompletionInv, [Next]_vars PROVE CompletionInv'
    OBVIOUS
  <1>0. TypeOK /\ QueueListsJobs /\ OwnerRecorded /\ DoneMeansCompleted /\ CompletionSpawnedOnce
    BY DEF QueueInv, CompletionInv
  <1>1. ASSUME UNCHANGED <<jobs, spawned>>
        PROVE  CompletionInv'
    BY <1>0, <1>1
    DEF CompletionInv, OwnerRecorded, DoneMeansCompleted, CompletionSpawnedOnce
  <1>2. ASSUME NEW shape \in Shapes, SubmitJob(shape) PROVE CompletionInv'
    <2> DEFINE new == NewJob(shape)
    <2>1. /\ new.done = FALSE
          /\ \A k \in Kind : \A t \in TaskIds(new, k) :
               new.tasks[k][t].state = "Idle" /\ new.tasks[k][t].worker = NoWorker
      BY CoordinatorAssumption DEF NewJob, TaskIds, IdleTask
    <2> HIDE DEF new
    <2>2. /\ DOMAIN jobs' = DOMAIN jobs \cup {nextJobId}
          /\ \A j \in DOMAIN jobs' : jobs'[j] = IF j = nextJobId THEN new ELSE jobs[j]
          /\ \A j \in DOMAIN jobs' : spawned'[j] = IF j = nextJobId THEN 0 ELSE spawned[j]
      BY <1>0, <1>2 DEF SubmitJob, TypeOK, new
    <2>3. OwnerRecorded'
      BY <1>0, <2>1, <2>2 DEF OwnerRecorded
    <2>4. DoneMeansCompleted'
      BY <1>0, <2>1, <2>2 DEF DoneMeansCompleted
    <2>5. CompletionSpawnedOnce'
      BY <1>0, <2>1, <2>2 DEF CompletionSpawnedOnce
    <2>6. QED
      BY <2>3, <2>4, <2>5 DEF CompletionInv
  <1>3. ASSUME NEW w \in WorkerId, NEW j \in DOMAIN jobs, NEW k \in Kind,
               NEW t \in TaskIds(jobs[j], k), GetTask(w, j, k, t)
        PROVE  CompletionInv'
    <2> DEFINE new == SetTask(jobs[j], k, t, "InProgress", w)
    <2>1. /\ ~jobs[j].done
          /\ WellFormed(jobs[j])
      BY <1>0, <1>3, OfferedTask DEF GetTask, Open, TypeOK
    <2>2. /\ new.done = jobs[j].done
          /\ \A kk \in Kind : TaskIds(new, kk) = TaskIds(jobs[j], kk)
          /\ new.tasks[k][t] = [state |-> "InProgress", worker |-> w]
          /\ \A kk \in Kind : \A tt \in TaskIds(jobs[j], kk) :
               (kk # k \/ tt # t) => new.tasks[kk][tt] = jobs[j].tasks[kk][tt]
      BY <2>1, SetTaskEffect
    <2>3. /\ DOMAIN jobs' = DOMAIN jobs
          /\ \A jj \in DOMAIN jobs : jobs'[jj] = IF jj = j THEN new ELSE jobs[jj]
          /\ spawned' = spawned
      BY <1>0, <1>3 DEF GetTask, TypeOK
    <2>4. w # NoWorker
      BY CoordinatorAssumption DEF WorkerId, NoWorker
    <2> HIDE DEF new
    <2>5. OwnerRecorded'
      BY <1>0, <2>2, <2>3, <2>4 DEF OwnerRecorded
    <2>6. DoneMeansCompleted'
      BY <1>0, <2>1, <2>2, <2>3 DEF DoneMeansCompleted
    <2>7. CompletionSpawnedOnce'
      BY <1>0, <2>2, <2>3 DEF CompletionSpawnedOnce
    <2>8. QED
      BY <2>5, <2>6, <2>7 DEF CompletionInv
  <1>4. ASSUME NEW w \in WorkerId, NEW j \in DOMAIN jobs, NEW k \in Kind,
               NEW t \in TaskIds(jobs[j], k), FinishTask(w, j, k, t)
        PROVE  CompletionInv'
    <2> DEFINE new == SetTask(jobs[j], k, t, "Completed", w)
               allDone == AllReducesCompleted(new) /\ AllMapsDone(workers, new)
               ended == [new EXCEPT !.done = allDone]
    <2>1. /\ ~jobs[j].done
          /\ WellFormed(jobs[j])
          /\ WellFormed(new)
      BY <1>0, <1>4, SetTaskType DEF FinishTask, Accepts, Open, TypeOK, TaskState
    <2>2. /\ \A kk \in Kind : TaskIds(new, kk) = TaskIds(jobs[j], kk)
          /\ new.tasks[k][t] = [state |-> "Completed", worker |-> w]
          /\ \A kk \in Kind : \A tt \in TaskIds(jobs[j], kk) :
               (kk # k \/ tt # t) => new.tasks[kk][tt] = jobs[j].tasks[kk][tt]
      BY <2>1, SetTaskEffect
    <2>3. /\ jobs' = [jobs EXCEPT ![j] = ended]
          /\ spawned' = [spawned EXCEPT ![j] = IF allDone THEN @ + 1 ELSE @]
      BY <1>4 DEF FinishTask
    <2>4. allDone => \A kk \in Kind : \A tt \in TaskIds(new, kk) :
                       new.tasks[kk][tt].state = "Completed"
      BY DEF AllReducesCompleted, AllMapsDone, CompletedAlive, Kind
    <2>5. allDone \in BOOLEAN
      BY DEF AllReducesCompleted, AllMapsDone
    <2>6. w # NoWorker
      BY CoordinatorAssumption DEF WorkerId, NoWorker
    <2> HIDE DEF new, allDone
    <2>7. /\ ended.done = allDone
          /\ ended.tasks = new.tasks
          /\ \A kk \in Kind : TaskIds(ended, kk) = TaskIds(new, kk)
      BY <2>1 DEF WellFormed, JobRecord, TaskIds
    <2> HIDE DEF ended
    <2>8. /\ DOMAIN jobs' = DOMAIN jobs
          /\ \A jj \in DOMAIN jobs : jobs'[jj] = IF jj = j THEN ended ELSE jobs[jj]
          /\ \A jj \in DOMAIN jobs :
               spawned'[jj] = IF jj = j /\ allDone THEN spawned[jj] + 1 ELSE spawned[jj]
      BY <1>0, <2>3 DEF TypeOK
    <2>9. OwnerRecorded'
      BY <1>0, <2>2, <2>6, <2>7, <2>8 DEF OwnerRecorded
    <2>10. DoneMeansCompleted'
      BY <1>0, <2>4, <2>7, <2>8 DEF DoneMeansCompleted
    <2>11. CompletionSpawnedOnce'
      BY <1>0, <2>1, <2>5, <2>7, <2>8 DEF CompletionSpawnedOnce
    <2>12. QED
      BY <2>9, <2>10, <2>11 DEF CompletionInv
  <1>5. CASE Register
    BY <1>1, <1>5 DEF Register
  <1>6. CASE Tick
    BY <1>1, <1>6 DEF Tick
  <1>7. ASSUME NEW w \in WorkerId, Heartbeat(w) \/ GetTaskWait(w) PROVE CompletionInv'
    BY <1>1, <1>7 DEF Heartbeat, GetTaskWait
  <1>8. CASE UNCHANGED vars
    BY <1>1, <1>8 DEF vars
  <1>9. QED
    BY <1>2, <1>3, <1>4, <1>5, <1>6, <1>7, <1>8 DEF Next

\* Both invariants hold in every behaviour.
LEMMA InvariantHolds == Spec => [](QueueInv /\ CompletionInv)
  <1>1. Init => QueueInv /\ CompletionInv
    BY QueueInit, CompletionInit
  <1>2. QueueInv /\ CompletionInv /\ [Next]_vars => (QueueInv /\ CompletionInv)'
    BY QueueStep, CompletionStep
  <1>3. QED
    BY <1>1, <1>2, PTL DEF Spec

\* A task is Idle exactly when it has no worker (`worker_id.unwrap()`).
THEOREM OwnerCorrect == Spec => []OwnerRecorded
  <1>1. CompletionInv => OwnerRecorded
    BY DEF CompletionInv
  <1>2. QED
    BY <1>1, InvariantHolds, PTL

\* A done job has no task that is not Completed.
THEOREM DoneCorrect == Spec => []DoneMeansCompleted
  <1>1. CompletionInv => DoneMeansCompleted
    BY DEF CompletionInv
  <1>2. QED
    BY <1>1, InvariantHolds, PTL

\* The completion handler is spawned once for each done job and for no other.
THEOREM SpawnedCorrect == Spec => []CompletionSpawnedOnce
  <1>1. CompletionInv => CompletionSpawnedOnce
    BY DEF CompletionInv
  <1>2. QED
    BY <1>1, InvariantHolds, PTL

-----------------------------------------------------------------------------
(* What a step may do to the jobs *)

\* Every step leaves the known jobs alone, or hands out or finishes one task of
\* one open job.
LEMMA StepOnJobs ==
  ASSUME QueueInv, [Next]_vars
  PROVE  \/ \A j \in DOMAIN jobs : jobs'[j] = jobs[j]
         \/ \E w \in WorkerId, j \in DOMAIN jobs, k \in Kind :
              \E t \in TaskIds(jobs[j], k) :
                /\ ~jobs[j].done
                /\ \A jj \in DOMAIN jobs : jj # j => jobs'[jj] = jobs[jj]
                /\ GetTask(w, j, k, t) \/ FinishTask(w, j, k, t)
  <1>0. TypeOK /\ QueueListsJobs
    BY DEF QueueInv
  <1>1. ASSUME UNCHANGED jobs \/ \E shape \in Shapes : SubmitJob(shape)
        PROVE  \A j \in DOMAIN jobs : jobs'[j] = jobs[j]
    <2>1. nextJobId \notin DOMAIN jobs
      BY <1>0, CoordinatorAssumption DEF TypeOK
    <2>2. QED
      BY <1>0, <1>1, <2>1 DEF SubmitJob, TypeOK
  <1>2. ASSUME NEW w \in WorkerId, NEW j \in DOMAIN jobs, NEW k \in Kind,
               NEW t \in TaskIds(jobs[j], k),
               GetTask(w, j, k, t) \/ FinishTask(w, j, k, t)
        PROVE  ~jobs[j].done /\ \A jj \in DOMAIN jobs : jj # j => jobs'[jj] = jobs[jj]
    <2>1. CASE GetTask(w, j, k, t)
      BY <1>0, <2>1, OfferedTask DEF GetTask, Open, TypeOK
    <2>2. CASE FinishTask(w, j, k, t)
      BY <1>0, <2>2 DEF FinishTask, Accepts, Open, TypeOK
    <2>3. QED
      BY <1>2, <2>1, <2>2
  <1>3. CASE Register \/ Tick \/ UNCHANGED vars
    BY <1>1, <1>3 DEF Register, Tick, vars
  <1>4. ASSUME NEW w \in WorkerId, Heartbeat(w) \/ GetTaskWait(w)
        PROVE  \A j \in DOMAIN jobs : jobs'[j] = jobs[j]
    BY <1>1, <1>4 DEF Heartbeat, GetTaskWait
  <1>5. QED
    BY <1>1, <1>2, <1>3, <1>4 DEF Next

\* The tasks of a job after a report, whether or not it completed the job.
LEMMA FinishedTask ==
  ASSUME TypeOK, NEW w \in WorkerId, NEW j \in DOMAIN jobs, NEW k \in Kind,
         NEW t \in TaskIds(jobs[j], k), FinishTask(w, j, k, t)
  PROVE  /\ jobs'[j].tasks[k][t] = [state |-> "Completed", worker |-> w]
         /\ \A kk \in Kind : \A tt \in TaskIds(jobs[j], kk) :
              (kk # k \/ tt # t) => jobs'[j].tasks[kk][tt] = jobs[j].tasks[kk][tt]
  <1> DEFINE new == SetTask(jobs[j], k, t, "Completed", w)
             allDone == AllReducesCompleted(new) /\ AllMapsDone(workers, new)
  <1>1. WellFormed(jobs[j]) /\ WellFormed(new)
    BY SetTaskType DEF TypeOK, TaskState
  <1>2. jobs' = [jobs EXCEPT ![j] = [new EXCEPT !.done = allDone]]
    BY DEF FinishTask
  <1>3. /\ new.tasks[k][t] = [state |-> "Completed", worker |-> w]
        /\ \A kk \in Kind : \A tt \in TaskIds(jobs[j], kk) :
             (kk # k \/ tt # t) => new.tasks[kk][tt] = jobs[j].tasks[kk][tt]
    BY <1>1, SetTaskEffect
  <1> HIDE DEF new, allDone
  <1>4. [new EXCEPT !.done = allDone].tasks = new.tasks
    BY <1>1 DEF WellFormed, JobRecord
  <1>5. QED
    BY <1>2, <1>3, <1>4 DEF TypeOK

\* The tasks of a job after an assignment.
LEMMA AssignedTask ==
  ASSUME TypeOK, NEW w \in WorkerId, NEW j \in DOMAIN jobs, NEW k \in Kind,
         NEW t \in TaskIds(jobs[j], k), GetTask(w, j, k, t)
  PROVE  /\ jobs'[j].tasks[k][t] = [state |-> "InProgress", worker |-> w]
         /\ \A kk \in Kind : \A tt \in TaskIds(jobs[j], kk) :
              (kk # k \/ tt # t) => jobs'[j].tasks[kk][tt] = jobs[j].tasks[kk][tt]
  <1>1. jobs'[j] = SetTask(jobs[j], k, t, "InProgress", w)
    BY DEF GetTask, TypeOK
  <1>2. QED
    BY <1>1, SetTaskEffect DEF TypeOK

\* A done job never changes again.
THEOREM DoneFinal == Spec => DoneIsFinal
  <1>1. QueueInv /\ [Next]_vars =>
          [\A j \in DOMAIN jobs : jobs[j].done => jobs'[j] = jobs[j]]_vars
    BY StepOnJobs
  <1>2. QED
    BY <1>1, InvariantHolds, PTL DEF Spec, DoneIsFinal

\* No assignment of a reduce task is based on a map output whose worker is
\* judged crashed.
THEOREM ReducesCorrect == Spec => ReducesNeedLiveMaps
  <1> DEFINE Safe(j, t) ==
        HandedOut(j, "reduce", t) =>
          \A m \in TaskIds(jobs[j], "map") :
            /\ jobs[j].tasks["map"][m].state = "Completed"
            /\ Alive(workers', jobs[j].tasks["map"][m].worker)
  <1>1. ASSUME QueueInv, [Next]_vars,
               NEW j \in DOMAIN jobs, NEW t \in TaskIds(jobs[j], "reduce"),
               HandedOut(j, "reduce", t),
               NEW m \in TaskIds(jobs[j], "map")
        PROVE  /\ jobs[j].tasks["map"][m].state = "Completed"
               /\ Alive(workers', jobs[j].tasks["map"][m].worker)
    <2>0. TypeOK /\ QueueListsJobs /\ WellFormed(jobs[j])
      BY <1>1 DEF QueueInv, TypeOK
    <2>1. PICK w \in WorkerId, k \in Kind :
            \E tt \in TaskIds(jobs[j], k) : GetTask(w, j, k, tt) \/ FinishTask(w, j, k, tt)
      BY <1>1, StepOnJobs DEF HandedOut
    <2> PICK u \in TaskIds(jobs[j], k) : GetTask(w, j, k, u) \/ FinishTask(w, j, k, u)
      BY <2>1
    <2>2. CASE FinishTask(w, j, k, u)
      <3>1. /\ jobs'[j].tasks[k][u] = [state |-> "Completed", worker |-> w]
            /\ \A k2 \in Kind : \A t2 \in TaskIds(jobs[j], k2) :
                 (k2 # k \/ t2 # u) => jobs'[j].tasks[k2][t2] = jobs[j].tasks[k2][t2]
        BY <2>0, <2>2, FinishedTask
      <3>2. \/ jobs'[j].tasks["reduce"][t] = jobs[j].tasks["reduce"][t]
            \/ jobs'[j].tasks["reduce"][t].state = "Completed"
        BY <3>1 DEF Kind
      <3>3. QED
        BY <1>1, <3>2 DEF HandedOut
    <2>3. CASE GetTask(w, j, k, u)
      <3>1. k = Phase(workers', jobs[j])
        BY <2>0, <2>3, OfferedTask DEF GetTask
      <3>2. /\ jobs'[j].tasks[k][u] = [state |-> "InProgress", worker |-> w]
            /\ \A k2 \in Kind : \A t2 \in TaskIds(jobs[j], k2) :
                 (k2 # k \/ t2 # u) => jobs'[j].tasks[k2][t2] = jobs[j].tasks[k2][t2]
        BY <2>0, <2>3, AssignedTask
      <3>3. k = "reduce"
        BY <1>1, <3>2 DEF HandedOut, Kind
      <3>4. AllMapsDone(workers', jobs[j])
        BY <3>1, <3>3 DEF Phase
      <3>5. QED
        BY <3>4 DEF AllMapsDone, CompletedAlive
    <2>4. QED
      BY <2>1, <2>2, <2>3
  <1>2. QueueInv /\ [Next]_vars =>
          [\A j \in DOMAIN jobs : \A t \in TaskIds(jobs[j], "reduce") : Safe(j, t)]_vars
    BY <1>1
  <1>3. QED
    BY <1>2, InvariantHolds, PTL DEF Spec, ReducesNeedLiveMaps

\* A task held or finished by a live worker is not given to another worker.
THEOREM OwnerKeepsTask == Spec => LiveOwnerKeepsTask
  <1>1. ASSUME QueueInv, CompletionInv, [Next]_vars,
               NEW j \in DOMAIN jobs, NEW k \in Kind, NEW t \in TaskIds(jobs[j], k),
               HandedOut(j, k, t)
        PROVE  ~Alive(workers', jobs[j].tasks[k][t].worker)
    <2>0. /\ TypeOK /\ QueueListsJobs /\ WellFormed(jobs[j])
          /\ OwnerRecorded
      BY <1>1 DEF QueueInv, TypeOK, CompletionInv
    <2>1. PICK w \in WorkerId, kk \in Kind :
            \E tt \in TaskIds(jobs[j], kk) : GetTask(w, j, kk, tt) \/ FinishTask(w, j, kk, tt)
      BY <1>1, StepOnJobs DEF HandedOut
    <2> PICK u \in TaskIds(jobs[j], kk) : GetTask(w, j, kk, u) \/ FinishTask(w, j, kk, u)
      BY <2>1
    <2>2. CASE FinishTask(w, j, kk, u)
      <3>1. /\ jobs'[j].tasks[kk][u] = [state |-> "Completed", worker |-> w]
            /\ \A k2 \in Kind : \A t2 \in TaskIds(jobs[j], k2) :
                 (k2 # kk \/ t2 # u) => jobs'[j].tasks[k2][t2] = jobs[j].tasks[k2][t2]
        BY <2>0, <2>2, FinishedTask
      <3>2. \/ jobs'[j].tasks[k][t] = jobs[j].tasks[k][t]
            \/ jobs'[j].tasks[k][t].state = "Completed"
        BY <3>1
      <3>3. QED
        BY <1>1, <3>2 DEF HandedOut
    <2>3. CASE GetTask(w, j, kk, u)
      <3>1. Available(workers', jobs[j].tasks[kk][u])
        BY <2>0, <2>3, OfferedTask DEF GetTask
      <3>2. /\ jobs'[j].tasks[kk][u] = [state |-> "InProgress", worker |-> w]
            /\ \A k2 \in Kind : \A t2 \in TaskIds(jobs[j], k2) :
                 (k2 # kk \/ t2 # u) => jobs'[j].tasks[k2][t2] = jobs[j].tasks[k2][t2]
        BY <2>0, <2>3, AssignedTask
      <3>3. kk = k /\ u = t
        BY <1>1, <3>2 DEF HandedOut
      <3>4. CASE jobs[j].tasks[k][t].state = "Idle"
        <4>1. jobs[j].tasks[k][t].worker = NoWorker
          BY <2>0, <3>4 DEF OwnerRecorded
        <4>2. DOMAIN workers' \subseteq WorkerId
          BY <1>1, QueueStep DEF QueueInv, TypeOK
        <4>3. QED
          BY <4>1, <4>2, CoordinatorAssumption DEF Alive, WorkerId, NoWorker
      <3>5. QED
        BY <3>1, <3>3, <3>4 DEF Available
    <2>4. QED
      BY <2>1, <2>2, <2>3
  <1>2. QueueInv /\ CompletionInv /\ [Next]_vars =>
          [\A j \in DOMAIN jobs : \A k \in Kind : \A t \in TaskIds(jobs[j], k) :
             HandedOut(j, k, t) => ~Alive(workers', jobs[j].tasks[k][t].worker)]_vars
    BY <1>1
  <1>3. QED
    BY <1>2, InvariantHolds, PTL DEF Spec, LiveOwnerKeepsTask

-----------------------------------------------------------------------------
(* Refinement *)

DoneJobs == {j \in DOMAIN jobs : jobs[j].done}

\* The coordinator starts as the job service does.
LEMMA ServiceInit == Init => Service!Init
  BY DEF Init, Service!Init

\* Every step of the coordinator is a step of the job service, or changes nothing of it.
LEMMA ServiceStep ==
  QueueInv /\ CompletionInv /\ (QueueInv /\ CompletionInv)' /\ [Next]_vars
    => [Service!Next]_(Service!vars)
  <1> SUFFICES ASSUME QueueInv, CompletionInv, QueueInv', CompletionInv', [Next]_vars
               PROVE  [Service!Next]_(Service!vars)
    OBVIOUS
  <1>0. /\ TypeOK /\ QueueListsJobs /\ CompletionSpawnedOnce
        /\ TypeOK' /\ CompletionSpawnedOnce'
        /\ DOMAIN jobs = Service!Accepted
    BY DEF QueueInv, CompletionInv, TypeOK, Service!Accepted
  <1>1. ASSUME NEW shape \in Shapes, SubmitJob(shape)
        PROVE  Service!Accept
    <2>1. nextJobId \notin DOMAIN jobs /\ NewJob(shape).done = FALSE
      BY <1>0, CoordinatorAssumption DEF TypeOK, NewJob
    <2>2. DoneJobs' = DoneJobs
      BY <1>0, <1>1, <2>1 DEF SubmitJob, TypeOK, DoneJobs
    <2>3. DOMAIN spawned = DOMAIN jobs
      BY <1>0 DEF TypeOK
    <2>4. QED
      BY <1>0, <1>1, <2>2, <2>3 DEF SubmitJob, Service!Accept, DoneJobs
  <1>2. ASSUME NEW w \in WorkerId, NEW j \in DOMAIN jobs, NEW k \in Kind,
               NEW t \in TaskIds(jobs[j], k), GetTask(w, j, k, t)
        PROVE  UNCHANGED Service!vars
    <2>1. jobs' = [jobs EXCEPT ![j] = SetTask(jobs[j], k, t, "InProgress", w)]
      BY <1>2 DEF GetTask
    <2>2. /\ SetTask(jobs[j], k, t, "InProgress", w).done = jobs[j].done
          /\ SetTask(jobs[j], k, t, "InProgress", w).tasks[k][t]
               = [state |-> "InProgress", worker |-> w]
      <3>1. WellFormed(jobs[j])
        BY <1>0 DEF TypeOK
      <3>2. QED
        BY <3>1, SetTaskEffect
    <2>3. DoneJobs' = DoneJobs
      BY <1>0, <2>1, <2>2 DEF DoneJobs, TypeOK
    <2>4. QED
      BY <1>2, <2>3 DEF GetTask, Service!vars, DoneJobs
  <1>3. ASSUME NEW w \in WorkerId, NEW j \in DOMAIN jobs, NEW k \in Kind,
               NEW t \in TaskIds(jobs[j], k), FinishTask(w, j, k, t)
        PROVE  Service!Complete(j) \/ UNCHANGED Service!vars
    <2>1. /\ ~jobs[j].done /\ spawned[j] = 0
          /\ nextJobId' = nextJobId
          /\ DOMAIN jobs' = DOMAIN jobs
          /\ \A jj \in DOMAIN jobs : jj # j => jobs'[jj] = jobs[jj]
      BY <1>0, <1>3 DEF FinishTask, Accepts, Open, TypeOK, CompletionSpawnedOnce
    <2>2. spawned' = [spawned EXCEPT ![j] = spawned'[j]]
      BY <1>0, <1>3 DEF FinishTask, TypeOK
    <2>3. CASE jobs'[j].done
      <3>1. spawned' = [spawned EXCEPT ![j] = 1]
        BY <1>0, <2>1, <2>2, <2>3 DEF CompletionSpawnedOnce
      <3>2. DoneJobs' = DoneJobs \cup {j} /\ j \notin DoneJobs
        BY <2>1, <2>3 DEF DoneJobs
      <3>3. QED
        BY <1>0, <2>1, <3>1, <3>2 DEF Service!Complete, DoneJobs
    <2>4. CASE ~jobs'[j].done
      <3>1. spawned'[j] = spawned[j]
        BY <1>0, <2>1, <2>4 DEF CompletionSpawnedOnce
      <3>2. spawned' = spawned
        BY <1>0, <2>2, <3>1 DEF TypeOK
      <3>3. DoneJobs' = DoneJobs
        BY <2>1, <2>4 DEF DoneJobs
      <3>4. QED
        BY <2>1, <3>2, <3>3 DEF Service!vars, DoneJobs
    <2>5. QED
      BY <2>3, <2>4
  <1>4. ASSUME UNCHANGED <<nextJobId, jobs, spawned>>
        PROVE  UNCHANGED Service!vars
    BY <1>4 DEF Service!vars
  <1>5. CASE Register \/ Tick \/ UNCHANGED vars
    BY <1>4, <1>5 DEF Register, Tick, vars
  <1>6. ASSUME NEW w \in WorkerId, Heartbeat(w) \/ GetTaskWait(w)
        PROVE  UNCHANGED Service!vars
    BY <1>4, <1>6 DEF Heartbeat, GetTaskWait
  <1>7. QED
    BY <1>0, <1>1, <1>2, <1>3, <1>5, <1>6 DEF Next, Service!Next

\* The coordinator implements the abstract job service.
THEOREM Refinement == Spec => ImplementsJobService
  <1>1. QED
    BY ServiceInit, ServiceStep, InvariantHolds, PTL
    DEF Spec, ImplementsJobService, Service!Spec
=============================================================================
