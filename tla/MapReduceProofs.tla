-------------------------- MODULE MapReduceProofs --------------------------
(***************************************************************************)
(* Theorems about MapReduce, for every number of jobs, workers, map and    *)
(* reduce tasks, every timeout and every set of faults.  The theorems of   *)
(* CoordinatorProofs are used through the refinement: the coordinator that *)
(* the workers drive is a Coordinator.                                     *)
(***************************************************************************)
EXTENDS MapReduce, FiniteSetTheorems, TLAPS

CP == INSTANCE CoordinatorProofs

-----------------------------------------------------------------------------
(* The coordinator.  C and CP are instances of the same module: what CP's    *)
(* theorems say of its definitions they say of C's.                          *)

\* The operations of C and CP are the same.
LEMMA SameSpec == C!Spec <=> CP!Spec
  BY DEF C!NoWorker, CP!NoWorker, C!IdleTask, CP!IdleTask, C!NewJob, CP!NewJob,
    C!TaskIds, CP!TaskIds, C!SetTask, CP!SetTask, C!Open, CP!Open, C!Accepts,
    CP!Accepts, C!Alive, CP!Alive, C!Refreshed, CP!Refreshed, C!Seen, CP!Seen,
    C!CompletedAlive, CP!CompletedAlive, C!AllMapsDone, CP!AllMapsDone,
    C!AllReducesCompleted, CP!AllReducesCompleted, C!Phase, CP!Phase, C!Available,
    CP!Available, C!AvailableTasks, CP!AvailableTasks, C!Servable, CP!Servable,
    C!Offered, CP!Offered, C!Enqueued, CP!Enqueued, C!Register, CP!Register,
    C!Heartbeat, CP!Heartbeat, C!SubmitJob, CP!SubmitJob, C!GetTask, CP!GetTask,
    C!GetTaskWait, CP!GetTaskWait, C!FinishTask, CP!FinishTask, C!Tick, CP!Tick,
    C!Kind, CP!Kind, C!WorkerId, CP!WorkerId, C!Init, CP!Init, C!vars, CP!vars,
    C!Next, CP!Next, C!Spec, CP!Spec

\* What the workers' proofs need of the coordinator.
Coordinated ==
  /\ C!TypeOK /\ C!QueueListsJobs /\ C!OwnerRecorded
  /\ C!DoneMeansCompleted /\ C!CompletionSpawnedOnce

\* Seen from here, the invariants of CoordinatorProofs are those of the Coordinator that
\* MapReduce composes.
LEMMA SameInvariants ==
  /\ C!TypeOK <=> CP!TypeOK
  /\ C!QueueListsJobs <=> CP!QueueListsJobs
  /\ C!OwnerRecorded <=> CP!OwnerRecorded
  /\ C!DoneMeansCompleted <=> CP!DoneMeansCompleted
  /\ C!CompletionSpawnedOnce <=> CP!CompletionSpawnedOnce
  BY DEF C!TypeOK, CP!TypeOK, C!JobRecord, CP!JobRecord, C!WellFormed, CP!WellFormed,
    C!TaskList, CP!TaskList, C!TaskCount, CP!TaskCount, C!TaskRecord, CP!TaskRecord,
    C!TaskState, CP!TaskState, C!JobId, CP!JobId, C!NoWorker, CP!NoWorker, C!TaskIds,
    CP!TaskIds, C!Kind, CP!Kind, C!WorkerId, CP!WorkerId, C!QueueListsJobs,
    CP!QueueListsJobs, C!OwnerRecorded, CP!OwnerRecorded, C!DoneMeansCompleted,
    CP!DoneMeansCompleted, C!CompletionSpawnedOnce, CP!CompletionSpawnedOnce

\* The kind of a task a worker executes is one of the two.
Kinds ==
  /\ DOMAIN task = WorkerId
  /\ \A w \in WorkerId :
       task[w] = NoTask \/ ("kind" \in DOMAIN task[w] /\ task[w].kind \in C!Kind)

\* The kind of a task a worker executes stays one of the two.
LEMMA KindsStep == Kinds /\ [Next]_vars => Kinds'
  <1> SUFFICES ASSUME Kinds, [Next]_vars PROVE Kinds'
    OBVIOUS
  <1> USE DEF Kinds, WorkerId, C!WorkerId
  <1>1. CASE UNCHANGED task
    BY <1>1
  <1>2. ASSUME NEW w \in WorkerId, RequestTask(w) PROVE Kinds'
    <2>1. PICK j, k, t : k \in C!Kind /\ task' = [task EXCEPT ![w] = Assigned(j, k, t)]
      BY <1>2 DEF RequestTask
    <2>2. "kind" \in DOMAIN Assigned(j, k, t) /\ Assigned(j, k, t).kind \in C!Kind
      BY <2>1 DEF Assigned
    <2>3. QED
      BY <2>1, <2>2
  <1>3. ASSUME NEW w \in WorkerId, task' = [task EXCEPT ![w] = NoTask] PROVE Kinds'
    BY <1>3
  <1>4. ASSUME NEW w \in WorkerId, task[w].step # "none", NEW new,
               \/ new = [task[w] EXCEPT !.step = "report"]
               \/ new = [task[w] EXCEPT !.step = "write"]
               \/ new = [task[w] EXCEPT !.next = @ + 1],
               task' = [task EXCEPT ![w] = new]
        PROVE  Kinds'
    <2>1. task[w] # NoTask
      BY <1>4 DEF NoTask
    <2>2. "kind" \in DOMAIN new /\ new.kind = task[w].kind
      BY <1>4, <2>1
    <2>3. QED
      BY <1>4, <2>1, <2>2
  <1>5. ASSUME NEW w \in WorkerId, Map(w) \/ Fail(w) PROVE Kinds'
    BY <1>4, <1>5 DEF Map, Fail, At
  <1>6. ASSUME NEW w \in WorkerId, Create(w) \/ Write(w) PROVE Kinds'
    BY <1>4, <1>6 DEF Create, Write, At
  <1>7. ASSUME NEW w \in WorkerId, Fetch(w) PROVE Kinds'
    BY <1>4, <1>7 DEF Fetch, At, AfterFetch
  <1>8. ASSUME NEW w \in WorkerId, Report(w) \/ ReportLost(w) \/ Crash(w) PROVE Kinds'
    BY <1>3, <1>8 DEF Report, ReportLost, Crash
  <1>9. ASSUME NEW w \in WorkerId, Start(w) \/ Heartbeat(w) \/ Flush(w) PROVE Kinds'
    BY <1>1, <1>9 DEF Start, Heartbeat, Flush, workerVars
  <1>10. ASSUME Tick \/ (\E shape \in Shapes : SubmitJob(shape))
                  \/ (\E j \in DOMAIN jobs : ReadOutput(j))
         PROVE  Kinds'
    BY <1>1, <1>10 DEF Tick, SubmitJob, ReadOutput, workerVars
  <1>11. CASE UNCHANGED vars
    BY <1>1, <1>11 DEF vars, workerVars
  <1>12. QED
    BY <1>2, <1>5, <1>6, <1>7, <1>8, <1>9, <1>10, <1>11 DEF Next, WorkerStep

\* MapReduce and the Coordinator it composes name workers and tasks alike.
LEMMA SameIds == /\ WorkerId = C!WorkerId
                 /\ \A j : Maps(j) = C!TaskIds(jobs[j], "map")
                 /\ \A j : Reduces(j) = C!TaskIds(jobs[j], "reduce")
  BY DEF WorkerId, Maps, Reduces

\* Every step of the composition is a step of the coordinator, or changes nothing of it.
LEMMA RefinementStep == Kinds /\ [Next]_vars => [C!Next]_(C!vars)
  <1> SUFFICES ASSUME Kinds, [Next]_vars PROVE [C!Next]_(C!vars)
    OBVIOUS
  <1>1. CASE UNCHANGED coordVars
    BY <1>1 DEF coordVars, C!vars
  <1>2. CASE Tick
    BY <1>2 DEF Tick, C!Next
  <1>3. ASSUME NEW shape \in Shapes, SubmitJob(shape) PROVE C!Next
    BY <1>3 DEF SubmitJob, C!Next
  <1>4. ASSUME NEW w \in WorkerId, Start(w) PROVE C!Next
    BY <1>4 DEF Start, C!Next
  <1>5. ASSUME NEW w \in WorkerId, Heartbeat(w) PROVE C!Next
    BY <1>5 DEF Heartbeat, C!Next, WorkerId
  <1>6. ASSUME NEW w \in WorkerId, RequestTask(w) PROVE C!Next
    BY <1>6 DEF RequestTask, C!Next, WorkerId
  <1>7. ASSUME NEW w \in WorkerId, Report(w) PROVE [C!Next]_(C!vars)
    <2>1. CASE C!FinishTask(w, task[w].job, task[w].kind, task[w].id)
      <3>1. task[w].kind \in C!Kind
        BY <1>7 DEF Report, At, NoTask, Kinds
      <3>2. /\ task[w].job \in DOMAIN jobs
            /\ task[w].id \in C!TaskIds(jobs[task[w].job], task[w].kind)
        BY <2>1 DEF C!FinishTask, C!Accepts
      <3>3. QED
        BY <2>1, <3>1, <3>2 DEF C!Next, WorkerId
    <2>2. QED
      BY <1>1, <1>7, <2>1 DEF Report
  <1>8. ASSUME NEW w \in WorkerId,
               \/ Map(w) \/ Fetch(w) \/ Create(w) \/ Write(w) \/ Flush(w)
               \/ Fail(w) \/ ReportLost(w) \/ Crash(w)
        PROVE  UNCHANGED coordVars
    BY <1>8 DEF Map, Fetch, Create, Write, Flush, Fail, ReportLost, Crash
  <1>9. ASSUME NEW j \in DOMAIN jobs, ReadOutput(j) PROVE UNCHANGED coordVars
    BY <1>9 DEF ReadOutput
  <1>10. CASE UNCHANGED vars
    BY <1>1, <1>10 DEF vars
  <1>11. QED
    BY <1>1, <1>2, <1>3, <1>4, <1>5, <1>6, <1>7, <1>8, <1>9, <1>10 DEF Next, WorkerStep

\* The workers drive a Coordinator: each of their steps is one of its own or none
\* of its business, so that everything proved of it, facing arbitrary callers, holds
\* of the composition (Worker::run, handle_task, and the handlers they call).
THEOREM Refinement == Spec => C!Spec
  <1>1. Init => C!Init /\ Kinds
    BY DEF Init, Kinds
  <1>2. QED
    BY <1>1, KindsStep, RefinementStep, PTL DEF Spec, C!Spec

\* The invariants proved of the coordinator alone hold in the composition.
LEMMA CoordinatedAlways == Spec => []Coordinated
  <1> DEFINE Known == /\ CP!TypeOK /\ CP!QueueListsJobs /\ CP!OwnerRecorded
                      /\ CP!DoneMeansCompleted /\ CP!CompletionSpawnedOnce
  <1>1. CP!Spec => []Known
    BY CP!TypeCorrect, CP!QueueCorrect, CP!OwnerCorrect, CP!DoneCorrect,
       CP!SpawnedCorrect, MapReduceAssumption, PTL DEF CP!Kind
  <1>2. Coordinated <=> Known
    BY SameInvariants DEF Coordinated
  <1>3. QED
    BY Refinement, SameSpec, <1>1, <1>2, PTL

-----------------------------------------------------------------------------
(* What the handlers do to the task records *)

Record(j, k, t) == jobs[j].tasks[k][t]

\* No job is ever marked failed (fail_task, which might have, changes nothing).
NeverFailed == \A j \in DOMAIN jobs : ~jobs[j].failed

\* A step writes rec to the record of one task, and leaves all others alone.
Writes(j, k, t, rec) ==
  /\ DOMAIN jobs' = DOMAIN jobs
  /\ \A i \in DOMAIN jobs :
       /\ jobs'[i].size = jobs[i].size
       /\ jobs'[i].failed = jobs[i].failed
       /\ \A l \in C!Kind : \A n \in C!TaskIds(jobs[i], l) :
            Record(i, l, n)' = IF i = j /\ l = k /\ n = t THEN rec ELSE Record(i, l, n)

\* Setting one task's state changes that task and nothing else of the job.
LEMMA SetTaskEffect ==
  ASSUME NEW job, C!WellFormed(job),
         NEW k \in C!Kind, NEW t \in C!TaskIds(job, k), NEW state, NEW w,
         NEW set, set = C!SetTask(job, k, t, state, w)
  PROVE  /\ set.size = job.size
         /\ set.failed = job.failed
         /\ set.done = job.done
         /\ \A d : [set EXCEPT !.done = d].size = job.size
         /\ \A d : [set EXCEPT !.done = d].failed = job.failed
         /\ \A d : [set EXCEPT !.done = d].tasks = set.tasks
         /\ \A l \in C!Kind : \A n \in C!TaskIds(job, l) :
              set.tasks[l][n] = IF l = k /\ n = t THEN [state |-> state, worker |-> w]
                                                 ELSE job.tasks[l][n]
  BY DEF C!SetTask, C!WellFormed, C!JobRecord, C!TaskIds

\* get_task writes one record, of a task on offer in a job that is not done.
LEMMA GetTaskEffect ==
  ASSUME Coordinated, NEW w \in WorkerId, NEW j \in DOMAIN jobs, NEW k \in C!Kind,
         NEW t \in C!TaskIds(jobs[j], k), C!GetTask(w, j, k, t)
  PROVE  /\ Writes(j, k, t, [state |-> "InProgress", worker |-> w])
         /\ \A i \in DOMAIN jobs : jobs'[i].done = jobs[i].done
         /\ ~jobs[j].done
         /\ k = C!Phase(workers', jobs[j])
         /\ C!Available(workers', Record(j, k, t))
  <1> DEFINE set == C!SetTask(jobs[j], k, t, "InProgress", w)
  <1>1. jobs' = [jobs EXCEPT ![j] = set] /\ C!Offered(workers', j, k, t)
    BY DEF C!GetTask
  <1>2. C!WellFormed(jobs[j])
    BY DEF Coordinated, C!TypeOK
  <1>0. set.done = jobs[j].done
    BY <1>2 DEF C!SetTask, C!WellFormed, C!JobRecord
  <1> HIDE DEF set
  <1>3. Writes(j, k, t, [state |-> "InProgress", worker |-> w])
    BY <1>1, <1>2, SetTaskEffect DEF Writes, Record, set
  <1>4. \A i \in DOMAIN jobs : jobs'[i].done = jobs[i].done
    BY <1>0, <1>1
  <1>5. ~jobs[j].done /\ k = C!Phase(workers', jobs[j])
        /\ C!Available(workers', Record(j, k, t))
    BY <1>1 DEF C!Offered, C!Servable, C!Open, C!AvailableTasks, Record
  <1>6. QED
    BY <1>3, <1>4, <1>5

\* finish_task completes one task that was not completed, and leaves other jobs alone.
LEMMA FinishTaskEffect ==
  ASSUME Coordinated, NEW w \in WorkerId, NEW j, NEW k \in C!Kind, NEW t,
         C!FinishTask(w, j, k, t)
  PROVE  /\ j \in DOMAIN jobs /\ t \in C!TaskIds(jobs[j], k)
         /\ Record(j, k, t).state # "Completed"
         /\ ~jobs[j].done
         /\ Writes(j, k, t, [state |-> "Completed", worker |-> w])
         /\ \A i \in DOMAIN jobs : i # j => jobs'[i].done = jobs[i].done
  <1> DEFINE set == C!SetTask(jobs[j], k, t, "Completed", w)
             allDone == C!AllReducesCompleted(set) /\ C!AllMapsDone(workers, set)
  <1>1. /\ j \in DOMAIN jobs /\ t \in C!TaskIds(jobs[j], k)
        /\ Record(j, k, t).state # "Completed"
        /\ ~jobs[j].done
        /\ jobs' = [jobs EXCEPT ![j] = [set EXCEPT !.done = allDone]]
    BY DEF C!FinishTask, C!Accepts, C!Open, Record
  <1>2. C!WellFormed(jobs[j])
    BY <1>1 DEF Coordinated, C!TypeOK
  <1> HIDE DEF set, allDone
  <1>3. Writes(j, k, t, [state |-> "Completed", worker |-> w])
    BY <1>1, <1>2, SetTaskEffect DEF Writes, Record, set
  <1>4. QED
    BY <1>1, <1>3

\* submit_job adds one job with every task idle, and leaves the others alone.
LEMMA SubmitEffect ==
  ASSUME Coordinated, NEW shape \in Shapes, C!SubmitJob(shape)
  PROVE  /\ nextJobId \notin DOMAIN jobs
         /\ DOMAIN jobs' = DOMAIN jobs \cup {nextJobId}
         /\ \A i \in DOMAIN jobs : jobs'[i] = jobs[i]
         /\ jobs'[nextJobId].size = shape
         /\ ~jobs'[nextJobId].failed /\ ~jobs'[nextJobId].done
         /\ \A l \in C!Kind : \A n \in C!TaskIds(jobs'[nextJobId], l) :
              jobs'[nextJobId].tasks[l][n] = C!IdleTask
  <1>1. nextJobId \notin DOMAIN jobs
    BY MapReduceAssumption DEF Coordinated, C!TypeOK
  <1>2. jobs' = [j \in DOMAIN jobs \cup {nextJobId} |->
                   IF j = nextJobId THEN C!NewJob(shape) ELSE jobs[j]]
    BY DEF C!SubmitJob
  <1>3. /\ DOMAIN jobs' = DOMAIN jobs \cup {nextJobId}
        /\ \A i \in DOMAIN jobs : jobs'[i] = jobs[i]
        /\ jobs'[nextJobId] = C!NewJob(shape)
    BY <1>1, <1>2
  <1>4. /\ C!NewJob(shape).size = shape
        /\ C!NewJob(shape).failed = FALSE
        /\ C!NewJob(shape).done = FALSE
        /\ \A l \in C!Kind : \A n \in 0 .. shape[l] - 1 :
             C!NewJob(shape).tasks[l][n] = C!IdleTask
    BY DEF C!NewJob
  <1>5. \A l \in C!Kind : \A n \in C!TaskIds(jobs'[nextJobId], l) :
          jobs'[nextJobId].tasks[l][n] = C!IdleTask
    BY <1>3, <1>4 DEF C!TaskIds
  <1>6. jobs'[nextJobId].size = shape /\ ~jobs'[nextJobId].failed /\ ~jobs'[nextJobId].done
    BY <1>3, <1>4
  <1>7. QED
    BY <1>1, <1>3, <1>5, <1>6

\* A task has an owner unless it is idle, and is completed if its job is done.
LEMMA RecordType ==
  ASSUME Coordinated, NEW j \in DOMAIN jobs, NEW k \in C!Kind,
         NEW t \in C!TaskIds(jobs[j], k)
  PROVE  /\ Record(j, k, t).state \in C!TaskState
         /\ Record(j, k, t).worker \in WorkerId \cup {C!NoWorker}
         /\ Record(j, k, t).state = "Idle" <=> Record(j, k, t).worker = C!NoWorker
         /\ jobs[j].done => Record(j, k, t).state = "Completed"
  <1>1. C!WellFormed(jobs[j])
    BY DEF Coordinated, C!TypeOK
  <1>2. jobs[j].tasks[k] \in C!TaskList /\ DOMAIN jobs[j].tasks[k] = C!TaskIds(jobs[j], k)
    BY <1>1 DEF C!WellFormed, C!JobRecord
  <1>3. Record(j, k, t) \in C!TaskRecord
    BY <1>2 DEF C!TaskList, Record
  <1>4. QED
    BY <1>3 DEF C!TaskRecord, Coordinated, C!OwnerRecorded, C!DoneMeansCompleted, Record,
       WorkerId

\* A job has as many tasks of a kind as its shape says.
LEMMA Sizes ==
  ASSUME Coordinated, NEW j \in DOMAIN jobs, NEW k \in C!Kind
  PROVE  /\ jobs[j].size[k] \in Nat
         /\ C!TaskIds(jobs[j], k) = 0 .. jobs[j].size[k] - 1
         /\ Cardinality(C!TaskIds(jobs[j], k)) = jobs[j].size[k]
  <1>1. jobs[j].size[k] \in Nat
    BY MapReduceAssumption DEF Coordinated, C!TypeOK, C!JobRecord, C!Kind
  <1>2. Cardinality(0 .. jobs[j].size[k] - 1) = jobs[j].size[k]
    BY <1>1, FS_Interval
  <1>3. QED
    BY <1>1, <1>2 DEF C!TaskIds

\* Jobs stay, with their tasks.
LEMMA JobsStay ==
  ASSUME Kinds, Coordinated, [Next]_vars, NEW j \in DOMAIN jobs
  PROVE  /\ j \in DOMAIN jobs'
         /\ \A k \in C!Kind : C!TaskIds(jobs'[j], k) = C!TaskIds(jobs[j], k)
         /\ jobs'[j].failed = jobs[j].failed
  <1>1. [C!Next]_(C!vars)
    BY RefinementStep
  <1>2. CASE UNCHANGED jobs
    BY <1>2
  <1>3. ASSUME NEW shape \in Shapes, C!SubmitJob(shape)
        PROVE  j \in DOMAIN jobs' /\ jobs'[j] = jobs[j]
    BY <1>3, SubmitEffect
  <1>4. ASSUME NEW w \in WorkerId, NEW i \in DOMAIN jobs, NEW l \in C!Kind,
               NEW t \in C!TaskIds(jobs[i], l),
               C!GetTask(w, i, l, t) \/ C!FinishTask(w, i, l, t)
        PROVE  j \in DOMAIN jobs' /\ jobs'[j].size = jobs[j].size
               /\ jobs'[j].failed = jobs[j].failed
    BY <1>4, GetTaskEffect, FinishTaskEffect DEF Writes
  <1>5. CASE UNCHANGED C!vars
    BY <1>2, <1>5 DEF C!vars
  <1>6. QED
    BY <1>1, <1>2, <1>3, <1>4, <1>5
    DEF C!Next, C!Register, C!Tick, C!Heartbeat, C!GetTaskWait, C!TaskIds, WorkerId

-----------------------------------------------------------------------------
(* What holds of the processes, their tasks and the files, whatever the faults *)

\* The ids handed out are those of the processes that were started.
Processes ==
  /\ status \in [WorkerId -> {"new", "up", "down"}]
  /\ \A w \in WorkerId : status[w] = "new" <=> nextWorkerId <= w

Started(w) == w \in WorkerId /\ status[w] # "new"

Fields == {"job", "kind", "id", "step", "from", "next"}

\* Only running processes have tasks, and the map workers they were told of had
\* been started.
Tasked(w) ==
  /\ w \in Up
  /\ DOMAIN task[w] = Fields
  /\ task[w].kind \in C!Kind
  /\ Executing(w)
  /\ \A m \in DOMAIN task[w].from : Started(task[w].from[m])

Tasks ==
  /\ DOMAIN task = WorkerId
  /\ \A w \in WorkerId : task[w] = NoTask \/ Tasked(w)

\* So had the workers named by the task records.
Owners ==
  \A j \in DOMAIN jobs : \A k \in C!Kind : \A t \in C!TaskIds(jobs[j], k) :
    Record(j, k, t).state # "Idle" => Started(Record(j, k, t).worker)

Holdings ==
  held \in [WorkerId -> SUBSET {p \in (DOMAIN jobs) \X Nat : p[2] \in Maps(p[1])}]

\* A background write is of a running process, and for a file of a job.
Pending ==
  unwritten \subseteq {u \in Up \X (DOMAIN jobs) \X Nat : u[3] \in Reduces(u[2])}

Files ==
  /\ DOMAIN output = DOMAIN jobs /\ DOMAIN handler = DOMAIN jobs
  /\ \A j \in DOMAIN jobs :
       /\ output[j] \in [Reduces(j) -> {"missing", "empty", "full"}]
       /\ handler[j] \in [next : 0 .. Cardinality(Reduces(j)), full : SUBSET Reduces(j)]

Base ==
  /\ Kinds /\ Coordinated /\ NeverFailed /\ Processes
  /\ Tasks /\ Owners /\ Holdings /\ Pending /\ Files

\* No step marks a job failed.
LEMMA NeverFailedStep ==
  ASSUME Base, [Next]_vars
  PROVE  NeverFailed'
  <1>1. ASSUME NEW j \in DOMAIN jobs' \ DOMAIN jobs PROVE ~jobs'[j].failed
    <2>1. PICK shape \in Shapes : C!SubmitJob(shape)
      <3>1. [C!Next]_(C!vars)
        BY RefinementStep DEF Base
      <3>2. DOMAIN jobs' # DOMAIN jobs
        BY <1>1
      <3>3. ASSUME NEW w \in WorkerId, NEW i \in DOMAIN jobs, NEW l \in C!Kind,
                   NEW t \in C!TaskIds(jobs[i], l),
                   C!GetTask(w, i, l, t) \/ C!FinishTask(w, i, l, t)
            PROVE  DOMAIN jobs' = DOMAIN jobs
        BY <3>3 DEF C!GetTask, C!FinishTask
      <3>4. QED
        BY <3>1, <3>2, <3>3
        DEF C!Next, C!Register, C!Tick, C!Heartbeat, C!GetTaskWait, C!vars, WorkerId
    <2>2. j = nextJobId /\ ~jobs'[nextJobId].failed
      BY <1>1, <2>1, SubmitEffect DEF Base
    <2>3. QED
      BY <2>2
  <1>2. QED
    BY <1>1, JobsStay DEF NeverFailed, Base

\* Processes come up by Start and go down by Crash only, and a started worker has its id
\* for good.
LEMMA ProcessesStep ==
  ASSUME Coordinated, Processes, [Next]_vars
  PROVE  /\ Processes'
         /\ \A w \in WorkerId : Started(w) => Started(w)'
         /\ \A w \in Up : w \in Up' \/ Crash(w)
         /\ \A w \in Up' : w \in Up \/ Start(w)
  <1> USE DEF Processes, Started, Up
  <1>0. nextWorkerId \in Int /\ \A w \in WorkerId : w \in Int
    BY MapReduceAssumption DEF Coordinated, C!TypeOK, WorkerId, C!WorkerId
  <1>1. ASSUME NEW w \in WorkerId, Start(w)
        PROVE  w = nextWorkerId /\ nextWorkerId' = nextWorkerId + 1
               /\ status' = [status EXCEPT ![w] = "up"]
    BY <1>1 DEF Start, C!Register
  <1>2. ASSUME NEW w \in WorkerId, Crash(w)
        PROVE  /\ nextWorkerId' = nextWorkerId /\ w \in Up
               /\ status' = [status EXCEPT ![w] = "down"]
    BY <1>2 DEF Crash, coordVars
  <1>3. ASSUME ~ \E w \in WorkerId : Start(w) \/ Crash(w)
        PROVE  nextWorkerId' = nextWorkerId /\ status' = status
    <2>1. CASE Tick \/ (\E shape \in Shapes : SubmitJob(shape))
      BY <2>1 DEF Tick, C!Tick, SubmitJob, C!SubmitJob, workerVars
    <2>2. CASE UNCHANGED vars \/ \E j \in DOMAIN jobs : ReadOutput(j)
      BY <2>2 DEF ReadOutput, workerVars, coordVars, vars
    <2>3. ASSUME NEW w \in WorkerId, Heartbeat(w) \/ RequestTask(w) \/ Report(w)
          PROVE  nextWorkerId' = nextWorkerId /\ status' = status
      BY <2>3 DEF Heartbeat, C!Heartbeat, RequestTask, C!GetTask, Report, C!FinishTask,
         workerVars, coordVars
    <2>4. ASSUME NEW w \in WorkerId,
                 \/ Map(w) \/ Fetch(w) \/ Create(w) \/ Write(w) \/ Flush(w)
                 \/ Fail(w) \/ ReportLost(w)
          PROVE  nextWorkerId' = nextWorkerId /\ status' = status
      BY <2>4 DEF Map, Fetch, Create, Write, Flush, Fail, ReportLost, coordVars
    <2>5. QED
      BY <1>3, <2>1, <2>2, <2>3, <2>4 DEF Next, WorkerStep
  <1>4. CASE \E w \in WorkerId : Start(w)
    BY <1>0, <1>1, <1>4
  <1>5. CASE \E w \in WorkerId : Crash(w)
    BY <1>0, <1>2, <1>5
  <1>6. CASE ~ \E w \in WorkerId : Start(w) \/ Crash(w)
    BY <1>3, <1>6
  <1>7. QED
    BY <1>4, <1>5, <1>6

\* The task a process goes on with.
LEMMA TaskedStep ==
  ASSUME Base, [Next]_vars, NEW w \in WorkerId, Tasked(w), w \in Up',
         DOMAIN task'[w] = Fields,
         task'[w].job = task[w].job, task'[w].kind = task[w].kind,
         task'[w].id = task[w].id, task'[w].from = task[w].from,
         IF task[w].kind = "map"
           THEN task'[w].step \in {"map", "report"}
           ELSE /\ task'[w].step \in {"fetch", "write", "report"}
                /\ task'[w].next \in 0 .. Cardinality(Maps(task[w].job))
  PROVE  Tasked(w)'
  <1> DEFINE j == task[w].job
  <1>1. /\ j \in DOMAIN jobs'
        /\ \A k \in C!Kind : C!TaskIds(jobs'[j], k) = C!TaskIds(jobs[j], k)
    BY JobsStay DEF Base, Tasked, Executing
  <1>2. Maps(j) = C!TaskIds(jobs'[j], "map")
    BY <1>1 DEF Maps, C!Kind
  <1>3. Executing(w)'
    BY <1>1, <1>2 DEF Tasked, Executing, Maps
  <1>4. \A m \in DOMAIN task[w].from : Started(task[w].from[m])'
    BY ProcessesStep DEF Base, Tasked, Started
  <1>5. QED
    BY <1>3, <1>4 DEF Tasked

\* After every step only running processes have tasks, and tasks that exist.
LEMMA TasksStep ==
  ASSUME Base, [Next]_vars
  PROVE  Tasks'
  <1> USE DEF Base
  <1>1. ASSUME NEW v \in WorkerId, task[v] # NoTask
        PROVE  /\ Tasked(v) /\ DOMAIN task[v] = Fields
               /\ (task[v].kind = "map" => task[v].step \in {"map", "report"})
               /\ (task[v].kind # "map" =>
                    /\ task[v].kind = "reduce"
                    /\ task[v].step \in {"fetch", "write", "report"}
                    /\ task[v].next \in 0 .. Cardinality(Maps(task[v].job)))
    BY <1>1 DEF Tasks, Tasked, Executing, C!Kind
  <1>2. ASSUME NEW v \in WorkerId, task'[v] = task[v], v \in Up => v \in Up'
        PROVE  task'[v] = NoTask \/ Tasked(v)'
    <2>1. CASE task[v] # NoTask
      BY <1>1, <1>2, <2>1, TaskedStep DEF Tasked
    <2>2. QED
      BY <1>2, <2>1
  <1>3. ASSUME NEW w \in WorkerId, task[w] # NoTask, UNCHANGED status, NEW new,
               task' = [task EXCEPT ![w] = new],
               DOMAIN new = Fields,
               new.job = task[w].job, new.kind = task[w].kind,
               new.id = task[w].id, new.from = task[w].from,
               IF task[w].kind = "map"
                 THEN new.step \in {"map", "report"}
                 ELSE /\ new.step \in {"fetch", "write", "report"}
                      /\ new.next \in 0 .. Cardinality(Maps(task[w].job))
        PROVE  Tasks'
    <2>1. task'[w] = new /\ w \in Up'
      BY <1>1, <1>3 DEF Tasks, Tasked, Up
    <2>2. Tasked(w)'
      BY <1>1, <1>3, <2>1, TaskedStep
    <2>3. QED
      BY <1>2, <1>3, <2>2 DEF Tasks, Up
  <1>4a. ASSUME NEW w \in WorkerId, task[w] # NoTask, UNCHANGED status,
               task' = [task EXCEPT ![w] = [task[w] EXCEPT !.step = "report"]]
        PROVE  Tasks'
    <2> DEFINE new == [task[w] EXCEPT !.step = "report"]
    <2>1. /\ DOMAIN new = Fields
          /\ new.job = task[w].job /\ new.kind = task[w].kind
          /\ new.id = task[w].id /\ new.from = task[w].from
          /\ new.step = "report" /\ new.next = task[w].next
      BY <1>1, <1>4a DEF Fields
    <2> HIDE DEF new
    <2>2. QED
      BY <1>1, <1>3, <1>4a, <2>1 DEF new
  <1>4b. ASSUME NEW w \in WorkerId, task[w] # NoTask, UNCHANGED status,
               task[w].kind # "map",
               task' = [task EXCEPT ![w] = [task[w] EXCEPT !.step = "write"]]
        PROVE  Tasks'
    <2> DEFINE new == [task[w] EXCEPT !.step = "write"]
    <2>1. /\ DOMAIN new = Fields
          /\ new.job = task[w].job /\ new.kind = task[w].kind
          /\ new.id = task[w].id /\ new.from = task[w].from
          /\ new.step = "write" /\ new.next = task[w].next
      BY <1>1, <1>4b DEF Fields
    <2> HIDE DEF new
    <2>2. QED
      BY <1>1, <1>3, <1>4b, <2>1 DEF new
  <1>5. ASSUME NEW w \in WorkerId, task' = [task EXCEPT ![w] = NoTask],
               \A v \in WorkerId : v # w => status'[v] = status[v]
        PROVE  Tasks'
    BY <1>2, <1>5 DEF Tasks, Up
  <1>6. CASE task' = task /\ \A w \in Up : w \in Up'
    BY <1>2, <1>6 DEF Tasks
  <1>7. ASSUME NEW w \in WorkerId, RequestTask(w) PROVE Tasks'
    <2>1. PICK j \in DOMAIN jobs, k \in C!Kind : \E t \in C!TaskIds(jobs[j], k) :
            C!GetTask(w, j, k, t) /\ task' = [task EXCEPT ![w] = Assigned(j, k, t)]
      BY <1>7 DEF RequestTask
    <2>2. PICK t \in C!TaskIds(jobs[j], k) :
            C!GetTask(w, j, k, t) /\ task' = [task EXCEPT ![w] = Assigned(j, k, t)]
      BY <2>1
    <2>3. UNCHANGED status /\ w \in Up
      BY <1>7 DEF RequestTask
    <2>4. /\ Writes(j, k, t, [state |-> "InProgress", worker |-> w])
          /\ k = C!Phase(workers', jobs[j])
      BY <2>2, GetTaskEffect
    <2>5. j \in DOMAIN jobs' /\ \A l \in C!Kind : C!TaskIds(jobs'[j], l) = C!TaskIds(jobs[j], l)
      BY <2>4 DEF Writes, C!TaskIds
    <2>6. Maps(j) = C!TaskIds(jobs'[j], "map") /\ Cardinality(Maps(j)) \in Nat
      BY <2>5, Sizes DEF Maps, C!Kind
    <2>7. task'[w] = Assigned(j, k, t)
      BY <2>2 DEF Tasks
    <2>8. ASSUME k = "map" PROVE Tasked(w)'
      <3>1. /\ DOMAIN Assigned(j, k, t) = Fields
            /\ Assigned(j, k, t).job = j /\ Assigned(j, k, t).kind = "map"
            /\ Assigned(j, k, t).id = t /\ Assigned(j, k, t).step = "map"
            /\ DOMAIN Assigned(j, k, t).from = {}
        BY <2>8 DEF Assigned, Fields
      <3>2. Executing(w)'
        BY <2>5, <2>7, <2>8, <3>1 DEF Executing
      <3>3. QED
        BY <2>3, <2>7, <3>1, <3>2 DEF Tasked, Up, C!Kind
    <2>9. ASSUME k = "reduce" PROVE Tasked(w)'
      <3>1. /\ DOMAIN Assigned(j, k, t) = Fields
            /\ Assigned(j, k, t).job = j /\ Assigned(j, k, t).kind = "reduce"
            /\ Assigned(j, k, t).id = t /\ Assigned(j, k, t).step = "fetch"
            /\ Assigned(j, k, t).from = [m \in Maps(j) |-> Record(j, "map", m).worker]
            /\ Assigned(j, k, t).next = 0
        BY <2>9 DEF Assigned, Fields, Record
      <3>2. ASSUME NEW m \in Maps(j)
            PROVE  /\ Record(j, "map", m).worker \in WorkerId \ {C!NoWorker}
                   /\ Started(Record(j, "map", m).worker)
        <4>1. Record(j, "map", m).state = "Completed"
          BY <2>4, <2>9 DEF C!Phase, C!AllMapsDone, C!CompletedAlive, Maps, Record
        <4>2. QED
          BY <4>1, RecordType DEF Owners, Maps, C!Kind
      <3>3. Executing(w)'
        BY <2>5, <2>6, <2>7, <2>9, <3>1, <3>2 DEF Executing, Maps
      <3>4. (\A m \in DOMAIN task[w].from : Started(task[w].from[m]))'
        BY <2>3, <2>7, <3>1, <3>2 DEF Started
      <3>5. QED
        BY <2>3, <2>7, <3>1, <3>3, <3>4 DEF Tasked, Up, C!Kind
    <2>10. Tasked(w)'
      BY <2>1, <2>8, <2>9 DEF C!Kind
    <2>11. QED
      BY <1>2, <2>2, <2>3, <2>10 DEF Tasks, Up
  <1>8. ASSUME NEW w \in WorkerId, Map(w) \/ Fail(w) PROVE Tasks'
    BY <1>4a, <1>8 DEF Map, Fail, At, NoTask
  <1>9. ASSUME NEW w \in WorkerId, Create(w) \/ Write(w) PROVE Tasks'
    <2>1. task[w] # NoTask /\ UNCHANGED status
      BY <1>9 DEF Create, Write, At, NoTask
    <2>2. task[w].step \in {"fetch", "write"}
      BY <1>9 DEF Create, Write, At
    <2>3. task[w].kind # "map"
      BY <1>1, <2>1, <2>2
    <2>4. QED
      BY <1>4b, <1>4a, <1>9, <2>1, <2>3 DEF Create, Write
  <1>10. ASSUME NEW w \in WorkerId, Fetch(w) PROVE Tasks'
    <2>1. /\ task[w] # NoTask /\ UNCHANGED status
          /\ task[w].step = "fetch" /\ task[w].next \in DOMAIN task[w].from
      BY <1>10 DEF Fetch, At, NoTask
    <2>2. /\ Tasked(w) /\ task[w].kind = "reduce"
          /\ task[w].job \in DOMAIN jobs
          /\ DOMAIN task[w].from = Maps(task[w].job)
      BY <1>1, <2>1 DEF Tasked, Executing
    <2>3. task[w].next + 1 \in 0 .. Cardinality(Maps(task[w].job))
      BY <2>1, <2>2, Sizes DEF Maps, C!Kind
    <2>4. CASE task' = [task EXCEPT ![w] = [task[w] EXCEPT !.next = @ + 1]]
      <3> DEFINE new == [task[w] EXCEPT !.next = @ + 1]
      <3>1. /\ DOMAIN new = Fields
            /\ new.job = task[w].job /\ new.kind = task[w].kind
            /\ new.id = task[w].id /\ new.from = task[w].from
            /\ new.step = task[w].step /\ new.next = task[w].next + 1
        BY <1>1, <2>1 DEF Fields
      <3> HIDE DEF new
      <3>2. QED
        BY <1>1, <1>3, <2>1, <2>2, <2>3, <2>4, <3>1 DEF new
    <2>5. CASE task' = [task EXCEPT ![w] = [task[w] EXCEPT !.step = "report"]]
      BY <1>4a, <2>1, <2>5
    <2>6. QED
      BY <1>10, <2>2, <2>4, <2>5 DEF Fetch, AfterFetch
  <1>11. ASSUME NEW w \in WorkerId, Report(w) \/ ReportLost(w) \/ Crash(w) PROVE Tasks'
    BY <1>5, <1>11 DEF Report, ReportLost, Crash, Processes
  <1>12. ASSUME NEW w \in WorkerId, Start(w) \/ Heartbeat(w) \/ Flush(w) PROVE Tasks'
    BY <1>6, <1>12 DEF Start, Heartbeat, Flush, workerVars, Up, Processes
  <1>13. CASE \/ Tick \/ UNCHANGED vars
              \/ \E shape \in Shapes : SubmitJob(shape)
              \/ \E j \in DOMAIN jobs : ReadOutput(j)
    BY <1>6, <1>13 DEF Tick, SubmitJob, ReadOutput, workerVars, vars, Up
  <1>14. QED
    BY <1>7, <1>8, <1>9, <1>10, <1>11, <1>12, <1>13 DEF Next, WorkerStep

\* How the record of a task changes: it is handed out, or the first report of it is
\* accepted.
LEMMA RecordStep ==
  ASSUME Base, [Next]_vars, NEW j \in DOMAIN jobs, NEW k \in C!Kind,
         NEW t \in C!TaskIds(jobs[j], k)
  PROVE  \/ Record(j, k, t)' = Record(j, k, t)
         \/ \E w \in WorkerId :
              /\ RequestTask(w)
              /\ C!GetTask(w, j, k, t)
              /\ task'[w] = Assigned(j, k, t)
              /\ Record(j, k, t)' = [state |-> "InProgress", worker |-> w]
              /\ C!Available(workers', Record(j, k, t))
         \/ \E w \in WorkerId :
              /\ Report(w)
              /\ task[w].job = j /\ task[w].kind = k /\ task[w].id = t
              /\ Record(j, k, t)' = [state |-> "Completed", worker |-> w]
              /\ Record(j, k, t).state # "Completed"
  <1> USE DEF Base
  <1>1. CASE UNCHANGED jobs
    BY <1>1 DEF Record
  <1>2. ASSUME NEW shape \in Shapes, SubmitJob(shape)
        PROVE  Record(j, k, t)' = Record(j, k, t)
    BY <1>2, SubmitEffect DEF SubmitJob, Record
  <1>3. ASSUME NEW w \in WorkerId, RequestTask(w),
               Record(j, k, t)' # Record(j, k, t)
        PROVE  /\ C!GetTask(w, j, k, t)
               /\ task'[w] = Assigned(j, k, t)
               /\ Record(j, k, t)' = [state |-> "InProgress", worker |-> w]
               /\ C!Available(workers', Record(j, k, t))
    <2>1. PICK i \in DOMAIN jobs, l \in C!Kind : \E n \in C!TaskIds(jobs[i], l) :
            C!GetTask(w, i, l, n) /\ task' = [task EXCEPT ![w] = Assigned(i, l, n)]
      BY <1>3 DEF RequestTask
    <2>2. PICK n \in C!TaskIds(jobs[i], l) :
            C!GetTask(w, i, l, n) /\ task' = [task EXCEPT ![w] = Assigned(i, l, n)]
      BY <2>1
    <2>3. /\ Writes(i, l, n, [state |-> "InProgress", worker |-> w])
          /\ C!Available(workers', Record(i, l, n))
      BY <2>2, GetTaskEffect
    <2>4. i = j /\ l = k /\ n = t
      BY <1>3, <2>3 DEF Writes
    <2>5. QED
      BY <2>2, <2>3, <2>4 DEF Tasks, Writes
  <1>4. ASSUME NEW w \in WorkerId, Report(w),
               Record(j, k, t)' # Record(j, k, t)
        PROVE  /\ task[w].job = j /\ task[w].kind = k /\ task[w].id = t
               /\ Record(j, k, t)' = [state |-> "Completed", worker |-> w]
               /\ Record(j, k, t).state # "Completed"
    <2>1. C!FinishTask(w, task[w].job, task[w].kind, task[w].id)
      BY <1>4 DEF Report, coordVars, Record
    <2>2. task[w].kind \in C!Kind
      BY <1>4 DEF Report, At, NoTask, Kinds
    <2>3. /\ Writes(task[w].job, task[w].kind, task[w].id,
                    [state |-> "Completed", worker |-> w])
          /\ Record(task[w].job, task[w].kind, task[w].id).state # "Completed"
      BY <2>1, <2>2, FinishTaskEffect
    <2>4. QED
      BY <1>4, <2>3 DEF Writes
  <1>5. ASSUME NEW w \in WorkerId,
               \/ Map(w) \/ Fetch(w) \/ Create(w) \/ Write(w) \/ Flush(w)
               \/ Fail(w) \/ ReportLost(w) \/ Crash(w) \/ Start(w) \/ Heartbeat(w)
        PROVE  UNCHANGED jobs
    BY <1>5 DEF Map, Fetch, Create, Write, Flush, Fail, ReportLost, Crash, Start,
       Heartbeat, C!Register, C!Heartbeat, coordVars
  <1>6. CASE \/ Tick \/ UNCHANGED vars \/ \E i \in DOMAIN jobs : ReadOutput(i)
    BY <1>1, <1>6 DEF Tick, C!Tick, ReadOutput, coordVars, vars
  <1>7. QED
    BY <1>1, <1>2, <1>3, <1>4, <1>5, <1>6 DEF Next, WorkerStep

\* The tasks of a job just submitted are idle.
LEMMA NewJobStep ==
  ASSUME Base, [Next]_vars, NEW j \in DOMAIN jobs' \ DOMAIN jobs
  PROVE  /\ \E shape \in Shapes : SubmitJob(shape)
         /\ j = nextJobId
         /\ ~jobs'[j].done
         /\ \A k \in C!Kind : \A t \in C!TaskIds(jobs'[j], k) : Record(j, k, t)' = C!IdleTask
  <1> USE DEF Base
  <1>1. ASSUME NEW w \in WorkerId, RequestTask(w) \/ Report(w)
        PROVE  DOMAIN jobs' = DOMAIN jobs
    BY <1>1 DEF RequestTask, Report, C!GetTask, C!FinishTask, coordVars
  <1>2. ASSUME NEW w \in WorkerId,
               \/ Map(w) \/ Fetch(w) \/ Create(w) \/ Write(w) \/ Flush(w)
               \/ Fail(w) \/ ReportLost(w) \/ Crash(w) \/ Start(w) \/ Heartbeat(w)
        PROVE  UNCHANGED jobs
    BY <1>2 DEF Map, Fetch, Create, Write, Flush, Fail, ReportLost, Crash, Start,
       Heartbeat, C!Register, C!Heartbeat, coordVars
  <1>3. CASE \/ Tick \/ UNCHANGED vars \/ \E i \in DOMAIN jobs : ReadOutput(i)
    BY <1>3 DEF Tick, C!Tick, ReadOutput, coordVars, vars
  <1>4. PICK shape \in Shapes : SubmitJob(shape)
    BY <1>1, <1>2, <1>3 DEF Next, WorkerStep
  <1>5. QED
    BY <1>4, SubmitEffect DEF SubmitJob, Record

\* The owner a record names is a worker that started.
LEMMA OwnersStep ==
  ASSUME Base, [Next]_vars
  PROVE  Owners'
  <1> USE DEF Base
  <1>1. ASSUME NEW j \in DOMAIN jobs, NEW k \in C!Kind, NEW t \in C!TaskIds(jobs[j], k)
        PROVE  (Record(j, k, t).state # "Idle" => Started(Record(j, k, t).worker))'
    <2>1. CASE Record(j, k, t)' = Record(j, k, t)
      BY <2>1, ProcessesStep DEF Owners, Started
    <2>2. ASSUME NEW w \in WorkerId, RequestTask(w) \/ Report(w),
                 Record(j, k, t)'.worker = w
          PROVE  Started(Record(j, k, t).worker)'
      BY <2>2, ProcessesStep DEF RequestTask, Report, At, Up, Started
    <2>3. QED
      BY <2>1, <2>2, RecordStep
  <1>2. QED
    BY <1>1, NewJobStep, JobsStay DEF Owners, C!IdleTask

\* A worker only ever holds outputs of map tasks that exist.
LEMMA HoldingsStep ==
  ASSUME Base, [Next]_vars
  PROVE  Holdings'
  <1> USE DEF Base
  <1> DEFINE Outputs == {p \in (DOMAIN jobs) \X Nat : p[2] \in Maps(p[1])}
  <1>1. Outputs \subseteq Outputs'
    <2> SUFFICES ASSUME NEW p \in Outputs PROVE p \in Outputs'
      OBVIOUS
    <2>1. /\ p[1] \in DOMAIN jobs' /\ p \in (DOMAIN jobs') \X Nat
          /\ C!TaskIds(jobs'[p[1]], "map") = C!TaskIds(jobs[p[1]], "map")
      BY JobsStay DEF C!Kind
    <2>2. QED
      BY <2>1 DEF Maps
  <1> HIDE DEF Outputs
  <1>2. held \in [WorkerId -> SUBSET Outputs]
    BY DEF Holdings, Outputs
  <1>3. CASE UNCHANGED held
    BY <1>1, <1>2, <1>3 DEF Holdings, Outputs
  <1>4. ASSUME NEW w \in WorkerId, Crash(w) PROVE Holdings'
    BY <1>1, <1>2, <1>4 DEF Crash, Holdings, Outputs
  <1>5. ASSUME NEW w \in WorkerId, Map(w) PROVE Holdings'
    <2>1. task[w].job \in DOMAIN jobs /\ task[w].id \in Maps(task[w].job)
      BY <1>5 DEF Map, At, NoTask, Tasks, Tasked, Executing, Maps, C!Kind
    <2>2. <<task[w].job, task[w].id>> \in Outputs
      BY <2>1 DEF Outputs, Maps, C!TaskIds
    <2>3. QED
      BY <1>1, <1>2, <1>5, <2>2 DEF Map, Stored, Holdings, Outputs
  <1>6. ASSUME NEW w \in WorkerId,
               \/ RequestTask(w) \/ Fetch(w) \/ Create(w) \/ Write(w) \/ Report(w)
               \/ Flush(w) \/ Fail(w) \/ ReportLost(w) \/ Start(w) \/ Heartbeat(w)
        PROVE  UNCHANGED held
    BY <1>6 DEF RequestTask, Fetch, Create, Write, Report, Flush, Fail, ReportLost, Start,
       Heartbeat, workerVars
  <1>7. CASE \/ Tick \/ UNCHANGED vars \/ (\E shape \in Shapes : SubmitJob(shape))
             \/ \E j \in DOMAIN jobs : ReadOutput(j)
    BY <1>3, <1>7 DEF Tick, SubmitJob, ReadOutput, workerVars, vars
  <1>8. QED
    BY <1>3, <1>4, <1>5, <1>6, <1>7 DEF Next, WorkerStep

\* A background write stays one of a running process, for a file of a job.
LEMMA PendingStep ==
  ASSUME Base, [Next]_vars
  PROVE  Pending'
  <1> USE DEF Base
  <1>1. ASSUME NEW u \in unwritten, u[1] \in Up'
        PROVE  u \in {x \in Up \X (DOMAIN jobs) \X Nat : x[3] \in Reduces(x[2])}'
    <2>1. u \in Up \X (DOMAIN jobs) \X Nat /\ u[3] \in Reduces(u[2])
      BY DEF Pending
    <2>2. u[2] \in DOMAIN jobs' /\ C!TaskIds(jobs'[u[2]], "reduce") = Reduces(u[2])
      BY <2>1, JobsStay DEF Reduces, C!Kind
    <2>3. QED
      BY <1>1, <2>1, <2>2 DEF Reduces
  <1>2. CASE unwritten' \subseteq unwritten /\ UNCHANGED status
    BY <1>1, <1>2 DEF Pending, Up
  <1>3. ASSUME NEW w \in WorkerId, Start(w) PROVE Pending'
    BY <1>1, <1>3, ProcessesStep DEF Start, Pending, Processes, Up
  <1>4. ASSUME NEW w \in WorkerId, Crash(w) PROVE Pending'
    BY <1>1, <1>4 DEF Crash, Pending, Processes, Up
  <1>5. ASSUME NEW w \in WorkerId, Write(w) PROVE Pending'
    <2>1. task[w].job \in DOMAIN jobs /\ task[w].id \in Reduces(task[w].job) /\ w \in Up
      BY <1>5 DEF Write, At, NoTask, Tasks, Tasked, Executing, Reduces, C!Kind
    <2>2. UNCHANGED <<jobs, status>>
          /\ unwritten' = unwritten \cup {<<w, task[w].job, task[w].id>>}
      BY <1>5 DEF Write, coordVars
    <2>3. <<w, task[w].job, task[w].id>> \in Up' \X (DOMAIN jobs') \X Nat
      BY <2>1, <2>2 DEF Up, Reduces, C!TaskIds
    <2>4. QED
      BY <1>1, <2>1, <2>2, <2>3 DEF Pending, Up, Reduces
  <1>6. ASSUME NEW w \in WorkerId,
               \/ RequestTask(w) \/ Map(w) \/ Fetch(w) \/ Create(w) \/ Report(w)
               \/ Flush(w) \/ Fail(w) \/ ReportLost(w) \/ Heartbeat(w)
        PROVE  unwritten' \subseteq unwritten /\ UNCHANGED status
    BY <1>6 DEF RequestTask, Map, Fetch, Create, Report, Flush, Fail, ReportLost,
       Heartbeat, workerVars
  <1>7. CASE \/ Tick \/ UNCHANGED vars \/ (\E shape \in Shapes : SubmitJob(shape))
             \/ \E j \in DOMAIN jobs : ReadOutput(j)
    BY <1>2, <1>7 DEF Tick, SubmitJob, ReadOutput, workerVars, vars
  <1>8. QED
    BY <1>2, <1>3, <1>4, <1>5, <1>6, <1>7 DEF Next, WorkerStep

\* There is an output for every reduce task and a completion handler for every job.
LEMMA FilesStep ==
  ASSUME Base, [Next]_vars
  PROVE  Files'
  <1> USE DEF Base
  <1>1. ASSUME NEW j \in DOMAIN jobs
        PROVE  /\ Reduces(j) = C!TaskIds(jobs'[j], "reduce")
               /\ j \in DOMAIN jobs'
    BY <1>1, JobsStay DEF Reduces, C!Kind
  <1>2. CASE /\ DOMAIN jobs' = DOMAIN jobs
             /\ DOMAIN output' = DOMAIN jobs /\ DOMAIN handler' = DOMAIN jobs
             /\ \A j \in DOMAIN jobs :
                  /\ output'[j] \in [Reduces(j) -> {"missing", "empty", "full"}]
                  /\ handler'[j] \in [next : 0 .. Cardinality(Reduces(j)),
                                      full : SUBSET Reduces(j)]
    BY <1>1, <1>2 DEF Files, Reduces
  <1>3. CASE DOMAIN jobs' = DOMAIN jobs /\ UNCHANGED <<output, handler>>
    BY <1>2, <1>3 DEF Files
  <1>4. ASSUME NEW j \in DOMAIN jobs, NEW r \in Reduces(j), NEW f \in {"empty", "full"},
               UNCHANGED <<jobs, handler>>, output' = [output EXCEPT ![j][r] = f]
        PROVE  Files'
    BY <1>2, <1>4 DEF Files
  <1>5. ASSUME NEW w \in WorkerId, Create(w) PROVE Files'
    <2>1. task[w].job \in DOMAIN jobs /\ task[w].id \in Reduces(task[w].job)
      BY <1>5 DEF Create, At, NoTask, Tasks, Tasked, Executing, Reduces, C!Kind
    <2>2. QED
      BY <1>4, <1>5, <2>1 DEF Create, coordVars
  <1>6. ASSUME NEW w \in WorkerId, Flush(w) PROVE Files'
    BY <1>4, <1>6 DEF Flush, Pending, coordVars
  <1>7. ASSUME NEW j \in DOMAIN jobs, ReadOutput(j) PROVE Files'
    <2> DEFINE new == [next |-> handler[j].next + 1,
                       full |-> handler[j].full \cup Found(j, handler[j].next)]
    <2>1. /\ UNCHANGED <<jobs, output>>
          /\ handler' = [handler EXCEPT ![j] = new]
          /\ handler[j].next \in Reduces(j)
      BY <1>7 DEF ReadOutput, coordVars
    <2>2. new.next \in 0 .. Cardinality(Reduces(j))
      BY <2>1, Sizes DEF Reduces, C!Kind
    <2>3. new.full \subseteq Reduces(j)
      BY <2>1 DEF Files, Found
    <2>4. new \in [next : 0 .. Cardinality(Reduces(j)), full : SUBSET Reduces(j)]
      BY <2>2, <2>3
    <2> HIDE DEF new
    <2>5. QED
      BY <1>2, <2>1, <2>4 DEF Files
  <1>8. ASSUME NEW shape \in Shapes, SubmitJob(shape) PROVE Files'
    <2>1. /\ C!SubmitJob(shape)
          /\ output' = [j \in DOMAIN jobs' |->
                          IF j = nextJobId
                            THEN [r \in 0 .. shape["reduce"] - 1 |-> "missing"]
                            ELSE output[j]]
          /\ handler' = [j \in DOMAIN jobs' |->
                           IF j = nextJobId THEN [next |-> 0, full |-> {}] ELSE handler[j]]
      BY <1>8 DEF SubmitJob
    <2>2. /\ nextJobId \notin DOMAIN jobs
          /\ DOMAIN jobs' = DOMAIN jobs \cup {nextJobId}
          /\ jobs'[nextJobId].size = shape
      BY <2>1, SubmitEffect
    <2>3. shape["reduce"] \in Nat
      BY MapReduceAssumption
    <2>4. /\ C!TaskIds(jobs'[nextJobId], "reduce") = 0 .. shape["reduce"] - 1
          /\ Cardinality(0 .. shape["reduce"] - 1) \in Nat
      <3>1. Cardinality(0 .. shape["reduce"] - 1) = shape["reduce"]
        BY <2>3, FS_Interval
      <3>2. QED
        BY <2>2, <2>3, <3>1 DEF C!TaskIds
    <2>5. ASSUME NEW j \in DOMAIN jobs'
          PROVE  /\ output'[j] \in [C!TaskIds(jobs'[j], "reduce") -> {"missing", "empty", "full"}]
                 /\ handler'[j] \in [next : 0 .. Cardinality(C!TaskIds(jobs'[j], "reduce")),
                                     full : SUBSET C!TaskIds(jobs'[j], "reduce")]
      <3>1. CASE j = nextJobId
        BY <2>1, <2>4, <3>1
      <3>2. CASE j # nextJobId
        BY <1>1, <2>1, <2>2, <3>2 DEF Files
      <3>3. QED
        BY <3>1, <3>2
    <2>6. QED
      BY <2>1, <2>5 DEF Files, Reduces
  <1>9. ASSUME NEW w \in WorkerId,
               \/ Map(w) \/ Fetch(w) \/ Write(w) \/ Fail(w) \/ ReportLost(w) \/ Crash(w)
               \/ Start(w) \/ Heartbeat(w) \/ RequestTask(w) \/ Report(w)
        PROVE  DOMAIN jobs' = DOMAIN jobs /\ UNCHANGED <<output, handler>>
    BY <1>9 DEF Map, Fetch, Write, Fail, ReportLost, Crash, Start, Heartbeat, RequestTask,
       Report, C!Register, C!Heartbeat, C!GetTask, C!FinishTask, coordVars, workerVars
  <1>10. CASE Tick \/ UNCHANGED vars
    BY <1>3, <1>10 DEF Tick, C!Tick, coordVars, workerVars, vars
  <1>11. QED
    BY <1>3, <1>5, <1>6, <1>7, <1>8, <1>9, <1>10 DEF Next, WorkerStep

\* The invariants that need no assumption about faults hold in every behaviour.
LEMMA BaseAlways == Spec => []Base
  <1> DEFINE Own == /\ Kinds /\ NeverFailed /\ Processes
                    /\ Tasks /\ Owners /\ Holdings /\ Pending /\ Files
  <1>1. Init => Own
    BY MapReduceAssumption DEF Init, C!Init, Own, Kinds, NeverFailed, Processes, Tasks, Owners,
       Holdings, Pending, Files, WorkerId, C!WorkerId
  <1>2. Own /\ Coordinated /\ [Next]_vars => Own'
    BY KindsStep, NeverFailedStep, ProcessesStep, TasksStep, OwnersStep, HoldingsStep,
       PendingStep, FilesStep DEF Base
  <1>3. Own /\ Coordinated <=> Base
    BY DEF Base
  <1>4. QED
    BY <1>1, <1>2, <1>3, CoordinatedAlways, PTL DEF Spec

\* What the coordinator, the workers and the completion handler record is always well
\* formed: a worker executes a task of a job that exists and has that task, a reducer
\* was told of a registered worker for every map, nothing is stored or written for a
\* task that does not exist, and only running workers write.
THEOREM TypeCorrect == Spec => []TypeOK
  <1>1. Base => TypeOK
    <2> SUFFICES ASSUME Base PROVE TypeOK
      OBVIOUS
    <2> USE DEF Base
    <2>1. DOMAIN jobs \subseteq C!JobId
      BY MapReduceAssumption DEF Coordinated, C!TypeOK, C!JobId
    <2>2. C!TypeOK /\ status \in [WorkerId -> {"new", "up", "down"}]
      BY DEF Coordinated, Processes
    <2>3. \A w \in WorkerId : task[w] # NoTask => Executing(w)
      BY DEF Tasks, Tasked
    <2>4. \A w \in WorkerId : held[w] \subseteq {p \in C!JobId \X Nat : p[2] \in Maps(p[1])}
      BY <2>1 DEF Holdings
    <2>5. unwritten \subseteq {u \in Up \X C!JobId \X Nat : u[3] \in Reduces(u[2])}
      BY <2>1 DEF Pending
    <2>6. \A j \in DOMAIN jobs :
            /\ output[j] \in [Reduces(j) -> {"missing", "empty", "full"}]
            /\ handler[j].next \in 0 .. Cardinality(Reduces(j))
            /\ handler[j].full \subseteq Reduces(j)
      BY DEF Files
    <2>7. QED
      BY <2>2, <2>3, <2>4, <2>5, <2>6 DEF TypeOK
  <1>2. QED
    BY <1>1, BaseAlways, PTL

-----------------------------------------------------------------------------
(* What the coordinator knows of the tasks, whatever the faults *)

\* How the task of a worker changes.
LEMMA TaskStep ==
  ASSUME Base, [Next]_vars, NEW w \in WorkerId
  PROVE  \/ task'[w] = task[w]
         \/ RequestTask(w)
         \/ (Report(w) \/ ReportLost(w) \/ Crash(w)) /\ task'[w] = NoTask
         \/ /\ Map(w) \/ Fetch(w) \/ Create(w) \/ Write(w) \/ Fail(w)
            /\ Tasked(w) /\ task[w] # NoTask /\ task'[w] # NoTask
            /\ task'[w].job = task[w].job /\ task'[w].kind = task[w].kind
            /\ task'[w].id = task[w].id /\ task'[w].from = task[w].from
  <1> USE DEF Base
  <1>1. CASE \/ UNCHANGED task \/ UNCHANGED vars \/ Tick
             \/ (\E shape \in Shapes : SubmitJob(shape))
             \/ (\E j \in DOMAIN jobs : ReadOutput(j))
    BY <1>1 DEF Tick, SubmitJob, ReadOutput, workerVars, vars
  <1>2. ASSUME NEW v \in WorkerId, Start(v) \/ Heartbeat(v) \/ Flush(v)
        PROVE  UNCHANGED task
    BY <1>2 DEF Start, Heartbeat, Flush, workerVars
  <1>3. ASSUME NEW v \in WorkerId, v # w,
               \/ RequestTask(v) \/ Report(v) \/ ReportLost(v) \/ Crash(v)
               \/ Map(v) \/ Fetch(v) \/ Create(v) \/ Write(v) \/ Fail(v)
        PROVE  task'[w] = task[w]
    BY <1>3 DEF Tasks, RequestTask, Report, ReportLost, Crash, Map, Fetch, Create, Write, Fail
  <1>4. ASSUME Report(w) \/ ReportLost(w) \/ Crash(w)
        PROVE  task'[w] = NoTask
    BY <1>4 DEF Tasks, Report, ReportLost, Crash
  <1>5. ASSUME Map(w) \/ Fetch(w) \/ Create(w) \/ Write(w) \/ Fail(w)
        PROVE  /\ Tasked(w) /\ task[w] # NoTask /\ task'[w] # NoTask
               /\ task'[w].job = task[w].job /\ task'[w].kind = task[w].kind
               /\ task'[w].id = task[w].id /\ task'[w].from = task[w].from
    <2>1. task[w] # NoTask /\ Tasked(w) /\ DOMAIN task[w] = Fields
      BY <1>5 DEF Map, Fetch, Create, Write, Fail, At, NoTask, Tasks, Tasked
    <2>2. \/ task'[w] = [task[w] EXCEPT !.step = "report"]
          \/ task'[w] = [task[w] EXCEPT !.step = "write"]
          \/ task'[w] = [task[w] EXCEPT !.next = @ + 1]
      BY <1>5 DEF Map, Fetch, Create, Write, Fail, AfterFetch, Tasks
    <2>3. DOMAIN task'[w] = Fields
      BY <2>1, <2>2
    <2>4. "job" \in Fields /\ "job" \notin DOMAIN NoTask
      BY DEF Fields, NoTask
    <2>5. /\ task'[w].job = task[w].job /\ task'[w].kind = task[w].kind
          /\ task'[w].id = task[w].id /\ task'[w].from = task[w].from
      BY <2>1, <2>2 DEF Fields
    <2>6. QED
      BY <2>1, <2>3, <2>4, <2>5
  <1>6. QED
    BY <1>1, <1>2, <1>3, <1>4, <1>5 DEF Next, WorkerStep

\* A lapse stays on record.
LEMMA LapsesStay ==
  ASSUME [Next]_vars
  PROVE  lapses \subseteq lapses'
  BY DEF Next, WorkerStep, vars, Tick, SubmitJob, ReadOutput, Start, Heartbeat, RequestTask,
     Map, Fetch, Create, Write, Report, Flush, Fail, ReportLost, Crash

\* A process that was started and runs after a step ran before it.
LEMMA StillUp ==
  ASSUME Base, [Next]_vars, NEW w \in Up', Started(w)
  PROVE  w \in Up /\ ~Crash(w)
  <1>1. ~Start(w)
    BY DEF Base, Processes, Started, Start, Coordinated, C!TypeOK
  <1>2. ~Crash(w)
    BY DEF Base, Processes, Crash, Up
  <1>3. w \in Up
    BY <1>1, ProcessesStep DEF Base, Up
  <1>4. QED
    BY <1>2, <1>3

\* After every step a task in progress has a process at work on it, a lost report or a
\* dead worker.
LEMMA NoForgottenStep ==
  ASSUME Base, NoForgottenTask, [Next]_vars
  PROVE  NoForgottenTask'
  <1> USE DEF Base
  <1> DEFINE Lost(w, j, k, t) == <<"lost", w, j, k, t>> \in lapses
  <1>1. ASSUME NEW j \in DOMAIN jobs, NEW k \in C!Kind, NEW t \in C!TaskIds(jobs[j], k),
               Record(j, k, t)'.state = "InProgress", Record(j, k, t)'.worker \in Up'
        PROVE  \/ /\ Busy(Record(j, k, t).worker)'
                  /\ TaskOf(Record(j, k, t).worker)' = <<j, k, t>>
               \/ Lost(Record(j, k, t).worker, j, k, t)'
    <2>1. ASSUME NEW w \in WorkerId, RequestTask(w), task'[w] = Assigned(j, k, t),
                 Record(j, k, t)' = [state |-> "InProgress", worker |-> w]
          PROVE  Busy(w)' /\ TaskOf(w)' = <<j, k, t>>
      BY <1>1, <2>1 DEF Busy, TaskOf, Assigned, NoTask
    <2>2. CASE Record(j, k, t)' = Record(j, k, t)
      <3> DEFINE w == Record(j, k, t).worker
      <3>1. w \in WorkerId /\ w \in Up /\ ~Crash(w) /\ w \in Up'
        BY <1>1, <2>2, StillUp DEF Owners, Started
      <3> HIDE DEF w
      <3>2. CASE Lost(w, j, k, t)
        BY <2>2, <3>2, LapsesStay DEF w
      <3>3. CASE Busy(w) /\ TaskOf(w) = <<j, k, t>>
        <4>1. CASE task'[w] = task[w]
          BY <2>2, <3>1, <3>3, <4>1 DEF Busy, TaskOf, w
        <4>2. CASE RequestTask(w)
          BY <3>3, <4>2 DEF RequestTask, Busy
        <4>3. CASE Report(w)
          <5>1. task[w].job = j /\ task[w].kind = k /\ task[w].id = t
            BY <3>3 DEF TaskOf
          <5>2. Record(j, k, t).state = "InProgress"
            BY <1>1, <2>2
          <5>3. C!Accepts(jobs[j], k, t)
            BY <5>2, RecordType DEF C!Accepts, C!Open, NeverFailed, Record
          <5>4. C!FinishTask(w, j, k, t)
            BY <4>3, <5>1, <5>3 DEF Report
          <5>5. Record(j, k, t)' = [state |-> "Completed", worker |-> w]
            BY <3>1, <5>4, FinishTaskEffect DEF Writes
          <5>6. QED
            BY <1>1, <5>5
        <4>4. CASE ReportLost(w)
          <5>1. <<"lost", w, j, k, t>> \in lapses'
            BY <3>3, <4>4 DEF ReportLost, Lapse, TaskOf
          <5>2. QED
            BY <2>2, <5>1 DEF w
        <4>5. CASE /\ task'[w] # NoTask
                   /\ task'[w].job = task[w].job /\ task'[w].kind = task[w].kind
                   /\ task'[w].id = task[w].id
          BY <2>2, <3>1, <3>3, <4>5 DEF Busy, TaskOf, w
        <4>6. QED
          BY <3>1, <4>1, <4>2, <4>3, <4>4, <4>5, TaskStep
      <3>4. QED
        BY <1>1, <2>2, <3>1, <3>2, <3>3 DEF NoForgottenTask, Record, w
    <2>3. QED
      BY <1>1, <2>1, <2>2, RecordStep
  <1>2. ASSUME NEW j \in DOMAIN jobs', NEW k \in C!Kind, NEW t \in C!TaskIds(jobs'[j], k),
               Record(j, k, t)'.state = "InProgress"
        PROVE  j \in DOMAIN jobs /\ t \in C!TaskIds(jobs[j], k)
    BY <1>2, NewJobStep, JobsStay DEF C!IdleTask
  <1>3. QED
    BY <1>1, <1>2 DEF NoForgottenTask, Record

\* A task the coordinator believes to be in the hands of a running worker is in its
\* hands, however assignments, reports and faults interleave, unless its report was
\* lost: get_task does not leave a task to a worker that is not working on it.
THEOREM NothingForgotten == Spec => []NoForgottenTask
  <1>1. Init => NoForgottenTask
    BY DEF Init, C!Init, NoForgottenTask
  <1>2. Base /\ NoForgottenTask /\ [Next]_vars => NoForgottenTask'
    BY NoForgottenStep
  <1>3. QED
    BY <1>1, <1>2, BaseAlways, PTL DEF Spec

\* Worker w can answer for map output m of job j, or failed to produce it.
Serves(w, j, m) ==
  \/ <<j, m>> \in held[w]
  \/ <<"io", w, j, "map", m>> \in lapses

\* What makes AssignedMapsServed inductive: a worker that is about to report a map
\* task serves it, and so does the worker recorded for a Completed one.
ReportsServed ==
  \A w \in WorkerId :
    Busy(w) /\ task[w].kind = "map" /\ task[w].step = "report" =>
      Serves(w, task[w].job, task[w].id)

RecordsServed ==
  \A j \in DOMAIN jobs : \A m \in Maps(j) :
    Record(j, "map", m).state = "Completed" /\ Record(j, "map", m).worker \in Up =>
      Serves(Record(j, "map", m).worker, j, m)

\* A worker that serves a map's output goes on serving it while it is up.
LEMMA ServesStep ==
  ASSUME Base, [Next]_vars, NEW w \in Up', Started(w), NEW j, NEW m, Serves(w, j, m)
  PROVE  Serves(w, j, m)'
  <1> USE DEF Base
  <1>1. w \in WorkerId /\ ~Crash(w)
    BY StillUp DEF Up
  <1>2. held[w] \subseteq held'[w]
    <2>1. ASSUME NEW v \in WorkerId, Map(v) \/ Crash(v) PROVE held[w] \subseteq held'[w]
      BY <1>1, <2>1 DEF Map, Crash, Stored, Holdings
    <2>2. ASSUME NEW v \in WorkerId,
                 \/ RequestTask(v) \/ Fetch(v) \/ Create(v) \/ Write(v) \/ Report(v)
                 \/ Flush(v) \/ Fail(v) \/ ReportLost(v) \/ Start(v) \/ Heartbeat(v)
          PROVE  UNCHANGED held
      BY <2>2 DEF RequestTask, Fetch, Create, Write, Report, Flush, Fail, ReportLost, Start,
         Heartbeat, workerVars
    <2>3. CASE \/ Tick \/ UNCHANGED vars \/ (\E shape \in Shapes : SubmitJob(shape))
               \/ \E i \in DOMAIN jobs : ReadOutput(i)
      BY <2>3 DEF Tick, SubmitJob, ReadOutput, workerVars, vars
    <2>4. QED
      BY <2>1, <2>2, <2>3 DEF Next, WorkerStep
  <1>3. QED
    BY <1>2, LapsesStay DEF Serves

\* The worker that is about to report a map serves its output, or failed to produce it.
LEMMA ReportsServedStep ==
  ASSUME Base, ReportsServed, [Next]_vars
  PROVE  ReportsServed'
  <1> SUFFICES ASSUME NEW w \in WorkerId, w \in Up', task'[w] # NoTask,
                      task'[w].kind = "map", task'[w].step = "report"
               PROVE  Serves(w, task[w].job, task[w].id)'
    BY DEF ReportsServed, Busy
  <1> USE DEF Base
  <1>1. CASE task'[w] = task[w]
    <2>1. Started(w) /\ w \in Up
      BY <1>1 DEF Tasks, Tasked, Started, Up
    <2>2. Serves(w, task[w].job, task[w].id)
      BY <1>1, <2>1 DEF ReportsServed, Busy
    <2>3. QED
      BY <1>1, <2>1, <2>2, ServesStep
  <1>2. CASE RequestTask(w)
    BY <1>2 DEF RequestTask, Assigned, Tasks
  <1>3. CASE Map(w)
    BY <1>3 DEF Map, Stored, Serves, Holdings, Tasks, Tasked, At, NoTask, Fields
  <1>4. CASE Fail(w)
    BY <1>4 DEF Fail, Lapse, Serves, Tasks
  <1>5. ASSUME Fetch(w) \/ Create(w) \/ Write(w), Tasked(w), task[w].kind = "map"
        PROVE  FALSE
    BY <1>5 DEF Fetch, Create, Write, At, Executing, Tasked
  <1>6. QED
    BY <1>1, <1>2, <1>3, <1>4, <1>5, TaskStep

\* The worker recorded for a completed map serves its output while it is up.
LEMMA RecordsServedStep ==
  ASSUME Base, ReportsServed, RecordsServed, [Next]_vars
  PROVE  RecordsServed'
  <1> USE DEF Base
  <1>1. ASSUME NEW j \in DOMAIN jobs, NEW m \in Maps(j),
               Record(j, "map", m)'.state = "Completed",
               Record(j, "map", m)'.worker \in Up'
        PROVE  Serves(Record(j, "map", m).worker, j, m)'
    <2>1. "map" \in C!Kind /\ m \in C!TaskIds(jobs[j], "map")
      BY DEF Maps, C!Kind
    <2>2. CASE Record(j, "map", m)' = Record(j, "map", m)
      <3>1. PICK w : w = Record(j, "map", m).worker
        OBVIOUS
      <3>2. Started(w) /\ w \in Up'
        BY <1>1, <2>1, <2>2, <3>1 DEF Owners
      <3>3. Serves(w, j, m)
        BY <1>1, <2>2, <3>1, <3>2, StillUp DEF RecordsServed
      <3>4. Serves(w, j, m)'
        BY <3>2, <3>3, ServesStep
      <3>5. QED
        BY <2>2, <3>1, <3>4
    <2>3. ASSUME NEW w \in WorkerId, Report(w),
                 task[w].job = j, task[w].kind = "map", task[w].id = m,
                 Record(j, "map", m)' = [state |-> "Completed", worker |-> w]
          PROVE  Serves(w, j, m)'
      <3>1. Busy(w) /\ task[w].step = "report" /\ Started(w)
        BY <2>3 DEF Report, At, NoTask, Busy, Started, Up
      <3>2. Serves(w, j, m)
        BY <2>3, <3>1 DEF ReportsServed
      <3>3. QED
        BY <1>1, <2>3, <3>1, <3>2, ServesStep
    <2>4. QED
      BY <1>1, <2>1, <2>2, <2>3, RecordStep
  <1>2. ASSUME NEW j \in DOMAIN jobs', NEW m \in C!TaskIds(jobs'[j], "map"),
               Record(j, "map", m)'.state = "Completed"
        PROVE  j \in DOMAIN jobs /\ m \in Maps(j)
    BY <1>2, NewJobStep, JobsStay DEF C!IdleTask, C!Kind, Maps
  <1>3. QED
    BY <1>1, <1>2 DEF RecordsServed, Maps

\* The workers a reduce was told to read from serve the outputs while they are up.
LEMMA AssignedServedStep ==
  ASSUME Base, RecordsServed, AssignedMapsServed, [Next]_vars
  PROVE  AssignedMapsServed'
  <1> SUFFICES ASSUME NEW w \in WorkerId, w \in Up', task'[w] # NoTask,
                      NEW m \in DOMAIN task'[w].from, task'[w].from[m] \in Up'
               PROVE  Serves(task[w].from[m], task[w].job, m)'
    BY DEF AssignedMapsServed, Busy, Serves
  <1> USE DEF Base
  <1>1. CASE /\ task[w] # NoTask
             /\ task'[w].job = task[w].job /\ task'[w].from = task[w].from
    <2>1. PICK j, source : j = task[w].job /\ source = task[w].from[m]
      OBVIOUS
    <2>2. Tasked(w) /\ w \in Up
      BY <1>1 DEF Tasks, Tasked
    <2>3. Started(source) /\ source \in Up'
      BY <1>1, <2>1, <2>2 DEF Tasked
    <2>4. Serves(source, j, m)
      BY <1>1, <2>1, <2>2, <2>3, StillUp DEF AssignedMapsServed, Busy, Serves
    <2>5. Serves(source, j, m)'
      BY <2>3, <2>4, ServesStep
    <2>6. QED
      BY <1>1, <2>1, <2>5
  <1>2. CASE RequestTask(w)
    <2>1. PICK j \in DOMAIN jobs, k \in C!Kind : \E t \in C!TaskIds(jobs[j], k) :
            C!GetTask(w, j, k, t) /\ task' = [task EXCEPT ![w] = Assigned(j, k, t)]
      BY <1>2 DEF RequestTask
    <2>2. PICK t \in C!TaskIds(jobs[j], k) :
            C!GetTask(w, j, k, t) /\ task' = [task EXCEPT ![w] = Assigned(j, k, t)]
      BY <2>1
    <2>3. k = C!Phase(workers', jobs[j]) /\ task'[w] = Assigned(j, k, t)
      BY <2>2, GetTaskEffect DEF Tasks
    <2>4. k = "reduce" /\ m \in Maps(j) /\ Assigned(j, k, t).job = j
          /\ Assigned(j, k, t).from[m] = Record(j, "map", m).worker
      BY <2>1, <2>3 DEF Assigned, Record, C!Kind
    <2>5. PICK source : source = Record(j, "map", m).worker
      OBVIOUS
    <2>6. Record(j, "map", m).state = "Completed"
      BY <2>3, <2>4 DEF C!Phase, C!AllMapsDone, C!CompletedAlive, Maps, Record
    <2>7. Started(source) /\ source \in Up'
      BY <2>3, <2>4, <2>5, <2>6 DEF Owners, Maps, C!Kind
    <2>8. Serves(source, j, m)
      BY <2>4, <2>5, <2>6, <2>7, StillUp DEF RecordsServed
    <2>9. Serves(source, j, m)'
      BY <2>7, <2>8, ServesStep
    <2>10. task'[w].job = j /\ task'[w].from[m] = source
      BY <2>3, <2>4, <2>5
    <2>11. QED
      BY <2>9, <2>10
  <1>3. QED
    BY <1>1, <1>2, TaskStep

\* A reducer is never sent to a running worker that cannot answer for the map output,
\* except after an I/O error: whatever reports are late, lost, or come from a worker
\* that lost the task, the record that names a map worker was written by its report.
THEOREM MapsServed == Spec => []AssignedMapsServed
  <1> DEFINE Serving == ReportsServed /\ RecordsServed /\ AssignedMapsServed
  <1>1. Init => Serving
    BY DEF Init, C!Init, ReportsServed, RecordsServed, AssignedMapsServed, Busy, Up
  <1>2. Base /\ Serving /\ [Next]_vars => Serving'
    BY ReportsServedStep, RecordsServedStep, AssignedServedStep
  <1>3. QED
    BY <1>1, <1>2, BaseAlways, PTL DEF Spec

-----------------------------------------------------------------------------
(* While heartbeats are timely *)

Timely == "late" \notin Faults

\* The coordinator judges every running worker alive.
RunningAlive == \A w \in Up : C!Alive(workers, w)

\* The coordinator gave the task a worker executes to that worker, and to nobody since.
BusyOwns ==
  \A w \in WorkerId : Busy(w) =>
    /\ Record(task[w].job, task[w].kind, task[w].id).state = "InProgress"
    /\ Record(task[w].job, task[w].kind, task[w].id).worker = w

\* While nobody is late, the coordinator takes no working process for dead.
LEMMA RunningAliveStep ==
  ASSUME Timely, Base, RunningAlive, [Next]_vars
  PROVE  RunningAlive'
  <1> USE MapReduceAssumption DEF Base
  <1>1. ASSUME NEW v \in Up', NEW w \in WorkerId,
               \/ workers' = C!Refreshed(workers, w)
               \/ workers' = C!Seen(workers, w) /\ w \in Up,
               v \in Up \/ v = w
        PROVE  C!Alive(workers', v)
    <2>1. \A x \in Up : x \in DOMAIN workers /\ workers[x] < TaskTimeout
      BY DEF RunningAlive, C!Alive
    <2>2. CASE workers' = C!Refreshed(workers, w)
      BY <1>1, <2>1, <2>2 DEF C!Alive, C!Refreshed
    <2>3. CASE workers' = workers /\ w \in Up
      BY <1>1, <2>1, <2>3 DEF C!Alive
    <2>4. QED
      BY <1>1, <2>2, <2>3 DEF C!Seen
  <1>2. CASE UNCHANGED workers /\ Up' \subseteq Up
    BY <1>2 DEF RunningAlive, C!Alive
  <1>3. CASE Tick
    <2>1. \A w \in Up : w \in DOMAIN workers /\ workers[w] + 1 < TaskTimeout
      BY <1>3 DEF Tick, Timely, RunningAlive, C!Alive
    <2>2. Up' = Up
      BY <1>3 DEF Tick, workerVars, Up
    <2>3. QED
      BY <1>3, <2>1, <2>2 DEF Tick, C!Tick, RunningAlive, C!Alive
  <1>4. ASSUME NEW w \in WorkerId, Start(w) \/ Heartbeat(w) PROVE RunningAlive'
    <2>1. workers' = C!Refreshed(workers, w)
      BY <1>4 DEF Start, Heartbeat, C!Register, C!Heartbeat
    <2>2. Up' \subseteq Up \cup {w}
      BY <1>4 DEF Start, Heartbeat, workerVars, Up, Processes
    <2>3. QED
      BY <1>1, <2>1, <2>2 DEF RunningAlive
  <1>5. ASSUME NEW w \in WorkerId, RequestTask(w) PROVE RunningAlive'
    BY <1>1, <1>5 DEF RequestTask, C!GetTask, RunningAlive, Up
  <1>6. ASSUME NEW w \in WorkerId,
               \/ Map(w) \/ Fetch(w) \/ Create(w) \/ Write(w) \/ Report(w)
               \/ Flush(w) \/ Fail(w) \/ ReportLost(w)
        PROVE  UNCHANGED workers /\ Up' \subseteq Up
    BY <1>6 DEF Map, Fetch, Create, Write, Report, Flush, Fail, ReportLost, C!FinishTask,
       coordVars, Up
  <1>7. ASSUME NEW w \in WorkerId, Crash(w)
        PROVE  UNCHANGED workers /\ Up' \subseteq Up
    BY <1>7 DEF Crash, coordVars, Up, Processes
  <1>8. CASE \/ UNCHANGED vars \/ (\E shape \in Shapes : SubmitJob(shape))
             \/ \E j \in DOMAIN jobs : ReadOutput(j)
    BY <1>2, <1>8 DEF SubmitJob, C!SubmitJob, ReadOutput, workerVars, coordVars, vars, Up
  <1>9. QED
    BY <1>2, <1>3, <1>4, <1>5, <1>6, <1>7, <1>8 DEF Next, WorkerStep

\* While nobody is late, the worker busy with a task is the one its record names.
LEMMA BusyOwnsStep ==
  ASSUME Base, RunningAlive, RunningAlive', BusyOwns, [Next]_vars
  PROVE  BusyOwns'
  <1> USE DEF Base
  <1> SUFFICES ASSUME NEW w \in WorkerId, w \in Up', task'[w] # NoTask
               PROVE  /\ Record(task[w].job, task[w].kind, task[w].id)'.state = "InProgress"
                      /\ Record(task[w].job, task[w].kind, task[w].id)'.worker = w
    BY DEF BusyOwns, Busy
  <1>0. PICK j, k, t : j = task'[w].job /\ k = task'[w].kind /\ t = task'[w].id
    OBVIOUS
  <1>1. CASE RequestTask(w)
    <2>1. PICK i \in DOMAIN jobs, l \in C!Kind : \E n \in C!TaskIds(jobs[i], l) :
            C!GetTask(w, i, l, n) /\ task' = [task EXCEPT ![w] = Assigned(i, l, n)]
      BY <1>1 DEF RequestTask
    <2>2. PICK n \in C!TaskIds(jobs[i], l) :
            C!GetTask(w, i, l, n) /\ task' = [task EXCEPT ![w] = Assigned(i, l, n)]
      BY <2>1
    <2>3. i = j /\ l = k /\ n = t
      BY <1>0, <2>2 DEF Assigned, Tasks
    <2>4. Record(j, k, t)' = [state |-> "InProgress", worker |-> w]
      BY <2>1, <2>2, <2>3, GetTaskEffect DEF Writes
    <2>5. QED
      BY <1>0, <2>4
  <1>2. CASE /\ task[w] # NoTask
             /\ task'[w].job = task[w].job /\ task'[w].kind = task[w].kind
             /\ task'[w].id = task[w].id
    <2>1. /\ w \in Up /\ j \in DOMAIN jobs /\ k \in C!Kind /\ t \in C!TaskIds(jobs[j], k)
      BY <1>0, <1>2 DEF Tasks, Tasked, Executing
    <2>2. Record(j, k, t).state = "InProgress" /\ Record(j, k, t).worker = w
      BY <1>0, <1>2, <2>1 DEF BusyOwns, Busy
    <2>3. ~C!Available(workers', Record(j, k, t))
      BY <2>2 DEF C!Available, RunningAlive
    <2>4. ASSUME NEW v \in WorkerId, Report(v), task'[v] = NoTask,
                 task[v].job = j, task[v].kind = k, task[v].id = t
          PROVE  FALSE
      <3>1. Record(j, k, t).worker = v
        BY <2>4 DEF Report, At, NoTask, BusyOwns, Busy
      <3>2. QED
        BY <2>2, <2>4, <3>1
    <2>5. ASSUME NEW v \in WorkerId, Report(v) PROVE task'[v] = NoTask
      BY <2>5 DEF Report, Tasks
    <2>6. Record(j, k, t)' = Record(j, k, t)
      BY <2>1, <2>3, <2>4, <2>5, RecordStep
    <2>7. QED
      BY <1>0, <2>2, <2>6
  <1>3. QED
    BY <1>1, <1>2, TaskStep

\* BusyOwns holds in every behaviour in which nobody is late.
LEMMA BusyOwnsAlways == ASSUME Timely PROVE Spec => []BusyOwns
  <1>1. Init => RunningAlive /\ BusyOwns
    BY DEF Init, RunningAlive, BusyOwns, Busy, Up
  <1>2. Base /\ RunningAlive /\ BusyOwns /\ [Next]_vars => RunningAlive' /\ BusyOwns'
    BY RunningAliveStep, BusyOwnsStep
  <1>3. QED
    BY <1>1, <1>2, BaseAlways, PTL DEF Spec

\* While heartbeats are timely, no two workers execute the same task at the same time,
\* whatever crashes and whatever reports are lost: mr-out-<t> has one writer.
THEOREM Exclusive == Spec => []TaskExclusive
  <1>1. CASE Timely
    <2>1. Base /\ BusyOwns => TaskExclusive
      BY DEF BusyOwns, TaskExclusive, TaskOf
    <2>2. QED
      BY <1>1, <2>1, BaseAlways, BusyOwnsAlways, PTL
  <1>2. CASE ~Timely
    <2>1. TaskExclusive
      BY <1>2 DEF Timely, TaskExclusive
    <2>2. QED
      BY <2>1, PTL
  <1>3. QED
    BY <1>1, <1>2

\* While nobody is late, no step spoils the output of a job that is done.
LEMMA OutputsStep ==
  ASSUME Base, BusyOwns, [Next]_vars
  PROVE  \A j \in DOMAIN jobs : jobs[j].done =>
           \A r \in Reduces(j) : output[j][r] = "full" => output'[j][r] = "full"
  <1> USE DEF Base
  <1> SUFFICES ASSUME NEW j \in DOMAIN jobs, jobs[j].done, NEW r \in Reduces(j),
                      output[j][r] = "full"
               PROVE  output'[j][r] = "full"
    OBVIOUS
  <1>1. ASSUME NEW w \in WorkerId, Create(w)
        PROVE  ~(task[w].job = j /\ task[w].id = r)
    <2>1. /\ task[w] # NoTask /\ task[w].kind = "reduce" /\ Busy(w)
      BY <1>1 DEF Create, At, NoTask, Tasks, Tasked, Executing, C!Kind, Busy
    <2>2. ASSUME task[w].job = j, task[w].id = r PROVE FALSE
      <3>1. Record(j, "reduce", r).state = "InProgress"
        BY <2>1, <2>2 DEF BusyOwns
      <3>2. Record(j, "reduce", r).state = "Completed"
        BY RecordType DEF Reduces, C!Kind
      <3>3. QED
        BY <3>1, <3>2
    <2>3. QED
      BY <2>2
  <1>2. ASSUME NEW w \in WorkerId, Create(w) PROVE output'[j][r] = output[j][r]
    BY <1>1, <1>2 DEF Create, Files
  <1>3. ASSUME NEW w \in WorkerId, Flush(w) PROVE output'[j][r] = "full"
    BY <1>3 DEF Flush, Files
  <1>4. ASSUME NEW shape \in Shapes, SubmitJob(shape) PROVE output'[j] = output[j]
    BY <1>4, SubmitEffect DEF SubmitJob
  <1>5. ASSUME NEW w \in WorkerId,
               \/ RequestTask(w) \/ Map(w) \/ Fetch(w) \/ Write(w) \/ Report(w)
               \/ Fail(w) \/ ReportLost(w) \/ Crash(w) \/ Start(w) \/ Heartbeat(w)
        PROVE  UNCHANGED output
    BY <1>5 DEF RequestTask, Map, Fetch, Write, Report, Fail, ReportLost, Crash, Start,
       Heartbeat
  <1>6. CASE Tick \/ UNCHANGED vars \/ \E i \in DOMAIN jobs : ReadOutput(i)
    BY <1>6 DEF Tick, ReadOutput, vars
  <1>7. QED
    BY <1>2, <1>3, <1>4, <1>5, <1>6 DEF Next, WorkerStep

\* While heartbeats are timely, a complete output of a done job stays complete: no
\* reduce task is executed once the handler may read its output.
THEOREM OutputsKept == ASSUME Timely PROVE Spec => DoneOutputsKept
  <1> DEFINE Kept == \A j \in DOMAIN jobs : jobs[j].done =>
       \A r \in Reduces(j) : output[j][r] = "full" => output'[j][r] = "full"
  <1>1. Base /\ BusyOwns /\ [Next]_vars => Kept
    BY OutputsStep
  <1>2. QED
    BY <1>1, BaseAlways, BusyOwnsAlways, PTL DEF Spec, DoneOutputsKept

-----------------------------------------------------------------------------
(* When, besides, writes are timely, no I/O fails and no process has died *)

Clean == Faults \subseteq {"lost", "crash"}

NoIOError == \A l \in lapses : l[1] # "io"

\* The output of reduce task r is written, or the write is under way.
Written(j, r) ==
  \/ output[j][r] = "full"
  \/ \E u \in unwritten : u[2] = j /\ u[3] = r

ReportsWritten ==
  \A w \in WorkerId :
    Busy(w) /\ task[w].kind = "reduce" /\ task[w].step = "report" =>
      Written(task[w].job, task[w].id)

RecordsWritten ==
  \A j \in DOMAIN jobs : \A r \in Reduces(j) :
    Record(j, "reduce", r).state = "Completed" => Written(j, r)

FilesRead == \A j \in DOMAIN jobs : handler[j].full = 0 .. handler[j].next - 1

\* HandlerSeesFullOutputs, made inductive.
Delivered == Down = {} => ReportsWritten /\ RecordsWritten /\ FilesRead

\* While files can be read and written, no task meets an I/O error.
LEMMA NoIOErrorStep ==
  ASSUME Clean, NoIOError, [Next]_vars
  PROVE  NoIOError'
  <1>1. ASSUME NEW w \in WorkerId, Fail(w) PROVE FALSE
    BY <1>1 DEF Fail, MayFail, Clean
  <1>2. ASSUME NEW w \in WorkerId, ReportLost(w) PROVE NoIOError'
    BY <1>2 DEF ReportLost, Lapse, NoIOError
  <1>3. CASE UNCHANGED lapses
    BY <1>3 DEF NoIOError
  <1>4. ASSUME NEW w \in WorkerId,
               \/ RequestTask(w) \/ Map(w) \/ Fetch(w) \/ Create(w) \/ Write(w) \/ Report(w)
               \/ Flush(w) \/ Crash(w) \/ Start(w) \/ Heartbeat(w)
        PROVE  UNCHANGED lapses
    BY <1>4 DEF RequestTask, Map, Fetch, Create, Write, Report, Flush, Crash, Start, Heartbeat
  <1>5. CASE \/ Tick \/ UNCHANGED vars \/ (\E shape \in Shapes : SubmitJob(shape))
             \/ \E j \in DOMAIN jobs : ReadOutput(j)
    BY <1>3, <1>5 DEF Tick, SubmitJob, ReadOutput, vars
  <1>6. QED
    BY <1>1, <1>2, <1>3, <1>4, <1>5 DEF Next, WorkerStep

\* Whoever truncates an output is the worker the coordinator gave the task to.
LEMMA CreateByOwner ==
  ASSUME Base, BusyOwns, NEW w \in WorkerId, Create(w)
  PROVE  /\ Busy(w) /\ task[w].kind = "reduce" /\ task[w].step = "fetch"
         /\ Record(task[w].job, "reduce", task[w].id).state = "InProgress"
         /\ Record(task[w].job, "reduce", task[w].id).worker = w
  <1>1. /\ task[w] # NoTask /\ task[w].kind = "reduce" /\ task[w].step = "fetch"
        /\ Busy(w)
    BY DEF Base, Create, At, NoTask, Tasks, Tasked, Executing, C!Kind, Busy
  <1>2. QED
    BY <1>1 DEF BusyOwns

\* What was written stays written, unless the file is created again or the writer dies.
LEMMA WrittenStep ==
  ASSUME Base, [Next]_vars, Down' = {},
         NEW j \in DOMAIN jobs, NEW r \in Reduces(j), Written(j, r),
         \A w \in WorkerId : Create(w) => ~(task[w].job = j /\ task[w].id = r)
  PROVE  Written(j, r)'
  <1> USE DEF Base
  <1>1. ASSUME NEW w \in WorkerId, Create(w) PROVE Written(j, r)'
    BY <1>1 DEF Create, Files, Written
  <1>2. ASSUME NEW w \in WorkerId, Flush(w) PROVE Written(j, r)'
    <2>1. PICK u \in unwritten : /\ unwritten' = unwritten \ {u}
                                 /\ output' = [output EXCEPT ![u[2]][u[3]] = "full"]
      BY <1>2 DEF Flush
    <2>2. CASE u[2] = j /\ u[3] = r
      BY <2>1, <2>2 DEF Files, Written
    <2>3. CASE ~(u[2] = j /\ u[3] = r)
      BY <2>1, <2>3 DEF Files, Written
    <2>4. QED
      BY <2>2, <2>3
  <1>3. ASSUME NEW shape \in Shapes, SubmitJob(shape) PROVE Written(j, r)'
    <2>1. output'[j] = output[j] /\ unwritten' = unwritten
      BY <1>3, SubmitEffect DEF SubmitJob, workerVars
    <2>2. QED
      BY <2>1 DEF Written
  <1>4. ASSUME NEW w \in WorkerId, Crash(w) PROVE FALSE
    BY <1>4 DEF Crash, Down, Processes
  <1>5. ASSUME UNCHANGED output, unwritten \subseteq unwritten' PROVE Written(j, r)'
    BY <1>5 DEF Written
  <1>6. ASSUME NEW w \in WorkerId,
               \/ RequestTask(w) \/ Map(w) \/ Fetch(w) \/ Write(w) \/ Report(w)
               \/ Fail(w) \/ ReportLost(w) \/ Start(w) \/ Heartbeat(w)
        PROVE  UNCHANGED output /\ unwritten \subseteq unwritten'
    BY <1>6 DEF RequestTask, Map, Fetch, Write, Report, Fail, ReportLost, Start, Heartbeat,
       workerVars
  <1>7. CASE \/ Tick \/ UNCHANGED vars \/ \E i \in DOMAIN jobs : ReadOutput(i)
    BY <1>5, <1>7 DEF Tick, ReadOutput, workerVars, vars
  <1>8. QED
    BY <1>1, <1>2, <1>3, <1>4, <1>5, <1>6, <1>7 DEF Next, WorkerStep

\* The worker that is about to report a reduce has written its output, or is writing it.
LEMMA ReportsWrittenStep ==
  ASSUME Clean, Base, BusyOwns, AssignedMapsServed, NoIOError, Down = {}, Down' = {},
         ReportsWritten, [Next]_vars
  PROVE  ReportsWritten'
  <1> USE DEF Base
  <1> SUFFICES ASSUME NEW w \in WorkerId, w \in Up', task'[w] # NoTask,
                      task'[w].kind = "reduce", task'[w].step = "report"
               PROVE  Written(task[w].job, task[w].id)'
    BY DEF ReportsWritten, Busy
  <1>0. PICK j, r : j = task'[w].job /\ r = task'[w].id
    OBVIOUS
  <1>1. CASE task'[w] = task[w]
    <2>1. /\ w \in Up /\ Busy(w) /\ j \in DOMAIN jobs /\ r \in Reduces(j)
      BY <1>0, <1>1 DEF Tasks, Tasked, Executing, Busy, Reduces
    <2>2. Written(j, r)
      BY <1>0, <1>1, <2>1 DEF ReportsWritten
    <2>3. ASSUME NEW v \in WorkerId, Create(v), task[v].job = j, task[v].id = r
          PROVE  FALSE
      <3>1. /\ Record(j, "reduce", r).worker = v /\ task[v].step = "fetch"
        BY <2>3, CreateByOwner
      <3>2. Record(j, "reduce", r).worker = w
        BY <1>0, <1>1, <2>1 DEF BusyOwns
      <3>3. QED
        BY <1>1, <3>1, <3>2
    <2>4. Written(j, r)'
      BY <2>1, <2>2, <2>3, WrittenStep
    <2>5. QED
      BY <1>0, <2>4
  <1>2. CASE RequestTask(w)
    BY <1>2 DEF RequestTask, Assigned, Tasks
  <1>3. CASE /\ Map(w) \/ Fetch(w) \/ Create(w) \/ Write(w) \/ Fail(w)
             /\ Tasked(w) /\ task[w] # NoTask /\ task'[w].kind = task[w].kind
             /\ task'[w].job = task[w].job /\ task'[w].id = task[w].id
    <2>1. ~Fail(w)
      BY DEF Fail, MayFail, Clean
    <2>2. ~Map(w)
      BY <1>3 DEF Map, At, Tasked, Executing
    <2>3. ASSUME Create(w) PROVE FALSE
      <3>1. task'[w] = [task[w] EXCEPT !.step = "write"] /\ "step" \in DOMAIN task[w]
        BY <1>3, <2>3 DEF Create, Tasks, Tasked, Fields
      <3>2. QED
        BY <3>1
    <2>4. ASSUME Fetch(w) PROVE FALSE
      <3>1. /\ task[w].next \in DOMAIN task[w].from /\ task[w].step = "fetch"
            /\ task'[w] = AfterFetch(w, CanFetch(w, task[w].next))
            /\ "step" \in DOMAIN task[w]
        BY <1>3, <2>4 DEF Fetch, At, Tasks, Tasked, Fields
      <3>2. PICK m, source : m = task[w].next /\ source = task[w].from[m]
        OBVIOUS
      <3>3. source \in Up /\ Busy(w)
        BY <1>3, <3>1, <3>2 DEF Tasked, Started, Down, Up, Processes, Busy
      <3>4. <<task[w].job, m>> \in held[source]
        BY <3>1, <3>2, <3>3 DEF AssignedMapsServed, NoIOError
      <3>5. CanFetch(w, task[w].next)
        BY <3>2, <3>3, <3>4 DEF CanFetch
      <3>6. QED
        BY <3>1, <3>5 DEF AfterFetch
    <2>5. ASSUME Write(w) PROVE Written(j, r)'
      <3>1. <<w, j, r>> \in unwritten'
        BY <1>0, <1>3, <2>5 DEF Write
      <3>2. <<w, j, r>>[2] = j /\ <<w, j, r>>[3] = r
        OBVIOUS
      <3>3. QED
        BY <3>1, <3>2 DEF Written
    <2>6. QED
      BY <1>0, <1>3, <2>1, <2>2, <2>3, <2>4, <2>5
  <1>4. QED
    BY <1>1, <1>2, <1>3, TaskStep

\* The output of a reduce recorded as completed is written, or is being written.
LEMMA RecordsWrittenStep ==
  ASSUME Base, BusyOwns, Down' = {}, ReportsWritten, RecordsWritten, [Next]_vars
  PROVE  RecordsWritten'
  <1> USE DEF Base
  <1>1. ASSUME NEW j \in DOMAIN jobs, NEW r \in Reduces(j),
               Record(j, "reduce", r)'.state = "Completed"
        PROVE  Written(j, r)'
    <2>1. "reduce" \in C!Kind /\ r \in C!TaskIds(jobs[j], "reduce")
      BY DEF Reduces, C!Kind
    <2>2. CASE Record(j, "reduce", r)' = Record(j, "reduce", r)
      <3>1. Record(j, "reduce", r).state = "Completed" /\ Written(j, r)
        BY <1>1, <2>2 DEF RecordsWritten
      <3>2. ASSUME NEW v \in WorkerId, Create(v), task[v].job = j, task[v].id = r
            PROVE  FALSE
        BY <3>1, <3>2, CreateByOwner
      <3>3. QED
        BY <3>1, <3>2, WrittenStep
    <2>3. ASSUME NEW w \in WorkerId, Report(w),
                 task[w].job = j, task[w].kind = "reduce", task[w].id = r
          PROVE  Written(j, r)'
      <3>1. Busy(w) /\ task[w].step = "report"
        BY <2>3 DEF Report, At, NoTask, Busy
      <3>2. Written(j, r)
        BY <2>3, <3>1 DEF ReportsWritten
      <3>3. ASSUME NEW v \in WorkerId, Create(v), task[v].job = j, task[v].id = r
            PROVE  FALSE
        <4>1. Record(j, "reduce", r).worker = v /\ task[v].step = "fetch"
          BY <3>3, CreateByOwner
        <4>2. Record(j, "reduce", r).worker = w
          BY <2>3, <3>1 DEF BusyOwns
        <4>3. QED
          BY <3>1, <4>1, <4>2
      <3>4. QED
        BY <3>2, <3>3, WrittenStep
    <2>4. QED
      BY <1>1, <2>1, <2>2, <2>3, RecordStep
  <1>2. ASSUME NEW j \in DOMAIN jobs', NEW r \in C!TaskIds(jobs'[j], "reduce"),
               Record(j, "reduce", r)'.state = "Completed"
        PROVE  j \in DOMAIN jobs /\ r \in Reduces(j)
    BY <1>2, NewJobStep, JobsStay DEF C!IdleTask, C!Kind, Reduces
  <1>3. QED
    BY <1>1, <1>2 DEF RecordsWritten, Reduces

\* The completion handler reads full outputs.
LEMMA FilesReadStep ==
  ASSUME Clean, Base, RecordsWritten, FilesRead, [Next]_vars
  PROVE  FilesRead'
  <1> USE DEF Base
  <1>1. ASSUME NEW j \in DOMAIN jobs, ReadOutput(j) PROVE FilesRead'
    <2>1. /\ spawned[j] > 0 /\ handler[j].next \in Reduces(j)
          /\ \A u \in unwritten : u[2] # j
          /\ handler' = [handler EXCEPT
               ![j] = [next |-> @.next + 1, full |-> @.full \cup Found(j, @.next)]]
          /\ UNCHANGED jobs
      BY <1>1 DEF ReadOutput, Clean, coordVars
    <2>2. jobs[j].done
      BY <2>1 DEF Coordinated, C!CompletionSpawnedOnce
    <2>3. Record(j, "reduce", handler[j].next).state = "Completed"
      BY <2>1, <2>2, RecordType DEF Reduces, C!Kind
    <2>4. output[j][handler[j].next] = "full"
      BY <2>1, <2>3 DEF RecordsWritten, Written
    <2>5. /\ handler'[j].next = handler[j].next + 1
          /\ handler'[j].full = handler[j].full \cup {handler[j].next}
          /\ \A i \in DOMAIN jobs : i # j => handler'[i] = handler[i]
      BY <2>1, <2>4 DEF Found, Files
    <2>6. handler[j].next \in Nat /\ handler[j].full = 0 .. handler[j].next - 1
      BY <2>1 DEF FilesRead, Reduces, C!TaskIds
    <2>7. handler'[j].full = 0 .. handler'[j].next - 1
      BY <2>5, <2>6
    <2>8. QED
      BY <2>1, <2>5, <2>7 DEF FilesRead
  <1>2. ASSUME NEW shape \in Shapes, SubmitJob(shape) PROVE FilesRead'
    <2>1. \A j \in DOMAIN jobs' : \/ j \in DOMAIN jobs /\ handler'[j] = handler[j]
                                  \/ handler'[j] = [next |-> 0, full |-> {}]
      BY <1>2, SubmitEffect DEF SubmitJob
    <2>2. 0 .. 0 - 1 = {}
      OBVIOUS
    <2>3. ASSUME NEW j \in DOMAIN jobs'
          PROVE  handler'[j].full = 0 .. handler'[j].next - 1
      <3>1. CASE j \in DOMAIN jobs /\ handler'[j] = handler[j]
        BY <3>1 DEF FilesRead
      <3>2. CASE handler'[j] = [next |-> 0, full |-> {}]
        <4>1. handler'[j].next = 0 /\ handler'[j].full = {}
          BY <3>2
        <4>2. QED
          BY <2>2, <4>1
      <3>3. QED
        BY <2>1, <3>1, <3>2
    <2>4. QED
      BY <2>3 DEF FilesRead
  <1>3. CASE UNCHANGED handler /\ DOMAIN jobs' = DOMAIN jobs
    BY <1>3 DEF FilesRead
  <1>4. ASSUME NEW w \in WorkerId,
               \/ Map(w) \/ Fetch(w) \/ Create(w) \/ Write(w) \/ Flush(w) \/ Fail(w)
               \/ ReportLost(w) \/ Crash(w) \/ Start(w) \/ Heartbeat(w) \/ RequestTask(w)
               \/ Report(w)
        PROVE  UNCHANGED handler /\ DOMAIN jobs' = DOMAIN jobs
    BY <1>4 DEF Map, Fetch, Create, Write, Flush, Fail, ReportLost, Crash, Start, Heartbeat,
       RequestTask, Report, C!Register, C!Heartbeat, C!GetTask, C!FinishTask, coordVars
  <1>5. CASE Tick \/ UNCHANGED vars
    BY <1>3, <1>5 DEF Tick, C!Tick, coordVars, vars
  <1>6. QED
    BY <1>1, <1>2, <1>3, <1>4, <1>5 DEF Next, WorkerStep

\* Without late heartbeats, slow writes and I/O errors, and as long as no process died,
\* the completion handler finds every output complete, whatever reports are lost: a job
\* is announced after its last reduce task was written, and no output is truncated
\* between its report and its reading.
THEOREM HandlerCorrect == Spec => []HandlerSeesFullOutputs
  <1>1. CASE Clean
    <2>0. Timely
      BY <1>1 DEF Clean, Timely
    <2>1. Init => NoIOError /\ Delivered
      BY DEF Init, C!Init, NoIOError, Delivered, ReportsWritten, RecordsWritten, FilesRead,
         Busy, Up
    <2>2. ASSUME Base, BusyOwns, AssignedMapsServed, NoIOError, Delivered, [Next]_vars
          PROVE  NoIOError' /\ Delivered'
      <3>1. NoIOError'
        BY <1>1, <2>2, NoIOErrorStep
      <3>2. ASSUME Down' = {} PROVE Down = {}
        <4>1. ASSUME NEW w \in WorkerId, status[w] = "down" PROVE FALSE
          <5>1. Started(w) /\ w \notin Up
            BY <4>1 DEF Started, Up
          <5>2. Processes' /\ Started(w)'
            BY <2>2, <5>1, ProcessesStep DEF Base
          <5>3. w \in Up'
            BY <3>2, <5>2 DEF Down, Up, Processes, Started
          <5>4. QED
            BY <2>2, <5>1, <5>3, StillUp
        <4>2. QED
          BY <4>1 DEF Down
      <3>3. QED
        BY <1>1, <2>2, <3>1, <3>2, ReportsWrittenStep, RecordsWrittenStep, FilesReadStep
        DEF Delivered
    <2>3. Delivered => HandlerSeesFullOutputs
      BY DEF Delivered, FilesRead, HandlerSeesFullOutputs
    <2>4. QED
      BY <2>0, <2>1, <2>2, <2>3, BaseAlways, BusyOwnsAlways, MapsServed, PTL DEF Spec
  <1>2. CASE ~Clean
    <2>1. HandlerSeesFullOutputs
      BY <1>2 DEF Clean, HandlerSeesFullOutputs
    <2>2. QED
      BY <2>1, PTL
  <1>3. QED
    BY <1>1, <1>2
=============================================================================
