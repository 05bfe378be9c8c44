---------------------------- MODULE Coordinator ----------------------------
(***************************************************************************)
(* The MapReduce coordinator of crates/ingestion_engine: the RPC handlers  *)
(* of `impl coordinator_server::Coordinator` over the in-memory `Inner`.   *)
(*                                                                         *)
(* Every handler takes the one `inner` mutex first and keeps it to its     *)
(* last access of the state, so a handler is one step.  A call that the    *)
(* handler rejects or ignores (unknown job, task out of range, job already *)
(* done, task already Completed) changes nothing and is a stuttering step; *)
(* so are poll_job and fail_task, which write nothing at all.              *)
(*                                                                         *)
(* The module puts no condition on the callers: any worker id may send a   *)
(* heartbeat, ask for a task or report any task finished at any time.      *)
(* That is what the handlers face: late reports of a reassigned task, and  *)
(* workers that outlived an earlier run of the coordinator, whose ids and  *)
(* job ids were handed out afresh from the same initial values.            *)
(*                                                                         *)
(* Bounds: MaxJobs and MaxWorkers stop SubmitJob and Register.  The age of *)
(* a heartbeat stops at TaskTimeout, past which no condition tells ages    *)
(* apart.                                                                  *)
(***************************************************************************)
EXTENDS Integers, Sequences

CONSTANTS
  InitialJobId,      \* config.initial_job_id
  InitialWorkerId,   \* config.initial_worker_id
  TaskTimeout,       \* config.task_timeout_secs, in ticks
  Shapes,            \* the numbers of map and reduce tasks a job may have
  MaxJobs,           \* bound: jobs submitted
  MaxWorkers         \* bound: worker ids registered

Kind == {"map", "reduce"}

ASSUME CoordinatorAssumption ==
  /\ InitialJobId \in Nat
  /\ InitialWorkerId \in Nat
  /\ TaskTimeout \in Nat \ {0}     \* with 0 no worker would ever be alive
  /\ Shapes \subseteq [Kind -> Nat]
  /\ MaxJobs \in Nat
  /\ MaxWorkers \in Nat

VARIABLES
  nextJobId,     \* Inner.next_job_id
  nextWorkerId,  \* Inner.next_worker_id
  jobs,          \* Inner.jobs, by job id
  jobOrder,      \* Inner.job_order
  workers,       \* Inner.workers: ticks since the last sign of life, by id
  spawned        \* how often handle_job_completion was spawned, by job id

vars == <<nextJobId, nextWorkerId, jobs, jobOrder, workers, spawned>>

JobId == InitialJobId .. InitialJobId + MaxJobs - 1
WorkerId == InitialWorkerId .. InitialWorkerId + MaxWorkers - 1

-----------------------------------------------------------------------------
(* Task and job records *)

TaskState == {"Idle", "InProgress", "Completed"}

\* `None` of the code's Option<u32>.
NoWorker == -1

TaskRecord == [state : TaskState, worker : WorkerId \cup {NoWorker}]

IdleTask == [state |-> "Idle", worker |-> NoWorker]

\* Mutation: one record too many, `0..=n` for `0..n`.
NewJobOffByOne(shape) ==
  [size   |-> shape,
   tasks  |-> [k \in Kind |-> [t \in 0 .. shape[k] |-> IdleTask]],
   failed |-> FALSE,
   done   |-> FALSE]

NewJob(shape) ==
  [size   |-> shape,
   tasks  |-> [k \in Kind |-> [t \in 0 .. shape[k] - 1 |-> IdleTask]],
   failed |-> FALSE,
   done   |-> FALSE]

TaskIds(job, k) == 0 .. job.size[k] - 1

\* Mutation: finish_task forgets `rec.worker_id = Some(r.worker_id)`.
SetTaskKeepingWorker(job, k, t, state, w) ==
  [job EXCEPT !.tasks[k][t] =
     [state  |-> state,
      worker |-> IF state = "Completed" THEN @.worker ELSE w]]

SetTask(job, k, t, state, w) ==
  [job EXCEPT !.tasks[k][t] = [state |-> state, worker |-> w]]

\* Mutation: `done` is not looked at.
OpenUnlessFailed(job) == ~job.failed

\* A job that get_task still serves and finish_task still updates.
Open(job) == ~job.failed /\ ~job.done

\* Mutation: finish_task without its two early returns.
AcceptsAnyReport(job, k, t) == t \in TaskIds(job, k)

\* A report that finish_task acts on: the job is unfinished, the task number is
\* in range and the task was not reported before.
Accepts(job, k, t) ==
  /\ Open(job)
  /\ t \in TaskIds(job, k)
  /\ job.tasks[k][t].state # "Completed"

-----------------------------------------------------------------------------
(* Liveness of workers, as the coordinator judges it *)

Alive(ws, w) == w \in DOMAIN ws /\ ws[w] < TaskTimeout

\* A sign of life: `workers.insert(id, Instant::now())`.
Refreshed(ws, w) ==
  [v \in DOMAIN ws \cup {w} |-> IF v = w THEN 0 ELSE ws[v]]

\* get_task inserts the caller only when it is unknown.
Seen(ws, w) == IF w \in DOMAIN ws THEN ws ELSE Refreshed(ws, w)

-----------------------------------------------------------------------------
(* What get_task may hand out, given the table of workers ws *)

CompletedAlive(ws, rec) == rec.state = "Completed" /\ Alive(ws, rec.worker)

\* Mutation: a Completed map counts whether or not its worker is alive.
AllMapsCompleted(ws, job) ==
  \A t \in TaskIds(job, "map") : job.tasks["map"][t].state = "Completed"

AllMapsDone(ws, job) ==
  \A t \in TaskIds(job, "map") : CompletedAlive(ws, job.tasks["map"][t])

\* Mutation: a reduce task counts as soon as it is handed out.
AllReducesStarted(job) ==
  \A t \in TaskIds(job, "reduce") : job.tasks["reduce"][t].state # "Idle"

AllReducesCompleted(job) ==
  \A t \in TaskIds(job, "reduce") : job.tasks["reduce"][t].state = "Completed"

Phase(ws, job) == IF AllMapsDone(ws, job) THEN "reduce" ELSE "map"

\* Mutation: a task in progress is handed out again before its worker is
\* judged crashed.
AvailableInProgress(ws, rec) ==
  \/ rec.state \in {"Idle", "InProgress"}
  \/ rec.state = "Completed" /\ ~Alive(ws, rec.worker)

Available(ws, rec) ==
  \/ rec.state = "Idle"
  \/ rec.state = "InProgress" /\ ~Alive(ws, rec.worker)
  \/ rec.state = "Completed" /\ rec.worker # NoWorker /\ ~Alive(ws, rec.worker)

AvailableTasks(ws, job, k) ==
  {t \in TaskIds(job, k) : Available(ws, job.tasks[k][t])}

\* The positions in job_order of the jobs that have a task to give.
Servable(ws) ==
  {i \in DOMAIN jobOrder :
     LET job == jobs[jobOrder[i]]
     IN Open(job) /\ AvailableTasks(ws, job, Phase(ws, job)) # {}}

\* get_task's choice: the first servable job, its current phase, its first
\* available task.
Offered(ws, j, k, t) ==
  \E i \in Servable(ws) :
    /\ \A n \in Servable(ws) : i <= n
    /\ j = jobOrder[i]
    /\ k = Phase(ws, jobs[j])
    /\ t \in AvailableTasks(ws, jobs[j], k)
    /\ \A u \in AvailableTasks(ws, jobs[j], k) : t <= u

\* Mutation: push_front.
EnqueuedFirst(order, j) == <<j>> \o order

\* job_order.push_back
Enqueued(order, j) == Append(order, j)

-----------------------------------------------------------------------------
Init ==
  /\ nextJobId = InitialJobId
  /\ nextWorkerId = InitialWorkerId
  /\ jobs = [j \in {} |-> NewJob([k \in Kind |-> 0])]
  /\ jobOrder = <<>>
  /\ workers = [w \in {} |-> 0]
  /\ spawned = [j \in {} |-> 0]

Register ==
  /\ nextWorkerId < InitialWorkerId + MaxWorkers
  /\ nextWorkerId' = nextWorkerId + 1
  /\ workers' = Refreshed(workers, nextWorkerId)
  /\ UNCHANGED <<nextJobId, jobs, jobOrder, spawned>>

Heartbeat(w) ==
  /\ workers' = Refreshed(workers, w)
  /\ UNCHANGED <<nextJobId, nextWorkerId, jobs, jobOrder, spawned>>

SubmitJob(shape) ==
  /\ nextJobId < InitialJobId + MaxJobs
  /\ nextJobId' = nextJobId + 1
  /\ jobs' = [j \in DOMAIN jobs \cup {nextJobId} |->
                IF j = nextJobId THEN NewJob(shape) ELSE jobs[j]]
  /\ jobOrder' = Enqueued(jobOrder, nextJobId)
  /\ spawned' = [j \in DOMAIN spawned \cup {nextJobId} |->
                   IF j = nextJobId THEN 0 ELSE spawned[j]]
  /\ UNCHANGED <<nextWorkerId, workers>>

\* get_task finds task t of kind k of job j and assigns it to the caller.
GetTask(w, j, k, t) ==
  /\ workers' = Seen(workers, w)
  /\ Offered(workers', j, k, t)
  /\ jobs' = [jobs EXCEPT ![j] = SetTask(jobs[j], k, t, "InProgress", w)]
  /\ UNCHANGED <<nextJobId, nextWorkerId, jobOrder, spawned>>

\* get_task finds nothing: the reply says wait.
GetTaskWait(w) ==
  /\ workers' = Seen(workers, w)
  /\ Servable(workers') = {}
  /\ UNCHANGED <<nextJobId, nextWorkerId, jobs, jobOrder, spawned>>

\* The first report that task t is finished, from whichever worker sends it.
\* When it completes the job, the completion handler is spawned.
FinishTask(w, j, k, t) ==
  /\ j \in DOMAIN jobs
  /\ Accepts(jobs[j], k, t)
  /\ LET job == SetTask(jobs[j], k, t, "Completed", w)
         allDone == AllReducesCompleted(job) /\ AllMapsDone(workers, job)
     IN /\ jobs' = [jobs EXCEPT ![j] = [job EXCEPT !.done = allDone]]
        /\ spawned' = [spawned EXCEPT ![j] = IF allDone THEN @ + 1 ELSE @]
  /\ UNCHANGED <<nextJobId, nextWorkerId, jobOrder, workers>>

\* One tick of the clock: every worker's last sign of life grows older.
Tick ==
  /\ workers' = [w \in DOMAIN workers |->
                   IF workers[w] < TaskTimeout THEN workers[w] + 1
                                               ELSE workers[w]]
  /\ UNCHANGED <<nextJobId, nextWorkerId, jobs, jobOrder, spawned>>

Next ==
  \/ Register
  \/ Tick
  \/ \E shape \in Shapes : SubmitJob(shape)
  \/ \E w \in WorkerId :
       \/ Heartbeat(w)
       \/ GetTaskWait(w)
       \/ \E j \in DOMAIN jobs, k \in Kind :
            \E t \in TaskIds(jobs[j], k) :
              \/ GetTask(w, j, k, t)
              \/ FinishTask(w, j, k, t)

Spec == Init /\ [][Next]_vars

-----------------------------------------------------------------------------
(* Properties *)

TaskCount == UNION {{s[k] : k \in Kind} : s \in Shapes}

TaskList == UNION {[0 .. n - 1 -> TaskRecord] : n \in TaskCount}

JobRecord ==
  [size : Shapes, tasks : [Kind -> TaskList], failed : BOOLEAN, done : BOOLEAN]

\* A job has exactly the task records submit_job allocated for it.
WellFormed(job) ==
  /\ job \in JobRecord
  /\ \A k \in Kind : DOMAIN job.tasks[k] = TaskIds(job, k)

\* The type invariant: ids handed out so far index the tables of `Inner`,
\* job records are well formed, ages of heartbeats stay within the timeout.
TypeOK ==
  /\ nextJobId \in InitialJobId .. InitialJobId + MaxJobs
  /\ nextWorkerId \in InitialWorkerId .. InitialWorkerId + MaxWorkers
  /\ jobs \in [InitialJobId .. nextJobId - 1 -> JobRecord]
  /\ \A j \in DOMAIN jobs : WellFormed(jobs[j])
  /\ jobOrder \in Seq(JobId)
  /\ DOMAIN workers \subseteq WorkerId
  /\ workers \in [DOMAIN workers -> 0 .. TaskTimeout]
  /\ spawned \in [DOMAIN jobs -> Nat]

\* job_order holds every job exactly once, oldest first: no submitted job is
\* unreachable for get_task, and `inner.jobs.get(&job_id).unwrap()` never
\* panics.
QueueListsJobs ==
  /\ Len(jobOrder) = nextJobId - InitialJobId
  /\ \A i \in DOMAIN jobOrder : jobOrder[i] = InitialJobId + i - 1

\* A task has a worker exactly when it left Idle, however assignments, late
\* reports and reassignments follow each other: building the map assignments of
\* a reduce task (`mt.worker_id.unwrap()`) never panics, and the None branches
\* of get_task are dead.
OwnerRecorded ==
  \A j \in DOMAIN jobs : \A k \in Kind : \A t \in TaskIds(jobs[j], k) :
    jobs[j].tasks[k][t].state = "Idle" <=> jobs[j].tasks[k][t].worker = NoWorker

\* A done job has all its tasks Completed, for ever: no duplicate report and no
\* worker judged crashed afterwards reopens a task of a job whose output is
\* being read.
DoneMeansCompleted ==
  \A j \in DOMAIN jobs : jobs[j].done =>
    \A k \in Kind : \A t \in TaskIds(jobs[j], k) :
      jobs[j].tasks[k][t].state = "Completed"

\* handle_job_completion runs once for a job that is done and not at all before:
\* duplicated, late and concurrent finish_task calls never evaluate a job twice.
CompletionSpawnedOnce ==
  \A j \in DOMAIN jobs : spawned[j] = IF jobs[j].done THEN 1 ELSE 0

\* No step changes anything of a done job.
DoneIsFinal ==
  [][\A j \in DOMAIN jobs : jobs[j].done => jobs'[j] = jobs[j]]_vars

HandedOut(j, k, t) ==
  /\ jobs'[j].tasks[k][t] # jobs[j].tasks[k][t]
  /\ jobs'[j].tasks[k][t].state = "InProgress"

\* A reduce task is handed out only when every map task of its job is Completed
\* by a worker that is alive at that moment, hence able to serve read_map; a map
\* task lost with its worker takes the job back to the map phase.
ReducesNeedLiveMaps ==
  [][\A j \in DOMAIN jobs : \A t \in TaskIds(jobs[j], "reduce") :
       HandedOut(j, "reduce", t) =>
         \A m \in TaskIds(jobs[j], "map") :
           /\ jobs[j].tasks["map"][m].state = "Completed"
           /\ Alive(workers', jobs[j].tasks["map"][m].worker)]_vars

\* A task in the hands of a worker that is alive, running or finished, is never
\* handed to another one.
LiveOwnerKeepsTask ==
  [][\A j \in DOMAIN jobs : \A k \in Kind : \A t \in TaskIds(jobs[j], k) :
       HandedOut(j, k, t) => ~Alive(workers', jobs[j].tasks[k][t].worker)]_vars

\* Seen by who submits jobs, the coordinator is a JobService.
Service ==
  INSTANCE JobService WITH
    FirstId <- InitialJobId,
    next <- nextJobId,
    done <- {j \in DOMAIN jobs : jobs[j].done},
    announced <- spawned

\* Whatever workers do, the coordinator accepts each job under a fresh id and
\* completes and announces it at most once (submit_job, finish_task, poll_job).
ImplementsJobService == Service!Spec
=============================================================================
