----------------------------- MODULE MapReduce -----------------------------
(***************************************************************************)
(* The coordinator together with its worker processes and the completion   *)
(* handler that reads the reduce outputs of a done job.                    *)
(*                                                                         *)
(* A worker process is named by the id it registered under.  A process     *)
(* that is restarted registers again and is another one; the map outputs   *)
(* it held in memory are gone.  A worker runs one task at a time, one step *)
(* per await at which another process can be observed: reading the input,  *)
(* each read_map call, creating the output file, writing it, finish_task.  *)
(*                                                                         *)
(* Whatever happens to a task, the worker then reports it finished: a map  *)
(* whose input cannot be read and a reduce that cannot fetch a map output  *)
(* end like the ones that succeed.                                         *)
(*                                                                         *)
(* The reduce output is written through tokio's File, whose write_all      *)
(* returns when the write is handed to a background thread; nothing waits  *)
(* for that thread.  mr-out-<t> is missing, empty (created or truncated)   *)
(* or full.                                                                *)
(*                                                                         *)
(* Faults is the set of faults an instance allows:                         *)
(*   "late"        heartbeats of a running worker may not be recorded in   *)
(*                 time (get_task keeps the mutex for the second it waits, *)
(*                 so heartbeats queue up behind the idle workers),        *)
(*   "lost"        a finish_task call may fail,                            *)
(*   "io"          reading an input, fetching a map output or writing an   *)
(*                 output may fail,                                        *)
(*   "slow"        the background write may outlast the report of the task *)
(*                 and the database updates that precede the reading of    *)
(*                 the outputs.                                            *)
(*   "crash"       a worker process may die (a failed get_task call ends   *)
(*                 the process too).                                       *)
(* MaxFaults bounds the crashes, lost reports and I/O errors of a          *)
(* behaviour, taken together.  Without "late" the clock waits for the      *)
(* heartbeats: they are sent every heartbeat_interval_ms (2s), and         *)
(* task_timeout_secs is 7s.                                                *)
(***************************************************************************)
EXTENDS Integers, FiniteSets

CONSTANTS
  InitialJobId, InitialWorkerId, TaskTimeout, Shapes, MaxJobs, MaxWorkers,
  Faults,            \* the faults that may happen
  MaxFaults          \* bound: crashes, lost reports and I/O errors

ASSUME MapReduceAssumption ==
  /\ InitialJobId \in Nat /\ InitialWorkerId \in Nat /\ TaskTimeout \in Nat \ {0}
  /\ Shapes \subseteq [{"map", "reduce"} -> Nat]
  /\ MaxJobs \in Nat /\ MaxWorkers \in Nat
  /\ Faults \subseteq {"late", "lost", "io", "slow", "crash"}
  /\ MaxFaults \in Nat

VARIABLES
  nextJobId, nextWorkerId, jobs, jobOrder, workers, spawned,   \* coordinator
  status,    \* of each worker process: "new", "up" or "down"
  task,      \* the task each worker is executing
  held,      \* WorkerState.data: the map outputs each worker holds, <<job, map task>>
  unwritten, \* the background writes under way, <<worker, job, reduce task>>
  output,    \* the file mr-out-<t> of each job
  handler,   \* handle_job_completion of each job: next file to read, files it found full
  lapses     \* history: the tasks that went wrong at a worker, <<fault, worker, job, kind, id>>

C == INSTANCE Coordinator

coordVars == <<nextJobId, nextWorkerId, jobs, jobOrder, workers, spawned>>
workerVars == <<status, task, held, unwritten>>
vars == <<coordVars, workerVars, output, handler, lapses>>

WorkerId == C!WorkerId
Maps(j) == C!TaskIds(jobs[j], "map")
Reduces(j) == C!TaskIds(jobs[j], "reduce")

NoTask == [step |-> "none"]

\* What get_task tells worker w to do; a reduce task comes with the worker that
\* holds each map output.
Assigned(j, k, t) ==
  [job  |-> j, kind |-> k, id |-> t,
   step |-> IF k = "map" THEN "map" ELSE "fetch",
   from |-> [m \in IF k = "map" THEN {} ELSE Maps(j) |->
               jobs[j].tasks["map"][m].worker],
   next |-> 0]

Up == {w \in WorkerId : status[w] = "up"}

Down == {w \in WorkerId : status[w] = "down"}

MayFail(fault) == fault \in Faults /\ Cardinality(Down) + Cardinality(lapses) < MaxFaults

Lapse(fault, w) == <<fault, w, task[w].job, task[w].kind, task[w].id>>

-----------------------------------------------------------------------------
(* What a step of a worker makes of its data *)

\* Mutation: the job's entry is replaced by a new map, not looked up.
StoredAlone(w, j, m) == {p \in held[w] : p[1] # j} \cup {<<j, m>>}

\* `data.entry(job_id).or_insert_with(HashMap::new)`, then one insert for each
\* partition.
Stored(w, j, m) == held[w] \cup {<<j, m>>}

\* read_map_from: the process is reachable and has data for the task.
CanFetch(w, m) ==
  LET source == task[w].from[m]
  IN source \in Up /\ <<task[w].job, m>> \in held[source]

\* Mutation: the worker returns to its main loop without finish_task.
AfterFetchAbandoning(w, ok) ==
  IF ok THEN [task[w] EXCEPT !.next = @ + 1] ELSE NoTask

\* After a read_map that failed, Worker::reduce returns without output.
AfterFetch(w, ok) ==
  IF ok THEN [task[w] EXCEPT !.next = @ + 1]
        ELSE [task[w] EXCEPT !.step = "report"]

\* Mutation: the outputs are numbered from 1.
FoundOffByOne(j, r) == IF output[j][r] = "full" THEN {r + 1} ELSE {}

\* read_reduced_for_job skips a file that is missing or empty.
Found(j, r) == IF output[j][r] = "full" THEN {r} ELSE {}

-----------------------------------------------------------------------------
Init ==
  /\ C!Init
  /\ status = [w \in WorkerId |-> "new"]
  /\ task = [w \in WorkerId |-> NoTask]
  /\ held = [w \in WorkerId |-> {}]
  /\ unwritten = {}
  /\ output = [j \in {} |-> <<>>]
  /\ handler = [j \in {} |-> <<>>]
  /\ lapses = {}

SubmitJob(shape) ==
  /\ C!SubmitJob(shape)
  /\ output' = [j \in DOMAIN jobs' |->
                  IF j = nextJobId THEN [r \in 0 .. shape["reduce"] - 1 |-> "missing"]
                                   ELSE output[j]]
  /\ handler' = [j \in DOMAIN jobs' |->
                   IF j = nextJobId THEN [next |-> 0, full |-> {}] ELSE handler[j]]
  /\ UNCHANGED <<workerVars, lapses>>

\* Worker::new
Start(w) ==
  /\ w = nextWorkerId
  /\ C!Register
  /\ status' = [status EXCEPT ![w] = "up"]
  /\ UNCHANGED <<task, held, unwritten, output, handler, lapses>>

Heartbeat(w) ==
  /\ w \in Up
  /\ C!Heartbeat(w)
  /\ UNCHANGED <<workerVars, output, handler, lapses>>

\* The main loop of an idle worker is given a task.  A reply that says wait
\* changes nothing: the coordinator knows the worker already.
RequestTask(w) ==
  /\ w \in Up
  /\ task[w] = NoTask
  /\ \E j \in DOMAIN jobs, k \in C!Kind :
       \E t \in C!TaskIds(jobs[j], k) :
         /\ C!GetTask(w, j, k, t)
         /\ task' = [task EXCEPT ![w] = Assigned(j, k, t)]
  /\ UNCHANGED <<status, held, unwritten, output, handler, lapses>>

At(w, step) == w \in Up /\ task[w].step = step

\* Worker::map: the partitions of the input are stored under the state lock.
Map(w) ==
  /\ At(w, "map")
  /\ held' = [held EXCEPT ![w] = Stored(w, task[w].job, task[w].id)]
  /\ task' = [task EXCEPT ![w].step = "report"]
  /\ UNCHANGED <<coordVars, status, unwritten, output, handler, lapses>>

\* Worker::reduce asks the next map worker for its partition.
Fetch(w) ==
  /\ At(w, "fetch")
  /\ task[w].next \in DOMAIN task[w].from
  /\ task' = [task EXCEPT ![w] = AfterFetch(w, CanFetch(w, task[w].next))]
  /\ UNCHANGED <<coordVars, status, held, unwritten, output, handler, lapses>>

\* Worker::reduce has every partition: File::create truncates mr-out-<t>.
Create(w) ==
  /\ At(w, "fetch")
  /\ task[w].next \notin DOMAIN task[w].from
  /\ output' = [output EXCEPT ![task[w].job][task[w].id] = "empty"]
  /\ task' = [task EXCEPT ![w].step = "write"]
  /\ UNCHANGED <<coordVars, status, held, unwritten, handler, lapses>>

\* write_all returns; the write goes on.
Write(w) ==
  /\ At(w, "write")
  /\ unwritten' = unwritten \cup {<<w, task[w].job, task[w].id>>}
  /\ task' = [task EXCEPT ![w].step = "report"]
  /\ UNCHANGED <<coordVars, status, held, output, handler, lapses>>

\* Worker::map or Worker::reduce returns an error, which handle_task logs.
Fail(w) ==
  /\ MayFail("io")
  /\ At(w, "map") \/ At(w, "fetch") \/ At(w, "write")
  /\ task' = [task EXCEPT ![w].step = "report"]
  /\ lapses' = lapses \cup {Lapse("io", w)}
  /\ UNCHANGED <<coordVars, status, held, unwritten, output, handler>>

\* A background write reaches the file.
Flush(w) ==
  \E u \in unwritten :
    /\ u[1] = w
    /\ unwritten' = unwritten \ {u}
    /\ output' = [output EXCEPT ![u[2]][u[3]] = "full"]
    /\ UNCHANGED <<coordVars, status, task, held, handler, lapses>>

\* The end of handle_task: finish_task is called whatever the outcome was.  The
\* coordinator ignores a report it does not accept.
Report(w) ==
  /\ At(w, "report")
  /\ IF C!Accepts(jobs[task[w].job], task[w].kind, task[w].id)
       THEN C!FinishTask(w, task[w].job, task[w].kind, task[w].id)
       ELSE UNCHANGED coordVars
  /\ task' = [task EXCEPT ![w] = NoTask]
  /\ UNCHANGED <<status, held, unwritten, output, handler, lapses>>

\* finish_task fails: the error is logged and the worker asks for the next task.
ReportLost(w) ==
  /\ MayFail("lost")
  /\ At(w, "report")
  /\ task' = [task EXCEPT ![w] = NoTask]
  /\ lapses' = lapses \cup {Lapse("lost", w)}
  /\ UNCHANGED <<coordVars, status, held, unwritten, output, handler>>

Crash(w) ==
  /\ MayFail("crash")
  /\ w \in Up
  /\ status' = [status EXCEPT ![w] = "down"]
  /\ task' = [task EXCEPT ![w] = NoTask]
  /\ held' = [held EXCEPT ![w] = {}]
  /\ unwritten' = {u \in unwritten : u[1] # w}
  /\ UNCHANGED <<coordVars, output, handler, lapses>>

Tick ==
  /\ C!Tick
  /\ "late" \notin Faults => \A w \in Up : workers[w] + 1 < TaskTimeout
  /\ UNCHANGED <<workerVars, output, handler, lapses>>

\* read_reduced_for_job reads mr-out-<t> of the next t.
ReadOutput(j) ==
  /\ spawned[j] > 0
  /\ handler[j].next \in Reduces(j)
  /\ "slow" \notin Faults => \A u \in unwritten : u[2] # j
  /\ handler' = [handler EXCEPT
                   ![j] = [next |-> @.next + 1, full |-> @.full \cup Found(j, @.next)]]
  /\ UNCHANGED <<coordVars, workerVars, output, lapses>>

\* What a worker process does of itself when nothing goes wrong.
WorkerStep(w) ==
  \/ RequestTask(w) \/ Map(w) \/ Fetch(w) \/ Create(w) \/ Write(w) \/ Report(w)

Next ==
  \/ Tick
  \/ \E shape \in Shapes : SubmitJob(shape)
  \/ \E j \in DOMAIN jobs : ReadOutput(j)
  \/ \E w \in WorkerId :
       \/ Start(w)
       \/ Heartbeat(w)
       \/ WorkerStep(w)
       \/ Flush(w)
       \/ Fail(w)
       \/ ReportLost(w)
       \/ Crash(w)

Spec == Init /\ [][Next]_vars

\* Processes are started, and those that run go on: the heartbeat loop, the main
\* loop and the background writes of a worker, the clock, and the handler of a
\* done job.  Nobody has to submit a job, and no fault has to happen.
Fairness ==
  /\ WF_vars(Tick)
  /\ \A w \in WorkerId :
       /\ WF_vars(Start(w))
       /\ WF_vars(Heartbeat(w))
       /\ WF_vars(WorkerStep(w))
       /\ WF_vars(Flush(w))
  /\ \A j \in C!JobId : WF_vars(j \in DOMAIN jobs /\ ReadOutput(j))

FairSpec == Spec /\ Fairness

-----------------------------------------------------------------------------
(* Properties *)

TaskOf(w) == <<task[w].job, task[w].kind, task[w].id>>

Busy(w) == w \in Up /\ task[w] # NoTask

\* A worker executes a task of a job the coordinator knows, at a step of that
\* kind of task, and a reduce task knows a registered worker for every map.
Executing(w) ==
  /\ task[w].job \in DOMAIN jobs
  /\ task[w].id \in C!TaskIds(jobs[task[w].job], task[w].kind)
  /\ IF task[w].kind = "map"
       THEN task[w].step \in {"map", "report"}
       ELSE /\ task[w].step \in {"fetch", "write", "report"}
            /\ task[w].from \in [Maps(task[w].job) -> WorkerId \ {C!NoWorker}]
            /\ task[w].next \in 0 .. Cardinality(Maps(task[w].job))

\* The type invariant of the whole: the coordinator's, the workers', the files'.
TypeOK ==
  /\ C!TypeOK
  /\ status \in [WorkerId -> {"new", "up", "down"}]
  /\ \A w \in WorkerId : task[w] # NoTask => Executing(w)
  /\ \A w \in WorkerId : held[w] \subseteq {p \in C!JobId \X Nat : p[2] \in Maps(p[1])}
  /\ unwritten \subseteq {u \in Up \X C!JobId \X Nat : u[3] \in Reduces(u[2])}
  /\ \A j \in DOMAIN jobs :
       /\ output[j] \in [Reduces(j) -> {"missing", "empty", "full"}]
       /\ handler[j].next \in 0 .. Cardinality(Reduces(j))
       /\ handler[j].full \subseteq Reduces(j)

\* While heartbeats are timely, no two workers execute the same task at the same
\* time, whatever crashes: mr-out-<t> has one writer, so the File::create of one
\* worker never truncates what another one wrote.
TaskExclusive ==
  "late" \notin Faults =>
    \A v, w \in WorkerId : Busy(v) /\ Busy(w) /\ TaskOf(v) = TaskOf(w) => v = w

\* A task that is InProgress at a running worker is the one that worker is
\* executing, unless its finish_task was lost: get_task never hands such a task
\* to anyone else, so a worker that went on without it would leave it forgotten.
NoForgottenTask ==
  \A j \in DOMAIN jobs : \A k \in C!Kind : \A t \in C!TaskIds(jobs[j], k) :
    LET rec == jobs[j].tasks[k][t]
    IN rec.state = "InProgress" /\ rec.worker \in Up =>
         \/ Busy(rec.worker) /\ TaskOf(rec.worker) = <<j, k, t>>
         \/ <<"lost", rec.worker, j, k, t>> \in lapses

\* A reducer is sent to workers that can answer: whatever reports were late, lost
\* or came from a worker that had lost the task, the worker it asks for map output
\* m, while that worker runs, has stored it, unless an I/O error kept it from doing so.
AssignedMapsServed ==
  \A w \in WorkerId : Busy(w) =>
    \A m \in DOMAIN task[w].from :
      LET source == task[w].from[m]
      IN source \in Up =>
           \/ <<task[w].job, m>> \in held[source]
           \/ <<"io", source, task[w].job, "map", m>> \in lapses

\* As long as no process died, heartbeats and writes are timely and there is
\* no I/O error, the completion handler finds every output it reads complete: the job
\* is announced only after the last reduce task was written, and nobody truncates
\* an output afterwards.
HandlerSeesFullOutputs ==
  Faults \subseteq {"lost", "crash"} /\ Down = {} =>
    \A j \in DOMAIN jobs : handler[j].full = 0 .. handler[j].next - 1

\* While heartbeats are timely, a complete output of a done job stays complete: no
\* reduce task of a job whose outputs are being read is executed again.
DoneOutputsKept ==
  [][\A j \in DOMAIN jobs : jobs[j].done =>
       \A r \in Reduces(j) : output[j][r] = "full" => output'[j][r] = "full"]_vars

\* Every submitted job is eventually done and its outputs are read, when at most
\* one of the workers dies, at any moment, and heartbeats are timely.
EventuallyDone ==
  \A j \in C!JobId :
    j \in DOMAIN jobs ~>
      /\ j \in DOMAIN jobs
      /\ jobs[j].done
      /\ handler[j].next = Cardinality(Reduces(j))

\* A job all of whose tasks are Completed, the maps by workers that are alive, is
\* done.  finish_task looks at this once, in the call that completes a task.
FinishedMeansDone ==
  \A j \in DOMAIN jobs :
    C!AllReducesCompleted(jobs[j]) /\ C!AllMapsDone(workers, jobs[j]) => jobs[j].done
=============================================================================
