# A TLA+ development of bmic-cop

bmic-cop turns the transaction files of a bank into benefits of its customers.
A scheduler asks the ingestion service to process the files; the ingestion
service records jobs in MySQL and submits them to a MapReduce coordinator;
workers sum the transactions per customer; the coordinator has each customer's
sums evaluated against the rules of an evaluator; the evaluator stores the
benefits, and a presentation service serves them over HTTP.

This directory models that program module by module, checks the models with TLC
and proves with TLAPS the properties of the coordinator, of the coordinator among
its workers and of its lock over time, of the evaluator, the ingestion service, the
scheduler and the presentation service. Paths below are relative to the repository;
these abbreviate

| | file |
|---|---|
| C | `crates/ingestion_engine/src/application/coordinator/mod.rs` |
| W | `crates/ingestion_engine/src/application/worker/mod.rs` |
| CL | `crates/ingestion_engine/src/application/client/mod.rs` |
| I | `crates/ingestion_engine/src/internal/repository/sql/ingestion/implementation.rs` |
| E | `crates/core_module/src/application/evaluator/mod.rs` |
| P | `crates/core_module/src/application/presentation/evaluator.rs` |
| S | `crates/core_module/src/bin/scheduler.rs` |
| TS | `crates/ingestion_engine/src/application/worker/transaction_summary.rs` |
| EL, EI | `crates/core_module/src/repository/sql/evaluator/list.rs`, `implementation.rs` |
| RL, RI | `crates/core_module/src/repository/sql/rule/list.rs`, `implementation.rs` |
| PC, PW | `crates/pkg/src/config/coordinator.rs`, `worker.rs` |

## 1. Inventory

### Coordinator (C)
*State*: `Inner` behind one tokio mutex: the next job and worker ids, the jobs
with their map and reduce task records, the queue `job_order`, and the time of
the last sign of life of each worker. Nothing is persistent.
*Operations*: `register`, `heartbeat`, `submit_job`, `poll_job`, `get_task`,
`finish_task`, `fail_task` (does nothing).
*Hard*: workers die, are late, report tasks they have lost, report twice; the
liveness of a worker is read from a clock, so a condition can become false and
true again without any call; `get_task` sleeps for a second with the mutex held
when it has nothing to give.
*Correct when*: every submitted job is reachable, tasks go to one living worker
at a time, reduces are handed out only when their maps can be read, a job is
done once, completely, and its completion is handled exactly once.

### Completion handler (C:110-412)
A task of its own for each done job: marks the database job and its files
COMPLETED, reads `mr-out-<t>` for every reduce task (falls back to the source
files when it finds nothing), and calls the evaluator for one customer after the
other. Every failure is logged and ignored.
*Hard*: outputs may be missing, cut off or left by an earlier run; an output that
cannot be read is skipped, and only when nothing at all was read are the sources
read instead; sums wrap at 64 bits and are cast to signed numbers.
*Correct when*: it sees complete outputs, and a customer is evaluated on all of
his transactions or not at all.

### Worker (W)
*State*: the map outputs it holds in memory (`WorkerState.data`), and the task it
is executing. *Operations*: a heartbeat loop; a main loop `get_task`, `map` or
`reduce`, `finish_task`; and `read_map` for the other workers.
A map task finds its file under one of three directories, turns its lines into
pairs, and partitions them by a hash of the key; a reduce task groups what it
fetched by key and sums it. Pairs travel as chunks with their length before them.
*Hard*: map outputs die with the process; the outcome of a task is logged and
the task reported finished whatever it was; `write_all` on tokio's `File`
returns before the data is in the file and nothing flushes it.
*Correct when*: no task it was given is forgotten, the worker named for a map
output has it, an output has one writer, and no record is lost or doubled between
a file and the output of its partition.

### Ingestion service (CL, I)
*State*: MySQL tables `job`, `job_detail`, `job_file`. *Operations*: `Ingest` and
`SubmitJobs`: one transaction per job, then one `SubmitJob` to the coordinator
per input, under one timeout.
*Hard*: the timeout can fire between commits and forwarding; several coordinator
jobs share one database job, and the first to complete marks it COMPLETED; the
time range is resolved twice, possibly on both sides of midnight.
*Correct when*: every committed job is forwarded or reported failed, and
COMPLETED means that all of its inputs were processed.

### Scheduler (S, EL, EI, RL, RI)
Every ten seconds, for a hundred seconds: reads the evaluators that are active and
within their dates, then the rules of each in a SELECT of its own, builds a
request and calls `SubmitJobs`. A database error and an empty result both submit
a built-in demo request. No state, no transaction, no wait for the firing before.
*Hard*: the tables change between the SELECTs, one of several SELECTs fails, the
input of a rule is JSON of any shape.
*Correct when*: the evaluators of a request were valid together at one moment, and
no rule of theirs goes unheard.

### Evaluator (E)
*State*: the table `benefit` with its unique `idempotency_key`, and one benefit
file a day. *Operation*: `Evaluate`: run the rules, insert a row, append a line,
under one timeout that drops the call wherever it is.
*Hard*: concurrent calls for one customer; a timeout with the INSERT or the
append in flight; midnight; the file is looked at before it is opened.
*Correct when*: a customer is granted one outcome per evaluator and day, and the
files agree with the table.

### Presentation service (P)
*State*: two caches with time to live, benefits (30s) and validity of evaluators
(60s). *Operation*: `GET /benefits`. *Hard*: reads from the database that started
before a change are cached after it; errors are cached; a cached list is served
without looking at the validity.
*Correct when*: what is served was true at one moment no further back than the
times to live and the request's timeout allow.

### Others
The repositories of jobs, details and files only build and run SELECTs, for their
tests and a superseded main; those of evaluators and rules serve the scheduler.
`crates/pkg` holds configuration, the connection pool, logging and generated
protocol code. `_lupamain.rs` and `lupamain.rs` are superseded mains. None of them
keeps state of its own.

### Interactions
    Scheduler --SubmitJobs--> Ingestion --SubmitJob--> Coordinator
    Worker --register, heartbeat, get_task, finish_task--> Coordinator
    Worker --read_map--> Worker
    Worker --mr-out files--> completion handler --UPDATE--> MySQL
                             completion handler --Evaluate--> Evaluator
    Evaluator --INSERT benefit--> MySQL <--SELECT-- Presentation

## 2. Modules

| module | models | lines of code |
|---|---|---|
| `JobService` | what the coordinator promises to who submits jobs | C: `submit_job`, `finish_task`, `poll_job` |
| `Coordinator` | the coordinator facing arbitrary callers | C:22-102, 414-772 |
| `CoordinatorProofs` | theorems about `Coordinator` | |
| `MapReduce` | coordinator, worker processes, output files, handler | W:225-423, 513-733; C:253-300 |
| `MapReduceProofs` | theorems about `MapReduce` | |
| `Aggregation` | the data of one job, from file names to the evaluator's input | I:12-115; W:27-223, 328-332, 519-766; TS; C:221-412 |
| `AggregationProofs` | theorems about `Aggregation` | |
| `Polling` | the coordinator's lock over time, with workers and an `Ingest` | C:416-772; W:284-316, 596-627; CL:57-69, 367-493 |
| `PollingProofs` | theorems about `Polling` | |
| `Settings` | numbers read from the environment | PW:66-90 |
| `BenefitLedger` | what the evaluator promises | E: idempotency |
| `Evaluator` | concurrent `Evaluate` calls | E:17-69, 115-478 |
| `EvaluatorProofs` | theorems about `Evaluator` | |
| `Ingestion` | concurrent `Ingest` calls, database jobs, completion marking | CL:264-450; I:47-83, 166-220; C:110-216 |
| `IngestionProofs` | theorems about `Ingestion` | |
| `Presentation` | concurrent requests, two caches with time to live | P:20-386 |
| `PresentationProofs` | theorems about `Presentation` | |
| `Scheduler` | a firing against changing tables | S:21-289; EL; EI; RL; RI |
| `SchedulerProofs` | theorems about `Scheduler` | |
| `MC...` | an instance of each for TLC | |

**Coordinator.** The variables are the fields of `Inner`, with `workers` holding
ages (in ticks, up to the timeout) where the code holds instants, and `spawned`
counting how often the completion handler was spawned. There is one action per
RPC; `get_task` is two, one for each reply. The handlers hold the mutex from
their first to their last access, so each is one step. Calls the handlers refuse
change nothing and are stuttering steps. The handlers judge liveness at several
instants microseconds apart; the model at one. The environment is unrestricted:
any worker id may make any call at any time, which covers late and repeated
reports and workers left over from an earlier run of the coordinator.

**MapReduce.** `C == INSTANCE Coordinator` on shared variables; every step of a
worker that talks to the coordinator conjoins the coordinator's action. A worker
has one step per await at which others can be observed. Files are `missing`,
`empty` or `full`; contents are left out, because two executions of one task
write the same. The variable `lapses` is history: it remembers which tasks went
wrong at a worker, so that properties can say "unless". Faults are switched on by
the constant `Faults`, see the head of the module.

**Aggregation.** The tasks of `MapReduce` again, each executed once, with their data
and without processes. Data is abstract where nothing depends on it: a time is a
day and how it was written, a line is the number of its columns, its first two
and its amount, a chunk is a text or a value of which only its length, sum and
count matter. Unsigned numbers wrap at `Modulus` (2^64 in the code); `hash` is any
assignment of keys to reduce tasks. `AggregationAssumption` says what data may be: a
line has six columns at most (`splitn(6)`); a file in the directory of an entity is
named for it, as all that is submitted is; a line of `customer.txt` has fewer than six
columns (W:143). Conversions that can fail or change a value are modelled: texts
that are no date, amounts that are no number, text that is not UTF-8, sums that
wrap and are cast, values shorter than 32 bytes, outputs that are cut off in the
middle. The properties compare what the evaluator's rules are given with a count
of the lines of the files that is written without any of these operators.

**Polling.** The second in which `get_task` sleeps with the mutex held, and everything
that waits for the mutex meanwhile, in the order tokio's fair mutex has. `ahead[c]`
are the calls that came before call c. Time passes only when nobody can do
anything at once (`Urgent`), and is counted in seconds; a task takes any time.
The settings are read as the programs read them (`Settings`), defaults included.
`MapReduce` has the same workers without this time, and with faults.

**Scheduler.** One record per firing. The JSON of a rule is a record of its kind;
`RuleInputs` and what it uses translate the code's case distinctions. `during` is
history: the tables and the time at every moment of a firing. The order of the
rows of a SELECT without ORDER BY is any.

**Evaluator.** One record per call holds its step and what it has read so far.
The choice made by the rule engine (`zen_engine`, an external library) is an
element of `Outcomes`. The INSERT is atomic; a duplicate key is an action of its
own. `Timeout` drops the call; an INSERT or write in flight stays possible.

**Ingestion.** One record per call, as in `Evaluator`. `rows` is what is committed
of `job`, `job_detail` and `job_file`, one record per database job; what an open
transaction holds is in the record of its call (`id`, `days`). `submitted` are
the coordinator jobs, in the order of their ids, each with its completion
handler. The coordinator is abstracted to what `JobService` promises: every
accepted job completes at most once, in any order. A time range is the day it
resolves to, `today` or a fixed one. The scheduler is one of the callers. The
evaluator calls at the end of a handler are one step. Faults are switched on by
`Faults` and counted up to `MaxFaults`.

**Presentation.** One record per request at work; `answer` is the answer given in
the last step. Time is in milliseconds, called ticks below, and midnight a multiple of `DayLength`.
The benefits and the evaluators of the database change at any time (`Grant`,
`Change`, external). An evaluator that is not found, inactive or outside its
dates, and one whose SELECT failed, are all the verdict FALSE, which the code
caches alike. `seen` is history: the verdicts each evaluator deserved in each
tick. Expired entries are evicted in one step, which nobody can tell from two.
The timer of a request is never late by a tick; that is what bounds the age of
what a slow request caches.

## 3. Checks

All invariants and properties are commented where they are defined.

| run | instance | shows |
|---|---|---|
| `coordinator` | 2 jobs of shapes (1 map, 1 reduce) and (2, 1), 2 worker ids, timeout 1 tick | the nine properties of `Coordinator`, among them the refinement of `JobService` |
| `mapreduce_timely` | 1 job of shape (2, 1) or (1, 2), 3 workers, timeout 2, one crash | exclusive execution, complete and stable outputs, and termination while heartbeats are timely |
| `mapreduce_faulty` | 1 job of shape (2, 1), 2 workers, timeout 1, late heartbeats and writes, one crash, lost report or I/O error | no task is forgotten except by a lost report; map workers named to a reducer have the output |
| `mapreduce_stuck` | late heartbeats only | violation: a finished job that is not done (below) |
| `evaluator` | 2 calls, 7 requests, 2 outcomes, every fault, one midnight | one outcome per evaluator, customer and day; files agree with the table |
| `evaluator_lines` | 2 calls, no fault | violation: lines run together (below) |
| `ingestion` | 2 calls, one with 4 different requests (two inputs, a job in each field, no input, no job), one fault of any kind, one midnight | rows are whole, submissions match them, ok means forwarded, completion |
| `ingestion_early` | 1 call, no fault | violation: COMPLETED before all inputs are processed (below) |
| `presentation` | 2 requests at a time, for a customer with and without an evaluator, up to 2 benefits, one change of the evaluator or failed SELECT, 3 ticks, one midnight | lists are of one moment, at most `ApiTimeout + BenefitTtl - 1` ticks ago; served benefits and refusals rest on a verdict of bounded age |
| `aggregation` | 7 requests, every choice of 4 contents for two days, every partition of 2 customers into 2 reduces, 3 output directories, numbers below 16, every fault | customers are evaluated on all of their lines, each once, or not at all; none is left out when all outputs are there; strangers come from outputs this job failed to write |
| `polling` | 3 workers, heartbeats every 2 s, timeout 5 s, one input or two, `Ingest` timeout 4 s | no running worker is judged dead when there is room for all; an `Ingest` times out only when the sleeps before it add up |
| `scheduler` | one firing, 2 evaluators, 3 rules, 2 changes, a clock of two moments, 5 inputs, 5 rows | the evaluators of a request were valid together; each job has an input for every rule of one moment |

*Bounds.* `MaxJobs` and `MaxWorkers` bound ids. Two jobs are enough for the queue
order to matter and for a job to be passed over; two workers for a task to
change hands, three for a crash to leave two that compete; two maps for a reducer
to depend on two workers, two reduces for a job to be partly done. A timeout of
one tick makes every set of workers a possible set of living ones; two ticks
leave room for heartbeats to be in time. `MaxFaults = 1` lets the one fault
happen at any point. Two `Evaluate` calls suffice for a race on a key and on a
file; a third would meet the same rows and lines. `LastDay = 1` puts one midnight
anywhere. In `Ingestion` one call has every kind of request and the other a job of
one input: enough for ids, marks and restarts of two calls to interleave. Two
calls of two inputs have too many states; `MaxFaults = 1` there for the same
reason. `MaxSubmitted` only says how far fairness and liveness quantify.
In `Presentation` the times to live and the timeout are one tick, so that
every age up to the bounds, and one tick more, can occur within 3 ticks. Two
requests at a time can overwrite each other's entries; the instance exploits that
calls are alike (SYMMETRY) and that an expired entry is as good as none (VIEW),
and checks no temporal property.
In `Aggregation` numbers below 16 overflow with three amounts; two customers and
two reduces give every partition, with one of them empty too; two days of which
either may be missing are a range with an inside and ends. In `Polling` a timeout
of 5 s is the least with room for three workers that sleep a second each and a
heartbeat every two; with the defaults (2 s, 7 s) there is room for five. The
`Ingest` timeout of 4 s is enough for one input behind three workers and not for
two. Firings of the scheduler share nothing, so one against changing tables
stands for several; two changes are what it takes to be wrong between three
SELECTs.

*Deadlock* is not checked in runs where the system may come to rest: a
MapReduce instance without faults when all jobs are done, an evaluator whose
calls have all been answered, an ingestion service whose jobs are all over, the one
job of `aggregation`, a scheduler that has ended. In `coordinator`, `presentation` and
`polling` it is checked: in `polling` it says that nobody waits for ever on the lock.

*Fairness.* `MapReduce!FairSpec` asks for weak fairness of what the code does in
loops of its own: a worker's heartbeat loop and main loop, tokio's background
writes, the completion handler, the clock, and the start of the worker
processes. It does not ask for faults nor for jobs to be submitted.
`EventuallyDone` is checked without late heartbeats; with them it is false, see
`mapreduce_stuck`. `Evaluator!FairSpec` asks that a call that can go on does:
tokio polls a ready task. `Ingestion!FairSpec` asks the same of calls, and that the
coordinator finishes a job it accepted and has not lost, which
`MapReduce!EventuallyDone` shows of it when heartbeats are timely. With late
heartbeats `mapreduce_stuck` shows a job that never completes, and its row then
stays PROCESSING.

*Mutants.* For every property of a passing run there is a mutation of the model,
the way a plausible bug of the code would read, which violates it. Mutated forms
stand directly before the definition they change, with a comment that begins
with "Mutation:".

### Disagreements found
1. **A finished job that is never done** (`mapreduce_stuck`, C:543). `finish_task`
   looks whether a job is done only in the call that completes a task. If a map
   worker counts as dead at that moment and is heard again later, nothing ever
   looks again: there is no task left to hand out or to report. That takes one
   heartbeat older than 7s, which the sleep in `get_task` under the mutex (C:756)
   makes possible with many idle workers.
2. **Lines run together** (`evaluator_lines`, E:48), against the comment at E:46.
3. **COMPLETED too early** (`ingestion_early`, C:204). The coordinator has one job
   per input, the database one per list of inputs. The first input to complete
   marks the database job and all its files, against the comment at C:111.

### Read in the code, without a run
- Failed tasks are reported finished (W:414), so that a job can be done without
  outputs; the handler reads around the gaps, which `aggregation` has.
- The idempotency key (E:311) is made of customer, evaluator and date;
  `LOAD_TEST.md:100` says customer, job and date.
- `Ingest` has 200 ms by default (CL:57), one idle worker holds the coordinator's
  lock for a second at a time (C:756): `SubmitJob` then times out and takes the whole
  `Ingest` with it, although forwarding is "best-effort" (CL:404). The rows are
  committed by then and stay PROCESSING. With the default timeout of 7 s there is
  room for five workers in `JudgedAlive`, and none for a sixth.
- `SchedulerConfig` says "Time of the run is fully decided by this config"
  (`crates/pkg/src/config/scheduler.rs:5`, by default daily at 02:00); the binary does not
  read it, fires every ten seconds and ends after a hundred.
- An evaluator without active rules is still given a default input, and the
  evaluations of that job take the day's idempotency keys.
- Job ids begin anew with the coordinator and the output directory stays: a
  reduce that failed is read from an old run's output (`StrangersComeFromGaps`). The
  repository itself ships such outputs in `data/output`.
- When all reduces fail, as with a missing day of a range, the handler reads the
  sources; when only some fail, their customers are left out without a word.
- An entity without an application is reduced by joining values, of which the
  handler reads the first 32 bytes. The keys "1" and "01" are two customers to the
  sums and one to the evaluator. A job of customers evaluates sums of 0.
- Sums wrap in a release build and panic in a debug build.
- Worker ports are the initial port plus the worker id (W:768). Ids begin anew with
  the coordinator: a new worker whose port is still taken by an old one fails to
  bind without notice (W:791), and its map outputs are asked of the old one.

Not a disagreement with a text, but worth knowing: `presentation` bounds the age of
a list across midnight, not its day. A list cached before midnight is served after
it for the rest of its life, whereas the query asks for benefits created today.
And a verdict FALSE from a single failed SELECT is kept for the whole
`EVALUATOR_CACHE_TTL_MS`, and the lists thinned out by it for
`BENEFIT_CACHE_TTL_MS` more.

## 4. Proofs

`CoordinatorProofs` proves, for every value of the constants that satisfies
`CoordinatorAssumption` (initial ids are naturals, the timeout is positive, the
bounds are naturals, `Shapes` is any set of shapes), everything the run
`coordinator` checks:

| theorem | property |
|---|---|
| `TypeCorrect` | `TypeOK` |
| `QueueCorrect` | `QueueListsJobs` |
| `OwnerCorrect` | `OwnerRecorded` |
| `DoneCorrect` | `DoneMeansCompleted` |
| `SpawnedCorrect` | `CompletionSpawnedOnce` |
| `DoneFinal` | `DoneIsFinal` |
| `ReducesCorrect` | `ReducesNeedLiveMaps` |
| `OwnerKeepsTask` | `LiveOwnerKeepsTask` |
| `Refinement` | `ImplementsJobService` |

The argument has two layers. `QueueInv`, that is `TypeOK` with `QueueListsJobs`,
is inductive: the queue is needed to know that the job `get_task` picks exists and
that its record has the task offered. On top of it `CompletionInv`, that is
`OwnerRecorded`, `DoneMeansCompleted` and `CompletionSpawnedOnce`, is preserved:
only a job that is open is ever changed, and the step that sets `done` sees every
other task Completed. The action properties follow from two lemmas,
`FinishedTask` and `AssignedTask`, that say which single task record a step may
change and under which condition. The refinement maps `done` to the set of done
jobs and `announced` to `spawned`.

`MapReduceProofs` proves, for every value of the constants that satisfies
`MapReduceAssumption` (what `CoordinatorAssumption` asks, and any set and number
of the faults it names):

| theorem | property |
|---|---|
| `Refinement` | `C!Spec`: `MapReduce` implements `Coordinator` |
| `TypeCorrect` | `TypeOK` |
| `NothingForgotten` | `NoForgottenTask` |
| `MapsServed` | `AssignedMapsServed` |
| `Exclusive` | `TaskExclusive` |
| `OutputsKept` | `DoneOutputsKept`, assuming that heartbeats are timely |
| `HandlerCorrect` | `HandlerSeesFullOutputs` |

What a worker does is a call of the coordinator or none of its business. So
`MapReduce` implements `Coordinator`, and the theorems of `CoordinatorProofs`, which
know nothing of the callers, hold of it (`CoordinatedAlways`). On top of them `Base`
is inductive: which processes run, that a busy worker executes a task of a job
that exists, that the coordinator names registered workers only, that nothing is
held or written for a task that does not exist. `RecordStep` and `TaskStep` say how
one task record, and what one worker executes, can change; the other proofs use
them in place of the actions. `NoForgottenTask` is inductive given `Base`.
`AssignedMapsServed` needs the same of its sources: the record of a completed map
(`RecordsServed`) and a report under way (`ReportsServed`) are of an output that is
held. With timely heartbeats a running worker is always alive to the coordinator
(`RunningAlive`), so that `LiveOwnerKeepsTask` applies, and a busy worker owns the
task it executes (`BusyOwns`): exclusion, and that nobody writes to the outputs of
a done job, follow. For `HandlerSeesFullOutputs` a report, then a completed record,
then an entry of the handler are each of an output that is complete.

`EvaluatorProofs` proves, for every value of the constants that satisfies
`EvaluatorAssumption` (ids are naturals, `NoBenefits` is an outcome, any set of
faults, any number of calls and days):

| theorem | property |
|---|---|
| `TypeCorrect` | `TypeOK` |
| `LinesCorrect` | `LinesMatchRows` |
| `AnsweredCorrect` | `AnsweredMeansGranted` |
| `Refinement` | `ImplementsLedger`: `Evaluator` implements `BenefitLedger` |

`Types` makes `TypeOK` inductive: it adds that the customer and the day of a call are
those of its request and of a day that has come, and that only answered calls have
an answer. `Progress` says what any step does to any call: none goes back, and
whoever goes on keeps its customer and day. With it `Rows` is preserved: the key of
a row is made of its own columns, rows are of calls past their INSERT, and a call
that is to append a line has its row. `LinesMatchRows` needs besides that a call that
may still write has no line yet. The three facts give the answers, and the INSERT
that finds no duplicate is a `Grant` of the ledger because the key decides customer,
evaluator and day.

`IngestionProofs` proves, for every value of the constants that satisfies
`IngestionAssumption` (requests are sequences of jobs, jobs sequences of inputs; any
number of calls, requests, inputs, faults and days):

| theorem | property |
|---|---|
| `TypeCorrect` | `TypeOK` |
| `WholeJobs` | `JobsAreWhole` |
| `RowsMatched` | `SubmittedMatchesRow` |
| `AnsweredCorrect` | `AnsweredMeansForwarded` |

`Types` is inductive and gives the first three. It says of a call that its ids are
those of the rows it committed, one per job, and that the details of an open
transaction were resolved on days that have come (`GoodCall`); of a row that it has
the details of all the inputs of one job of one request (`GoodRow`); of a coordinator
job that it is about the row of its input, on the day recorded there or a later one
(`GoodSubmission`); and that no two open transactions have the same id. A commit only
adds a row, completion handlers only mark rows and days only go on, all of which keeps
what holds of everything else (`CallKept`, `RowKept`, `SubmissionKept`).

`AnsweredMeansForwarded` is about a loop over `Inputs(req)`, the inputs of all jobs one
after the other. `InputsEnumerate` proves that this sequence has each input once, by
induction over the jobs: the induction theorems of the library take an operator and
cannot be used, so `Induction` derives the principle for a set of numbers from the
well-foundedness of `<`, and `FlattensExists` builds the function that `FlattenSeq`
defines by recursion. With it `Forwarding` is inductive: an input the loop has reached
was submitted once, or logged as failed and not submitted; any other was neither.

`PollingProofs` proves, for every value of the constants that satisfies
`PollingAssumption` (finitely many workers and at least one, a sleep takes time, every
setting is a natural number):

| theorem | property |
|---|---|
| `TypeCorrect` | `TypeOK` |
| `JudgedCorrect` | `JudgedAlive` |
| `ForwardedCorrect` | `ForwardedInTime` |

The calls that wait for the lock are in one total order (`Queue`), and whoever sleeps
with the lock held is a worker's `get_task` that no longer waits (`Lock`). So the longest
a call has still to wait, `Remaining`, is what is left of the sleep under way and one
sleep for each worker with a call before it. `BeatsHeard` bounds the age of a worker
together with the rest of its pause, or with `Remaining` once its heartbeat waits:
every second takes as much from the one as it adds to the other. When a worker is judged,
the judge is next for the lock, ahead of any heartbeat that waits, and its own sleep is
still to come: `Remaining` of that heartbeat counts it still, so at most N - 1 sleeps of
N workers lie behind. That is the property's bound. `Forwarded` does the same for the
`SubmitJob` under way and, N sleeps each, for those that are left.

`PresentationProofs` proves, for every value of the constants that satisfies
`PresentationAssumption` (benefits are of an evaluator, the times to live and the day are
positive; any requests, benefits, timeout, and number of overlapping calls):

| theorem | property |
|---|---|
| `TypeCorrect` | `TypeOK` |
| `ListsCorrect` | `ListsAreRecent` |
| `ServedCorrect` | `ServedWereValid` |
| `RefusalsCorrect` | `RefusalsAreRecent` |

Whatever a call or a cache knows is said relative to a moment: `Recent(req, rows,
pending, m)`, that the rows kept so far and those still to be checked are what the table
said at one moment since m, save for benefits whose evaluators got a negative verdict; and
`SeenSince(e, verdict, m)`. For a call the moment is its start (`Good`), for an entry of a
cache the earliest start of a call that can have made it, `expiry - ttl - ApiTimeout`
(`ListCached`, `VerdictCached`). Time, the table and the history only grow (`Grows`), which
keeps what was known (`SeenKept`, `ReadKept`, `GoodKept`, `CachedKept`), so a step has only
to account for the one call and the one entry it changes. An entry found alive is less than
a time to live after its expiry was set, and a call at most a timeout after its start: the
two make `ListAge` and `VerdictAge`. A call that prolonged an old verdict or list would
break the invariant at the insertion.

`SchedulerProofs` proves, for every value of the constants that satisfies
`SchedulerAssumption` and `InputsAreJson` (the tables have finitely many rows of the
right columns, an array of JSON is a sequence; any number of firings, changes and moments):

| theorem | property |
|---|---|
| `TypeCorrect` | `TypeOK` |
| `OneMomentCorrect` | `EvaluatorsOfOneMoment` |
| `RulesHeard` | `JobsHearEveryRule` |

`FiringGood(moments, state)` says what a firing knows of the moments it has lived through,
of which there are only ever more (`KnowsMore`), so that changes of the tables cost one
lemma (`Watched`). A firing under way has lived through the present moment; a SELECT adds
that moment as the witness. While rules are read, the evaluators with a job and those to
come are together the ones valid at a moment, and the lengths add up to their number
(`Reading`), which makes each occur once: a row order has as many elements as the set
(`OrderedIs`). `JobHears` computes the keys of a job, by induction over the rules
(`FlattenElements`), and that a rule never disappears, whatever its JSON.

`AggregationProofs` proves, for every value of the constants that satisfies
`AggregationAssumption` (an even modulus; any keys and what they read, save that "" is
none and "unknown" is not a number; any files of the kind above with any lines, any
ranges, partitions, number of reduces, outputs of earlier runs, and faults):

| theorem | property |
|---|---|
| `TypeCorrect` | `TypeOK` |
| `WholeOrAbsentCorrect` | `WholeOrAbsent` |
| `NobodyLeftOutCorrect` | `NobodyLeftOut` |
| `StrangersCorrect` | `StrangersComeFromGaps` |

The inductive invariant `Inv` is about what is stored. A map task has not run, has no
output, or has the one its inputs determine (`Ideal`); the output of a reduce is a
beginning of the one that all the maps' outputs determine (`Expected`), and is only
there when they are (`ReducesGood`); the evaluator was sent what the handler makes of
the files. Steps preserve it because they store such values and nothing else. The
properties are then a matter of data, of sequences and sums of any length.

`Listed(s, R, V)` says that a sequence of pairs has one element for each member of a
set R, of the value V gives it, and none besides. A map function lists the lines of its
file (`MapLists`), filtering lists a subset (`FilterLists`), joining the files lists their
union (`FlattenLists`), a cut output lists those keys that were reached (`PrefixLists`).
What is summed over a sequence that lists R is summed over R (`SumLists`, from
`SumMoved`). So a reduce says of each of its keys what all lines say (`GroupsLists`,
`ExpectedLists`), and since a key is in one partition only, what is read of all outputs
is for each key nothing or the whole (`ReducedLists`); the fallback lists the
transactions of the source files (`SourceLists`). The two meet in `RowsAre`: what the
handler aggregates is one or the other and never a mixture; a fallback that filled in
single gaps would break it. `RecordsAre` and `AboutCounted` identify these sets with
`Records`, which the properties count.

The sums, `Keep` and `FlattenSeq` are recursive functions; that each is the function its
recursion says is proved once, by `Induction` as in `IngestionProofs`.

Model-checked only: liveness, which is out of TLAPS's reach together with ENABLED
(`EventuallyDone`, `EventuallyFiled`, `EventuallyCompleted`). The three properties of the
violation runs do not hold. Every other property of a run is proved.

## 5. Plan

Done: `JobService`, `Coordinator`, `MapReduce`, and their proofs; `BenefitLedger`,
`Evaluator`, and its proofs; `Ingestion`, and its proofs; `Presentation`, `Polling` and
`Scheduler`, and their proofs; `Aggregation`, and its proofs.

Left: the restart of a coordinator under surviving workers, which needs processes, ids
and ports apart.

## 6. Not modelled

- The rule engine (`zen_engine`, external): its outcome is any.
- Timing finer than seconds and, in `Presentation`, than a tick.
- The restart of a coordinator together with its workers, and their ports.
- `read_and_log_file` (W:425-511), which only logs; the count of debits and credits
  of a summary, which nobody reads; the columns that queries carry along.
- The servers' mains and the wiring of RPCs; generated protocol code.
- `remove_job` (no caller) and `fail_task` (no effect); `failed` and `errors` of a
  job, which nothing sets.
- Overflow of the u32 ids: four billion jobs in one run.
- Everything listed as not modelled in `PROJECT.json`.
