------------------------------ MODULE Polling ------------------------------
(***************************************************************************)
(* The coordinator's lock over time.  get_task, when there is nothing to   *)
(* do, sleeps with the lock held, and every other call waits for it:       *)
(* heartbeats, by whose age a worker counts as alive, the reports and the  *)
(* next requests of the workers, and the SubmitJob calls which Ingest      *)
(* makes one after the other under a timeout of its own.                   *)
(*                                                                         *)
(* The lock is a Mutex of tokio, which is fair: calls get it in the order  *)
(* they came.  Time is counted in seconds and passes only while somebody   *)
(* sleeps or works; what the programs compute in between takes none.  A    *)
(* task may take any time.  No call is lost and nobody dies: MapReduce has *)
(* the late heartbeats, the lost reports and the crashes.                  *)
(***************************************************************************)
EXTENDS Integers, FiniteSets, Settings

CONSTANTS
  Workers,
  Hold,           \* the sleep of get_task, 1 in the code
  MaxInputs       \* of an Ingest call

-----------------------------------------------------------------------------
(* Settings *)

\* In seconds.
HeartbeatInterval == Setting("HEARTBEAT_INTERVAL_MS", 2)
WaitTime == Setting("WAIT_TIME_MS", 1)
TaskTimeout == Setting("TASK_TIMEOUT_SECS", 7)

\* api_timeout, counted from the first SubmitJob: the default, 200 ms, is over
\* before any second is.
IngestTimeout == Setting("GRPC_TIMEOUT_MS", Setting("API_TIMEOUT_MS", 0))

ASSUME PollingAssumption ==
  /\ IsFiniteSet(Workers) /\ Workers # {}
  /\ HeartbeatInterval \in Nat /\ WaitTime \in Nat /\ TaskTimeout \in Nat
  /\ Hold \in Nat \ {0} /\ IngestTimeout \in Nat /\ MaxInputs \in Nat

-----------------------------------------------------------------------------
Main(w) == <<"main", w>>       \* register, get_task or finish_task
Beat(w) == <<"beat", w>>       \* heartbeat
Submission == <<"submit", "ingest">>

Loops == {"main", "beat"} \X Workers
Calls == Loops \cup {Submission}
Nobody == <<"none", "none">>

VARIABLES
  waiting,  \* the calls that wait for the lock
  ahead,    \* of each, those that came before it
  holder,   \* the call that sleeps with the lock held
  rest,     \* for how long it goes on
  main,     \* what each worker does
  pause,    \* how long each loop of each worker sleeps
  age,      \* of the last heartbeat of each worker
  ingest    \* the inputs of an Ingest call, those left to forward, its time

NoIngest == [inputs |-> 0, left |-> 0, time |-> 0]

vars == <<waiting, ahead, holder, rest, main, pause, age, ingest>>

Init ==
  /\ waiting = {} /\ ahead = [c \in Calls |-> {}]
  /\ holder = Nobody /\ rest = 0
  /\ main = [w \in Workers |-> "off"]
  /\ pause = [c \in Loops |-> 0]
  /\ age = [w \in Workers |-> 0]
  /\ ingest = NoIngest

Registered(w) == main[w] \notin {"off", "registering"}

-----------------------------------------------------------------------------
(* The lock *)

\* `self.inner.lock().await`
Enqueue(c) ==
  /\ waiting' = waiting \cup {c}
  /\ ahead' = [ahead EXCEPT ![c] = waiting]

Leave(c) ==
  /\ waiting' = waiting \ {c}
  /\ ahead' = [d \in Calls |-> ahead[d] \ {c}]

Gets(c) == c \in waiting /\ ahead[c] = {} /\ holder = Nobody

-----------------------------------------------------------------------------
(* A worker *)

Start(w) ==
  /\ main[w] = "off"
  /\ main' = [main EXCEPT ![w] = "registering"]
  /\ Enqueue(Main(w))
  /\ UNCHANGED <<holder, rest, pause, age, ingest>>

RequestTask(w) ==
  /\ main[w] = "ready" /\ pause[Main(w)] = 0
  /\ main' = [main EXCEPT ![w] = "requesting"]
  /\ Enqueue(Main(w))
  /\ UNCHANGED <<holder, rest, pause, age, ingest>>

\* The task is done, after however long.
Report(w) ==
  /\ main[w] = "working"
  /\ main' = [main EXCEPT ![w] = "reporting"]
  /\ Enqueue(Main(w))
  /\ UNCHANGED <<holder, rest, pause, age, ingest>>

\* Mutation: the loop does not wait for the reply.
BeatDueUnanswered(w) == Registered(w) /\ pause[Beat(w)] = 0

BeatDue(w) == Registered(w) /\ Beat(w) \notin waiting /\ pause[Beat(w)] = 0

SendHeartbeat(w) ==
  /\ BeatDue(w)
  /\ Enqueue(Beat(w))
  /\ UNCHANGED <<holder, rest, main, pause, age, ingest>>

-----------------------------------------------------------------------------
(* The coordinator *)

Register(w) ==
  /\ Gets(Main(w)) /\ main[w] = "registering"
  /\ Leave(Main(w))
  /\ main' = [main EXCEPT ![w] = "ready"]
  /\ age' = [age EXCEPT ![w] = 0]
  /\ UNCHANGED <<holder, rest, pause, ingest>>

\* A worker that is known does not become younger by asking.
GetTask(w) ==
  /\ Gets(Main(w)) /\ main[w] = "requesting"
  /\ Leave(Main(w))
  /\ main' = [main EXCEPT ![w] = "working"]
  /\ UNCHANGED <<holder, rest, pause, age, ingest>>

\* Mutation: a longer delay.
DelayLonger == 2 * Hold

Delay == Hold

\* Nothing to do: the sleep, with the lock held.
GetNothing(w) ==
  /\ Gets(Main(w)) /\ main[w] = "requesting"
  /\ Leave(Main(w))
  /\ holder' = Main(w) /\ rest' = Delay
  /\ UNCHANGED <<main, pause, age, ingest>>

\* The answer `wait`, on which the worker sleeps in turn.
AnswerWait(w) ==
  /\ holder = Main(w) /\ rest = 0
  /\ holder' = Nobody
  /\ main' = [main EXCEPT ![w] = "ready"]
  /\ pause' = [pause EXCEPT ![Main(w)] = WaitTime]
  /\ UNCHANGED <<waiting, ahead, rest, age, ingest>>

FinishTask(w) ==
  /\ Gets(Main(w)) /\ main[w] = "reporting"
  /\ Leave(Main(w))
  /\ main' = [main EXCEPT ![w] = "ready"]
  /\ UNCHANGED <<holder, rest, pause, age, ingest>>

\* Mutation: a worker that is known keeps its time.
HeardOnce(w) == age

Heard(w) == [age EXCEPT ![w] = 0]

\* The reply is waited for before the sleep begins.
Heartbeat(w) ==
  /\ Gets(Beat(w))
  /\ Leave(Beat(w))
  /\ age' = Heard(w)
  /\ pause' = [pause EXCEPT ![Beat(w)] = HeartbeatInterval]
  /\ UNCHANGED <<holder, rest, main, ingest>>

-----------------------------------------------------------------------------
(* The ingestion service *)

Ingest(n) ==
  /\ ingest = NoIngest
  /\ ingest' = [inputs |-> n, left |-> n, time |-> 0]
  /\ UNCHANGED <<waiting, ahead, holder, rest, main, pause, age>>

ForwardDue == ingest.left > 0 /\ Submission \notin waiting

Forward ==
  /\ ForwardDue
  /\ Enqueue(Submission)
  /\ UNCHANGED <<holder, rest, main, pause, age, ingest>>

SubmitJob ==
  /\ Gets(Submission)
  /\ Leave(Submission)
  /\ ingest' = IF ingest.left = 1 THEN NoIngest ELSE [ingest EXCEPT !.left = @ - 1]
  /\ UNCHANGED <<holder, rest, main, pause, age>>

IngestOverdue == ingest.left > 0 /\ ingest.time >= IngestTimeout

\* The handler is dropped and with it the call that waits.
TimesOut ==
  /\ IngestOverdue
  /\ Leave(Submission)
  /\ ingest' = NoIngest
  /\ UNCHANGED <<holder, rest, main, pause, age>>

-----------------------------------------------------------------------------
(* Time *)

Urgent ==
  \/ holder = Nobody /\ waiting # {}
  \/ holder # Nobody /\ rest = 0
  \/ ForwardDue \/ IngestOverdue
  \/ \E w \in Workers :
       BeatDue(w) \/ (main[w] = "ready" /\ pause[Main(w)] = 0)

Less(n) == IF n > 0 THEN n - 1 ELSE 0

Tick ==
  /\ ~ Urgent
  /\ rest' = Less(rest)
  /\ pause' = [c \in Loops |-> Less(pause[c])]
  /\ age' = [w \in Workers |-> IF Registered(w) THEN age[w] + 1 ELSE 0]
  /\ ingest' = IF ingest.left > 0 THEN [ingest EXCEPT !.time = @ + 1] ELSE ingest
  /\ UNCHANGED <<waiting, ahead, holder, main>>

WorkerStep(w) ==
  Start(w) \/ RequestTask(w) \/ Report(w) \/ SendHeartbeat(w)

CoordinatorStep(w) ==
  \/ Register(w) \/ GetTask(w) \/ GetNothing(w) \/ AnswerWait(w)
  \/ FinishTask(w) \/ Heartbeat(w)

Next ==
  \/ \E w \in Workers : WorkerStep(w) \/ CoordinatorStep(w)
  \/ \E n \in 1 .. MaxInputs : Ingest(n)
  \/ Forward \/ SubmitJob \/ TimesOut \/ Tick

Spec == Init /\ [][Next]_vars

-----------------------------------------------------------------------------
N == Cardinality(Workers)

\* Types.  A call waits once, nobody waits for itself, and the call that sleeps
\* with the lock held is a get_task that no longer waits.
TypeOK ==
  /\ waiting \subseteq Calls
  /\ ahead \in [Calls -> SUBSET Calls]
  /\ \A c \in waiting : ahead[c] \subseteq waiting \ {c}
  /\ holder \in Calls \cup {Nobody} /\ holder \notin waiting
  /\ rest \in Nat
  /\ main \in [Workers ->
       {"off", "registering", "ready", "requesting", "working", "reporting"}]
  /\ pause \in [Loops -> Nat] /\ age \in [Workers -> Nat]
  /\ ingest \in [inputs : Nat, left : Nat, time : Nat]

\* Enough room between heartbeats and timeout for one sleep of each other worker.
RoomForAll == HeartbeatInterval + (N - 1) * Hold < TaskTimeout

\* get_task and finish_task judge workers when they have the lock.
Judges(w) == Gets(Main(w)) /\ main[w] \in {"requesting", "reporting"}

\* When there is room for all, no worker that runs is ever judged dead: although
\* heartbeats wait behind every get_task that sleeps with the lock held (get_task,
\* Worker::run), they are heard before the timeout.  With the defaults that is so
\* for five workers, and not for six.
JudgedAlive ==
  RoomForAll =>
    \A v \in Workers : Judges(v) =>
      \A w \in Workers : Registered(w) => age[w] < TaskTimeout

\* An Ingest call times out while it forwards only if its inputs, each behind one
\* sleep of every worker, take as long (handle_ingest, handle_ingest_inner and
\* get_task).  With the defaults, 200 ms and a second, one idle worker is enough.
ForwardedInTime ==
  ingest.left > 0 /\ ingest.inputs * N * Hold < IngestTimeout =>
    ingest.time < IngestTimeout
=============================================================================
