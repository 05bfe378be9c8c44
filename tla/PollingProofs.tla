--------------------------- MODULE PollingProofs ---------------------------
(***************************************************************************)
(* Theorems about Polling, for every number of workers, every setting of   *)
(* the intervals and timeouts and every number of inputs.                  *)
(***************************************************************************)
EXTENDS Polling, FiniteSetTheorems, TLAPS

(* The inductive invariant *)

\* The lock's queue is a total order of the calls that wait.
Queue ==
  /\ waiting \subseteq Calls
  /\ ahead \in [Calls -> SUBSET Calls]
  /\ \A c \in waiting : ahead[c] \subseteq waiting \ {c}
  /\ \A c, d \in waiting : c = d \/ c \in ahead[d] \/ d \in ahead[c]

Asks(w) == main[w] \in {"registering", "requesting", "reporting"}

\* A worker waits for the lock while it asks, unless it sleeps with it held.
Lock ==
  /\ holder \in {Main(w) : w \in Workers} \cup {Nobody}
  /\ rest \in 0 .. Hold
  /\ \A w \in Workers :
       /\ holder = Main(w) => main[w] = "requesting"
       /\ Main(w) \in waiting <=> Asks(w) /\ holder # Main(w)
       /\ Beat(w) \in waiting => Registered(w)

Timers ==
  /\ main \in [Workers ->
       {"off", "registering", "ready", "requesting", "working", "reporting"}]
  /\ pause \in [Loops -> Nat] /\ age \in [Workers -> Nat]
  /\ ingest \in [inputs : Nat, left : Nat, time : Nat]
  /\ ingest.left <= ingest.inputs
  /\ ingest.left = 0 => ingest.time = 0 /\ Submission \notin waiting

\* The workers that may yet sleep with the lock held before call c gets it.
Sleepers(c) == {w \in Workers : Main(w) \in ahead[c]}

Sleep == IF holder = Nobody THEN 0 ELSE rest

\* The longest that call c has still to wait.
Remaining(c) == Hold * Cardinality(Sleepers(c)) + Sleep

\* A heartbeat is as old as the pause of its loop is over, and once it waits for
\* the lock the age and the wait are bounded together.
BeatsHeard ==
  \A w \in Workers :
    /\ Beat(w) \notin waiting => age[w] + pause[Beat(w)] <= HeartbeatInterval
    /\ Beat(w) \in waiting => age[w] + Remaining(Beat(w)) <= HeartbeatInterval + N * Hold

\* An input takes one sleep of every worker at most, and those left take as long each.
Forwarded ==
  ingest.left > 0 =>
    /\ Submission \notin waiting =>
         ingest.time + ingest.left * (N * Hold) <= ingest.inputs * (N * Hold)
    /\ Submission \in waiting =>
         ingest.time + Remaining(Submission) + (ingest.left - 1) * (N * Hold)
           <= ingest.inputs * (N * Hold)

Types == Queue /\ Lock /\ Timers

-----------------------------------------------------------------------------
(* Numbers and names *)

\* A product grows with its factors.
LEMMA Products ==
  ASSUME NEW k \in Nat
  PROVE  /\ \A m \in Nat : k * m \in Nat /\ k * m = m * k
         /\ \A m, n \in Nat : m <= n => k * m <= k * n
         /\ \A n \in Nat \ {0} : k * (n - 1) + k = k * n
  OBVIOUS

\* The number of workers.
LEMMA Size == N \in Nat \ {0} /\ IsFiniteSet(Workers) /\ Hold \in Nat \ {0} /\ N * Hold \in Nat
  <1>1. N \in Nat \ {0} /\ IsFiniteSet(Workers)
    BY PollingAssumption, FS_CardinalityType, FS_EmptySet DEF N
  <1>2. Hold \in Nat \ {0}
    BY PollingAssumption
  <1>3. QED
    BY <1>1, <1>2, Products

\* Calls of different workers or kinds are different.
LEMMA Names ==
  /\ \A w \in Workers : Main(w) \in Loops /\ Beat(w) \in Loops
  /\ \A w \in Workers : Main(w) # Submission /\ Beat(w) # Submission
  /\ \A w \in Workers : Main(w) # Nobody /\ Beat(w) # Nobody
  /\ \A v, w \in Workers : Main(v) # Beat(w)
  /\ \A v, w \in Workers : Main(v) = Main(w) => v = w
  /\ \A v, w \in Workers : Beat(v) = Beat(w) => v = w
  /\ Submission # Nobody
  /\ Loops \subseteq Calls /\ Submission \in Calls /\ Calls = Loops \cup {Submission}
  BY DEF Main, Beat, Submission, Nobody, Loops, Calls

\* Every loop is one of a worker.
LEMMA LoopNames == \A c \in Loops : \E w \in Workers : c = Main(w) \/ c = Beat(w)
  BY DEF Main, Beat, Loops

-----------------------------------------------------------------------------
(* The queue *)

\* The wait of a call is a number, whatever is in the queue.
LEMMA RemainingType ==
  ASSUME Types, NEW c
  PROVE  /\ IsFiniteSet(Sleepers(c)) /\ Cardinality(Sleepers(c)) \in 0 .. N
         /\ Sleep \in 0 .. Hold /\ Remaining(c) \in Nat
  <1>1. Sleepers(c) \in SUBSET Workers
    BY DEF Sleepers
  <1>2. IsFiniteSet(Sleepers(c)) /\ Cardinality(Sleepers(c)) <= N
    BY <1>1, Size, FS_Subset DEF N
  <1>3. PICK n : n = Cardinality(Sleepers(c))
    OBVIOUS
  <1>4. n \in Nat
    BY <1>2, <1>3, FS_CardinalityType
  <1>5. PICK s : s = Sleep
    OBVIOUS
  <1>6. s \in 0 .. Hold /\ Hold \in Nat
    BY <1>5, Size DEF Sleep, Types, Lock
  <1>7. Hold * n \in Nat
    BY <1>4, <1>6, Products
  <1>8. Remaining(c) = Hold * n + s
    BY <1>3, <1>5 DEF Remaining
  <1>9. QED
    BY <1>2, <1>3, <1>4, <1>5, <1>6, <1>7, <1>8, Size

\* A call that comes goes to the end.
LEMMA Enqueued ==
  ASSUME Queue, NEW c \in Calls, c \notin waiting, Enqueue(c)
  PROVE  /\ Queue'
         /\ waiting' = waiting \cup {c}
         /\ \A d \in Calls : ahead'[d] = IF d = c THEN waiting ELSE ahead[d]
  BY DEF Queue, Enqueue

\* A call that goes leaves the others in their order.
LEMMA Left ==
  ASSUME Queue, NEW c \in Calls, Leave(c)
  PROVE  /\ Queue'
         /\ waiting' = waiting \ {c}
         /\ \A d \in Calls : ahead'[d] = ahead[d] \ {c}
  BY DEF Queue, Leave

\* The call that gets the lock is ahead of all others.
LEMMA GetsFirst ==
  ASSUME Queue, NEW c, Gets(c), NEW d \in waiting, d # c
  PROVE  c \in ahead[d]
  BY DEF Queue, Gets

\* A call that joins the queue waits for one sleep of every worker at most: the one that
\* sleeps does not wait.
LEMMA EnqueuedWait ==
  ASSUME Types, NEW c \in Calls, c \notin waiting, Enqueue(c), UNCHANGED <<holder, rest>>
  PROVE  Remaining(c)' \in Nat /\ Remaining(c)' <= N * Hold
  <1>1. ahead'[c] = waiting
    BY Enqueued DEF Types
  <1>2. PICK S : S = {w \in Workers : Main(w) \in waiting}
    OBVIOUS
  <1>3. Sleepers(c)' = S
    BY <1>1, <1>2 DEF Sleepers
  <1>4. S \in SUBSET Workers /\ IsFiniteSet(S)
    BY <1>2, Size, FS_Subset
  <1>5. PICK n : n = Cardinality(S)
    OBVIOUS
  <1>6. n \in Nat /\ n <= N
    BY <1>4, <1>5, Size, FS_Subset, FS_CardinalityType DEF N
  <1>7. Remaining(c)' = Hold * n + Sleep
    BY <1>3, <1>5 DEF Remaining, Sleep
  <1>8. Hold \in Nat \ {0} /\ N \in Nat \ {0} /\ Sleep \in 0 .. Hold /\ Hold * n \in Nat
        /\ N * Hold = Hold * N /\ Hold * N \in Nat
    BY <1>6, Size, RemainingType, Products
  <1>9. CASE holder = Nobody
    <2>1. Sleep = 0 /\ Hold * n <= Hold * N
      BY <1>6, <1>8, <1>9, Products DEF Sleep
    <2>2. QED
      BY <2>1, <1>7, <1>8
  <1>10. CASE holder # Nobody
    <2>1. PICK u \in Workers : holder = Main(u)
      BY <1>10 DEF Types, Lock
    <2>2. u \notin S
      BY <1>2, <2>1 DEF Types, Lock
    <2>3. n <= N - 1
      BY <1>4, <1>5, <1>6, <2>2, Size, FS_Subset DEF N
    <2>4. Hold * n <= Hold * (N - 1) /\ Hold * (N - 1) + Hold = Hold * N
          /\ Hold * (N - 1) \in Nat
      BY <1>6, <1>8, <2>3, Products
    <2>5. QED
      BY <1>7, <1>8, <2>4
  <1>11. QED
    BY <1>9, <1>10

\* It takes nothing longer when others have fewer ahead of them and nobody sleeps longer.
LEMMA WaitShrinks ==
  ASSUME Types, NEW c \in Calls, ahead'[c] \subseteq ahead[c], Sleep' \in 0 .. Sleep
  PROVE  Remaining(c)' \in Nat /\ Remaining(c)' + (Sleep - Sleep') <= Remaining(c)
  <1>1. PICK S, S2 : S = Sleepers(c) /\ S2 = Sleepers(c)'
    OBVIOUS
  <1>2. S2 \in SUBSET S /\ IsFiniteSet(S)
    BY <1>1, RemainingType DEF Sleepers
  <1>3. PICK m, n : m = Cardinality(S2) /\ n = Cardinality(S)
    OBVIOUS
  <1>4. m \in Nat /\ n \in Nat /\ m <= n
    BY <1>2, <1>3, FS_Subset, FS_CardinalityType
  <1>5. Hold * m \in Nat /\ Hold * n \in Nat /\ Hold * m <= Hold * n
    BY <1>4, Size, Products
  <1>6. Remaining(c) = Hold * n + Sleep /\ Remaining(c)' = Hold * m + Sleep'
    BY <1>1, <1>3 DEF Remaining
  <1>7. Sleep \in 0 .. Hold /\ Hold \in Nat
    BY RemainingType, Size
  <1>8. QED
    BY <1>5, <1>6, <1>7

\* The sleep of a worker was counted while it waited.
LEMMA SleepCounted ==
  ASSUME Types, NEW w \in Workers, Gets(Main(w)), Leave(Main(w)), holder' = Main(w),
         rest' = Hold, NEW c \in waiting, c # Main(w)
  PROVE  Remaining(c)' = Remaining(c)
  <1>1. Main(w) \in ahead[c] /\ c \in Calls /\ Main(w) \in Calls
    BY GetsFirst, Names DEF Types, Queue
  <1>2. PICK S, S2 : S = Sleepers(c) /\ S2 = Sleepers(c)'
    OBVIOUS
  <1>3. S2 = S \ {w} /\ w \in S /\ IsFiniteSet(S)
    <2>1. ahead'[c] = ahead[c] \ {Main(w)}
      BY <1>1, Left DEF Types
    <2>2. S2 = {v \in Workers : Main(v) \in ahead[c] /\ Main(v) # Main(w)}
      BY <1>2, <2>1 DEF Sleepers
    <2>3. S = {v \in Workers : Main(v) \in ahead[c]} /\ IsFiniteSet(S)
      BY <1>2, RemainingType DEF Sleepers
    <2>4. QED
      BY <1>1, <2>2, <2>3, Names
  <1>4. PICK n : n = Cardinality(S)
    OBVIOUS
  <1>5. Cardinality(S2) = n - 1 /\ n \in Nat
    BY <1>3, <1>4, FS_RemoveElement, FS_CardinalityType
  <1>6. n # 0
    BY <1>3, <1>4, FS_EmptySet
  <1>7. Sleep = 0 /\ Sleep' = Hold
    BY Names DEF Gets, Sleep
  <1>8. Hold * (n - 1) + Hold = Hold * n /\ Hold * (n - 1) \in Nat /\ Hold * n \in Nat /\ Hold \in Nat
    BY <1>5, <1>6, Size, Products
  <1>9. QED
    BY <1>2, <1>4, <1>5, <1>7, <1>8 DEF Remaining

-----------------------------------------------------------------------------
(* Types *)

\* Types holds initially.
LEMMA TypesInit == Init => Types
  <1> SUFFICES ASSUME Init PROVE Types
    OBVIOUS
  <1>1. Queue
    BY DEF Init, Queue
  <1>2. Lock
    BY Size, Names DEF Init, Lock, Asks
  <1>3. Timers
    BY DEF Init, Timers, NoIngest
  <1>4. QED
    BY <1>1, <1>2, <1>3 DEF Types

\* A worker that starts, asks for a task or reports one waits for the lock.
LEMMA AskTypes ==
  ASSUME Types, NEW w \in Workers, Start(w) \/ RequestTask(w) \/ Report(w)
  PROVE  Types' /\ Main(w) \notin waiting /\ Enqueue(Main(w)) /\ UNCHANGED <<holder, rest>>
  <1>1. /\ main[w] \in {"off", "ready", "working"} /\ Enqueue(Main(w))
        /\ UNCHANGED <<holder, rest, pause, age, ingest>>
        /\ \E a \in {"registering", "requesting", "reporting"} : 
             /\ main' = [main EXCEPT ![w] = a]
             /\ a = "registering" <=> main[w] = "off"
    BY DEF Start, RequestTask, Report
  <1>2. PICK a \in {"registering", "requesting", "reporting"} :
             /\ main' = [main EXCEPT ![w] = a]
             /\ a = "registering" <=> main[w] = "off"
    BY <1>1
  <1>3. Main(w) \notin waiting /\ holder # Main(w)
    BY <1>1 DEF Types, Lock, Asks
  <1>4. Queue' /\ waiting' = waiting \cup {Main(w)}
    BY <1>1, <1>3, Enqueued, Names DEF Types
  <1>5. /\ main'[w] = a /\ \A v \in Workers : v # w => main'[v] = main[v]
        /\ main' \in [Workers ->
             {"off", "registering", "ready", "requesting", "working", "reporting"}]
    BY <1>2 DEF Types, Timers
  <1>6. Timers'
    BY <1>1, <1>4, <1>5, Names DEF Types, Timers
  <1>7. Lock'
    BY <1>1, <1>3, <1>4, <1>5, Names DEF Types, Lock, Asks, Registered
  <1>8. QED
    BY <1>1, <1>3, <1>4, <1>6, <1>7 DEF Types

\* A heartbeat that is sent waits for the lock.
LEMMA BeatTypes ==
  ASSUME Types, NEW w \in Workers, SendHeartbeat(w)
  PROVE  Types' /\ Beat(w) \notin waiting /\ Enqueue(Beat(w)) /\ UNCHANGED <<holder, rest>>
  <1>1. /\ Registered(w) /\ Beat(w) \notin waiting /\ Enqueue(Beat(w))
        /\ UNCHANGED <<holder, rest, main, pause, age, ingest>>
    BY DEF SendHeartbeat, BeatDue
  <1>2. Queue' /\ waiting' = waiting \cup {Beat(w)}
    BY <1>1, Enqueued, Names DEF Types
  <1>3. Timers'
    BY <1>1, <1>2, Names DEF Types, Timers
  <1>4. Lock'
    BY <1>1, <1>2, Names DEF Types, Lock, Asks, Registered
  <1>5. QED
    BY <1>1, <1>2, <1>3, <1>4 DEF Types

\* A call of a worker that is answered leaves the queue.
LEMMA ServeTypes ==
  ASSUME Types, NEW w \in Workers, Register(w) \/ GetTask(w) \/ FinishTask(w)
  PROVE  Types' /\ Leave(Main(w)) /\ UNCHANGED <<holder, rest>>
  <1>1. /\ Gets(Main(w)) /\ Leave(Main(w)) /\ UNCHANGED <<holder, rest, pause, ingest>>
        /\ age' \in {age, [age EXCEPT ![w] = 0]}
        /\ \E a \in {"ready", "working"} : main' = [main EXCEPT ![w] = a]
        /\ main[w] \in {"registering", "requesting", "reporting"}
    BY DEF Register, GetTask, FinishTask
  <1>2. PICK a \in {"ready", "working"} : main' = [main EXCEPT ![w] = a]
    BY <1>1
  <1>3. Queue' /\ waiting' = waiting \ {Main(w)}
    BY <1>1, Left, Names DEF Types
  <1>4. /\ main'[w] = a /\ \A v \in Workers : v # w => main'[v] = main[v]
        /\ main' \in [Workers ->
             {"off", "registering", "ready", "requesting", "working", "reporting"}]
    BY <1>2 DEF Types, Timers
  <1>5. Timers'
    BY <1>1, <1>3, <1>4, Names DEF Types, Timers
  <1>6. Lock'
    BY <1>1, <1>3, <1>4, Names DEF Types, Lock, Asks, Registered, Gets
  <1>7. QED
    BY <1>1, <1>3, <1>5, <1>6 DEF Types

\* A get_task with nothing to do begins its sleep.
LEMMA NothingTypes ==
  ASSUME Types, NEW w \in Workers, GetNothing(w)
  PROVE  Types'
  <1>1. /\ Gets(Main(w)) /\ Leave(Main(w)) /\ UNCHANGED <<main, pause, age, ingest>>
        /\ holder' = Main(w) /\ rest' = Hold /\ main[w] = "requesting"
    BY DEF GetNothing, Delay
  <1>2. Queue' /\ waiting' = waiting \ {Main(w)}
    BY <1>1, Left, Names DEF Types
  <1>3. Timers'
    BY <1>1, <1>2, Names DEF Types, Timers
  <1>4. Lock'
    BY <1>1, <1>2, Size, Names DEF Types, Lock, Asks, Registered, Gets
  <1>5. QED
    BY <1>2, <1>3, <1>4 DEF Types

\* The sleep is over.
LEMMA WaitTypes ==
  ASSUME Types, NEW w \in Workers, AnswerWait(w)
  PROVE  Types'
  <1>1. /\ holder = Main(w) /\ holder' = Nobody /\ UNCHANGED <<waiting, ahead, rest, age, ingest>>
        /\ main' = [main EXCEPT ![w] = "ready"]
        /\ pause' = [pause EXCEPT ![Main(w)] = WaitTime]
    BY DEF AnswerWait
  <1>2. Queue'
    BY <1>1 DEF Types, Queue
  <1>3. /\ main'[w] = "ready" /\ \A v \in Workers : v # w => main'[v] = main[v]
        /\ main' \in [Workers ->
             {"off", "registering", "ready", "requesting", "working", "reporting"}]
    BY <1>1 DEF Types, Timers
  <1>4. Timers'
    BY <1>1, <1>3, PollingAssumption DEF Types, Timers
  <1>5. Lock'
    BY <1>1, <1>3, Names DEF Types, Lock, Asks, Registered
  <1>6. QED
    BY <1>2, <1>4, <1>5 DEF Types

\* A heartbeat is heard.
LEMMA HeardTypes ==
  ASSUME Types, NEW w \in Workers, Heartbeat(w)
  PROVE  Types' /\ Leave(Beat(w)) /\ UNCHANGED <<holder, rest>>
  <1>1. /\ Leave(Beat(w)) /\ UNCHANGED <<holder, rest, main, ingest>>
        /\ age' = [age EXCEPT ![w] = 0]
        /\ pause' = [pause EXCEPT ![Beat(w)] = HeartbeatInterval]
    BY DEF Heartbeat, Heard
  <1>2. Queue' /\ waiting' = waiting \ {Beat(w)}
    BY <1>1, Left, Names DEF Types
  <1>3. Timers'
    BY <1>1, <1>2, PollingAssumption DEF Types, Timers
  <1>4. Lock'
    BY <1>1, <1>2, Names DEF Types, Lock, Asks, Registered
  <1>5. QED
    BY <1>1, <1>2, <1>3, <1>4 DEF Types

\* A call Ingest begins with nothing forwarded.
LEMMA IngestTypes ==
  ASSUME Types, NEW n \in 1 .. MaxInputs, Ingest(n)
  PROVE  /\ Types' /\ UNCHANGED <<waiting, ahead, holder, rest, main, pause, age>>
         /\ Submission \notin waiting
         /\ ingest' = [inputs |-> n, left |-> n, time |-> 0] /\ n \in Nat \ {0}
  <1>1. /\ ingest.left = 0 /\ ingest' = [inputs |-> n, left |-> n, time |-> 0]
        /\ UNCHANGED <<waiting, ahead, holder, rest, main, pause, age>> /\ n \in Nat \ {0}
    BY PollingAssumption DEF Ingest, NoIngest
  <1>2. Queue' /\ Lock'
    BY <1>1 DEF Types, Queue, Lock, Asks, Registered
  <1>3. Timers' /\ Submission \notin waiting
    BY <1>1 DEF Types, Timers
  <1>4. QED
    BY <1>1, <1>2, <1>3 DEF Types

\* An input that is submitted waits for the lock.
LEMMA ForwardTypes ==
  ASSUME Types, Forward
  PROVE  /\ Types' /\ Submission \notin waiting /\ Enqueue(Submission)
         /\ waiting' = waiting \cup {Submission} /\ UNCHANGED <<holder, rest, main, pause, age, ingest>>
  <1>1. /\ ingest.left > 0 /\ Submission \notin waiting /\ Enqueue(Submission)
        /\ UNCHANGED <<holder, rest, main, pause, age, ingest>>
    BY DEF Forward, ForwardDue
  <1>2. Queue' /\ waiting' = waiting \cup {Submission}
    BY <1>1, Enqueued, Names DEF Types
  <1>3. Timers'
    BY <1>1, <1>2 DEF Types, Timers
  <1>4. Lock'
    BY <1>1, <1>2, Names DEF Types, Lock, Asks, Registered
  <1>5. QED
    BY <1>1, <1>2, <1>3, <1>4 DEF Types

\* An input that is submitted, or given up with all others, leaves the queue.
LEMMA SubmitTypes ==
  ASSUME Types, SubmitJob \/ TimesOut
  PROVE  /\ Types' /\ Leave(Submission) /\ waiting' = waiting \ {Submission}
         /\ UNCHANGED <<holder, rest, main, pause, age>>
         /\ \/ ingest' = NoIngest
            \/ /\ Submission \in waiting /\ ingest.left > 1
               /\ ingest' = [ingest EXCEPT !.left = ingest.left - 1]
  <1>1. /\ Leave(Submission) /\ UNCHANGED <<holder, rest, main, pause, age>>
        /\ \/ ingest' = NoIngest
           \/ /\ Submission \in waiting /\ ingest.left # 1
              /\ ingest' = [ingest EXCEPT !.left = @ - 1]
    BY DEF SubmitJob, TimesOut, Gets
  <1>2. Queue' /\ waiting' = waiting \ {Submission}
    BY <1>1, Left, Names DEF Types
  <1>3. \/ ingest' = NoIngest
        \/ /\ Submission \in waiting /\ ingest.left > 1
           /\ ingest' = [ingest EXCEPT !.left = ingest.left - 1]
    BY <1>1 DEF Types, Timers
  <1>4. Timers'
    <2>1. CASE ingest' = NoIngest
      BY <1>1, <1>2, <2>1 DEF Types, Timers, NoIngest
    <2>2. CASE ingest.left > 1 /\ ingest' = [ingest EXCEPT !.left = ingest.left - 1]
      BY <1>1, <1>2, <2>2 DEF Types, Timers
    <2>3. QED
      BY <1>3, <2>1, <2>2
  <1>5. Lock'
    BY <1>1, <1>2, Names DEF Types, Lock, Asks, Registered
  <1>6. QED
    BY <1>1, <1>2, <1>3, <1>4, <1>5 DEF Types

\* Time passes while the lock is free with nobody waiting, or held.
LEMMA TickTypes ==
  ASSUME Types, Tick
  PROVE  /\ Types' /\ UNCHANGED <<waiting, ahead, holder, main>>
         /\ waiting # {} => Sleep > 0 /\ Sleep' = Sleep - 1
         /\ \A w \in Workers : age'[w] <= age[w] + 1
         /\ \A w \in Workers : Registered(w) =>
              Beat(w) \in waiting \/ pause'[Beat(w)] + 1 = pause[Beat(w)]
         /\ \A w \in Workers : ~ Registered(w) =>
              age'[w] = 0 /\ pause'[Beat(w)] <= pause[Beat(w)]
         /\ ingest.left > 0 => /\ Submission \in waiting
                               /\ ingest' = [ingest EXCEPT !.time = ingest.time + 1]
         /\ ingest.left = 0 => ingest' = ingest
  <1>1. /\ UNCHANGED <<waiting, ahead, holder, main>> /\ rest' = Less(rest)
        /\ pause' = [c \in Loops |-> Less(pause[c])]
        /\ age' = [w \in Workers |-> IF Registered(w) THEN age[w] + 1 ELSE 0]
        /\ ingest' = IF ingest.left > 0 THEN [ingest EXCEPT !.time = @ + 1] ELSE ingest
        /\ ~ (holder = Nobody /\ waiting # {}) /\ ~ (holder # Nobody /\ rest = 0)
        /\ ~ ForwardDue
        /\ \A w \in Workers : ~ BeatDue(w)
    BY DEF Tick, Urgent
  <1>2. rest \in 0 .. Hold /\ rest' \in 0 .. Hold /\ (rest > 0 => rest' = rest - 1)
    BY <1>1, Size DEF Types, Lock, Less
  <1>3. Queue' /\ Lock'
    BY <1>1, <1>2 DEF Types, Queue, Lock, Asks, Registered
  <1>4. /\ ingest.left > 0 => /\ Submission \in waiting
                              /\ ingest' = [ingest EXCEPT !.time = ingest.time + 1]
        /\ ingest.left = 0 => ingest' = ingest
    BY <1>1 DEF ForwardDue, Types, Timers
  <1>5. \A c \in Loops : pause'[c] \in Nat /\ pause'[c] <= pause[c]
                         /\ (pause[c] # 0 => pause'[c] + 1 = pause[c])
    BY <1>1 DEF Types, Timers, Less
  <1>6. pause' \in [Loops -> Nat] /\ age' \in [Workers -> Nat]
    BY <1>1, <1>5 DEF Types, Timers
  <1>7. Timers'
    <2>1. CASE ingest.left = 0
      BY <1>1, <1>4, <1>6, <2>1 DEF Types, Timers
    <2>2. CASE ingest.left > 0
      BY <1>1, <1>4, <1>6, <2>2 DEF Types, Timers
    <2>3. QED
      BY <2>1, <2>2 DEF Types, Timers
  <1>8. waiting # {} => Sleep > 0 /\ Sleep' = Sleep - 1
    BY <1>1, <1>2 DEF Sleep
  <1>9. \A w \in Workers : age'[w] <= age[w] + 1 /\ (~ Registered(w) => age'[w] = 0)
    BY <1>1 DEF Types, Timers
  <1>10. \A w \in Workers : Registered(w) =>
           Beat(w) \in waiting \/ pause'[Beat(w)] + 1 = pause[Beat(w)]
    BY <1>1, <1>5, Names DEF BeatDue
  <1>11. QED
    BY <1>1, <1>3, <1>4, <1>5, <1>7, <1>8, <1>9, <1>10, Names DEF Types

\* Every step keeps Types.
LEMMA TypesStep ==
  ASSUME Types, [Next]_vars
  PROVE  Types'
  <1>1. CASE UNCHANGED vars
    BY <1>1 DEF vars, Types, Queue, Lock, Timers, Asks, Registered
  <1>2. ASSUME NEW w \in Workers, WorkerStep(w) PROVE Types'
    BY <1>2, AskTypes, BeatTypes DEF WorkerStep
  <1>3. ASSUME NEW w \in Workers, CoordinatorStep(w) PROVE Types'
    BY <1>3, ServeTypes, NothingTypes, WaitTypes, HeardTypes DEF CoordinatorStep
  <1>4. ASSUME NEW n \in 1 .. MaxInputs, Ingest(n) PROVE Types'
    BY <1>4, IngestTypes
  <1>5. QED
    BY <1>1, <1>2, <1>3, <1>4, ForwardTypes, SubmitTypes, TickTypes DEF Next

-----------------------------------------------------------------------------
(* Waiting for the lock *)

\* Until the next second nobody's wait gets longer, and one that begins is bounded.
LEMMA WaitStep ==
  ASSUME Types, [Next]_vars, ~ Tick, NEW c \in Calls, c \in waiting'
  PROVE  /\ Remaining(c)' \in Nat
         /\ c \in waiting => Remaining(c)' <= Remaining(c)
         /\ c \notin waiting => Remaining(c)' <= N * Hold
  <1> DEFINE Goal == /\ Remaining(c)' \in Nat
                     /\ c \in waiting => Remaining(c)' <= Remaining(c)
                     /\ c \notin waiting => Remaining(c)' <= N * Hold
  <1>1. Sleep \in 0 .. Hold /\ Hold \in Nat /\ Remaining(c) \in Nat
    BY RemainingType, Size
  <1>2. ASSUME waiting' = waiting, ahead' = ahead, Sleep' \in {0, Sleep} PROVE Goal
    <2>1. Sleep' \in 0 .. Sleep /\ ahead'[c] \subseteq ahead[c]
      BY <1>1, <1>2
    <2>2. Remaining(c)' \in Nat /\ Remaining(c)' + (Sleep - Sleep') <= Remaining(c)
      BY <2>1, WaitShrinks
    <2>3. QED
      BY <1>1, <1>2, <2>1, <2>2
  <1>3. ASSUME NEW d \in Calls, d \notin waiting, Enqueue(d), UNCHANGED <<holder, rest>>
        PROVE Goal
    <2>1. CASE d = c
      BY <1>3, <2>1, EnqueuedWait
    <2>2. CASE d # c
      <3>1. c \in waiting /\ ahead'[c] = ahead[c]
        BY <1>3, <2>2, Enqueued DEF Types
      <3>2. Sleep' = Sleep /\ Sleep' \in 0 .. Sleep
        BY <1>1, <1>3 DEF Sleep
      <3>3. Remaining(c)' \in Nat /\ Remaining(c)' + (Sleep - Sleep') <= Remaining(c)
        BY <3>1, <3>2, WaitShrinks
      <3>4. QED
        BY <1>1, <3>1, <3>2, <3>3
    <2>3. QED
      BY <2>1, <2>2
  <1>4. ASSUME NEW d \in Calls, Leave(d), UNCHANGED <<holder, rest>> PROVE Goal
    <2>1. c \in waiting /\ ahead'[c] \subseteq ahead[c]
      BY <1>4, Left DEF Types
    <2>2. Sleep' = Sleep /\ Sleep' \in 0 .. Sleep
      BY <1>1, <1>4 DEF Sleep
    <2>3. Remaining(c)' \in Nat /\ Remaining(c)' + (Sleep - Sleep') <= Remaining(c)
      BY <2>1, <2>2, WaitShrinks
    <2>4. QED
      BY <1>1, <2>1, <2>2, <2>3
  <1> HIDE DEF Goal
  <1>5. ASSUME NEW w \in Workers, WorkerStep(w) PROVE Goal
    BY <1>3, <1>5, AskTypes, BeatTypes, Names DEF WorkerStep
  <1>6. ASSUME NEW w \in Workers, GetNothing(w) PROVE Goal
    <2>1. /\ Gets(Main(w)) /\ Leave(Main(w)) /\ holder' = Main(w) /\ rest' = Hold
      BY <1>6 DEF GetNothing, Delay
    <2>2. c \in waiting /\ c # Main(w)
      BY <2>1 DEF Leave
    <2>3. QED
      BY <1>1, <2>1, <2>2, SleepCounted DEF Goal
  <1>7. ASSUME NEW w \in Workers, AnswerWait(w) PROVE Goal
    <2>1. waiting' = waiting /\ ahead' = ahead /\ Sleep' = 0
      BY <1>7 DEF AnswerWait, Sleep
    <2>2. QED
      BY <1>2, <2>1
  <1>8. ASSUME NEW w \in Workers, CoordinatorStep(w) PROVE Goal
    BY <1>4, <1>6, <1>7, <1>8, ServeTypes, HeardTypes, Names DEF CoordinatorStep
  <1>9. ASSUME NEW n \in 1 .. MaxInputs, Ingest(n) PROVE Goal
    BY <1>2, <1>9, IngestTypes DEF Sleep
  <1>10. ASSUME Forward PROVE Goal
    BY <1>3, <1>10, ForwardTypes, Names
  <1>11. ASSUME SubmitJob \/ TimesOut PROVE Goal
    BY <1>4, <1>11, SubmitTypes, Names
  <1>12. ASSUME UNCHANGED vars PROVE Goal
    BY <1>2, <1>12 DEF vars, Sleep
  <1>13. Goal
    BY <1>5, <1>8, <1>9, <1>10, <1>11, <1>12 DEF Next
  <1>14. QED
    BY <1>13 DEF Goal

\* In a second every wait gets a second shorter.
LEMMA WaitTick ==
  ASSUME Types, Tick, NEW c \in waiting
  PROVE  Remaining(c)' \in Nat /\ Remaining(c)' + 1 <= Remaining(c)
  <1>1. Sleep \in 0 .. Hold /\ Hold \in Nat /\ Remaining(c) \in Nat /\ c \in Calls
    BY RemainingType, Size DEF Types, Queue
  <1>2. Sleep > 0 /\ Sleep' = Sleep - 1 /\ ahead' = ahead
    BY TickTypes
  <1>3. Sleep' \in 0 .. Sleep /\ ahead'[c] \subseteq ahead[c]
    BY <1>1, <1>2
  <1>4. Remaining(c)' \in Nat /\ Remaining(c)' + (Sleep - Sleep') <= Remaining(c)
    BY <1>1, <1>3, WaitShrinks
  <1>5. QED
    BY <1>1, <1>2, <1>4

-----------------------------------------------------------------------------
(* Heartbeats *)

\* Until the next second heartbeats get no older, and one that is heard is young.
LEMMA AgeStep ==
  ASSUME Types, [Next]_vars, ~ Tick, NEW w \in Workers
  PROVE  \/ /\ age'[w] \in {age[w], 0} /\ pause'[Beat(w)] = pause[Beat(w)]
            /\ Beat(w) \in waiting => Beat(w) \in waiting'
         \/ /\ age'[w] = 0 /\ pause'[Beat(w)] = HeartbeatInterval
            /\ Beat(w) \notin waiting'
  <1> DEFINE Same == /\ age'[w] \in {age[w], 0} /\ pause'[Beat(w)] = pause[Beat(w)]
                     /\ Beat(w) \in waiting => Beat(w) \in waiting'
             Young == /\ age'[w] = 0 /\ pause'[Beat(w)] = HeartbeatInterval
                      /\ Beat(w) \notin waiting'
  <1>1. ASSUME NEW v \in Workers, WorkerStep(v) PROVE Same
    BY <1>1 DEF WorkerStep, Start, RequestTask, Report, SendHeartbeat, Enqueue
  <1>2. ASSUME NEW v \in Workers, Register(v) \/ GetTask(v) \/ FinishTask(v) PROVE Same
    <2>1. /\ age' \in {age, [age EXCEPT ![v] = 0]} /\ pause' = pause
          /\ waiting' = waiting \ {Main(v)}
      BY <1>2 DEF Register, GetTask, FinishTask, Leave
    <2>2. QED
      BY <2>1, Names DEF Types, Timers
  <1>3. ASSUME NEW v \in Workers, GetNothing(v) PROVE Same
    BY <1>3, Names DEF GetNothing, Leave
  <1>4. ASSUME NEW v \in Workers, AnswerWait(v) PROVE Same
    BY <1>4, Names DEF AnswerWait, Types, Timers
  <1>5. ASSUME NEW v \in Workers, Heartbeat(v) PROVE Same \/ Young
    <2>1. /\ age' = [age EXCEPT ![v] = 0]
          /\ pause' = [pause EXCEPT ![Beat(v)] = HeartbeatInterval]
          /\ waiting' = waiting \ {Beat(v)}
      BY <1>5 DEF Heartbeat, Heard, Leave
    <2>2. QED
      BY <2>1, Names DEF Types, Timers
  <1>6. ASSUME NEW n \in 1 .. MaxInputs, Ingest(n) PROVE Same
    BY <1>6 DEF Ingest
  <1>7. CASE Forward
    BY <1>7 DEF Forward, Enqueue
  <1>8. CASE SubmitJob \/ TimesOut
    BY <1>8, Names DEF SubmitJob, TimesOut, Leave
  <1>9. CASE UNCHANGED vars
    BY <1>9 DEF vars
  <1>10. ASSUME NEW v \in Workers, CoordinatorStep(v) PROVE Same \/ Young
    BY <1>2, <1>3, <1>4, <1>5, <1>10 DEF CoordinatorStep
  <1>11. QED
    BY <1>1, <1>6, <1>7, <1>8, <1>9, <1>10 DEF Next

\* Every step keeps the bound on the ages of heartbeats.
LEMMA BeatsHeardStep ==
  ASSUME Types, BeatsHeard, [Next]_vars
  PROVE  BeatsHeard'
  <1> SUFFICES ASSUME NEW w \in Workers
               PROVE  /\ Beat(w) \notin waiting' => age'[w] + pause'[Beat(w)] <= HeartbeatInterval
                      /\ Beat(w) \in waiting' =>
                           age'[w] + Remaining(Beat(w))' <= HeartbeatInterval + N * Hold
    BY DEF BeatsHeard
  <1>1. PICK b \in Calls : b = Beat(w)
    BY Names
  <1>2. PICK a, p : a = age[w] /\ p = pause[b]
    OBVIOUS
  <1>3. PICK a2, p2 : a2 = age'[w] /\ p2 = pause'[b]
    OBVIOUS
  <1>4. PICK r, r2 : r = Remaining(b) /\ r2 = Remaining(b)'
    OBVIOUS
  <1>5. PICK k \in Nat : k = N * Hold
    BY Size
  <1>6. a \in Nat /\ p \in Nat /\ HeartbeatInterval \in Nat /\ r \in Nat
    BY <1>1, <1>2, <1>4, Names, PollingAssumption, RemainingType DEF Types, Timers
  <1>7. /\ b \notin waiting => a + p <= HeartbeatInterval
        /\ b \in waiting => a + r <= HeartbeatInterval + k
    BY <1>1, <1>2, <1>4, <1>5 DEF BeatsHeard
  <1>8. CASE ~ Tick
    <2>1. \/ a2 \in {a, 0} /\ p2 = p /\ (b \in waiting => b \in waiting')
          \/ a2 = 0 /\ p2 = HeartbeatInterval /\ b \notin waiting'
      BY <1>1, <1>2, <1>3, <1>8, AgeStep
    <2>2. b \in waiting' => /\ r2 \in Nat
                            /\ b \in waiting => r2 <= r
                            /\ b \notin waiting => r2 <= k
      BY <1>4, <1>5, <1>8, WaitStep
    <2>3. /\ b \notin waiting' => a2 + p2 <= HeartbeatInterval
          /\ b \in waiting' => a2 + r2 <= HeartbeatInterval + k
      BY <1>5, <1>6, <1>7, <2>1, <2>2
    <2>4. QED
      BY <1>1, <1>3, <1>4, <1>5, <2>3
  <1>9. CASE Tick
    <2>1. waiting' = waiting /\ a2 <= a + 1 /\ a2 \in Nat /\ p2 \in Nat
      BY <1>1, <1>2, <1>3, <1>9, TickTypes, Names DEF Types, Timers
    <2>2. b \in waiting => r2 \in Nat /\ r2 + 1 <= r
      BY <1>4, <1>9, WaitTick
    <2>3. b \notin waiting => p2 + 1 = p \/ (a2 = 0 /\ p2 <= p)
      BY <1>1, <1>2, <1>3, <1>9, TickTypes
    <2>4. /\ b \notin waiting' => a2 + p2 <= HeartbeatInterval
          /\ b \in waiting' => a2 + r2 <= HeartbeatInterval + k
      BY <1>5, <1>6, <1>7, <2>1, <2>2, <2>3
    <2>5. QED
      BY <1>1, <1>3, <1>4, <1>5, <2>4
  <1>10. QED
    BY <1>8, <1>9

-----------------------------------------------------------------------------
(* Inputs *)

\* Every step keeps the bound on the time a call Ingest has taken.
LEMMA ForwardedStep ==
  ASSUME Types, Forwarded, [Next]_vars
  PROVE  Forwarded'
  <1>1. PICK c \in Calls : c = Submission
    BY Names
  <1>2. PICK k \in Nat : k = N * Hold
    BY Size
  <1>3. PICK r, r2 : r = Remaining(c) /\ r2 = Remaining(c)'
    OBVIOUS
  <1>4. PICK n, l, t : n = ingest.inputs /\ l = ingest.left /\ t = ingest.time
    OBVIOUS
  <1>5. /\ n \in Nat /\ l \in Nat /\ t \in Nat /\ l <= n /\ r \in Nat
        /\ l = 0 => c \notin waiting
        /\ ingest = [inputs |-> n, left |-> l, time |-> t]
    BY <1>1, <1>3, <1>4, RemainingType DEF Types, Timers
  <1>6. PICK nk, lk : nk = n * k /\ lk = l * k
    OBVIOUS
  <1>7. /\ nk \in Nat /\ lk \in Nat
        /\ l > 0 => (l - 1) * k + k = lk /\ (l - 1) * k \in Nat
    BY <1>2, <1>5, <1>6, Products
  <1>8. l > 0 => /\ c \notin waiting => t + lk <= nk
                 /\ c \in waiting => t + r + (l - 1) * k <= nk
    BY <1>1, <1>2, <1>3, <1>4, <1>6 DEF Forwarded
  <1>9. (~ Tick /\ c \in waiting') =>
          /\ r2 \in Nat
          /\ c \in waiting => r2 <= r
          /\ c \notin waiting => r2 <= k
    BY <1>2, <1>3, WaitStep
  <1>10. ASSUME ingest' = ingest, ~ Tick, l > 0, c \in waiting => c \in waiting' PROVE Forwarded'
    <2>1. CASE c \in waiting'
      <3>1. t + r2 + (l - 1) * k <= nk
        BY <1>2, <1>5, <1>7, <1>8, <1>9, <1>10, <2>1
      <3>2. QED
        BY <1>1, <1>2, <1>3, <1>4, <1>6, <1>10, <2>1, <3>1 DEF Forwarded
    <2>2. CASE c \notin waiting'
      BY <1>1, <1>2, <1>4, <1>6, <1>8, <1>10, <2>2 DEF Forwarded
    <2>3. QED
      BY <2>1, <2>2
  <1>11. ASSUME ingest' = ingest, ~ Tick, c \in waiting => c \in waiting' PROVE Forwarded'
    <2>1. CASE l > 0
      BY <1>10, <1>11, <2>1
    <2>2. CASE ~ l > 0
      BY <1>4, <1>11, <2>2 DEF Forwarded
    <2>3. QED
      BY <2>1, <2>2
  <1>12. CASE Tick
    <2>1. /\ waiting' = waiting
          /\ l > 0 => c \in waiting /\ ingest' = [ingest EXCEPT !.time = t + 1]
          /\ l = 0 => ingest' = ingest
      BY <1>1, <1>4, <1>12, TickTypes
    <2>2. CASE l = 0
      <3>1. ingest'.left = 0
        BY <1>4, <2>1, <2>2
      <3>2. ~ (ingest'.left > 0)
        BY <3>1
      <3>3. QED
        BY <3>2 DEF Forwarded
    <2>3. CASE l > 0
      <3>1. r2 \in Nat /\ r2 + 1 <= r
        BY <1>3, <1>12, <2>1, <2>3, WaitTick
      <3>2. ingest' = [inputs |-> n, left |-> l, time |-> t + 1]
        BY <1>5, <2>1, <2>3
      <3>3. t + 1 + r2 + (l - 1) * k <= nk
        BY <1>5, <1>7, <1>8, <2>1, <2>3, <3>1
      <3>4. QED
        BY <1>1, <1>2, <1>3, <1>6, <2>1, <2>3, <3>2, <3>3 DEF Forwarded
    <2>4. QED
      BY <1>5, <2>2, <2>3
  <1>13. ASSUME ~ Tick, SubmitJob \/ TimesOut PROVE Forwarded'
    <2>1. /\ waiting' = waiting \ {c}
          /\ \/ ingest' = NoIngest
             \/ c \in waiting /\ l > 1 /\ ingest' = [ingest EXCEPT !.left = l - 1]
      BY <1>1, <1>4, <1>13, SubmitTypes
    <2>2. CASE ingest' = NoIngest
      BY <2>2 DEF Forwarded, NoIngest
    <2>3. CASE c \in waiting /\ l > 1 /\ ingest' = [ingest EXCEPT !.left = l - 1]
      <3>1. ingest' = [inputs |-> n, left |-> l - 1, time |-> t]
        BY <1>5, <2>3
      <3>2. t + (l - 1) * k <= nk
        BY <1>5, <1>7, <1>8, <2>3
      <3>3. QED
        BY <1>1, <1>2, <1>6, <2>1, <3>1, <3>2 DEF Forwarded
    <2>4. QED
      BY <2>1, <2>2, <2>3
  <1>14. ASSUME NEW m \in 1 .. MaxInputs, Ingest(m) PROVE Forwarded'
    <2>1. /\ c \notin waiting' /\ ingest' = [inputs |-> m, left |-> m, time |-> 0] /\ m \in Nat
      BY <1>1, <1>14, IngestTypes
    <2>2. m * k \in Nat
      BY <1>2, <2>1, Products
    <2>3. QED
      BY <1>1, <1>2, <2>1, <2>2 DEF Forwarded
  <1>15. ASSUME NEW w \in Workers, WorkerStep(w), ~ Tick PROVE Forwarded'
    <2>1. ingest' = ingest /\ (c \in waiting => c \in waiting')
      BY <1>15 DEF WorkerStep, Start, RequestTask, Report, SendHeartbeat, Enqueue
    <2>2. QED
      BY <1>11, <1>15, <2>1
  <1>16. ASSUME NEW w \in Workers, CoordinatorStep(w), ~ Tick PROVE Forwarded'
    <2>1. ingest' = ingest /\ (c \in waiting => c \in waiting')
      BY <1>1, <1>16, Names DEF CoordinatorStep, Register, GetTask, GetNothing, AnswerWait,
            FinishTask, Heartbeat, Leave
    <2>2. QED
      BY <1>11, <1>16, <2>1
  <1>17. ASSUME Forward, ~ Tick PROVE Forwarded'
    BY <1>11, <1>17, ForwardTypes
  <1>18. ASSUME UNCHANGED vars, ~ Tick PROVE Forwarded'
    BY <1>11, <1>18 DEF vars
  <1>19. QED
    BY <1>12, <1>13, <1>14, <1>15, <1>16, <1>17, <1>18 DEF Next

-----------------------------------------------------------------------------
(* Theorems *)

\* The bounds hold initially.
LEMMA BoundsInit == Init => BeatsHeard /\ Forwarded
  BY PollingAssumption, Names DEF Init, BeatsHeard, Forwarded, NoIngest

\* The inductive invariant holds in every behaviour.
LEMMA BoundsAlways == Spec => [](Types /\ BeatsHeard /\ Forwarded)
  BY TypesInit, BoundsInit, TypesStep, BeatsHeardStep, ForwardedStep, PTL DEF Spec

\* A call waits for the lock once, and the one that sleeps with it held does not wait
\* (the Mutex of CoordinatorService, get_task).
THEOREM TypeCorrect == Spec => []TypeOK
  <1>1. ASSUME Types PROVE TypeOK
    <2>1. Calls = Loops \cup {Submission} /\ \A w \in Workers : Main(w) \in Loops
      BY Names
    <2>2. holder \in Calls \cup {Nobody}
      BY <1>1, <2>1 DEF Types, Lock
    <2>3. Nobody \notin Calls
      BY Names, LoopNames
    <2>4. holder \notin waiting
      BY <1>1, <2>3 DEF Types, Queue, Lock
    <2>5. rest \in Nat
      BY <1>1, Size DEF Types, Lock
    <2>6. QED
      BY <1>1, <2>2, <2>4, <2>5 DEF TypeOK, Types, Queue, Timers
  <1>2. QED
    BY BoundsAlways, <1>1, PTL

\* While the heartbeat interval and one sleep of every other worker fit into the timeout,
\* no running worker is judged dead, although heartbeats wait behind every get_task that
\* sleeps with the lock held, and no matter who asks when (get_task, heartbeat).
THEOREM JudgedCorrect == Spec => []JudgedAlive
  <1>1. ASSUME Types, BeatsHeard PROVE JudgedAlive
    <2> SUFFICES ASSUME RoomForAll, NEW v \in Workers, Judges(v), NEW w \in Workers, Registered(w)
                 PROVE  age[w] < TaskTimeout
      BY DEF JudgedAlive
    <2>1. PICK n \in Nat \ {0} : n = N
      BY Size
    <2>2. /\ Hold \in Nat /\ Hold * (n - 1) \in Nat /\ Hold * (n - 1) + Hold = Hold * n
          /\ N * Hold = Hold * n /\ (N - 1) * Hold = Hold * (n - 1)
      BY <2>1, Size, Products
    <2>3. HeartbeatInterval + Hold * (n - 1) < TaskTimeout
      BY <2>2 DEF RoomForAll
    <2>4. age[w] \in Nat /\ pause[Beat(w)] \in Nat /\ HeartbeatInterval \in Nat /\ TaskTimeout \in Nat
      BY <1>1, Names, PollingAssumption DEF Types, Timers
    <2>5. CASE Beat(w) \notin waiting
      <3>1. age[w] + pause[Beat(w)] <= HeartbeatInterval
        BY <1>1, <2>5 DEF BeatsHeard
      <3>2. QED
        BY <2>2, <2>3, <2>4, <3>1
    <2>6. CASE Beat(w) \in waiting
      <3>1. Gets(Main(v)) /\ Main(v) # Beat(w)
        BY Names DEF Judges
      <3>2. v \in Sleepers(Beat(w))
        BY <1>1, <2>6, <3>1, GetsFirst DEF Sleepers, Types
      <3>3. PICK m : m = Cardinality(Sleepers(Beat(w)))
        OBVIOUS
      <3>4. m \in Nat /\ m # 0
        BY <1>1, <3>2, <3>3, RemainingType, FS_EmptySet, FS_CardinalityType
      <3>5. Hold * 1 <= Hold * m /\ Hold * m \in Nat /\ Hold * 1 = Hold
        BY <2>2, <3>4, Products
      <3>6. Remaining(Beat(w)) = Hold * m + 0
        BY <3>1, <3>3 DEF Remaining, Sleep, Gets
      <3>7. age[w] + Remaining(Beat(w)) <= HeartbeatInterval + N * Hold
        BY <1>1, <2>6 DEF BeatsHeard
      <3>8. QED
        BY <2>2, <2>3, <2>4, <3>5, <3>6, <3>7
    <2>7. QED
      BY <2>5, <2>6
  <1>2. QED
    BY BoundsAlways, <1>1, PTL

\* A call Ingest is not cut off while it forwards if one sleep of every worker for each of
\* its inputs fits into its timeout (handle_ingest, submit_job behind get_task).
THEOREM ForwardedCorrect == Spec => []ForwardedInTime
  <1>1. ASSUME Types, Forwarded PROVE ForwardedInTime
    <2> SUFFICES ASSUME ingest.left > 0, ingest.inputs * N * Hold < IngestTimeout
                 PROVE  ingest.time < IngestTimeout
      BY DEF ForwardedInTime
    <2>1. PICK n, l, t : n = ingest.inputs /\ l = ingest.left /\ t = ingest.time
      OBVIOUS
    <2>2. n \in Nat /\ l \in Nat /\ t \in Nat
      BY <1>1, <2>1 DEF Types, Timers
    <2>3. PICK s, h \in Nat : s = N /\ h = Hold
      BY Size
    <2>4. PICK k \in Nat : k = s * h
      BY <2>3, Size
    <2>5. n * s * h = n * k
      BY <2>2, <2>3, <2>4
    <2>6. (l - 1) * k \in Nat /\ l * k \in Nat
      BY <2>1, <2>2, <2>4, Products
    <2>7. Remaining(Submission) \in Nat
      BY <1>1, RemainingType
    <2>8. /\ Submission \notin waiting => t + l * k <= n * k
          /\ Submission \in waiting => t + Remaining(Submission) + (l - 1) * k <= n * k
      BY <1>1, <2>1, <2>3, <2>4 DEF Forwarded
    <2>9. t <= n * k /\ n * k \in Nat
      BY <2>2, <2>4, <2>6, <2>7, <2>8, Products
    <2>10. n * k < IngestTimeout /\ IngestTimeout \in Nat
      BY <2>1, <2>3, <2>5, PollingAssumption
    <2>11. QED
      BY <2>1, <2>2, <2>9, <2>10
  <1>2. QED
    BY BoundsAlways, <1>1, PTL
=============================================================================
