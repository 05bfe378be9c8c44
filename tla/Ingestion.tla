----------------------------- MODULE Ingestion -----------------------------
(***************************************************************************)
(* The ingestion service of crates/ingestion_engine and what becomes of    *)
(* the jobs it accepts: Ingest and SubmitJobs calls insert a job with its  *)
(* details and files, one database transaction a job, and then forward one *)
(* SubmitJob per input to the coordinator; when a coordinator job is done  *)
(* its completion handler marks the database job and its files COMPLETED   *)
(* and calls the evaluator.                                                *)
(*                                                                         *)
(* The coordinator is taken for what JobService says of it: it completes   *)
(* every job it accepted at most once, in any order.  Callers, among them  *)
(* the scheduler that repeats its request every ten seconds, are any calls *)
(* at any time.  A file range is the day it was resolved to.               *)
(*                                                                         *)
(* A call is a sequence of steps, one per await at which others can be     *)
(* observed; what a transaction has inserted nobody sees before it         *)
(* commits.  A commit or a SubmitJob that takes effect although its caller *)
(* has given up is the step followed by the timeout.                       *)
(*                                                                         *)
(* Faults is the set of faults an instance allows: "timeout", "database"   *)
(* (a statement fails), "coordinator" (a SubmitJob fails), "restart" (the  *)
(* coordinator dies with its queue and its handlers).                      *)
(* Bounds: Calls, one call each, MaxFaults, the number of faults there may *)
(* be, and LastDay, where the calendar stops.                              *)
(* MaxSubmitted bounds what fairness and liveness quantify over.           *)
(***************************************************************************)
EXTENDS Integers, Sequences, FiniteSets, SequencesExt

CONSTANTS
  Calls,      \* the calls that may come
  Requests,   \* what each of them may ask for
  Faults,
  MaxFaults,
  LastDay,
  MaxSubmitted \* at least the number of inputs and of jobs in all calls

Day == 0 .. LastDay

\* An input's time range is named "today" or fixed; a job is its inputs.
Job == Seq({"today", "fixed"})

ASSUME IngestionAssumption ==
  /\ \A c \in Calls : Requests[c] \subseteq [job : Seq(Job), jobs : Seq(Job)]
  /\ Faults \subseteq {"timeout", "database", "coordinator", "restart"}
  /\ MaxFaults \in Nat /\ LastDay \in Nat /\ MaxSubmitted \in Nat

VARIABLES
  faults,     \* how many faults have happened
  today,      \* the date, in UTC
  call,       \* the state of every call
  nextId,     \* AUTO_INCREMENT of the table job
  rows,       \* the committed jobs with their details and files, by id
  submitted   \* the jobs of the coordinator with their handlers, in order

vars == <<faults, today, call, nextId, rows, submitted>>

-----------------------------------------------------------------------------
(* Parts of handle_ingest_inner, ingest_request and handle_job_completion *)

\* resolve_time_range: "today" is the date at the time of the call.
Resolved(input) == IF input = "today" THEN today ELSE 0

\* `req.job` followed by `req.jobs`.
AllJobs(req) == req.job \o req.jobs

\* Mutation: the jobs of the compatibility field `jobs` are not forwarded.
ForwardedWithoutJobs(req) == req.job

\* `req.job.iter().chain(req.jobs.iter())`
Forwarded(req) == AllJobs(req)

\* The inputs to forward, as positions <<job, input>>, in order.
Inputs(req) ==
  FlattenSeq([j \in DOMAIN Forwarded(req) |->
                [i \in DOMAIN Forwarded(req)[j] |-> <<j, i>>]])

\* Mutation: the id of the job inserted last.
LastId(c, j) == Last(call[c].ids)

\* `ids.get(jidx).copied().unwrap_or(0)`
IdOf(c, j) == IF j \in DOMAIN call[c].ids THEN call[c].ids[j] ELSE 0

\* The job the call is inserting.
Current(c) == Len(call[c].ids) + 1

RowOf(c) ==
  [by |-> c, job |-> Current(c), days |-> call[c].days,
   status |-> "PROCESSING", files |-> "PROCESSING"]

\* Mutation: the job is inserted through the pool, outside the transaction.
RowsAfterInsertVisible(c) ==
  [id \in DOMAIN rows \cup {nextId} |-> IF id = nextId THEN RowOf(c) ELSE rows[id]]

\* `INSERT INTO job` through the transaction: nobody sees it.
RowsAfterInsert(c) == rows

\* Mutation: the second UPDATE is left out.
MarkJobOnly == <<"status">>

\* The columns mark_job_and_files_completed sets, one UPDATE each.
Marks == <<"status", "files">>

\* A fault that may happen, and happens in this step.
Happens(fault) ==
  /\ fault \in Faults /\ faults < MaxFaults
  /\ faults' = faults + 1

At(c, step) == call[c].step = step

\* The call is over: its locals are gone, but for what the properties ask about.
Answer(c, reply) ==
  [step |-> "over", reply |-> reply,
   req |-> call[c].req, unsent |-> call[c].unsent]

\* Mutation: the loop over the inputs goes one too far.
AfterInputOffByOne(c, lost) ==
  [call[c] EXCEPT !.sent = @ + 1, !.unsent = @ \cup lost,
     !.step = IF call[c].sent < Len(Inputs(call[c].req)) THEN "forward" ELSE "reply"]

\* After an input was forwarded or failed to be.
AfterInput(c, lost) ==
  [call[c] EXCEPT !.sent = @ + 1, !.unsent = @ \cup lost,
     !.step = IF call[c].sent + 1 < Len(Inputs(call[c].req)) THEN "forward" ELSE "reply"]

-----------------------------------------------------------------------------
Init ==
  /\ faults = 0
  /\ today = 0
  /\ call = [c \in Calls |-> [step |-> "waiting", reply |-> "none"]]
  /\ nextId = 1
  /\ rows = [id \in {} |-> <<>>]
  /\ submitted = <<>>

\* A request without jobs is refused.
Receive(c, req) ==
  /\ At(c, "waiting")
  /\ call' = [call EXCEPT ![c] =
       [step |-> IF AllJobs(req) = <<>> THEN "over" ELSE "insert",
        reply |-> IF AllJobs(req) = <<>> THEN "invalid_argument" ELSE "none",
        req |-> req, ids |-> <<>>, id |-> 0, days |-> <<>>,
        sent |-> 0, unsent |-> {}]]
  /\ UNCHANGED <<faults, today, nextId, rows, submitted>>

\* begin, and INSERT INTO job.
InsertJob(c) ==
  /\ At(c, "insert")
  /\ nextId' = nextId + 1
  /\ rows' = RowsAfterInsert(c)
  /\ call' = [call EXCEPT ![c].step = "details", ![c].id = nextId]
  /\ UNCHANGED <<faults, today, submitted>>

\* INSERT INTO job_detail and job_file for the next input of the job.
InsertDetail(c) ==
  LET inputs == AllJobs(call[c].req)[Current(c)] IN
  /\ At(c, "details")
  /\ Len(call[c].days) < Len(inputs)
  /\ call' = [call EXCEPT ![c].days = Append(@, Resolved(inputs[Len(@) + 1]))]
  /\ UNCHANGED <<faults, today, nextId, rows, submitted>>

Commit(c) ==
  /\ At(c, "details")
  /\ Len(call[c].days) = Len(AllJobs(call[c].req)[Current(c)])
  /\ rows' = [id \in DOMAIN rows \cup {call[c].id} |->
                IF id = call[c].id THEN RowOf(c) ELSE rows[id]]
  /\ call' = [call EXCEPT ![c].days = <<>>, ![c].ids = Append(@, call[c].id),
       ![c].step = IF Current(c) < Len(AllJobs(call[c].req)) THEN "insert"
                   ELSE IF Inputs(call[c].req) # <<>> THEN "forward" ELSE "reply"]
  /\ UNCHANGED <<faults, today, nextId, submitted>>

\* A statement of the transaction fails: it is rolled back, and the jobs that
\* were committed before it stay.
InsertFails(c) ==
  /\ Happens("database")
  /\ At(c, "insert") \/ At(c, "details")
  /\ call' = [call EXCEPT ![c] = Answer(c, "internal")]
  /\ UNCHANGED <<today, nextId, rows, submitted>>

\* The SubmitJobRequest for the input at a position, as the coordinator keeps it:
\* whose it is, the row its completion will mark, the day its files are of.
Submission(c, pos) ==
  [call |-> c, pos |-> pos, row |-> IdOf(c, pos[1]),
   day |-> Resolved(Forwarded(call[c].req)[pos[1]][pos[2]]),
   step |-> "running", marked |-> 0]

\* The coordinator accepts the next input.
Forward(c) ==
  /\ At(c, "forward")
  /\ submitted' = Append(submitted, Submission(c, Inputs(call[c].req)[call[c].sent + 1]))
  /\ call' = [call EXCEPT ![c] = AfterInput(c, {})]
  /\ UNCHANGED <<faults, today, nextId, rows>>

\* The coordinator cannot be reached, which is logged.
ForwardFails(c) ==
  /\ Happens("coordinator")
  /\ At(c, "forward")
  /\ call' = [call EXCEPT ![c] = AfterInput(c, {Inputs(call[c].req)[call[c].sent + 1]})]
  /\ UNCHANGED <<today, nextId, rows, submitted>>

Reply(c) ==
  /\ At(c, "reply")
  /\ call' = [call EXCEPT ![c] = Answer(c, "ok")]
  /\ UNCHANGED <<faults, today, nextId, rows, submitted>>

\* handle_ingest drops the future; an open transaction is rolled back.
Timeout(c) ==
  /\ Happens("timeout")
  /\ call[c].step \notin {"waiting", "over"}
  /\ call' = [call EXCEPT ![c] = Answer(c, "timeout")]
  /\ UNCHANGED <<today, nextId, rows, submitted>>

Is(k, step) == submitted[k].step = step

\* The coordinator job is done and its handler is spawned.
Complete(k) ==
  /\ Is(k, "running")
  /\ submitted' = [submitted EXCEPT ![k].step = "mark"]
  /\ UNCHANGED <<faults, today, call, nextId, rows>>

\* The next UPDATE of mark_job_and_files_completed.
Mark(k) ==
  /\ Is(k, "mark")
  /\ LET column == Marks[submitted[k].marked + 1]
     IN rows' = [rows EXCEPT
          ![submitted[k].row].status = IF column = "status" THEN "COMPLETED" ELSE @,
          ![submitted[k].row].files = IF column = "files" THEN "COMPLETED" ELSE @]
  /\ submitted' = [submitted EXCEPT ![k].marked = @ + 1,
       ![k].step = IF submitted[k].marked + 1 < Len(Marks) THEN "mark" ELSE "evaluate"]
  /\ UNCHANGED <<faults, today, call, nextId>>

\* An UPDATE fails: the rest is left out, and the handler goes on.
MarkFails(k) ==
  /\ Happens("database")
  /\ Is(k, "mark")
  /\ submitted' = [submitted EXCEPT ![k].step = "evaluate"]
  /\ UNCHANGED <<today, call, nextId, rows>>

\* The outputs are read and the evaluator is called; failures are only logged.
Evaluate(k) ==
  /\ Is(k, "evaluate")
  /\ submitted' = [submitted EXCEPT ![k].step = "over"]
  /\ UNCHANGED <<faults, today, call, nextId, rows>>

\* The coordinator restarts with an empty queue.
Restart ==
  /\ Happens("restart")
  /\ submitted' = [k \in DOMAIN submitted |->
       IF Is(k, "over") THEN submitted[k] ELSE [submitted[k] EXCEPT !.step = "lost"]]
  /\ UNCHANGED <<today, call, nextId, rows>>

Midnight ==
  /\ today < LastDay
  /\ today' = today + 1
  /\ UNCHANGED <<faults, call, nextId, rows, submitted>>

\* What a call does of itself.
Proceed(c) ==
  InsertJob(c) \/ InsertDetail(c) \/ Commit(c) \/ Forward(c) \/ Reply(c)

\* What the coordinator and a handler do of themselves.
Process(k) == Complete(k) \/ Mark(k) \/ Evaluate(k)

Next ==
  \/ Midnight
  \/ Restart
  \/ \E c \in Calls :
       \/ \E req \in Requests[c] : Receive(c, req)
       \/ Proceed(c)
       \/ InsertFails(c)
       \/ ForwardFails(c)
       \/ Timeout(c)
  \/ \E k \in DOMAIN submitted : Process(k) \/ MarkFails(k)

Spec == Init /\ [][Next]_vars

\* tokio polls every call that is ready, the coordinator finishes the jobs it
\* accepted, and the handlers it spawned run.  Restart takes jobs out of Process.
FairSpec ==
  /\ Spec
  /\ \A c \in Calls : WF_vars(Proceed(c))
  /\ \A k \in 1 .. MaxSubmitted : WF_vars(k \in DOMAIN submitted /\ Process(k))

-----------------------------------------------------------------------------
(* Properties *)

Step == {"waiting", "insert", "details", "forward", "reply", "over"}

Submitted ==
  [call : Calls, pos : Nat \X Nat, row : Nat, day : Day,
   step : {"running", "mark", "evaluate", "over", "lost"}, marked : 0 .. 2]

Status == {"PROCESSING", "COMPLETED"}

\* The type invariant.  A call about to forward has an input left to forward, ids
\* of rows have been given out by the table, and a handler has an UPDATE left.
TypeOK ==
  /\ faults \in 0 .. MaxFaults
  /\ today \in Day
  /\ \A c \in Calls :
       /\ call[c].step \in Step
       /\ At(c, "forward") => call[c].sent < Len(Inputs(call[c].req))
  /\ nextId \in Nat \ {0} /\ DOMAIN rows \subseteq 1 .. nextId - 1
  /\ \A id \in DOMAIN rows :
       /\ rows[id].by \in Calls /\ rows[id].job \in Nat \ {0}
       /\ rows[id].days \in Seq(Day)
       /\ rows[id].status \in Status /\ rows[id].files \in Status
  /\ \A k \in DOMAIN submitted : submitted[k] \in Submitted

InputsOf(id) == AllJobs(call[rows[id].by].req)[rows[id].job]

\* A job is visible in the database with the details and files of all of its
\* inputs or not at all, whichever statement failed and whenever the call was
\* dropped ("one transaction per job").
JobsAreWhole ==
  \A id \in DOMAIN rows : Len(rows[id].days) = Len(InputsOf(id))

\* A coordinator job carries the id of the database job that its input was
\* recorded under, so that its completion marks that one, however the insertions
\* of concurrent calls interleave; and it is about the day that was recorded, or,
\* if midnight came before the range was resolved again, about a later one.
SubmittedMatchesRow ==
  \A k \in DOMAIN submitted :
    LET s == submitted[k] IN
    /\ s.row \in DOMAIN rows
    /\ rows[s.row].by = s.call /\ rows[s.row].job = s.pos[1]
    /\ s.day \in rows[s.row].days[s.pos[2]] .. today
    /\ InputsOf(s.row)[s.pos[2]] = "fixed" => s.day = rows[s.row].days[s.pos[2]]

Answered(c) == At(c, "over") /\ call[c].reply = "ok"

SubmissionsOf(c, pos) == {k \in DOMAIN submitted : submitted[k].call = c /\ submitted[k].pos = pos}

\* A call that was answered ok has each of its jobs in the database, and each
\* input of each job submitted to the coordinator once, or logged as failed.
AnsweredMeansForwarded ==
  \A c \in Calls : Answered(c) =>
    \A j \in DOMAIN AllJobs(call[c].req) :
      /\ \E id \in DOMAIN rows : rows[id].by = c /\ rows[id].job = j
      /\ \A i \in DOMAIN AllJobs(call[c].req)[j] :
           Cardinality(SubmissionsOf(c, <<j, i>>)) = IF <<j, i>> \in call[c].unsent THEN 0 ELSE 1

Completed(id) == rows[id].status = "COMPLETED" /\ rows[id].files = "COMPLETED"

\* The input was not accepted by the coordinator, or its coordinator job was lost
\* or could not mark all of its row.
Failed(c, pos) ==
  \/ pos \in call[c].unsent
  \/ \E k \in SubmissionsOf(c, pos) :
       \/ Is(k, "lost")
       \/ submitted[k].step \in {"evaluate", "over"} /\ submitted[k].marked < Len(Marks)

\* A committed job that has inputs is eventually COMPLETED with its files, unless
\* its call was cut short or each of its inputs met a failure of its own: it was
\* not accepted, was lost with the coordinator, or an UPDATE for it failed.
EventuallyCompleted ==
  \A id \in 1 .. MaxSubmitted :
    (id \in DOMAIN rows /\ InputsOf(id) # <<>>) ~>
      /\ id \in DOMAIN rows
      /\ \/ Completed(id)
         \/ call[rows[id].by].reply \in {"timeout", "internal"}
         \/ \A i \in DOMAIN InputsOf(id) : Failed(rows[id].by, <<rows[id].job, i>>)

\* handle_job_completion: "Update DB: job and job_file to COMPLETED (finished)".
\* The files of a database job are finished when the coordinator is done with them.
CompletedMeansProcessed ==
  \A id \in DOMAIN rows : rows[id].files = "COMPLETED" =>
    \A i \in DOMAIN InputsOf(id) :
      \E k \in SubmissionsOf(rows[id].by, <<rows[id].job, i>>) : ~Is(k, "running")
=============================================================================
