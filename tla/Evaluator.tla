----------------------------- MODULE Evaluator -----------------------------
(***************************************************************************)
(* The evaluator service of crates/core_module: concurrent Evaluate calls  *)
(* that run the rules of an evaluator, insert a row of the table `benefit` *)
(* under a unique idempotency key and append a line to the benefit file of *)
(* the day.                                                                *)
(*                                                                         *)
(* A call is a sequence of steps, one per await at which other calls can   *)
(* be observed.  The timeout around it drops the future: what has not      *)
(* begun never happens, but a statement already sent to MySQL and a write  *)
(* already handed to tokio's file thread may still take effect after the   *)
(* caller has been told DEADLINE_EXCEEDED.                                 *)
(*                                                                         *)
(* The rules may be edited at any time, so running them is a choice of an  *)
(* outcome.  Rows of `benefit` carry the job and the call they come from   *)
(* as history; the table has no such columns.  The database and the file   *)
(* survive a crash of the service, the calls do not.                       *)
(*                                                                         *)
(* Faults is the set of faults an instance allows: "timeout", "crash",     *)
(* "rules" (the rules cannot be read or run), "database" (the INSERT fails *)
(* other than by a duplicate key), "file" (an I/O error of the append).    *)
(* Bounds: Calls, one call each, and LastDay, where the calendar stops.    *)
(***************************************************************************)
EXTENDS Integers, Sequences

CONSTANTS
  Calls,      \* the Evaluate calls that may come
  Requests,   \* what they may ask for
  Outcomes,   \* what the rules may grant
  NoBenefits, \* the outcome of rules that grant nothing
  Faults,
  LastDay

\* `req.customer` is None.
NoCustomer == -1

\* No row is written for a request.
Nobody == -2

ASSUME EvaluatorAssumption ==
  /\ Requests \subseteq
       [evaluator : Nat, customer : Nat \cup {NoCustomer},
        transaction : BOOLEAN, job : Nat]
  /\ NoBenefits \in Outcomes
  /\ Faults \subseteq {"timeout", "crash", "rules", "database", "file"}
  /\ LastDay \in Nat

Day == 0 .. LastDay

VARIABLES
  today,     \* the date, in UTC
  call,      \* the state of every call
  benefit,   \* the rows of the table
  file       \* the lines of data/output/benefit<day>.txt

vars == <<today, call, benefit, file>>

Waiting == [step |-> "waiting", reply |-> "none"]

-----------------------------------------------------------------------------
(* Parts of evaluate_inner *)

\* Mutation: every evaluator shares the customer's key of the day.
CustomerKey(req, customer, day) == <<customer, day>>

\* Mutation: the key of LOAD_TEST.md, customer, job and date.
JobKey(req, customer, day) == <<customer, req.job, day>>

\* idempotency_key, as evaluate_inner calls it.
IdempotencyKey(req, customer, day) == <<customer, req.evaluator, day>>

\* Mutation: a row for whatever customer the request has.
RecipientUnchecked(req, outcome) == req.customer

\* The customer the row is for.  Customer 0 is skipped; a request without
\* customer is entered under 0 when it has no transaction and was granted
\* something.
Recipient(req, outcome) ==
  CASE req.customer > 0 -> req.customer
    [] req.customer = NoCustomer /\ ~req.transaction /\ outcome # NoBenefits -> 0
    [] OTHER -> Nobody

KeyOf(c) == IdempotencyKey(call[c].req, call[c].customer, call[c].day)

Duplicate(c) == \E row \in benefit : row.key = KeyOf(c)

RowOf(c) ==
  [key |-> KeyOf(c), evaluator |-> call[c].req.evaluator,
   customer |-> call[c].customer, day |-> call[c].day, value |-> call[c].outcome,
   job |-> call[c].req.job, by |-> c]

\* Mutation: the file is named after the date at the time of the append.
FileOfToday(c) == today

\* The path is built from the date that is in the key.
FileOf(c) == call[c].day

\* append_benefit_file: `exists && metadata.len() > 0`.
NeedsNewline(lines) == lines # <<>>

\* Mutation: the duplicate is logged and the line appended all the same.
AfterDuplicateAppending == "check"

\* "skipping insert and file (idempotent)"
AfterDuplicate == "over"

TimedOut(c) == call[c].reply = "timeout"

At(c, step) == call[c].step = step

\* The call goes on to its next step, or to nothing when its future was dropped.
GoOn(c, step) ==
  IF TimedOut(c) THEN [call[c] EXCEPT !.step = "over"]
  ELSE IF step = "over" THEN [call[c] EXCEPT !.step = "over", !.reply = "ok"]
  ELSE [call[c] EXCEPT !.step = step]

-----------------------------------------------------------------------------
Init ==
  /\ today = 0
  /\ call = [c \in Calls |-> Waiting]
  /\ benefit = {}
  /\ file = [d \in Day |-> <<>>]

\* evaluator_id 0 is an invalid argument.
Receive(c, req) ==
  /\ At(c, "waiting")
  /\ call' = [call EXCEPT ![c] =
       IF req.evaluator = 0
         THEN [step |-> "over", reply |-> "invalid_argument"]
         ELSE [step |-> "rules", reply |-> "none", req |-> req]]
  /\ UNCHANGED <<today, benefit, file>>

\* evaluate_rules returns; the date is read right after it.
EvaluateRules(c, outcome) ==
  /\ At(c, "rules")
  /\ ~TimedOut(c)
  /\ LET req == call[c].req
         customer == Recipient(req, outcome)
     IN call' = [call EXCEPT ![c] =
          IF customer = Nobody
            THEN [step |-> "over", reply |-> "ok"]
            ELSE [step |-> "insert", reply |-> "none", req |-> req,
                  customer |-> customer, outcome |-> outcome, day |-> today]]
  /\ UNCHANGED <<today, benefit, file>>

RulesFail(c) ==
  /\ "rules" \in Faults
  /\ At(c, "rules")
  /\ call' = [call EXCEPT ![c] = [step |-> "over", reply |-> "internal"]]
  /\ UNCHANGED <<today, benefit, file>>

Insert(c) ==
  /\ At(c, "insert")
  /\ ~Duplicate(c)
  /\ benefit' = benefit \cup {RowOf(c)}
  /\ call' = [call EXCEPT ![c] = GoOn(c, "check")]
  /\ UNCHANGED <<today, file>>

\* MySQL answers 1062: the call succeeds without row and line.
InsertDuplicate(c) ==
  /\ At(c, "insert")
  /\ Duplicate(c)
  /\ call' = [call EXCEPT ![c] = GoOn(c, AfterDuplicate)]
  /\ UNCHANGED <<today, benefit, file>>

\* append_benefit_file looks at the file before it opens it.
CheckFile(c) ==
  /\ At(c, "check")
  /\ call' = [call EXCEPT ![c] =
       [step |-> "write", reply |-> "none", req |-> @.req, customer |-> @.customer,
        outcome |-> @.outcome, day |-> @.day,
        newline |-> NeedsNewline(file[FileOf(c)])]]
  /\ UNCHANGED <<today, benefit, file>>

\* One write in append mode, of the newline if there is to be one and the line.
WriteLine(c) ==
  /\ At(c, "write")
  /\ file' = [file EXCEPT ![FileOf(c)] =
                Append(@, [call |-> c, newline |-> call[c].newline])]
  /\ call' = [call EXCEPT ![c] = GoOn(c, "over")]
  /\ UNCHANGED <<today, benefit>>

\* Any other error of the INSERT and any error of the append is logged, and the
\* call answers as if nothing had happened.
Fail(c) ==
  /\ \/ "database" \in Faults /\ At(c, "insert")
     \/ "file" \in Faults /\ (At(c, "check") \/ At(c, "write"))
  /\ call' = [call EXCEPT ![c] =
       [GoOn(c, "failed") EXCEPT !.reply = IF @ = "none" THEN "ok" ELSE @]]
  /\ UNCHANGED <<today, benefit, file>>

\* tokio::time::timeout drops the future.  The statement or the write under way
\* may still take effect.
Timeout(c) ==
  /\ "timeout" \in Faults
  /\ call[c].step \in {"rules", "insert", "check", "write"}
  /\ ~TimedOut(c)
  /\ \E step \in {"over"} \cup ({call[c].step} \cap {"insert", "write"}) :
       call' = [call EXCEPT ![c].step = step, ![c].reply = "timeout"]
  /\ UNCHANGED <<today, benefit, file>>

\* The service dies with the calls it is working on.
Crash ==
  /\ "crash" \in Faults
  /\ call' = [c \in Calls |->
       IF call[c].step \in {"waiting", "over", "failed"} THEN call[c]
       ELSE [call[c] EXCEPT !.step = "over", !.reply = IF @ = "none" THEN "lost" ELSE @]]
  /\ UNCHANGED <<today, benefit, file>>

Midnight ==
  /\ today < LastDay
  /\ today' = today + 1
  /\ UNCHANGED <<call, benefit, file>>

\* What a call does of itself.
Proceed(c) ==
  \/ \E outcome \in Outcomes : EvaluateRules(c, outcome)
  \/ Insert(c)
  \/ InsertDuplicate(c)
  \/ CheckFile(c)
  \/ WriteLine(c)

Next ==
  \/ Midnight
  \/ Crash
  \/ \E c \in Calls :
       \/ \E req \in Requests : Receive(c, req)
       \/ Proceed(c)
       \/ RulesFail(c)
       \/ Fail(c)
       \/ Timeout(c)

Spec == Init /\ [][Next]_vars

\* tokio polls every call that is ready; nothing else has to happen.
FairSpec == Spec /\ \A c \in Calls : WF_vars(Proceed(c))

-----------------------------------------------------------------------------
(* Properties *)

CallState ==
  [step : {"waiting", "over"}, reply : {"none", "ok", "invalid_argument", "internal"}]
  \cup [step : {"rules", "over"}, reply : {"none", "lost", "timeout"}, req : Requests]
  \cup [step : {"insert", "check", "over", "failed"},
        reply : {"none", "ok", "lost", "timeout"}, req : Requests,
        customer : Nat, outcome : Outcomes, day : Day]
  \cup [step : {"write", "over", "failed"},
        reply : {"none", "ok", "lost", "timeout"}, req : Requests,
        customer : Nat, outcome : Outcomes, day : Day, newline : BOOLEAN]

Line == [call : Calls, newline : BOOLEAN]

\* The type invariant: calls carry what the steps they have done produced, rows
\* belong to a day that has come, lines to a call.
TypeOK ==
  /\ today \in Day
  /\ \A c \in Calls : call[c] \in CallState
  /\ \A row \in benefit : row.day \in 0 .. today /\ row.by \in Calls
  /\ \A d \in Day : \A i \in DOMAIN file[d] : file[d][i] \in Line

InFile(c, d) == \E i \in DOMAIN file[d] : file[d][i].call = c

\* The benefit files say nothing the table does not: every line comes from a row
\* of that day, and no row is written twice, however calls for the same customer
\* overlap, time out or run into a duplicate key.
LinesMatchRows ==
  \A d \in Day : \A i \in DOMAIN file[d] :
    /\ \E row \in benefit : row.by = file[d][i].call /\ row.day = d
    /\ \A k \in DOMAIN file[d] : file[d][i].call = file[d][k].call => i = k

Answered(c) == call[c].step = "over" /\ call[c].reply = "ok"

\* The call got as far as a customer to credit.
Credits(c) == "customer" \in DOMAIN call[c]

\* The customer of call c has a row of the evaluator and the day c is about.
Granted(c, row) ==
  /\ Credits(c)
  /\ row.evaluator = call[c].req.evaluator
  /\ row.customer = call[c].customer
  /\ row.day = call[c].day

\* A call that was answered, had a customer to credit and met no error leaves that
\* customer with a row of this evaluator and day: its own, filed in the file of
\* that day even if midnight passed since, or an earlier one it was a duplicate of.
AnsweredMeansGranted ==
  \A c \in Calls : Answered(c) /\ Credits(c) =>
    \E row \in benefit : Granted(c, row) /\ (row.by = c => InFile(c, row.day))

CutShort(c) == call[c].step = "failed" \/ call[c].reply \in {"timeout", "lost"}

\* A customer about to be credited eventually has the row and the row its line,
\* unless the call at work on them fails, is timed out or dies with the service.
\* No call and no lock waits for another one.
EventuallyFiled ==
  \A c \in Calls : At(c, "insert") ~>
    \/ CutShort(c)
    \/ \E row \in benefit :
         Granted(c, row) /\ (InFile(row.by, row.day) \/ CutShort(row.by))

Ledger ==
  INSTANCE BenefitLedger WITH
    Evaluator <- {req.evaluator : req \in Requests},
    Customer <- {req.customer : req \in Requests} \cup {0},
    Outcome <- Outcomes,
    granted <- {[evaluator |-> row.evaluator, customer |-> row.customer,
                 day |-> row.day, value |-> row.value] : row \in benefit}

\* Whatever calls overlap, time out or are repeated, and whatever the rules say by
\* then, a customer is granted one outcome per evaluator and day, for good.
ImplementsLedger == Ledger!Spec

\* append_benefit_file: "If file exists and is non-empty, prefix with newline".
LinesSeparated ==
  \A d \in Day : \A i \in DOMAIN file[d] : file[d][i].newline <=> i > 1
=============================================================================
