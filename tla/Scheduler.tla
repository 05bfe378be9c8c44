----------------------------- MODULE Scheduler -----------------------------
(***************************************************************************)
(* cm-scheduler: every ten seconds a firing reads the evaluators that are  *)
(* valid, then the rules of each in a SELECT of its own, and asks the      *)
(* ingestion service for a job per evaluator with an input per rule.  When *)
(* a SELECT fails, or no evaluator is valid, it asks for four fixed jobs.  *)
(*                                                                         *)
(* A firing does not wait for the one before it, and the tables change     *)
(* while it reads them: between the statements, since there is no          *)
(* transaction, and between the reading of the clock and the SELECT.       *)
(*                                                                         *)
(* A JSON value is a record of its kind with the items of an array, or the *)
(* fields of an object: texts, arrays, objects, or NotText.                *)
(* Bounds: Firings, one each, MaxChanges to the tables, LastMoment.        *)
(***************************************************************************)
EXTENDS Integers, Sequences, FiniteSets, SequencesExt, TLC

CONSTANTS
  Firings,
  Evaluators,    \* the ids of the table evaluator
  Rules,         \* the ids of the table rule
  Owner,         \* the evaluator of each rule
  Rows,          \* what the columns of an evaluator may be
  Inputs,        \* what the column `input` of a rule may be
  Tables,        \* what the tables may be when the scheduler starts
  Null,          \* a date that is not set
  NotText,       \* a JSON value that is no string where one is looked for
  MaxChanges,
  LastMoment

Moment == 0 .. LastMoment
Date == Moment \cup {Null}

\* The columns of the tables that the SELECTs look at or that are read of a row.
EvaluatorModel == [active : BOOLEAN, deleted : BOOLEAN, from : Date, until : Date]
RuleModel == [active : BOOLEAN, input : Inputs]

\* The tables have finitely many rows, of these columns.
ASSUME SchedulerAssumption ==
  /\ IsFiniteSet(Evaluators) /\ IsFiniteSet(Rules)
  /\ Tables \subseteq [evaluator : [Evaluators -> Rows], rule : [Rules -> RuleModel]]
  /\ Owner \in [Rules -> Evaluators]
  /\ Rows \subseteq EvaluatorModel
  /\ \A i \in Inputs : i.kind \in {"array", "object", "other"}
  /\ MaxChanges \in Nat /\ LastMoment \in Nat

VARIABLES
  clock,
  changes,     \* how often the tables have changed
  evaluator,   \* the table evaluator
  rule,        \* the table rule
  running,     \* main ends after a hundred seconds
  firing,      \* the state of every firing
  during       \* the tables and the time at every moment of each firing

vars == <<clock, changes, evaluator, rule, running, firing, during>>

-----------------------------------------------------------------------------
(* From the JSON of a rule to inputs: rule_input_to_job_inputs *)

JobInput(key, entity, range) == [key |-> key, entity |-> entity, time_range |-> range]
Between(start, end) == [type |-> "between", value |-> "", start |-> start, end |-> end]
Named(value) == [type |-> "named", value |-> value, start |-> "", end |-> ""]

\* `v.get(name).and_then(as_str).unwrap_or(default)`
Text(v, name, default) ==
  IF name \in DOMAIN v /\ v[name] # NotText THEN v[name] ELSE default

TimeRange(v) ==
  LET range(r) ==
        IF Text(r, "type", "named") = "between"
        THEN Between(Text(r, "start", ""), Text(r, "end", ""))
        ELSE Named(Text(r, "value", "today"))
  IN  CASE "time_range" \in DOMAIN v -> range(v.time_range)
        [] "time_range" \notin DOMAIN v /\ "timeRange" \in DOMAIN v -> range(v.timeRange)
        [] OTHER -> Named("today")

\* The objects an input consists of: an array of them, one that is wrapped, or one.
ValuesOf(input) ==
  IF input.kind = "array" THEN input.items
  ELSE IF input.kind = "other" THEN <<>>
  ELSE LET f == input.fields IN
       IF "inputs" \in DOMAIN f /\ f.inputs.kind = "array" THEN f.inputs.items
       ELSE IF {"key", "entity"} \cap DOMAIN f # {} THEN <<f>>
       ELSE <<>>

\* An array of JSON is a sequence of its items.
ASSUME InputsAreJson ==
  \A input \in Inputs : ValuesOf(input) \in Seq(ToSet(ValuesOf(input)))

RuleInputs(input) ==
  LET values == ValuesOf(input) IN
  [i \in DOMAIN values |->
     JobInput(Text(values[i], "key", "default_key"),
              Text(values[i], "entity", "transaction"), TimeRange(values[i]))]

-----------------------------------------------------------------------------
(* Requests *)

\* `rule_<id>_fallback`
FallbackKey(r) == "rule_" \o ToString(r) \o "_fallback"

\* Mutation: a rule whose input cannot be read is left out.
InputsOfReadable(r, input) == RuleInputs(input)

InputsOf(r, input) ==
  IF RuleInputs(input) = <<>>
  THEN <<JobInput(FallbackKey(r), "transaction", Named("today"))>>
  ELSE RuleInputs(input)

Default == JobInput("default", "transaction", Named("today"))

\* The job of an evaluator from its rules, each with the input that was read.
JobOf(e, read) ==
  LET inputs == FlattenSeq([i \in DOMAIN read |-> InputsOf(read[i][1], read[i][2])]) IN
  [evaluator_id |-> e, input |-> IF inputs = <<>> THEN <<Default>> ELSE inputs]

Week == Between("2026-09-01T00:00:00", "2026-09-07T23:59:59")

DemoRequest ==
  LET job(e, key, entity, range) ==
        [evaluator_id |-> e, input |-> <<JobInput(key, entity, range)>>]
  IN  <<job(1, "data_transaction_widow", "transaction", Week),
        job(12, "data_transaction_today", "transaction", Named("today")),
        job(13, "data_customer_widow", "customer", Week),
        job(14, "data_customer_today", "customer", Named("today"))>>

-----------------------------------------------------------------------------
(* The SELECTs *)

\* list_evaluators_sql, where `now` is bound and not NOW() of MySQL.
Listed(row, now) ==
  /\ row.active /\ ~ row.deleted
  /\ row.from = Null \/ row.from <= now
  /\ row.until = Null \/ row.until >= now

\* list_rules_sql
RulesOf(e) == {r \in Rules : rule[r].active /\ Owner[r] = e}

\* There is no ORDER BY.
Ordered(set) == SetToSeqs(set)

-----------------------------------------------------------------------------
Idle == [step |-> "idle"]

Now == [evaluator |-> evaluator, rule |-> rule, clock |-> clock]

Init ==
  /\ clock = 0 /\ changes = 0 /\ running = TRUE
  /\ \E t \in Tables : evaluator = t.evaluator /\ rule = t.rule
  /\ firing = [f \in Firings |-> Idle]
  /\ during = [f \in Firings |-> {}]

At(f, step) == firing[f].step = step

Goes(f, state) == firing' = [firing EXCEPT ![f] = state]

\* The tables and the clock do not change in a step of a firing.
Reads == UNCHANGED <<clock, changes, evaluator, rule, running, during>>

\* The cron expression does not look at the firings that are under way.
Fire(f) ==
  /\ running /\ At(f, "idle")
  /\ Goes(f, [step |-> "listing", now |-> clock])
  /\ during' = [during EXCEPT ![f] = {Now}]
  /\ UNCHANGED <<clock, changes, evaluator, rule, running>>

\* What is sent, and whether a SELECT failed.
Sending(failed, request) ==
  [step |-> "sending", failed |-> failed, request |-> request]

\* Mutation: what could be read is sent when a SELECT fails.
AfterFailureGoingOn(f) ==
  IF At(f, "rules") /\ firing[f].jobs # <<>>
  THEN Sending(FALSE, firing[f].jobs) ELSE Sending(TRUE, DemoRequest)

\* `Err(e) => build_demo_request()`
AfterFailure(f) == Sending(TRUE, DemoRequest)

\* Mutation: an empty request is not replaced.
AfterListingAlways(pending) == [step |-> "rules", pending |-> pending, jobs |-> <<>>]

AfterListing(pending) ==
  IF pending = <<>> THEN Sending(FALSE, DemoRequest)
  ELSE [step |-> "rules", pending |-> pending, jobs |-> <<>>]

SelectEvaluators(f) ==
  /\ At(f, "listing")
  /\ \E pending \in Ordered({e \in Evaluators : Listed(evaluator[e], firing[f].now)}) :
       Goes(f, AfterListing(pending))
  /\ Reads

\* The request is built with the rules of the last evaluator.
AfterRules(f, job) ==
  LET jobs == Append(firing[f].jobs, job) IN
  IF Len(firing[f].pending) = 1 THEN Sending(FALSE, jobs)
  ELSE [firing[f] EXCEPT !.pending = Tail(@), !.jobs = jobs]

SelectRules(f) ==
  /\ At(f, "rules")
  /\ LET e == Head(firing[f].pending) IN
     \E order \in Ordered(RulesOf(e)) :
       Goes(f, AfterRules(f, JobOf(e, [i \in DOMAIN order |-> <<order[i], rule[order[i]].input>>])))
  /\ Reads

\* The pool cannot be opened, or one of the SELECTs fails.
SelectFails(f) ==
  /\ At(f, "listing") \/ At(f, "rules")
  /\ Goes(f, AfterFailure(f))
  /\ Reads

Over(f, sent) ==
  [step |-> "over", failed |-> firing[f].failed, request |-> firing[f].request, sent |-> sent]

\* SubmitJobs, whatever is answered.
Send(f) ==
  /\ At(f, "sending")
  /\ Goes(f, Over(f, TRUE))
  /\ Reads

\* The ingestion service cannot be reached: the next firing tries again.
SendFails(f) ==
  /\ At(f, "sending")
  /\ Goes(f, Over(f, FALSE))
  /\ Reads

\* The firings under way go with the process.
Exit ==
  /\ running
  /\ running' = FALSE
  /\ firing' = [f \in Firings |-> IF At(f, "over") THEN firing[f] ELSE [step |-> "dropped"]]
  /\ UNCHANGED <<clock, changes, evaluator, rule, during>>

-----------------------------------------------------------------------------
UnderWay(f) == firing[f].step \in {"listing", "rules", "sending"}

\* Every firing that is under way sees the change, if it looks.
Witnessed ==
  during' = [f \in Firings |-> IF UnderWay(f) THEN during[f] \cup {Now'} ELSE during[f]]

\* A change that no firing under way can see is one of the tables of the start.
Changes ==
  /\ changes < MaxChanges /\ \E f \in Firings : UnderWay(f)
  /\ changes' = changes + 1

ChangeEvaluator(e, row) ==
  /\ row # evaluator[e] /\ Changes
  /\ evaluator' = [evaluator EXCEPT ![e] = row]
  /\ UNCHANGED <<clock, rule, running, firing>>
  /\ Witnessed

ChangeRule(r, active, input) ==
  /\ [active |-> active, input |-> input] # rule[r] /\ Changes
  /\ rule' = [rule EXCEPT ![r] = [active |-> active, input |-> input]]
  /\ UNCHANGED <<clock, evaluator, running, firing>>
  /\ Witnessed

Tick ==
  /\ clock < LastMoment
  /\ clock' = clock + 1
  /\ UNCHANGED <<changes, evaluator, rule, running, firing>>
  /\ Witnessed

Step(f) ==
  \/ Fire(f) \/ SelectEvaluators(f) \/ SelectRules(f) \/ SelectFails(f)
  \/ Send(f) \/ SendFails(f)

Next ==
  \/ \E f \in Firings : Step(f)
  \/ \E e \in Evaluators, row \in Rows : ChangeEvaluator(e, row)
  \/ \E r \in Rules, active \in BOOLEAN, input \in Inputs : ChangeRule(r, active, input)
  \/ Exit \/ Tick

Spec == Init /\ [][Next]_vars

-----------------------------------------------------------------------------
HasRequest(f) == firing[f].step \in {"sending", "over"}

\* Types.  A firing that reads rules has an evaluator to read them of; a request
\* that is sent has jobs, and every job an input, or Ingest would refuse it or
\* record a job that no completion can ever mark.
TypeOK ==
  /\ clock \in Moment /\ changes \in 0 .. MaxChanges /\ running \in BOOLEAN
  /\ evaluator \in [Evaluators -> Rows]
  /\ rule \in [Rules -> RuleModel]
  /\ \A f \in Firings :
       /\ firing[f].step \in {"idle", "listing", "rules", "sending", "over", "dropped"}
       /\ At(f, "listing") => firing[f].now \in 0 .. clock
       /\ At(f, "rules") => firing[f].pending # <<>>
       /\ HasRequest(f) =>
            /\ firing[f].request # <<>>
            /\ \A i \in DOMAIN firing[f].request : firing[f].request[i].input # <<>>

ValidAt(row, time) ==
  row \in [active : {TRUE}, deleted : {FALSE},
           from : {Null} \cup 0 .. time, until : {Null} \cup time .. LastMoment]

\* The evaluators of a request, each once, are those that were valid together: by
\* their rows at one moment of the firing and the time of one that was not later,
\* never a part of them when a SELECT failed.  The fixed jobs are asked for when
\* one failed, or when no evaluator was valid (list_evaluators_sql,
\* fetch_active_evaluators_and_rules, call_submit_jobs).
EvaluatorsOfOneMoment ==
  \A f \in Firings : HasRequest(f) /\ ~ firing[f].failed =>
    LET request == firing[f].request
        named == {request[i].evaluator_id : i \in DOMAIN request}
        valid(s, t) == {e \in Evaluators : ValidAt(s.evaluator[e], t.clock)}
    IN  \E s, t \in during[f] :
          /\ t.clock <= s.clock
          /\ IF valid(s, t) = {} THEN request = DemoRequest
             ELSE named = valid(s, t) /\ Len(request) = Cardinality(named)

\* What a readable input asks for, by its keys.
KeysOf(input) ==
  {Text(v, "key", "default_key") : v \in ToSet(ValuesOf(input))}

\* The job of an evaluator has every rule that was active at one moment of the
\* firing, one that cannot be read under a key of its own, and nothing of rules
\* that were not; without rules it still has an input
\* (build_request_from_evaluators, rule_input_to_job_inputs).  Rules of different
\* evaluators, and the evaluators themselves, may be of different moments.
JobsHearEveryRule ==
  \A f \in Firings : HasRequest(f) /\ firing[f].request # DemoRequest =>
    \A i \in DOMAIN firing[f].request :
      LET job == firing[f].request[i]
          keys == {job.input[k].key : k \in DOMAIN job.input}
          heard(s) ==
            {r \in Rules : Owner[r] = job.evaluator_id /\ s.rule[r].active}
          keysOf(s, r) ==
            IF KeysOf(s.rule[r].input) = {} THEN {FallbackKey(r)}
            ELSE KeysOf(s.rule[r].input)
      IN  \E s \in during[f] :
            keys = IF heard(s) = {} THEN {"default"}
                   ELSE UNION {keysOf(s, r) : r \in heard(s)}
=============================================================================
