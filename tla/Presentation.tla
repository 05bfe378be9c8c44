---------------------------- MODULE Presentation ----------------------------
(***************************************************************************)
(* The presentation service of crates/core_module: concurrent requests     *)
(* GET /benefits, each a sequence of lookups in two caches and reads of    *)
(* the database, under one timeout.  The benefits of a customer and the    *)
(* verdicts on evaluators are cached for a time to live of their own.      *)
(*                                                                         *)
(* A step ends at an await at which others can be observed; the caches'    *)
(* locks are held for one step each.  Evicting an entry that has expired   *)
(* is observed by nobody, and both caches are swept in one step.           *)
(*                                                                         *)
(* What others do to the database are the actions Grant, the evaluator's   *)
(* INSERT, and Change, an evaluator that becomes valid or stops being so.  *)
(* A verdict is TRUE or FALSE; not found, inactive, outside its dates and  *)
(* a failed SELECT are all FALSE, as they are to the callers.              *)
(*                                                                         *)
(* Time is counted in milliseconds.  A timer of tokio is not late by one.  *)
(* Bounds: Calls requests at a time, MaxTime, MaxGrants benefits,          *)
(* MaxChanges changes of evaluators and failures of SELECTs.               *)
(***************************************************************************)
EXTENDS Integers, Sequences, Functions, Settings

CONSTANTS
  Calls,          \* slots for requests that overlap; a slot is used again
  Requests,       \* [customer, evaluator], the latter perhaps NoEvaluator
  Grants,         \* the benefits that may be inserted
  NoEvaluator,
  DayLength,      \* midnight is at every multiple
  MaxTime, MaxGrants, MaxChanges

Evaluator ==
  ({g.evaluator : g \in Grants} \cup {r.evaluator : r \in Requests}) \ {NoEvaluator}

BenefitTtl == Setting("BENEFIT_CACHE_TTL_MS", 30000)
EvaluatorTtl == Setting("EVALUATOR_CACHE_TTL_MS", 60000)
ApiTimeout == Setting("API_TIMEOUT_MS", 500)

\* The columns of the table that decide what is served and when.
BenefitModel ==
  [evaluator : Evaluator, customer : {g.customer : g \in Grants}, created : 0 .. MaxTime]

ASSUME PresentationAssumption ==
  /\ \A g \in Grants : g.evaluator # NoEvaluator
  /\ BenefitTtl \in Nat \ {0} /\ EvaluatorTtl \in Nat \ {0}
  /\ ApiTimeout \in Nat /\ DayLength \in Nat \ {0}
  /\ MaxTime \in Nat /\ MaxGrants \in Nat /\ MaxChanges \in Nat

VARIABLES
  now,
  benefit,        \* the table: benefits with their time of creation, by id
  valid,          \* the evaluators that are active and within their dates
  changes,
  benefitCache,   \* BENEFIT_CACHE: lists of ids, by key
  validityCache,  \* EVALUATOR_VALIDITY_CACHE: verdicts, by evaluator
  call,
  answer,         \* the answer given in the last step, if that gave one
  seen            \* history: which verdict an evaluator deserved, or a failed
                  \* SELECT gave it, in which tick

vars == <<now, benefit, valid, changes, benefitCache, validityCache, call, answer, seen>>

database == <<benefit, valid, changes>>
caches == <<benefitCache, validityCache>>

-----------------------------------------------------------------------------
(* Parts of get_benefits_by_customer and of the caches *)

\* The ids a SELECT finds: `created_at >= CURDATE() AND created_at < CURDATE() + 1`.
Selected(req) ==
  {i \in DOMAIN benefit :
     /\ benefit[i].customer = req.customer
     /\ req.evaluator \in {benefit[i].evaluator, NoEvaluator}
     /\ benefit[i].created \div DayLength = now \div DayLength}

\* Mutation: an entry lives through the instant of its expiry.
LiveInclusive(entry) == now <= entry.expiry

\* `Instant::now() < entry.expiry`
Live(entry) == now < entry.expiry

\* Mutation: the key is the customer.
CustomerKey(req) == [customer |-> req.customer, evaluator |-> NoEvaluator]

\* (customer_id, evaluator_id)
CacheKey(req) == req

Hit(cache, key) == key \in DOMAIN cache /\ Live(cache[key])

Inserted(cache, key, entry) ==
  [k \in DOMAIN cache \cup {key} |-> IF k = key THEN entry ELSE cache[k]]

Evicted(cache) == Restrict(cache, {k \in DOMAIN cache : Live(cache[k])})

At(c, step) == call[c].step = step

Keyed(c) == call[c].req.evaluator # NoEvaluator

\* The benefit whose evaluator is checked next.
NextRow(c) == CHOOSE i \in call[c].pending : \A j \in call[c].pending : i <= j

\* The evaluator to check: the one asked for, or that of the next benefit.
Subject(c) == IF Keyed(c) THEN call[c].req.evaluator ELSE benefit[NextRow(c)].evaluator

Answer(c, reply, rows) ==
  [step |-> "over", req |-> call[c].req, reply |-> reply, rows |-> rows]

\* Mutation: every benefit is kept.
KeepsAny(verdict) == TRUE

\* `check_evaluator_valid(..).await.is_ok()`
Keeps(verdict) == verdict

\* How a call goes on with the verdict on its subject.
AfterCheck(c, verdict) ==
  IF Keyed(c)
  THEN IF verdict THEN [call[c] EXCEPT !.step = "fetch", !.verdict = FALSE] ELSE Answer(c, "refused", {})
  ELSE [call[c] EXCEPT
          !.step = IF call[c].pending = {NextRow(c)} THEN "store" ELSE "validity",
          !.pending = @ \ {NextRow(c)}, !.verdict = FALSE,
          !.rows = IF Keeps(verdict) THEN @ \cup {NextRow(c)} ELSE @]

\* Mutation: a first benefit is taken for granted.
AfterFetchChecking(c, rows) ==
  IF Keyed(c) THEN [call[c] EXCEPT !.step = "store", !.rows = rows]
  ELSE [call[c] EXCEPT !.step = "validity", !.pending = rows]

\* A list for one evaluator is complete; others are checked row by row.
AfterFetch(c, rows) ==
  IF Keyed(c) \/ rows = {} THEN [call[c] EXCEPT !.step = "store", !.rows = rows]
  ELSE [call[c] EXCEPT !.step = "validity", !.pending = rows]

Idle(c) == At(c, "waiting")

Waiting == [step |-> "waiting"]

NoAnswer == [step |-> "none"]

\* Call c becomes `next`, which may be its answer.
Becomes(c, next) ==
  /\ call' = [call EXCEPT ![c] = IF next.step = "over" THEN Waiting ELSE next]
  /\ answer' = IF next.step = "over" THEN next ELSE NoAnswer

-----------------------------------------------------------------------------
Init ==
  /\ now = 0
  /\ benefit = <<>>
  /\ valid = Evaluator
  /\ changes = 0
  /\ benefitCache = [k \in {} |-> <<>>]
  /\ validityCache = [k \in {} |-> <<>>]
  /\ call = [c \in Calls |-> Waiting]
  /\ answer = NoAnswer
  /\ seen = {[evaluator |-> e, at |-> 0, verdict |-> TRUE] : e \in Evaluator}

Receive(c, req) ==
  /\ Idle(c)
  /\ Becomes(c, [step |-> "lookup", req |-> req, started |-> now,
                 rows |-> {}, pending |-> {}, verdict |-> FALSE])
  /\ UNCHANGED <<now, database, caches, seen>>

\* get_cached_benefits
Lookup(c) ==
  LET key == CacheKey(call[c].req) IN
  /\ At(c, "lookup")
  /\ Becomes(c, IF Hit(benefitCache, key) THEN Answer(c, "ok", benefitCache[key].rows)
                ELSE [call[c] EXCEPT !.step = IF Keyed(c) THEN "validity" ELSE "fetch"])
  /\ UNCHANGED <<now, database, caches, seen>>

\* get_cached_evaluator_validity
LookupValidity(c) ==
  LET e == Subject(c) IN
  /\ At(c, "validity")
  /\ Becomes(c, IF Hit(validityCache, e) THEN AfterCheck(c, validityCache[e].verdict)
                ELSE [call[c] EXCEPT !.step = "select"])
  /\ UNCHANGED <<now, database, caches, seen>>

\* check_evaluator_valid_inner
SelectEvaluator(c) ==
  /\ At(c, "select")
  /\ Becomes(c, [call[c] EXCEPT !.step = "remember", !.verdict = Subject(c) \in valid])
  /\ UNCHANGED <<now, database, caches, seen>>

\* The SELECT fails, which is a verdict like any other.
SelectFails(c) ==
  /\ At(c, "select")
  /\ changes < MaxChanges
  /\ changes' = changes + 1
  /\ Becomes(c, [call[c] EXCEPT !.step = "remember"])
  /\ seen' = seen \cup {[evaluator |-> Subject(c), at |-> now, verdict |-> FALSE]}
  /\ UNCHANGED <<now, benefit, valid, caches>>

\* insert_cached_evaluator_validity
Remember(c) ==
  /\ At(c, "remember")
  /\ validityCache' = Inserted(validityCache, Subject(c),
       [verdict |-> call[c].verdict, expiry |-> now + EvaluatorTtl])
  /\ Becomes(c, AfterCheck(c, call[c].verdict))
  /\ UNCHANGED <<now, database, benefitCache, seen>>

\* fetch_benefits
Fetch(c) ==
  /\ At(c, "fetch")
  /\ Becomes(c, AfterFetch(c, Selected(call[c].req)))
  /\ UNCHANGED <<now, database, caches, seen>>

FetchFails(c) ==
  /\ At(c, "fetch")
  /\ changes < MaxChanges
  /\ changes' = changes + 1
  /\ Becomes(c, Answer(c, "internal", {}))
  /\ UNCHANGED <<now, benefit, valid, caches, seen>>

\* insert_cached_benefits
Store(c) ==
  /\ At(c, "store")
  /\ benefitCache' = Inserted(benefitCache, CacheKey(call[c].req),
       [rows |-> call[c].rows, expiry |-> now + BenefitTtl])
  /\ Becomes(c, [call[c] EXCEPT !.step = "evict"])
  /\ UNCHANGED <<now, database, validityCache, seen>>

\* evict_expired_benefit_cache, and the answer.
Evict(c) ==
  /\ At(c, "evict")
  /\ benefitCache' = Evicted(benefitCache)
  /\ validityCache' = Evicted(validityCache)
  /\ Becomes(c, Answer(c, "ok", call[c].rows))
  /\ UNCHANGED <<now, database, seen>>

\* get_benefits_handler drops the future.
Timeout(c) ==
  /\ ~Idle(c)
  /\ now - call[c].started = ApiTimeout
  /\ Becomes(c, Answer(c, "timeout", {}))
  /\ UNCHANGED <<now, database, caches, seen>>

\* The evaluator service inserts a benefit.
Grant(g) ==
  /\ Len(benefit) < MaxGrants
  /\ benefit' = Append(benefit,
       [evaluator |-> g.evaluator, customer |-> g.customer, created |-> now])
  /\ answer' = NoAnswer
  /\ UNCHANGED <<now, valid, changes, caches, call, seen>>

\* An evaluator is switched on or off, or enters or leaves its dates.
Change(e) ==
  /\ changes < MaxChanges
  /\ changes' = changes + 1
  /\ valid' = (valid \ {e}) \cup ({e} \ valid)
  /\ seen' = seen \cup {[evaluator |-> e, at |-> now, verdict |-> e \notin valid]}
  /\ answer' = NoAnswer
  /\ UNCHANGED <<now, benefit, caches, call>>

Tick ==
  /\ now < MaxTime
  /\ \A c \in Calls : ~Idle(c) => now - call[c].started < ApiTimeout
  /\ now' = now + 1
  /\ answer' = NoAnswer
  /\ seen' = seen \cup
       {[evaluator |-> e, at |-> now + 1, verdict |-> e \in valid] : e \in Evaluator}
  /\ UNCHANGED <<database, caches, call>>

Next ==
  \/ Tick
  \/ \E g \in Grants : Grant(g)
  \/ \E e \in Evaluator : Change(e)
  \/ \E c \in Calls :
       \/ \E req \in Requests : Receive(c, req)
       \/ Lookup(c)
       \/ LookupValidity(c)
       \/ SelectEvaluator(c)
       \/ SelectFails(c)
       \/ Remember(c)
       \/ Fetch(c)
       \/ FetchFails(c)
       \/ Store(c)
       \/ Evict(c)
       \/ Timeout(c)

Spec == Init /\ [][Next]_vars

-----------------------------------------------------------------------------
(* Properties *)

Step == {"waiting", "lookup", "validity", "select", "remember", "fetch", "store", "evict"}

\* The type invariant: caches hold ids of the table, and a call that checks an
\* evaluator has one to check.
TypeOK ==
  /\ now \in 0 .. MaxTime /\ valid \subseteq Evaluator /\ changes \in 0 .. MaxChanges
  /\ benefit \in Seq(BenefitModel)
  /\ \A i \in DOMAIN benefit : benefit[i].created <= now
  /\ DOMAIN benefitCache \subseteq Requests /\ DOMAIN validityCache \subseteq Evaluator
  /\ \A k \in DOMAIN benefitCache : benefitCache[k].rows \subseteq DOMAIN benefit
  /\ \A c \in Calls :
       /\ call[c].step \in Step
       /\ ~Idle(c) => call[c].rows \cup call[c].pending \subseteq DOMAIN benefit
       /\ call[c].step \in {"validity", "select", "remember"} =>
            Keyed(c) \/ call[c].pending # {}

Answered(reply) == answer.step = "over" /\ answer.reply = reply

\* Evaluator e deserved or was given the verdict in the last `age` ticks.
Seen(e, verdict, age) ==
  \E s \in seen : s.evaluator = e /\ s.verdict = verdict /\ s.at \in now - age .. now

\* The oldest a list can be when it is served: read at the start of a call that
\* took the whole timeout to cache it, and found in the last instant of its life.
ListAge == ApiTimeout + BenefitTtl - 1

\* The oldest a verdict can be when it refuses a request.
VerdictAge == ApiTimeout + EvaluatorTtl - 1

\* The ids of the n first benefits that are of the request and of the day of tick t.
OfTheDay(req, n, t) ==
  {i \in 1 .. n :
     /\ benefit[i].customer = req.customer
     /\ req.evaluator = NoEvaluator \/ benefit[i].evaluator = req.evaluator
     /\ benefit[i].created \div DayLength = t \div DayLength}

\* In tick t there was a moment when the table held the n first benefits.
Held(n, t) ==
  /\ \A i \in 1 .. n : benefit[i].created <= t
  /\ \A i \in n + 1 .. Len(benefit) : benefit[i].created >= t

\* A list is what the table said of the request, and of that moment's day, at one
\* moment not further back than ListAge, however concurrent calls read and cache:
\* an old read never renews its life by overwriting a newer one, and no list mixes
\* two moments.  A list for all evaluators may miss benefits of evaluators that got
\* a negative verdict within the life of both caches.
ListsAreRecent ==
  Answered("ok") =>
    \E t \in now - ListAge .. now, n \in 0 .. Len(benefit) :
      LET rows == OfTheDay(answer.req, n, t) IN
      /\ t >= 0 /\ Held(n, t)
      /\ answer.rows \subseteq rows
      /\ \A i \in rows \ answer.rows :
           /\ answer.req.evaluator = NoEvaluator
           /\ Seen(benefit[i].evaluator, FALSE, ListAge + VerdictAge)

\* A served benefit's evaluator was valid within the life of both caches: a verdict
\* is not prolonged by the lists it let through, nor by calls that use it.
ServedWereValid ==
  Answered("ok") =>
    \A i \in answer.rows : Seen(benefit[i].evaluator, TRUE, ListAge + VerdictAge)

\* A refused request's evaluator was invalid, or could not be read, within the life
\* of one verdict.
RefusalsAreRecent ==
  Answered("refused") => Seen(answer.req.evaluator, FALSE, VerdictAge)
=============================================================================
