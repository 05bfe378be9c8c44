-------------------------- MODULE EvaluatorProofs --------------------------
(***************************************************************************)
(* Theorems about Evaluator, for every number of calls, every set of       *)
(* requests, outcomes and faults, and every number of days.                *)
(***************************************************************************)
EXTENDS Evaluator, TLAPS

\* The kinds of records in CallState.
Refused == [step : {"waiting", "over"}, reply : {"none", "ok", "invalid_argument", "internal"}]

Asking == [step : {"rules", "over"}, reply : {"none", "lost", "timeout"}, req : Requests]

Crediting ==
  [step : {"insert", "check", "over", "failed"},
   reply : {"none", "ok", "lost", "timeout"}, req : Requests,
   customer : Nat, outcome : Outcomes, day : Day]

Filing ==
  [step : {"write", "over", "failed"},
   reply : {"none", "ok", "lost", "timeout"}, req : Requests,
   customer : Nat, outcome : Outcomes, day : Day, newline : BOOLEAN]

\* A call's record is of one of four kinds, by how far the call got.
LEMMA Kinds == CallState = Refused \cup Asking \cup Crediting \cup Filing
  BY DEF CallState, Refused, Asking, Crediting, Filing

\* The step a call is at tells the kind of its record.
LEMMA KindOfStep ==
  ASSUME NEW c \in Calls, call[c] \in CallState
  PROVE  /\ At(c, "waiting") => call[c] \in Refused
         /\ At(c, "rules") => call[c] \in Asking
         /\ At(c, "insert") \/ At(c, "check") => call[c] \in Crediting
         /\ At(c, "write") => call[c] \in Filing
         /\ Credits(c) => call[c] \in Crediting \cup Filing
  BY Kinds DEF Refused, Asking, Crediting, Filing, At, Credits

\* A call with a customer to credit.
Entered(c) ==
  /\ call[c].day \in 0 .. today
  /\ call[c].customer \in {call[c].req.customer, 0}

AtWork(c) == call[c].step \in {"rules", "insert", "check", "write"}

\* TypeOK, made inductive.
Types ==
  /\ today \in Day
  /\ call \in [Calls -> CallState]
  /\ file \in [Day -> Seq(Line)]
  /\ \A c \in Calls : Credits(c) => Entered(c)
  /\ \A c \in Calls : AtWork(c) => call[c].reply \in {"none", "timeout"}
  /\ \A row \in benefit : row.day \in 0 .. today /\ row.by \in Calls

\* Whoever is credited is the customer of the request, or customer 0.
LEMMA RecipientType ==
  ASSUME NEW req \in Requests, NEW outcome \in Outcomes, Recipient(req, outcome) # Nobody
  PROVE  /\ Recipient(req, outcome) \in Nat
         /\ Recipient(req, outcome) \in {req.customer, 0}
  BY EvaluatorAssumption DEF Recipient, NoCustomer, Nobody

\* How one call changes: what a step makes of its record.
Became(c, new) == call' = [call EXCEPT ![c] = new]

\* What a call becomes when it goes on, answers or fails.
LEMMA GoOnType ==
  ASSUME Types, NEW c \in Calls, NEW step \in {"check", "over", "failed"},
         \/ At(c, "insert")
         \/ At(c, "check") /\ step # "check"
         \/ At(c, "write") /\ step # "check",
         NEW new, new = GoOn(c, step)
  PROVE  /\ new \in Crediting \cup Filing
         /\ new.day = call[c].day /\ new.customer = call[c].customer
         /\ new.req = call[c].req /\ new.outcome = call[c].outcome
         /\ call[c].reply = "timeout" => new.step = "over" /\ new.reply = "timeout"
         /\ call[c].reply = "none" =>
              new.step = step /\ new.reply = IF step = "over" THEN "ok" ELSE "none"
         /\ call[c].reply \in {"none", "timeout"}
  <1>1. call[c] \in CallState /\ call[c].reply \in {"none", "timeout"}
    BY DEF Types, AtWork, At
  <1>2. CASE At(c, "insert") \/ At(c, "check")
    <2>1. call[c] \in Crediting
      BY <1>1, <1>2, KindOfStep
    <2>2. QED
      BY <1>1, <1>2, <2>1 DEF GoOn, Crediting, TimedOut
  <1>3. CASE At(c, "write")
    <2>1. call[c] \in Filing
      BY <1>1, <1>3, KindOfStep
    <2>2. step # "check"
      BY <1>3 DEF At
    <2>3. QED
      BY <1>1, <2>1, <2>2 DEF GoOn, Filing, TimedOut
  <1>4. QED
    BY <1>2, <1>3

\* What Types says of one call, for the record it has.
Good(new, now) ==
  /\ new \in CallState
  /\ "customer" \in DOMAIN new =>
       new.day \in 0 .. now /\ new.customer \in {new.req.customer, 0}
  /\ new.step \in {"rules", "insert", "check", "write"} => new.reply \in {"none", "timeout"}

\* Types, as a statement about each call.
LEMMA TypesByCall ==
  Types <=>
    /\ today \in Day
    /\ call \in [Calls -> CallState]
    /\ file \in [Day -> Seq(Line)]
    /\ \A c \in Calls : Good(call[c], today)
    /\ \A row \in benefit : row.day \in 0 .. today /\ row.by \in Calls
  BY DEF Types, Good, Credits, Entered, AtWork

\* Each step keeps the records of the calls well formed.
LEMMA CallTypes ==
  ASSUME Types, [Next]_vars
  PROVE  /\ call' \in [Calls -> CallState]
         /\ \A c \in Calls : Good(call'[c], today)
  <1>0. /\ call \in [Calls -> CallState] /\ today \in Nat
        /\ \A c \in Calls : Good(call[c], today)
    BY TypesByCall DEF Types, Day
  <1> DEFINE Goal == /\ call' \in [Calls -> CallState]
                     /\ \A c \in Calls : Good(call'[c], today)
  <1>1. ASSUME NEW c \in Calls, NEW new, Good(new, today), Became(c, new) PROVE Goal
    <2>1. call' \in [Calls -> CallState]
      BY <1>0, <1>1 DEF Good, Became
    <2>2. ASSUME NEW d \in Calls PROVE Good(call'[d], today)
      <3>1. call'[d] = IF d = c THEN new ELSE call[d]
        BY <1>0, <1>1 DEF Became
      <3>2. CASE d = c
        BY <1>1, <3>1, <3>2
      <3>3. CASE d # c
        BY <1>0, <3>1, <3>3
      <3>4. QED
        BY <3>2, <3>3
    <2>3. QED
      BY <2>1, <2>2
  <1>2. ASSUME NEW new \in Refused \cup Asking, new.step = "rules" => new.reply = "none"
        PROVE  Good(new, today)
    BY <1>2, Kinds DEF Good, Refused, Asking
  <1>3. ASSUME NEW c \in Calls, NEW req \in Requests, Receive(c, req) PROVE Goal
    <2> DEFINE new == IF req.evaluator = 0
                        THEN [step |-> "over", reply |-> "invalid_argument"]
                        ELSE [step |-> "rules", reply |-> "none", req |-> req]
    <2>1. new \in Refused \cup Asking /\ (new.step = "rules" => new.reply = "none")
      BY DEF Refused, Asking
    <2>2. Became(c, new)
      BY <1>3 DEF Receive, Became
    <2> HIDE DEF new
    <2>3. QED
      BY <1>1, <1>2, <2>1, <2>2
  <1>4. ASSUME NEW c \in Calls, NEW outcome \in Outcomes, EvaluateRules(c, outcome) PROVE Goal
    <2>1. PICK req, customer : req = call[c].req /\ customer = Recipient(req, outcome)
      OBVIOUS
    <2>2. req \in Requests
      BY <1>0, <1>4, <2>1, KindOfStep DEF EvaluateRules, Asking
    <2>3. CASE customer = Nobody
      <3>1. Became(c, [step |-> "over", reply |-> "ok"])
        BY <1>4, <2>1, <2>3 DEF EvaluateRules, Became
      <3>2. [step |-> "over", reply |-> "ok"] \in Refused
        BY DEF Refused
      <3>3. Good([step |-> "over", reply |-> "ok"], today)
        BY <1>2, <3>2
      <3>4. QED
        BY <1>1, <3>1, <3>3
    <2>4. CASE customer # Nobody
      <3> DEFINE new == [step |-> "insert", reply |-> "none", req |-> req,
                         customer |-> customer, outcome |-> outcome, day |-> today]
      <3>1. Became(c, new)
        BY <1>4, <2>1, <2>4 DEF EvaluateRules, Became
      <3>2. new \in Crediting
        BY <1>0, <2>1, <2>2, <2>4, RecipientType DEF Crediting, Types
      <3>3. new.day = today /\ new.customer \in {new.req.customer, 0}
            /\ new.reply = "none"
        BY <2>1, <2>2, <2>4, RecipientType
      <3> HIDE DEF new
      <3>4. Good(new, today)
        BY <1>0, <3>2, <3>3, Kinds DEF Good
      <3>5. QED
        BY <1>1, <3>1, <3>4
    <2>5. QED
      BY <2>3, <2>4
  <1>5. ASSUME NEW c \in Calls, RulesFail(c) PROVE Goal
    <2>1. [step |-> "over", reply |-> "internal"] \in Refused
      BY DEF Refused
    <2>2. QED
      BY <1>1, <1>2, <1>5, <2>1 DEF RulesFail, Became
  <1>6. ASSUME NEW c \in Calls, NEW new \in Crediting \cup Filing,
               new.day = call[c].day, new.customer = call[c].customer,
               new.req = call[c].req, Credits(c),
               AtWork(c) /\ new.step \in {"insert", "check", "write"} => new.reply \in {"none", "timeout"},
               AtWork(c)
        PROVE  Good(new, today)
    <2>1. Entered(c)
      BY <1>6 DEF Types
    <2>2. QED
      BY <1>6, <2>1, Kinds DEF Good, Crediting, Filing, Entered
  <1>7. ASSUME NEW c \in Calls, NEW step \in {"check", "over"},
               At(c, "insert") \/ (At(c, "write") /\ step # "check"),
               Became(c, GoOn(c, step))
        PROVE  Goal
    <2>1. PICK new : new = GoOn(c, step)
      OBVIOUS
    <2>2. /\ new \in Crediting \cup Filing
          /\ new.day = call[c].day /\ new.customer = call[c].customer
          /\ new.req = call[c].req
          /\ new.step \in {"check", "over"}
          /\ new.step = "check" => new.reply = "none"
      BY <1>7, <2>1, GoOnType
    <2>3. Credits(c) /\ AtWork(c)
      BY <1>0, <1>7, KindOfStep DEF Good, Crediting, Filing, Credits, AtWork, At
    <2>4. Good(new, today)
      BY <1>6, <2>2, <2>3
    <2>5. QED
      BY <1>1, <1>7, <2>1, <2>4
  <1>8. ASSUME NEW c \in Calls, Insert(c) \/ InsertDuplicate(c) \/ WriteLine(c) PROVE Goal
    <2>1. CASE Insert(c)
      <3>1. At(c, "insert") /\ Became(c, GoOn(c, "check"))
        BY <2>1 DEF Insert, Became
      <3>2. QED
        BY <1>7, <3>1
    <2>2. CASE InsertDuplicate(c)
      <3>1. At(c, "insert") /\ Became(c, GoOn(c, "over"))
        BY <2>2 DEF InsertDuplicate, AfterDuplicate, Became
      <3>2. QED
        BY <1>7, <3>1
    <2>3. CASE WriteLine(c)
      <3>1. At(c, "write") /\ Became(c, GoOn(c, "over"))
        BY <2>3 DEF WriteLine, Became
      <3>2. QED
        BY <1>7, <3>1
    <2>4. QED
      BY <1>8, <2>1, <2>2, <2>3
  <1>9. ASSUME NEW c \in Calls, CheckFile(c) PROVE Goal
    <2>1. PICK b : b = NeedsNewline(file[FileOf(c)])
      OBVIOUS
    <2> DEFINE new == [step |-> "write", reply |-> "none", req |-> call[c].req,
                       customer |-> call[c].customer, outcome |-> call[c].outcome,
                       day |-> call[c].day, newline |-> b]
    <2>2. call[c] \in Crediting /\ Credits(c) /\ AtWork(c)
      BY <1>0, <1>9, KindOfStep DEF CheckFile, Good, Crediting, Credits, AtWork, At
    <2>3. b \in BOOLEAN
      BY <2>1 DEF NeedsNewline
    <2>4. /\ new \in Filing /\ new.day = call[c].day /\ new.customer = call[c].customer
          /\ new.req = call[c].req /\ new.reply = "none"
      BY <2>2, <2>3 DEF Crediting, Filing
    <2>5. Became(c, new)
      BY <1>0, <1>9, <2>1 DEF CheckFile, Became
    <2> HIDE DEF new
    <2>6. QED
      BY <1>1, <1>6, <2>2, <2>4, <2>5
  <1>10. ASSUME NEW c \in Calls, Fail(c) PROVE Goal
    <2>1. PICK mid : mid = GoOn(c, "failed")
      OBVIOUS
    <2> DEFINE new == [mid EXCEPT !.reply = IF @ = "none" THEN "ok" ELSE @]
    <2>2. At(c, "insert") \/ At(c, "check") \/ At(c, "write")
      BY <1>10 DEF Fail
    <2>3. /\ mid \in Crediting \cup Filing
          /\ mid.day = call[c].day /\ mid.customer = call[c].customer
          /\ mid.req = call[c].req
          /\ mid.step \in {"over", "failed"}
      BY <2>1, <2>2, GoOnType DEF At
    <2>4. /\ new \in Crediting \cup Filing
          /\ new.day = call[c].day /\ new.customer = call[c].customer
          /\ new.req = call[c].req
          /\ new.step \in {"over", "failed"}
      BY <2>3 DEF Crediting, Filing
    <2>5. Became(c, new)
      BY <1>10, <2>1 DEF Fail, Became
    <2>6. Credits(c) /\ AtWork(c)
      BY <1>0, <2>2, KindOfStep DEF Good, Crediting, Filing, Credits, AtWork, At
    <2> HIDE DEF new
    <2>7. QED
      BY <1>1, <1>6, <2>4, <2>5, <2>6
  <1>11. ASSUME NEW c \in Calls, Timeout(c) PROVE Goal
    <2>1. PICK step \in {"over"} \cup ({call[c].step} \cap {"insert", "write"}) :
            call' = [call EXCEPT ![c].step = step, ![c].reply = "timeout"]
      BY <1>11 DEF Timeout
    <2>2. AtWork(c) /\ call[c] \in CallState
      BY <1>0, <1>11 DEF Timeout, AtWork, Good
    <2> DEFINE new == [call[c] EXCEPT !.step = step, !.reply = "timeout"]
    <2>3. Became(c, new)
      BY <2>1 DEF Became
    <2>4. CASE At(c, "rules")
      <3>1. call[c] \in Asking /\ step = "over"
        BY <2>1, <2>2, <2>4, KindOfStep DEF At
      <3>2. new \in Asking /\ new.step = "over"
        BY <3>1 DEF Asking
      <3>3. Good(new, today)
        BY <1>2, <3>2
      <3>4. QED
        BY <1>1, <2>3, <3>3
    <2>5. CASE ~At(c, "rules")
      <3>1. /\ At(c, "insert") \/ At(c, "check") => call[c] \in Crediting
            /\ At(c, "write") => call[c] \in Filing
            /\ At(c, "insert") \/ At(c, "check") \/ At(c, "write")
        BY <2>2, <2>5, KindOfStep DEF AtWork, At
      <3>2. Credits(c)
        BY <3>1 DEF Crediting, Filing, Credits
      <3>3. /\ new \in Crediting \cup Filing
            /\ new.day = call[c].day /\ new.customer = call[c].customer
            /\ new.req = call[c].req /\ new.reply = "timeout"
        BY <2>1, <3>1 DEF Crediting, Filing, At
      <3> HIDE DEF new
      <3>4. QED
        BY <1>1, <1>6, <2>2, <2>3, <3>2, <3>3
    <2>6. QED
      BY <2>4, <2>5
  <1>12. CASE Crash
    <2>1. ASSUME NEW c \in Calls PROVE Good(call'[c], today)
      <3>1. CASE call[c].step \in {"waiting", "over", "failed"}
        BY <1>0, <1>12, <3>1 DEF Crash
      <3>2. CASE call[c].step \notin {"waiting", "over", "failed"}
        <4> DEFINE new == [call[c] EXCEPT !.step = "over",
                                          !.reply = IF @ = "none" THEN "lost" ELSE @]
        <4>1. call'[c] = new
          BY <1>12, <3>2 DEF Crash
        <4>2. call[c] \in CallState /\ AtWork(c) /\ call[c].reply \in {"none", "timeout"}
          BY <1>0, <3>2, Kinds DEF Good, AtWork, Refused, Asking, Crediting, Filing, Types
        <4>3. CASE At(c, "rules")
          <5>1. call[c] \in Asking
            BY <4>2, <4>3, KindOfStep
          <5>2. new \in Asking /\ new.step = "over"
            BY <4>2, <5>1 DEF Asking
          <5>3. QED
            BY <1>2, <4>1, <5>2
        <4>4. CASE ~At(c, "rules")
          <5>1. call[c] \in Crediting \/ call[c] \in Filing
            BY <4>2, <4>4, KindOfStep DEF AtWork, At
          <5>2. Credits(c)
            BY <5>1 DEF Crediting, Filing, Credits
          <5>3. /\ new \in Crediting \cup Filing
                /\ new.day = call[c].day /\ new.customer = call[c].customer
                /\ new.req = call[c].req /\ new.step = "over"
            BY <4>2, <5>1 DEF Crediting, Filing
          <5> HIDE DEF new
          <5>4. Good(new, today)
            BY <1>6, <4>2, <5>2, <5>3
          <5>5. QED
            BY <4>1, <5>4
        <4>5. QED
          BY <4>3, <4>4
      <3>3. QED
        BY <3>1, <3>2
    <2>2. call' \in [Calls -> CallState]
      BY <1>12, <2>1 DEF Crash, Good
    <2>3. QED
      BY <2>1, <2>2
  <1>13. CASE UNCHANGED call
    BY <1>0, <1>13
  <1>14. QED
    BY <1>3, <1>4, <1>5, <1>8, <1>9, <1>10, <1>11, <1>12, <1>13
    DEF Next, Proceed, Midnight, vars

\* What the calls do to the table and the files.
LEMMA TypesStep ==
  ASSUME Types, [Next]_vars
  PROVE  Types'
  <1>0. /\ today \in Nat /\ LastDay \in Nat
        /\ call' \in [Calls -> CallState] /\ \A c \in Calls : Good(call'[c], today)
    BY CallTypes, EvaluatorAssumption DEF Types, Day
  <1>1. today' \in Day /\ today <= today'
    <2>1. CASE Midnight
      BY <1>0, <2>1 DEF Midnight, Types, Day
    <2>2. CASE UNCHANGED today
      BY <1>0, <2>2 DEF Types
    <2>3. QED
      BY <2>1, <2>2 DEF Next, Proceed, Crash, Receive, EvaluateRules, Insert, InsertDuplicate,
         CheckFile, WriteLine, RulesFail, Fail, Timeout, vars
  <1>2. \A c \in Calls : Good(call'[c], today')
    BY <1>0, <1>1 DEF Good, Day
  <1>3. ASSUME NEW row \in benefit' PROVE row.day \in 0 .. today' /\ row.by \in Calls
    <2>1. CASE row \in benefit
      BY <1>0, <1>1, <2>1 DEF Types, Day
    <2>2. CASE row \notin benefit
      <3>1. PICK c \in Calls : Insert(c) /\ row = RowOf(c)
        BY <2>2 DEF Next, Proceed, Midnight, Crash, Receive, EvaluateRules, Insert,
           InsertDuplicate, CheckFile, WriteLine, RulesFail, Fail, Timeout, vars
      <3>2. Entered(c)
        BY <3>1, KindOfStep DEF Insert, Types, Crediting, Credits
      <3>3. QED
        BY <1>0, <1>1, <3>1, <3>2 DEF RowOf, Entered, Day
    <2>3. QED
      BY <2>1, <2>2
  <1>4. file' \in [Day -> Seq(Line)]
    <2>1. ASSUME NEW c \in Calls, WriteLine(c) PROVE file' \in [Day -> Seq(Line)]
      <3>1. call[c] \in Filing
        BY <2>1, KindOfStep DEF WriteLine, Types
      <3>2. [call |-> c, newline |-> call[c].newline] \in Line /\ FileOf(c) \in Day
        BY <3>1 DEF Line, Filing, FileOf
      <3>3. QED
        BY <2>1, <3>2 DEF WriteLine, Types
    <2>2. QED
      BY <2>1 DEF Next, Proceed, Midnight, Crash, Receive, EvaluateRules, Insert,
         InsertDuplicate, CheckFile, RulesFail, Fail, Timeout, vars, Types
  <1>5. QED
    BY <1>0, <1>1, <1>2, <1>3, <1>4 DEF Types, Good, Credits, Entered, AtWork

\* Types holds initially.
LEMMA TypesInit == Init => Types
  <1> SUFFICES ASSUME Init PROVE Types
    OBVIOUS
  <1>1. Waiting \in CallState
    BY DEF Waiting, CallState
  <1>2. today = 0 /\ 0 \in Day
    BY EvaluatorAssumption DEF Init, Day
  <1>3. QED
    BY <1>1, <1>2 DEF Init, Types, Waiting, Credits, AtWork, Day

\* Calls carry what the steps they have done produced, rows are of a day that has come,
\* lines of calls, whatever calls overlap, fail, time out or die.
THEOREM TypeCorrect == Spec => []TypeOK
  <1>1. Types => TypeOK
    BY DEF Types, TypeOK
  <1>2. QED
    BY TypesInit, TypesStep, <1>1, PTL DEF Spec

-----------------------------------------------------------------------------
(* The table *)

\* Rows are of calls past their INSERT, and a call that is to append a line has one.
Rows ==
  /\ \A row \in benefit :
       /\ row.key = <<row.customer, row.evaluator, row.day>>
       /\ call[row.by].step \notin {"waiting", "rules", "insert"}
  /\ \A c \in Calls : At(c, "check") \/ At(c, "write") =>
       \E row \in benefit : row.by = c /\ Granted(c, row)

\* How a step of the system changes a call.
LEMMA CallStep ==
  ASSUME Types, [Next]_vars, NEW c \in Calls
  PROVE  \/ call'[c] = call[c] /\ ~WriteLine(c)
         \/ \E req \in Requests : Receive(c, req)
         \/ \E outcome \in Outcomes : EvaluateRules(c, outcome)
         \/ RulesFail(c) \/ Insert(c) \/ InsertDuplicate(c) \/ CheckFile(c) \/ WriteLine(c)
         \/ Fail(c) \/ Timeout(c) \/ Crash
  <1>1. ASSUME NEW d \in Calls, d # c,
               \/ \E req \in Requests : Receive(d, req)
               \/ Proceed(d) \/ RulesFail(d) \/ Fail(d) \/ Timeout(d)
        PROVE  call'[c] = call[c]
    BY <1>1 DEF Types, Receive, Proceed, EvaluateRules, Insert, InsertDuplicate, CheckFile,
       WriteLine, RulesFail, Fail, Timeout
  <1>2. CASE Midnight \/ UNCHANGED vars
    BY <1>2 DEF Midnight, vars
  <1>3. QED
    BY <1>1, <1>2 DEF Next, Proceed

Early == {"waiting", "rules", "insert"}

Late == {"check", "write"}

\* A step leaves what call c is about alone.
SameCredit(c) ==
  /\ Credits(c) /\ Credits(c)'
  /\ call'[c].req = call[c].req /\ call'[c].customer = call[c].customer
  /\ call'[c].day = call[c].day

\* No call goes back, and who gets on keeps what it is about.
LEMMA Progress ==
  ASSUME Types, [Next]_vars, NEW c \in Calls
  PROVE  /\ call'[c].step \in Early => call[c].step \in Early /\ ~Insert(c)
         /\ call'[c].step \in Late =>
              SameCredit(c) /\ ~WriteLine(c) /\ (Insert(c) \/ call[c].step \in Late)
         /\ Answered(c)' /\ Credits(c)' =>
              \/ call'[c] = call[c]
              \/ SameCredit(c) /\ (InsertDuplicate(c) \/ WriteLine(c))
         /\ call'[c].step \in Early \cup Late => call[c].step \in Early \cup Late /\ ~WriteLine(c)
  <1> DEFINE Goal ==
         /\ call'[c].step \in Early => call[c].step \in Early /\ ~Insert(c)
         /\ call'[c].step \in Late =>
              SameCredit(c) /\ ~WriteLine(c) /\ (Insert(c) \/ call[c].step \in Late)
         /\ Answered(c)' /\ Credits(c)' =>
              \/ call'[c] = call[c]
              \/ SameCredit(c) /\ (InsertDuplicate(c) \/ WriteLine(c))
         /\ call'[c].step \in Early \cup Late => call[c].step \in Early \cup Late /\ ~WriteLine(c)
  <1>0. /\ call \in [Calls -> CallState] /\ call[c] \in CallState
        /\ call'[c] \in CallState
    BY CallTypes DEF Types
  <1>1. ASSUME NEW req \in Requests, Receive(c, req) PROVE Goal
    <2>1. /\ call[c].step = "waiting"
          /\ call'[c] = IF req.evaluator = 0
                          THEN [step |-> "over", reply |-> "invalid_argument"]
                          ELSE [step |-> "rules", reply |-> "none", req |-> req]
      BY <1>0, <1>1 DEF Receive, At
    <2>2. call'[c].step \in {"over", "rules"} /\ call'[c].reply # "ok"
      BY <2>1
    <2>3. QED
      BY <2>1, <2>2 DEF Early, Late, Answered, Insert, WriteLine, At
  <1>2. ASSUME NEW outcome \in Outcomes, EvaluateRules(c, outcome) PROVE Goal
    <2>1. PICK customer, req : customer = Recipient(call[c].req, outcome) /\ req = call[c].req
      OBVIOUS
    <2>2. /\ call[c].step = "rules"
          /\ call'[c] = IF customer = Nobody
                          THEN [step |-> "over", reply |-> "ok"]
                          ELSE [step |-> "insert", reply |-> "none", req |-> req,
                                customer |-> customer, outcome |-> outcome, day |-> today]
      BY <1>0, <1>2, <2>1 DEF EvaluateRules, At
    <2>3. \/ call'[c].step = "insert"
          \/ call'[c].step = "over" /\ "customer" \notin DOMAIN call'[c]
      BY <2>2
    <2>4. QED
      BY <2>2, <2>3 DEF Early, Late, Answered, Credits, Insert, WriteLine, At
  <1>3. ASSUME RulesFail(c) PROVE Goal
    <2>1. call'[c] = [step |-> "over", reply |-> "internal"]
      BY <1>0, <1>3 DEF RulesFail
    <2>2. QED
      BY <2>1 DEF Early, Late, Answered
  <1>4. ASSUME Insert(c) PROVE Goal
    <2>1. call'[c] = GoOn(c, "check") /\ At(c, "insert")
      BY <1>0, <1>4 DEF Insert
    <2>2. /\ call'[c] \in Crediting \cup Filing
          /\ call'[c].day = call[c].day /\ call'[c].customer = call[c].customer
          /\ call'[c].req = call[c].req
          /\ call'[c].step = "check" \/ (call'[c].step = "over" /\ call'[c].reply = "timeout")
      BY <2>1, GoOnType
    <2>3. SameCredit(c)
      BY <1>0, <2>1, <2>2, KindOfStep DEF SameCredit, Credits, Crediting, Filing
    <2>4. QED
      BY <1>4, <2>1, <2>2, <2>3 DEF Early, Late, Answered, WriteLine, At
  <1>5. ASSUME InsertDuplicate(c) \/ WriteLine(c) PROVE Goal
    <2>1. call'[c] = GoOn(c, "over") /\ (At(c, "insert") \/ At(c, "write"))
      BY <1>0, <1>5 DEF InsertDuplicate, WriteLine, AfterDuplicate
    <2>2. /\ call'[c] \in Crediting \cup Filing
          /\ call'[c].day = call[c].day /\ call'[c].customer = call[c].customer
          /\ call'[c].req = call[c].req /\ call'[c].step = "over"
      BY <2>1, GoOnType
    <2>3. SameCredit(c)
      BY <1>0, <2>1, <2>2, KindOfStep DEF SameCredit, Credits, Crediting, Filing
    <2>4. QED
      BY <1>5, <2>1, <2>2, <2>3 DEF Early, Late
  <1>6. ASSUME CheckFile(c) PROVE Goal
    <2>1. PICK b : b = NeedsNewline(file[FileOf(c)])
      OBVIOUS
    <2>2. /\ At(c, "check") /\ call[c] \in Crediting
          /\ call'[c] = [step |-> "write", reply |-> "none", req |-> call[c].req,
                         customer |-> call[c].customer, outcome |-> call[c].outcome,
                         day |-> call[c].day, newline |-> b]
      BY <1>0, <1>6, <2>1, KindOfStep DEF CheckFile
    <2>3. /\ call'[c].step = "write" /\ "customer" \in DOMAIN call'[c]
          /\ call'[c].day = call[c].day /\ call'[c].customer = call[c].customer
          /\ call'[c].req = call[c].req
      BY <2>2
    <2>4. SameCredit(c)
      BY <2>2, <2>3 DEF SameCredit, Credits, Crediting
    <2>5. QED
      BY <2>2, <2>3, <2>4 DEF Early, Late, Answered, WriteLine, At
  <1>7. ASSUME Fail(c) PROVE Goal
    <2>1. PICK mid : mid = GoOn(c, "failed")
      OBVIOUS
    <2>2. /\ call'[c] = [mid EXCEPT !.reply = IF @ = "none" THEN "ok" ELSE @]
          /\ At(c, "insert") \/ At(c, "check") \/ At(c, "write")
      BY <1>0, <1>7, <2>1 DEF Fail
    <2>3. /\ mid \in Crediting \cup Filing
          /\ mid.step = "failed" \/ (mid.step = "over" /\ mid.reply = "timeout")
      BY <2>1, <2>2, GoOnType DEF At
    <2>4. call'[c].step = "failed" \/ (call'[c].step = "over" /\ call'[c].reply = "timeout")
      BY <2>2, <2>3 DEF Crediting, Filing
    <2>5. QED
      BY <2>4 DEF Early, Late, Answered
  <1>8. ASSUME Timeout(c) PROVE Goal
    <2>1. PICK step \in {"over"} \cup ({call[c].step} \cap {"insert", "write"}) :
            call' = [call EXCEPT ![c].step = step, ![c].reply = "timeout"]
      BY <1>8 DEF Timeout
    <2>2. call'[c] = [call[c] EXCEPT !.step = step, !.reply = "timeout"]
      BY <1>0, <2>1
    <2>3. /\ call'[c].step = step /\ call'[c].reply = "timeout"
          /\ DOMAIN call'[c] = DOMAIN call[c]
      BY <1>0, <2>2, Kinds DEF Refused, Asking, Crediting, Filing
    <2>4. ASSUME step = "write" PROVE SameCredit(c) /\ call[c].step = "write"
      <3>1. call[c].step = "write" /\ call[c] \in Filing
        BY <1>0, <2>1, <2>4, KindOfStep DEF At
      <3>2. QED
        BY <2>2, <2>3, <3>1 DEF SameCredit, Credits, Filing
    <2>5. ASSUME step = "insert" PROVE call[c].step = "insert"
      BY <2>1, <2>5
    <2>6. ~Insert(c) \/ step # "insert"
      <3>1. ASSUME Insert(c) PROVE call'[c].step # "insert"
        BY <1>0, <3>1, GoOnType DEF Insert
      <3>2. QED
        BY <2>3, <3>1
    <2>7. ~WriteLine(c) \/ step # "write"
      <3>1. ASSUME WriteLine(c) PROVE call'[c].step # "write"
        BY <1>0, <3>1, GoOnType DEF WriteLine
      <3>2. QED
        BY <2>3, <3>1
    <2>8. QED
      BY <2>1, <2>3, <2>4, <2>5, <2>6, <2>7 DEF Early, Late, Answered, WriteLine, At
  <1>9. ASSUME Crash PROVE Goal
    <2>1. CASE call[c].step \in {"waiting", "over", "failed"}
      <3>1. call'[c] = call[c] /\ ~Insert(c) /\ ~WriteLine(c)
        BY <1>9, <2>1 DEF Crash, Insert, WriteLine, At
      <3>2. QED
        BY <2>1, <3>1 DEF Early, Late
    <2>2. CASE call[c].step \notin {"waiting", "over", "failed"}
      <3>1. call'[c] = [call[c] EXCEPT !.step = "over",
                                       !.reply = IF @ = "none" THEN "lost" ELSE @]
        BY <1>9, <2>2 DEF Crash
      <3>2. call[c].reply \in {"none", "timeout"}
        BY <1>0, <2>2, Kinds DEF Types, AtWork, Refused, Asking, Crediting, Filing
      <3>3. call'[c].step = "over" /\ call'[c].reply \in {"lost", "timeout"}
        BY <1>0, <3>1, <3>2, Kinds DEF Refused, Asking, Crediting, Filing
      <3>4. QED
        BY <3>3 DEF Early, Late, Answered
    <2>3. QED
      BY <2>1, <2>2
  <1>10. ASSUME call'[c] = call[c], ~WriteLine(c) PROVE Goal
    <2>1. ASSUME Insert(c) PROVE call'[c].step # "insert"
      BY <1>0, <2>1, GoOnType DEF Insert
    <2>2. ~Insert(c)
      BY <1>10, <2>1 DEF Insert, At
    <2>3. ASSUME call[c].step \in Late PROVE SameCredit(c)
      BY <1>0, <1>10, <2>3, KindOfStep DEF Late, At, SameCredit, Credits, Crediting, Filing
    <2>4. QED
      BY <1>10, <2>2, <2>3 DEF Early, Late
  <1>11. QED
    BY <1>1, <1>2, <1>3, <1>4, <1>5, <1>6, <1>7, <1>8, <1>9, <1>10, CallStep

\* The table only grows, by rows of calls that insert them.
LEMMA TableStep ==
  ASSUME [Next]_vars
  PROVE  /\ benefit \subseteq benefit'
         /\ \A row \in benefit' \ benefit : \E c \in Calls : Insert(c) /\ row = RowOf(c)
         /\ benefit' = benefit \/ \E c \in Calls : Insert(c)
  BY DEF Next, Proceed, Midnight, Crash, Receive, EvaluateRules, Insert, InsertDuplicate,
     CheckFile, WriteLine, RulesFail, Fail, Timeout, vars

\* Each step keeps the rows of the table and the calls that inserted them in line.
LEMMA RowsStep ==
  ASSUME Types, Rows, [Next]_vars
  PROVE  Rows'
  <1>1. ASSUME NEW row \in benefit'
        PROVE  /\ row.key = <<row.customer, row.evaluator, row.day>>
               /\ call'[row.by].step \notin Early
    <2>1. CASE row \in benefit
      <3>1. row.by \in Calls /\ call[row.by].step \notin Early
        BY <2>1 DEF Types, Rows, Early
      <3>2. QED
        BY <2>1, <3>1, Progress DEF Rows
    <2>2. CASE row \notin benefit
      <3>1. PICK c \in Calls : Insert(c) /\ row = RowOf(c)
        BY <2>2, TableStep
      <3>2. row.by = c /\ row.key = <<row.customer, row.evaluator, row.day>>
        BY <3>1 DEF RowOf, KeyOf, IdempotencyKey
      <3>3. QED
        BY <3>1, <3>2, Progress
    <2>3. QED
      BY <2>1, <2>2
  <1>2. ASSUME NEW c \in Calls, call'[c].step \in Late
        PROVE  \E row \in benefit' : row.by = c /\ Granted(c, row)'
    <2>1. SameCredit(c) /\ (Insert(c) \/ call[c].step \in Late)
      BY <1>2, Progress
    <2>2. CASE Insert(c)
      <3>1. PICK row : row = RowOf(c)
        OBVIOUS
      <3>2. row \in benefit' /\ row.by = c
        BY <2>2, <3>1 DEF Insert, RowOf
      <3>3. /\ row.evaluator = call[c].req.evaluator
            /\ row.customer = call[c].customer /\ row.day = call[c].day
        BY <3>1 DEF RowOf
      <3>4. QED
        BY <2>1, <3>2, <3>3 DEF Granted, SameCredit
    <2>3. CASE call[c].step \in Late
      <3>1. PICK row \in benefit : row.by = c /\ Granted(c, row)
        BY <2>3 DEF Rows, Late, At
      <3>2. QED
        BY <2>1, <3>1, TableStep DEF Granted, SameCredit
    <2>4. QED
      BY <2>1, <2>2, <2>3
  <1>3. QED
    BY <1>1, <1>2 DEF Rows, Early, Late, At

\* Rows holds initially.
LEMMA RowsInit == Init => Rows
  BY DEF Init, Rows, Waiting, At

\* Types and Rows hold in every behaviour.
LEMMA RowsAlways == Spec => [](Types /\ Rows)
  BY TypesInit, TypesStep, RowsInit, RowsStep, PTL DEF Spec

-----------------------------------------------------------------------------
(* The files *)

\* Lines stay where they are; a new one is of the call that writes it, at the end of
\* the file of that call's day.
LEMMA FileStep ==
  ASSUME Types, [Next]_vars, NEW d \in Day
  PROVE  /\ \A i \in DOMAIN file[d] : i \in DOMAIN file'[d] /\ file'[d][i] = file[d][i]
         /\ \A i \in DOMAIN file'[d] \ DOMAIN file[d] :
              /\ i = Len(file[d]) + 1
              /\ \E c \in Calls : WriteLine(c) /\ d = call[c].day /\ file'[d][i].call = c
         /\ \A c \in Calls : WriteLine(c) /\ d = call[c].day =>
              \E i \in DOMAIN file'[d] : file'[d][i].call = c
  <1> DEFINE Goal ==
         /\ \A i \in DOMAIN file[d] : i \in DOMAIN file'[d] /\ file'[d][i] = file[d][i]
         /\ \A i \in DOMAIN file'[d] \ DOMAIN file[d] :
              /\ i = Len(file[d]) + 1
              /\ \E c \in Calls : WriteLine(c) /\ d = call[c].day /\ file'[d][i].call = c
  <1>1. file[d] \in Seq(Line) /\ file \in [Day -> Seq(Line)]
    BY DEF Types
  <1>2. ASSUME NEW c \in Calls, WriteLine(c)
        PROVE  Goal /\ (d = call[c].day => \E i \in DOMAIN file'[d] : file'[d][i].call = c)
    <2>1. PICK line : line = [call |-> c, newline |-> call[c].newline]
      OBVIOUS
    <2>2. line.call = c /\ line \in Line
      <3>1. call[c] \in Filing
        BY <1>2, KindOfStep DEF Types, WriteLine
      <3>2. QED
        BY <2>1, <3>1 DEF Line, Filing
    <2>3. file' = [file EXCEPT ![call[c].day] = Append(@, line)]
      BY <1>2, <2>1 DEF WriteLine, FileOf
    <2>4. CASE d = call[c].day
      <3>1. file'[d] = Append(file[d], line)
        BY <1>1, <2>3, <2>4
      <3>2. /\ \A i \in DOMAIN file[d] : i \in DOMAIN file'[d] /\ file'[d][i] = file[d][i]
            /\ \A i \in DOMAIN file'[d] \ DOMAIN file[d] :
                 i = Len(file[d]) + 1 /\ file'[d][i] = line
            /\ Len(file[d]) + 1 \in DOMAIN file'[d] /\ file'[d][Len(file[d]) + 1] = line
        BY <1>1, <2>2, <3>1
      <3>3. QED
        BY <1>2, <2>2, <2>4, <3>2
    <2>5. CASE d # call[c].day
      BY <1>1, <2>3, <2>5
    <2>6. QED
      BY <2>4, <2>5
  <1>3. CASE UNCHANGED file /\ \A c \in Calls : ~WriteLine(c)
    BY <1>3
  <1>4. CASE \E c \in Calls : WriteLine(c)
    BY <1>2, <1>4
  <1>5. UNCHANGED file \/ \E c \in Calls : WriteLine(c)
    BY DEF Next, Proceed, Midnight, Crash, Receive, EvaluateRules, Insert, InsertDuplicate,
       CheckFile, RulesFail, Fail, Timeout, vars
  <1>6. QED
    BY <1>3, <1>4, <1>5

\* LinesMatchRows, made inductive: who may still write has no line.
Lines ==
  /\ LinesMatchRows
  /\ \A c \in Calls : call[c].step \in Early \cup Late => \A d \in Day : ~InFile(c, d)

\* Each step keeps the lines of the files and the rows they report in line.
LEMMA LinesStep ==
  ASSUME Types, Rows, Lines, [Next]_vars
  PROVE  Lines'
  <1>1. ASSUME NEW d \in Day, NEW i \in DOMAIN file'[d]
        PROVE  \E row \in benefit' : row.by = file'[d][i].call /\ row.day = d
    <2>1. CASE i \in DOMAIN file[d]
      BY <2>1, FileStep, TableStep DEF Lines, LinesMatchRows
    <2>2. CASE i \notin DOMAIN file[d]
      <3>1. PICK c \in Calls : WriteLine(c) /\ d = call[c].day /\ file'[d][i].call = c
        BY <2>2, FileStep
      <3>2. PICK row \in benefit : row.by = c /\ Granted(c, row)
        BY <3>1 DEF Rows, WriteLine
      <3>3. QED
        BY <3>1, <3>2, TableStep DEF Granted
    <2>3. QED
      BY <2>1, <2>2
  <1>2. ASSUME NEW d \in Day, NEW i \in DOMAIN file'[d], i \notin DOMAIN file[d],
               NEW k \in DOMAIN file'[d], file'[d][i].call = file'[d][k].call
        PROVE  i = k
    <2>1. PICK c \in Calls : WriteLine(c) /\ d = call[c].day /\ file'[d][i].call = c
      BY <1>2, FileStep
    <2>2. ~InFile(c, d)
      BY <2>1 DEF WriteLine, At, Lines, Early, Late
    <2>3. CASE k \in DOMAIN file[d]
      BY <1>2, <2>1, <2>2, <2>3, FileStep DEF InFile
    <2>4. CASE k \notin DOMAIN file[d]
      BY <1>2, <2>4, FileStep
    <2>5. QED
      BY <2>3, <2>4
  <1>3. ASSUME NEW d \in Day, NEW i \in DOMAIN file'[d], NEW k \in DOMAIN file'[d],
               file'[d][i].call = file'[d][k].call
        PROVE  i = k
    <2>1. CASE i \in DOMAIN file[d] /\ k \in DOMAIN file[d]
      BY <1>3, <2>1, FileStep DEF Lines, LinesMatchRows
    <2>2. CASE i \notin DOMAIN file[d]
      BY <1>2, <1>3, <2>2
    <2>3. CASE k \notin DOMAIN file[d]
      BY <1>2, <1>3, <2>3
    <2>4. QED
      BY <2>1, <2>2, <2>3
  <1>4. ASSUME NEW c \in Calls, call'[c].step \in Early \cup Late, NEW d \in Day, InFile(c, d)'
        PROVE  FALSE
    <2>1. call[c].step \in Early \cup Late /\ ~WriteLine(c)
      BY <1>4, Progress
    <2>2. PICK i \in DOMAIN file'[d] : file'[d][i].call = c
      BY <1>4 DEF InFile
    <2>3. CASE i \in DOMAIN file[d]
      BY <2>1, <2>2, <2>3, FileStep DEF Lines, InFile
    <2>4. CASE i \notin DOMAIN file[d]
      BY <2>1, <2>2, <2>4, FileStep
    <2>5. QED
      BY <2>3, <2>4
  <1>5. LinesMatchRows'
    BY <1>1, <1>3 DEF LinesMatchRows
  <1>6. QED
    BY <1>4, <1>5 DEF Lines

\* Lines holds initially.
LEMMA LinesInit == Init => Lines
  BY DEF Init, Lines, LinesMatchRows, InFile

\* Every line of a benefit file comes from a row of its day, and no row is written twice,
\* however many calls overlap, time out, fail or are duplicates of each other.
THEOREM LinesCorrect == Spec => []LinesMatchRows
  <1>1. Lines => LinesMatchRows
    BY DEF Lines
  <1>2. QED
    BY RowsAlways, LinesInit, LinesStep, <1>1, PTL DEF Spec

-----------------------------------------------------------------------------
(* The answers *)

\* No step answers a call whose benefit was not granted, or takes the benefit away.
LEMMA AnsweredStep ==
  ASSUME Types, Rows, AnsweredMeansGranted, [Next]_vars
  PROVE  AnsweredMeansGranted'
  <1> SUFFICES ASSUME NEW c \in Calls, Answered(c)', Credits(c)'
               PROVE  \E row \in benefit' :
                        Granted(c, row)' /\ (row.by = c => InFile(c, row.day)')
    BY DEF AnsweredMeansGranted
  <1>1. CASE call'[c] = call[c]
    <2>1. PICK row \in benefit : Granted(c, row) /\ (row.by = c => InFile(c, row.day))
      BY <1>1 DEF AnsweredMeansGranted, Answered, Credits
    <2>2. row \in benefit' /\ Granted(c, row)'
      BY <1>1, <2>1, TableStep DEF Granted, Credits
    <2>3. row.day \in Day
      BY EvaluatorAssumption DEF Types, Day
    <2>4. InFile(c, row.day) => InFile(c, row.day)'
      BY <2>3, FileStep DEF InFile
    <2>5. QED
      BY <2>1, <2>2, <2>4
  <1>2. CASE SameCredit(c) /\ InsertDuplicate(c)
    <2>1. PICK row \in benefit : row.key = KeyOf(c)
      BY <1>2 DEF InsertDuplicate, Duplicate
    <2>2. Granted(c, row)'
      BY <1>2, <2>1 DEF Rows, KeyOf, IdempotencyKey, Granted, SameCredit
    <2>3. row.by # c
      BY <1>2, <2>1 DEF Rows, InsertDuplicate, At
    <2>4. QED
      BY <2>1, <2>2, <2>3, TableStep
  <1>3. CASE SameCredit(c) /\ WriteLine(c)
    <2>1. PICK row \in benefit : row.by = c /\ Granted(c, row)
      BY <1>3 DEF Rows, WriteLine
    <2>2. Granted(c, row)'
      BY <1>3, <2>1 DEF Granted, SameCredit
    <2>3. row.day \in Day /\ row.day = call[c].day
      BY <2>1, EvaluatorAssumption DEF Types, Day, Granted
    <2>4. InFile(c, row.day)'
      BY <1>3, <2>3, FileStep DEF InFile
    <2>5. QED
      BY <2>1, <2>2, <2>4, TableStep
  <1>4. QED
    BY <1>1, <1>2, <1>3, Progress

\* No call is answered initially.
LEMMA AnsweredInit == Init => AnsweredMeansGranted
  BY DEF Init, AnsweredMeansGranted, Answered, Waiting

\* A call that was answered, had a customer to credit and met no error leaves that customer
\* with a row: its own, filed under its day, or the earlier one it was a duplicate of.
THEOREM AnsweredCorrect == Spec => []AnsweredMeansGranted
  BY RowsAlways, AnsweredInit, AnsweredStep, PTL DEF Spec


-----------------------------------------------------------------------------
(* The ledger *)

\* What the ledger sees of a row, and of the table.
Grant(row) ==
  [evaluator |-> row.evaluator, customer |-> row.customer, day |-> row.day,
   value |-> row.value]

Grants == {Grant(row) : row \in benefit}

\* Every step of the evaluator is a step of the ledger, or grants nothing.
LEMMA LedgerStep ==
  ASSUME Types, Rows, [Next]_vars
  PROVE  Ledger!Next \/ UNCHANGED Grants
  <1>1. CASE benefit' = benefit
    BY <1>1 DEF Grants
  <1>2. ASSUME NEW c \in Calls, Insert(c) PROVE Ledger!Next
    <2>1. /\ call[c] \in Crediting /\ Entered(c)
      BY <1>2, KindOfStep DEF Insert, Types, Crediting, Credits
    <2>2. PICK e, k, d, v : /\ e = call[c].req.evaluator /\ k = call[c].customer
                            /\ d = call[c].day /\ v = call[c].outcome
      OBVIOUS
    <2>3. /\ e \in {req.evaluator : req \in Requests}
          /\ k \in {req.customer : req \in Requests} \cup {0}
          /\ d \in Day /\ v \in Outcomes
      BY <2>1, <2>2 DEF Crediting, Entered
    <2>4. \A g \in Grants : <<g.evaluator, g.customer, g.day>> # <<e, k, d>>
      BY <1>2, <2>2 DEF Grants, Grant, Rows, Insert, Duplicate, KeyOf, IdempotencyKey
    <2>5. Grants' = Grants \cup {[evaluator |-> e, customer |-> k, day |-> d, value |-> v]}
      <3>1. PICK new : new = RowOf(c)
        OBVIOUS
      <3>2. Grant(new) = [evaluator |-> e, customer |-> k, day |-> d, value |-> v]
        BY <2>2, <3>1 DEF Grant, RowOf
      <3>3. benefit' = benefit \cup {new}
        BY <1>2, <3>1 DEF Insert
      <3>4. QED
        BY <3>2, <3>3 DEF Grants
    <2>6. Ledger!Grant(e, k, d, v)
      BY <2>4, <2>5 DEF Ledger!Grant, Grants, Grant
    <2>7. QED
      BY <2>3, <2>6 DEF Ledger!Next
  <1>3. QED
    BY <1>1, <1>2, TableStep

\* The evaluator implements BenefitLedger: the INSERT that MySQL accepts grants an outcome,
\* whatever else calls do grants, changes and withdraws nothing.
THEOREM Refinement == Spec => ImplementsLedger
  <1>1. Init => Ledger!Init
    BY DEF Init, Ledger!Init
  <1>2. ASSUME Types, Rows, [Next]_vars
        PROVE  [Ledger!Next]_({[evaluator |-> row.evaluator, customer |-> row.customer,
                                day |-> row.day, value |-> row.value] : row \in benefit})
    BY <1>2, LedgerStep DEF Grants, Grant
  <1>3. QED
    BY RowsAlways, <1>1, <1>2, PTL DEF Spec, ImplementsLedger, Ledger!Spec
=============================================================================
