-------------------------- MODULE IngestionProofs --------------------------
(***************************************************************************)
(* Theorems about Ingestion, for every set of calls and requests, every    *)
(* number of faults and every number of days.                              *)
(***************************************************************************)
EXTENDS Ingestion, WellFoundedInduction, FiniteSetTheorems, TLAPS

\* The order of the natural numbers, as the set of its pairs.
Lt == {p \in Nat \X Nat : p[1] < p[2]}

\* No set of natural numbers goes down for ever.
LEMMA LtWF == IsWellFoundedOn(Lt, Nat)
  BY NatLessThanWellFounded DEF OpToRel, Lt

\* Induction, for a set of numbers in place of a property.
LEMMA Induction ==
  ASSUME NEW S, 0 \in S, \A n \in Nat : n \in S => n + 1 \in S
  PROVE  Nat \subseteq S
  <1> DEFINE T == Nat \ S
  <1> SUFFICES ASSUME T # {} PROVE FALSE
    OBVIOUS
  <1>1. T \subseteq Nat
    OBVIOUS
  <1> HIDE DEF T
  <1>2. PICK x \in T : \A y \in T : ~ (<<y, x>> \in Lt)
    BY <1>1, LtWF, WFMin
  <1>3. x \in Nat /\ x \notin S /\ x # 0
    BY DEF T
  <1>4. x - 1 \in Nat /\ <<x - 1, x>> \in Lt
    BY <1>3 DEF Lt
  <1>5. x - 1 \notin T
    BY <1>2, <1>4
  <1>6. QED
    BY <1>3, <1>4, <1>5 DEF T

\* What FlattenSeq defines by recursion, on the first n sequences.
Flattens(g, seqs, n) ==
  g = [i \in 1 .. n |-> IF i = 1 THEN seqs[i] ELSE g[i - 1] \o seqs[i]]

\* The recursion has a solution, for any number of sequences.
LEMMA FlattensExists ==
  ASSUME NEW seqs, NEW n \in Nat
  PROVE  \E g : Flattens(g, seqs, n)
  <1> DEFINE S == {m \in Nat : \E g : Flattens(g, seqs, m)}
  <1>1. 0 \in S
    <2>1. Flattens([i \in 1 .. 0 |-> 0], seqs, 0)
      BY DEF Flattens
    <2>2. QED
      BY <2>1
  <1>2. ASSUME NEW m \in Nat, m \in S PROVE m + 1 \in S
    <2>1. PICK g : Flattens(g, seqs, m)
      BY <1>2
    <2> DEFINE h == [i \in 1 .. m + 1 |->
                       IF i = m + 1 THEN IF i = 1 THEN seqs[i] ELSE g[i - 1] \o seqs[i]
                       ELSE g[i]]
    <2>2. ASSUME NEW i \in 1 .. m + 1
          PROVE  h[i] = IF i = 1 THEN seqs[i] ELSE h[i - 1] \o seqs[i]
      <3>1. i # 1 => i - 1 \in 1 .. m /\ h[i - 1] = g[i - 1]
        OBVIOUS
      <3>2. CASE i = m + 1
        BY <3>1, <3>2
      <3>3. CASE i # m + 1
        <4>1. i \in 1 .. m /\ h[i] = g[i]
          BY <3>3
        <4>2. g[i] = IF i = 1 THEN seqs[i] ELSE g[i - 1] \o seqs[i]
          BY <2>1, <4>1 DEF Flattens
        <4>3. QED
          BY <3>1, <4>1, <4>2
      <3>4. QED
        BY <3>2, <3>3
    <2>3. h = [i \in 1 .. m + 1 |-> h[i]]
      OBVIOUS
    <2> HIDE DEF h
    <2>4. Flattens(h, seqs, m + 1)
      BY <2>2, <2>3 DEF Flattens
    <2>5. QED
      BY <2>4
  <1>3. Nat \subseteq S
    <2> HIDE DEF S
    <2>1. QED
      BY <1>1, <1>2, Induction
  <1>4. QED
    BY <1>3

\* FlattenSeq is the last value of the recursion.
LEMMA FlattenSeqIs ==
  ASSUME NEW seqs, Len(seqs) \in Nat \ {0}
  PROVE  \E g : Flattens(g, seqs, Len(seqs)) /\ FlattenSeq(seqs) = g[Len(seqs)]
  <1> DEFINE G == CHOOSE g : Flattens(g, seqs, Len(seqs))
  <1>1. Flattens(G, seqs, Len(seqs))
    BY FlattensExists
  <1>2. FlattenSeq(seqs) = G[Len(seqs)]
    BY DEF FlattenSeq, Flattens
  <1>3. QED
    BY <1>1, <1>2

\* The sequence has each element of a set, once, and nothing else.
Enumerates(s, P) ==
  /\ s \in Seq(P)
  /\ \A p \in P : \E k \in DOMAIN s : s[k] = p
  /\ \A k, l \in DOMAIN s : s[k] = s[l] => k = l

\* A function on 1 .. n is a sequence of length n.
LEMMA FunctionIsSeq ==
  ASSUME NEW S, NEW n \in Nat, NEW f \in [1 .. n -> S]
  PROVE  f \in Seq(S) /\ Len(f) = n
  OBVIOUS

\* Enumerations of disjoint sets, one after the other, enumerate the union.
LEMMA EnumeratesConcat ==
  ASSUME NEW P, NEW Q, P \cap Q = {}, NEW s, NEW t, Enumerates(s, P), Enumerates(t, Q)
  PROVE  Enumerates(s \o t, P \cup Q)
  <1>1. /\ s \in Seq(P \cup Q) /\ t \in Seq(P \cup Q)
        /\ Len(s) \in Nat /\ Len(t) \in Nat
        /\ DOMAIN s = 1 .. Len(s) /\ DOMAIN t = 1 .. Len(t)
    BY DEF Enumerates
  <1>2. /\ s \o t \in Seq(P \cup Q) /\ Len(s \o t) = Len(s) + Len(t)
        /\ DOMAIN (s \o t) = 1 .. Len(s) + Len(t)
        /\ \A k \in 1 .. Len(s) : (s \o t)[k] = s[k]
        /\ \A k \in 1 .. Len(t) : (s \o t)[Len(s) + k] = t[k]
    BY <1>1
  <1>3. ASSUME NEW k \in DOMAIN (s \o t)
        PROVE  \/ k \in DOMAIN s /\ (s \o t)[k] = s[k] /\ s[k] \in P
               \/ k - Len(s) \in DOMAIN t /\ (s \o t)[k] = t[k - Len(s)] /\ t[k - Len(s)] \in Q
    <2>1. CASE k \in 1 .. Len(s)
      BY <1>1, <1>2, <2>1 DEF Enumerates
    <2>2. CASE k \notin 1 .. Len(s)
      <3>1. PICK l \in 1 .. Len(t) : k = Len(s) + l
        <4>1. k \in Int /\ k - Len(s) \in 1 .. Len(t) /\ k = Len(s) + (k - Len(s))
          BY <1>1, <1>2, <2>2
        <4>2. QED
          BY <4>1
      <3>2. QED
        BY <1>1, <1>2, <3>1 DEF Enumerates
    <2>3. QED
      BY <2>1, <2>2
  <1>4. ASSUME NEW p \in P \cup Q PROVE \E k \in DOMAIN (s \o t) : (s \o t)[k] = p
    <2>1. CASE p \in P
      <3>1. PICK k \in DOMAIN s : s[k] = p
        BY <2>1 DEF Enumerates
      <3>2. QED
        BY <1>1, <1>2, <3>1
    <2>2. CASE p \in Q
      <3>1. PICK k \in DOMAIN t : t[k] = p
        BY <2>2 DEF Enumerates
      <3>2. Len(s) + k \in DOMAIN (s \o t) /\ (s \o t)[Len(s) + k] = p
        BY <1>1, <1>2, <3>1
      <3>3. QED
        BY <3>2
    <2>3. QED
      BY <2>1, <2>2
  <1>5. ASSUME NEW k \in DOMAIN (s \o t), NEW l \in DOMAIN (s \o t), (s \o t)[k] = (s \o t)[l]
        PROVE  k = l
    <2>1. CASE k \in DOMAIN s /\ (s \o t)[k] = s[k] /\ s[k] \in P
      BY <1>3, <1>5, <2>1 DEF Enumerates
    <2>2. CASE k - Len(s) \in DOMAIN t /\ (s \o t)[k] = t[k - Len(s)] /\ t[k - Len(s)] \in Q
      <3>1. l - Len(s) \in DOMAIN t /\ (s \o t)[l] = t[l - Len(s)]
        BY <1>3, <1>5, <2>2
      <3>2. k - Len(s) = l - Len(s)
        BY <1>5, <2>2, <3>1 DEF Enumerates
      <3>3. k \in Int /\ l \in Int
        BY <1>1, <1>2
      <3>4. QED
        BY <1>1, <3>2, <3>3
    <2>3. QED
      BY <1>3, <2>1, <2>2
  <1>6. QED
    BY <1>2, <1>4, <1>5 DEF Enumerates

\* The positions in the first n jobs.
Before(jobs, n) == {p \in Nat \X Nat : p[1] \in 1 .. n /\ p[2] \in DOMAIN jobs[p[1]]}

\* Flattening the positions of each job enumerates the positions of all jobs.
LEMMA FlattenEnumerates ==
  ASSUME NEW jobs \in Seq(Job), Len(jobs) # 0,
         NEW seqs, seqs = [j \in DOMAIN jobs |-> [i \in DOMAIN jobs[j] |-> <<j, i>>]]
  PROVE  Enumerates(FlattenSeq(seqs), Before(jobs, Len(jobs)))
  <1>0. /\ Len(jobs) \in Nat \ {0} /\ DOMAIN jobs = 1 .. Len(jobs)
        /\ \A j \in DOMAIN jobs : jobs[j] \in Seq({"today", "fixed"})
    BY DEF Job
  <1>1. ASSUME NEW j \in DOMAIN jobs
        PROVE  Enumerates(seqs[j], {p \in Nat \X Nat : p[1] = j /\ p[2] \in DOMAIN jobs[j]})
    <2>1. /\ seqs[j] = [i \in 1 .. Len(jobs[j]) |-> <<j, i>>]
          /\ DOMAIN jobs[j] = 1 .. Len(jobs[j]) /\ Len(jobs[j]) \in Nat /\ j \in Nat
      BY <1>0
    <2>2. \A i \in 1 .. Len(jobs[j]) :
            <<j, i>> \in {p \in Nat \X Nat : p[1] = j /\ p[2] \in DOMAIN jobs[j]}
      BY <2>1
    <2>3. seqs[j] \in Seq({p \in Nat \X Nat : p[1] = j /\ p[2] \in DOMAIN jobs[j]})
      BY <2>1, <2>2
    <2>4. QED
      BY <2>1, <2>3 DEF Enumerates
  <1>2. /\ seqs \in Seq(Seq(Nat \X Nat)) /\ Len(seqs) = Len(jobs)
    <2>1. seqs = [j \in 1 .. Len(jobs) |-> seqs[j]]
      BY <1>0
    <2>2. \A j \in 1 .. Len(jobs) : seqs[j] \in Seq(Nat \X Nat)
      <3> TAKE j \in 1 .. Len(jobs)
      <3>1. /\ seqs[j] = [i \in 1 .. Len(jobs[j]) |-> <<j, i>>]
            /\ Len(jobs[j]) \in Nat /\ j \in Nat
        BY <1>0
      <3>2. seqs[j] \in [1 .. Len(jobs[j]) -> Nat \X Nat]
        BY <3>1
      <3>3. QED
        BY <3>1, <3>2, FunctionIsSeq
    <2>3. seqs \in [1 .. Len(jobs) -> Seq(Nat \X Nat)]
      BY <2>1, <2>2
    <2>4. QED
      BY <1>0, <2>3, FunctionIsSeq
  <1>3. PICK g : Flattens(g, seqs, Len(seqs)) /\ FlattenSeq(seqs) = g[Len(seqs)]
    BY <1>0, <1>2, FlattenSeqIs
  <1> DEFINE S == {n \in Nat : n \in DOMAIN jobs => Enumerates(g[n], Before(jobs, n))}
  <1>4. 0 \in S
    BY <1>0
  <1>5. ASSUME NEW n \in Nat, n \in S, n + 1 \in DOMAIN jobs
        PROVE  Enumerates(g[n + 1], Before(jobs, n + 1))
    <2> DEFINE P == {p \in Nat \X Nat : p[1] = n + 1 /\ p[2] \in DOMAIN jobs[n + 1]}
    <2>1. Before(jobs, n + 1) = Before(jobs, n) \cup P
      BY DEF Before
    <2>2. Before(jobs, n) \cap P = {}
      BY DEF Before
    <2>3. Enumerates(seqs[n + 1], P)
      BY <1>1, <1>5
    <2> HIDE DEF P
    <2>4. CASE n = 0
      <3>1. g[1] = seqs[1]
        BY <1>0, <1>2, <1>3 DEF Flattens
      <3>2. Before(jobs, 0) = {}
        BY DEF Before
      <3>3. QED
        <4>0. n + 1 = 1
          BY <2>4
        <4>1. g[n + 1] = seqs[n + 1] /\ Before(jobs, n + 1) = P
          <5>1. g[n + 1] = seqs[n + 1]
            BY <3>1, <4>0
          <5>2. Before(jobs, n) = {}
            BY <2>4, <3>2
          <5>3. QED
            BY <2>1, <5>1, <5>2
        <4>2. QED
          BY <2>3, <4>1
    <2>5. CASE n # 0
      <3>1. n \in DOMAIN jobs
        BY <1>0, <1>5, <2>5
      <3>2. g[n + 1] = g[n] \o seqs[n + 1]
        <4>1. n + 1 \in 1 .. Len(seqs) /\ n + 1 # 1 /\ (n + 1) - 1 = n
          BY <1>0, <1>2, <1>5, <2>5
        <4>2. g[n + 1] = IF n + 1 = 1 THEN seqs[n + 1] ELSE g[(n + 1) - 1] \o seqs[n + 1]
          BY <1>3, <4>1 DEF Flattens
        <4>3. QED
          BY <4>1, <4>2
      <3>3. Enumerates(g[n], Before(jobs, n))
        BY <1>5, <3>1
      <3>4. QED
        BY <2>1, <2>2, <2>3, <3>2, <3>3, EnumeratesConcat
    <2>6. QED
      BY <2>4, <2>5
  <1>6. Nat \subseteq S
    <2>1. ASSUME NEW n \in Nat, n \in S PROVE n + 1 \in S
      BY <1>5, <2>1
    <2> HIDE DEF S
    <2>2. QED
      BY <1>4, <2>1, Induction
  <1>7. QED
    BY <1>0, <1>2, <1>3, <1>6

\* The places of the inputs of a request.
Positions(req) == Before(AllJobs(req), Len(AllJobs(req)))

\* The inputs that are forwarded are those of all jobs, each once.
LEMMA InputsEnumerate ==
  ASSUME NEW req \in [job : Seq(Job), jobs : Seq(Job)]
  PROVE  Enumerates(Inputs(req), Positions(req))
  <1>1. PICK jobs : jobs = AllJobs(req)
    OBVIOUS
  <1>2. jobs \in Seq(Job) /\ Len(jobs) \in Nat /\ DOMAIN jobs = 1 .. Len(jobs)
    BY <1>1 DEF AllJobs
  <1>3. PICK seqs : seqs = [j \in DOMAIN jobs |-> [i \in DOMAIN jobs[j] |-> <<j, i>>]]
    OBVIOUS
  <1>4. Inputs(req) = FlattenSeq(seqs)
    BY <1>1, <1>3 DEF Inputs, Forwarded
  <1>5. CASE Len(jobs) # 0
    BY <1>1, <1>2, <1>3, <1>4, <1>5, FlattenEnumerates DEF Positions
  <1>6. CASE Len(jobs) = 0
    <2>1. seqs = <<>>
      BY <1>2, <1>3, <1>6
    <2>2. FlattenSeq(seqs) = <<>>
      BY <2>1 DEF FlattenSeq
    <2>3. Positions(req) = {}
      BY <1>1, <1>6 DEF Positions, Before
    <2>4. QED
      BY <1>4, <2>2, <2>3 DEF Enumerates
  <1>7. QED
    BY <1>5, <1>6

-----------------------------------------------------------------------------
(* The inductive invariant.  What it says of a call, a row and a coordinator job *)
(* is said of the record, so that it can be said of the one a step leaves.       *)

Request == [job : Seq(Job), jobs : Seq(Job)]

Idle == [step : {"waiting"}, reply : {"none"}]

Working(c) ==
  [step : {"insert", "details", "forward", "reply", "over"},
   reply : {"none", "invalid_argument"}, req : Requests[c],
   ids : Seq(Nat), id : Nat, days : Seq(Day), sent : Nat, unsent : SUBSET (Nat \X Nat)]

Closed(c) ==
  [step : {"over"}, reply : {"ok", "internal", "timeout"}, req : Requests[c],
   unsent : SUBSET (Nat \X Nat)]

\* The day an input may have been resolved to by now.
Fits(input, day, now) == day \in 0 .. now /\ (input = "fixed" => day = 0)

Fit(days, inputs, now) == \A i \in DOMAIN days : Fits(inputs[i], days[i], now)

\* The jobs committed so far have the rows R the ids say.
Recorded(c, ids, R) ==
  \A j \in DOMAIN ids : ids[j] \in DOMAIN R /\ R[ids[j]].by = c /\ R[ids[j]].job = j

GoodCall(c, r, R, next, now) ==
  /\ r \in Idle \cup Working(c) \cup Closed(c)
  /\ r.step \in {"insert", "details"} =>
       /\ Recorded(c, r.ids, R) /\ Len(r.ids) < Len(AllJobs(r.req))
       /\ r.sent = 0 /\ r.unsent = {}
  /\ r.step \in {"forward", "reply"} =>
       Recorded(c, r.ids, R) /\ Len(r.ids) = Len(AllJobs(r.req))
  /\ r.step = "insert" => r.days = <<>>
  /\ r.step = "details" =>
       /\ Len(r.days) <= Len(AllJobs(r.req)[Len(r.ids) + 1])
       /\ Fit(r.days, AllJobs(r.req)[Len(r.ids) + 1], now)
       /\ r.id \in 1 .. next - 1 /\ r.id \notin DOMAIN R
  /\ r.step = "forward" => r.sent < Len(Inputs(r.req))

Row == [by : Calls, job : Nat \ {0}, days : Seq(Day), status : Status, files : Status]

GoodRow(row, C, now) ==
  /\ row \in Row
  /\ C[row.by].step # "waiting"
  /\ row.job \in DOMAIN AllJobs(C[row.by].req)
  /\ Len(row.days) = Len(AllJobs(C[row.by].req)[row.job])
  /\ Fit(row.days, AllJobs(C[row.by].req)[row.job], now)

GoodSubmission(s, R, C, now) ==
  /\ s \in Submitted
  /\ C[s.call].step # "waiting" /\ s.pos \in Positions(C[s.call].req)
  /\ s.row \in DOMAIN R /\ R[s.row].by = s.call /\ R[s.row].job = s.pos[1]
  /\ s.day \in R[s.row].days[s.pos[2]] .. now
  /\ AllJobs(C[s.call].req)[s.pos[1]][s.pos[2]] = "fixed" => s.day = R[s.row].days[s.pos[2]]
  /\ s.step = "running" => s.marked = 0
  /\ s.step = "mark" => s.marked < 2

\* No two transactions have the same id.
OwnIds ==
  \A c, d \in Calls : At(c, "details") /\ At(d, "details") /\ call[c].id = call[d].id => c = d

Types ==
  /\ faults \in 0 .. MaxFaults /\ today \in Day
  /\ nextId \in Nat \ {0} /\ DOMAIN rows \subseteq 1 .. nextId - 1
  /\ DOMAIN call = Calls /\ call = [c \in Calls |-> call[c]]
  /\ \A c \in Calls : GoodCall(c, call[c], rows, nextId, today)
  /\ OwnIds
  /\ \A id \in DOMAIN rows : GoodRow(rows[id], call, today)
  /\ submitted \in Seq(Submitted)
  /\ \A k \in DOMAIN submitted : GoodSubmission(submitted[k], rows, call, today)

\* What the jobs and the inputs of a request are.
LEMMA RequestTypes ==
  ASSUME NEW c \in Calls, NEW req \in Requests[c]
  PROVE  /\ req \in Request
         /\ AllJobs(req) \in Seq(Job)
         /\ \A j \in DOMAIN AllJobs(req) : AllJobs(req)[j] \in Seq({"today", "fixed"})
         /\ Inputs(req) \in Seq(Positions(req))
  <1>1. req \in Request
    BY IngestionAssumption DEF Request
  <1>2. AllJobs(req) \in Seq(Job)
    BY <1>1 DEF AllJobs, Request
  <1>3. \A j \in DOMAIN AllJobs(req) : AllJobs(req)[j] \in Seq({"today", "fixed"})
    BY <1>2 DEF Job
  <1>4. Inputs(req) \in Seq(Positions(req))
    BY <1>1, InputsEnumerate DEF Request, Enumerates
  <1>5. QED
    BY <1>1, <1>2, <1>3, <1>4

-----------------------------------------------------------------------------
(* What later states keep *)

Extends(R, R2) ==
  /\ DOMAIN R \subseteq DOMAIN R2
  /\ \A id \in DOMAIN R :
       R2[id].by = R[id].by /\ R2[id].job = R[id].job /\ R2[id].days = R[id].days

KeepsRequests(C, C2) ==
  \A c \in Calls : C[c].step # "waiting" => C2[c].step # "waiting" /\ C2[c].req = C[c].req

\* A call stays well formed while rows are added and time passes.
LEMMA CallKept ==
  ASSUME NEW c \in Calls, NEW r, NEW R, NEW R2, NEW next \in Nat, NEW next2 \in Nat,
         NEW now \in Nat, NEW now2 \in Nat, next <= next2, now <= now2,
         GoodCall(c, r, R, next, now), Extends(R, R2),
         r.step = "details" => r.id \notin DOMAIN R2
  PROVE  GoodCall(c, r, R2, next2, now2)
  <1>1. \A ids : Recorded(c, ids, R) => Recorded(c, ids, R2)
    BY DEF Extends, Recorded
  <1>2. \A days, inputs : Fit(days, inputs, now) => Fit(days, inputs, now2)
    BY DEF Fit, Fits
  <1>3. r.step = "details" => r.id \in 1 .. next2 - 1
    BY DEF GoodCall
  <1>4. QED
    BY <1>1, <1>2, <1>3 DEF GoodCall

\* A row stays well formed while its call keeps its request and time passes.
LEMMA RowKept ==
  ASSUME NEW row, NEW C, NEW C2, NEW now \in Nat, NEW now2 \in Nat, now <= now2,
         GoodRow(row, C, now), KeepsRequests(C, C2)
  PROVE  GoodRow(row, C2, now2)
  <1>1. \A days, inputs : Fit(days, inputs, now) => Fit(days, inputs, now2)
    BY DEF Fit, Fits
  <1>2. C2[row.by].step # "waiting" /\ C2[row.by].req = C[row.by].req
    BY DEF GoodRow, Row, KeepsRequests
  <1>3. QED
    BY <1>1, <1>2 DEF GoodRow

\* A coordinator job stays well formed while rows and requests are kept and time passes.
LEMMA SubmissionKept ==
  ASSUME NEW s, NEW R, NEW R2, NEW C, NEW C2, NEW now \in Nat, NEW now2 \in Nat, now <= now2,
         GoodSubmission(s, R, C, now), Extends(R, R2), KeepsRequests(C, C2)
  PROVE  GoodSubmission(s, R2, C2, now2)
  <1>1. C2[s.call].step # "waiting" /\ C2[s.call].req = C[s.call].req
    BY DEF GoodSubmission, Submitted, KeepsRequests
  <1>2. /\ s.row \in DOMAIN R2 /\ R2[s.row].by = s.call /\ R2[s.row].job = s.pos[1]
        /\ R2[s.row].days = R[s.row].days
    BY DEF GoodSubmission, Extends
  <1>3. s.day \in R2[s.row].days[s.pos[2]] .. now2
    BY <1>2 DEF GoodSubmission
  <1>4. QED
    BY <1>1, <1>2, <1>3 DEF GoodSubmission

\* It is enough to look at what a step changes.
LEMMA TypesKept ==
  ASSUME Types,
         faults' \in 0 .. MaxFaults, today' \in Day, today <= today',
         nextId' \in Nat, nextId <= nextId',
         DOMAIN rows' \subseteq 1 .. nextId' - 1, Extends(rows, rows'),
         DOMAIN call' = Calls, call' = [c \in Calls |-> call'[c]], KeepsRequests(call, call'),
         \A c \in Calls :
           \/ call'[c] = call[c] /\ (At(c, "details") => call[c].id \notin DOMAIN rows')
           \/ GoodCall(c, call'[c], rows', nextId', today'),
         OwnIds',
         \A id \in DOMAIN rows' :
           \/ id \in DOMAIN rows /\ rows'[id] = rows[id]
           \/ GoodRow(rows'[id], call', today'),
         submitted' \in Seq(Submitted),
         \A k \in DOMAIN submitted' :
           \/ k \in DOMAIN submitted /\ submitted'[k] = submitted[k]
           \/ GoodSubmission(submitted'[k], rows', call', today')
  PROVE  Types'
  <1>1. today \in Nat /\ today' \in Nat /\ nextId \in Nat /\ nextId' # 0
    BY IngestionAssumption DEF Types, Day
  <1>2. \A c \in Calls : GoodCall(c, call'[c], rows', nextId', today')
    BY <1>1, CallKept DEF Types, At
  <1>3. \A id \in DOMAIN rows' : GoodRow(rows'[id], call', today')
    BY <1>1, RowKept DEF Types
  <1>4. \A k \in DOMAIN submitted' : GoodSubmission(submitted'[k], rows', call', today')
    BY <1>1, SubmissionKept DEF Types
  <1>5. QED
    BY <1>1, <1>2, <1>3, <1>4 DEF Types

\* A step that changes one call, and no row, keeps Types if the call stays well formed.
LEMMA CallChanged ==
  ASSUME Types, NEW c \in Calls, NEW new, call' = [call EXCEPT ![c] = new],
         faults' \in 0 .. MaxFaults, UNCHANGED <<today, rows, submitted>>,
         nextId' \in Nat, nextId <= nextId',
         GoodCall(c, new, rows, nextId', today),
         At(c, "waiting") \/ (new.step # "waiting" /\ new.req = call[c].req),
         new.step = "details" => (At(c, "details") /\ new.id = call[c].id) \/ new.id = nextId
  PROVE  Types'
  <1>1. /\ today \in Nat /\ nextId \in Nat
        /\ \A d \in Calls : At(d, "details") => call[d].id \in 1 .. nextId - 1
                                                /\ call[d].id \notin DOMAIN rows
    BY IngestionAssumption DEF Types, Day, GoodCall, At
  <1>2. \A d \in Calls : call'[d] = IF d = c THEN new ELSE call[d]
    BY DEF Types
  <1>3. DOMAIN call' = Calls /\ call' = [d \in Calls |-> call'[d]]
    BY DEF Types
  <1>4. KeepsRequests(call, call')
    BY <1>2 DEF KeepsRequests, At
  <1>5. OwnIds'
    <2>1. SUFFICES ASSUME NEW d \in Calls, NEW e \in Calls, d # e,
                          call'[d].step = "details", call'[e].step = "details",
                          call'[d].id = call'[e].id
                   PROVE  FALSE
      BY DEF OwnIds, At
    <2>2. CASE d # c /\ e # c
      BY <1>2, <2>1, <2>2 DEF Types, OwnIds, At
    <2>3. CASE d = c
      BY <1>1, <1>2, <2>1, <2>3 DEF Types, OwnIds, At
    <2>4. CASE e = c
      BY <1>1, <1>2, <2>1, <2>4 DEF Types, OwnIds, At
    <2>5. QED
      BY <2>2, <2>3, <2>4
  <1>6. Extends(rows, rows') /\ DOMAIN rows' \subseteq 1 .. nextId' - 1
    BY <1>1 DEF Extends, Types
  <1>7. \A d \in Calls :
          \/ call'[d] = call[d] /\ (At(d, "details") => call[d].id \notin DOMAIN rows')
          \/ GoodCall(d, call'[d], rows', nextId', today')
    BY <1>1, <1>2
  <1>8. /\ today' \in Day /\ today <= today' /\ submitted' \in Seq(Submitted)
        /\ \A id \in DOMAIN rows' : id \in DOMAIN rows /\ rows'[id] = rows[id]
        /\ \A k \in DOMAIN submitted' : k \in DOMAIN submitted /\ submitted'[k] = submitted[k]
    BY <1>1 DEF Types
  <1>9. QED
    BY <1>3, <1>4, <1>5, <1>6, <1>7, <1>8, TypesKept

\* A fault counts towards the bound.
LEMMA FaultCounted ==
  ASSUME Types, NEW fault, Happens(fault)
  PROVE  faults' \in 0 .. MaxFaults
  BY IngestionAssumption DEF Types, Happens

\* A call at work, with what it has.
LEMMA AtWork ==
  ASSUME Types, NEW c \in Calls
  PROVE  /\ call[c] \in Idle \cup Working(c) \cup Closed(c)
         /\ call[c].step \in {"insert", "details", "forward", "reply"} => call[c] \in Working(c)
         /\ At(c, "waiting") <=> call[c] \in Idle
         /\ ~At(c, "waiting") => call[c].req \in Requests[c]
  BY DEF Types, GoodCall, Idle, Working, Closed, At

\* Receiving a request keeps Types.
LEMMA ReceiveStep ==
  ASSUME Types, NEW c \in Calls, NEW req \in Requests[c], Receive(c, req)
  PROVE  Types'
  <1> DEFINE new == [step |-> IF AllJobs(req) = <<>> THEN "over" ELSE "insert",
                     reply |-> IF AllJobs(req) = <<>> THEN "invalid_argument" ELSE "none",
                     req |-> req, ids |-> <<>>, id |-> 0, days |-> <<>>,
                     sent |-> 0, unsent |-> {}]
  <1>1. /\ new \in Working(c) /\ new.ids = <<>> /\ new.days = <<>> /\ new.req = req
        /\ new.sent = 0 /\ new.unsent = {}
        /\ new.step \in {"over", "insert"} /\ (new.step = "insert" => AllJobs(req) # <<>>)
    BY DEF Working
  <1>2. call' = [call EXCEPT ![c] = new] /\ At(c, "waiting") /\ nextId' = nextId
        /\ UNCHANGED <<faults, today, rows, submitted>>
    BY DEF Receive
  <1> HIDE DEF new
  <1>3. AllJobs(req) \in Seq(Job)
    BY RequestTypes
  <1>4. GoodCall(c, new, rows, nextId', today)
    BY <1>1, <1>3 DEF GoodCall, Recorded
  <1>5. faults' \in 0 .. MaxFaults /\ nextId' \in Nat /\ nextId <= nextId'
    BY <1>2 DEF Types
  <1>6. QED
    BY <1>1, <1>2, <1>4, <1>5, CallChanged

\* Inserting the row of a job keeps Types.
LEMMA InsertJobStep ==
  ASSUME Types, NEW c \in Calls, InsertJob(c)
  PROVE  Types'
  <1>1. call[c] \in Working(c) /\ call[c].step = "insert" /\ nextId \in Nat \ {0}
        /\ GoodCall(c, call[c], rows, nextId, today)
    BY AtWork DEF InsertJob, At, Types
  <1> DEFINE new == [call[c] EXCEPT !.step = "details", !.id = nextId]
  <1>2. call' = [call EXCEPT ![c] = new]
    BY <1>1 DEF InsertJob, Types
  <1>3. /\ new \in Working(c) /\ new.step = "details" /\ new.id = nextId
        /\ new.sent = call[c].sent /\ new.unsent = call[c].unsent
        /\ new.ids = call[c].ids /\ new.days = call[c].days /\ new.req = call[c].req
    BY <1>1 DEF Working
  <1> HIDE DEF new
  <1>4. /\ nextId' = nextId + 1 /\ UNCHANGED <<faults, today, rows, submitted>>
        /\ faults' \in 0 .. MaxFaults /\ nextId' \in Nat /\ nextId <= nextId'
    BY <1>1 DEF InsertJob, RowsAfterInsert, Types
  <1>5. /\ new.days = <<>> /\ Recorded(c, new.ids, rows) /\ Len(new.ids) < Len(AllJobs(new.req))
        /\ new.sent = 0 /\ new.unsent = {}
    BY <1>1, <1>3 DEF GoodCall
  <1>6. Len(AllJobs(new.req)[Len(new.ids) + 1]) \in Nat
    <2>1. /\ AllJobs(new.req) \in Seq(Job) /\ Len(new.ids) \in Nat
          /\ \A j \in DOMAIN AllJobs(new.req) : AllJobs(new.req)[j] \in Seq({"today", "fixed"})
      BY <1>1, <1>3, RequestTypes DEF Working
    <2>2. Len(new.ids) + 1 \in DOMAIN AllJobs(new.req)
      BY <1>5, <2>1
    <2>3. QED
      BY <2>1, <2>2
  <1>7. nextId \in 1 .. nextId' - 1 /\ nextId \notin DOMAIN rows
    BY <1>1, <1>4 DEF Types
  <1>8. GoodCall(c, new, rows, nextId', today)
    BY <1>3, <1>5, <1>6, <1>7 DEF GoodCall, Fit
  <1>9. QED
    BY <1>2, <1>3, <1>4, <1>8, CallChanged

\* The job a call is inserting.
LEMMA CurrentJob ==
  ASSUME Types, NEW c \in Calls, At(c, "details")
  PROVE  /\ call[c] \in Working(c)
         /\ Current(c) = Len(call[c].ids) + 1
         /\ Current(c) \in DOMAIN AllJobs(call[c].req) /\ Current(c) \in Nat \ {0}
         /\ AllJobs(call[c].req)[Current(c)] \in Seq({"today", "fixed"})
         /\ Len(call[c].days) <= Len(AllJobs(call[c].req)[Current(c)])
         /\ Fit(call[c].days, AllJobs(call[c].req)[Current(c)], today)
         /\ call[c].id \in 1 .. nextId - 1 /\ call[c].id \notin DOMAIN rows
  <1>1. call[c] \in Working(c) /\ GoodCall(c, call[c], rows, nextId, today)
    BY AtWork DEF At, Types
  <1>2. /\ AllJobs(call[c].req) \in Seq(Job) /\ Len(call[c].ids) \in Nat
        /\ \A j \in DOMAIN AllJobs(call[c].req) : AllJobs(call[c].req)[j] \in Seq({"today", "fixed"})
    BY <1>1, RequestTypes DEF Working
  <1>3. Len(call[c].ids) + 1 \in DOMAIN AllJobs(call[c].req)
    BY <1>1, <1>2 DEF GoodCall, At
  <1>4. QED
    BY <1>1, <1>2, <1>3 DEF GoodCall, At, Current

\* An input is resolved to a day that has come.
LEMMA ResolvedFits ==
  ASSUME Types, NEW input \in {"today", "fixed"}
  PROVE  Resolved(input) \in Day /\ Fits(input, Resolved(input), today)
  BY IngestionAssumption DEF Types, Resolved, Fits, Day

\* Inserting a detail, which resolves its input, keeps Types.
LEMMA InsertDetailStep ==
  ASSUME Types, NEW c \in Calls, InsertDetail(c)
  PROVE  Types'
  <1>1. PICK inputs : inputs = AllJobs(call[c].req)[Current(c)]
    OBVIOUS
  <1>2. /\ At(c, "details") /\ call[c] \in Working(c)
        /\ inputs \in Seq({"today", "fixed"})
        /\ Len(call[c].days) < Len(inputs) /\ Fit(call[c].days, inputs, today)
        /\ call[c].id \in 1 .. nextId - 1 /\ call[c].id \notin DOMAIN rows
        /\ call[c].days \in Seq(Day) /\ Len(call[c].days) \in Nat
    BY <1>1, CurrentJob DEF InsertDetail, Working
  <1>3. PICK day : day = Resolved(inputs[Len(call[c].days) + 1])
    OBVIOUS
  <1>4. day \in Day /\ Fits(inputs[Len(call[c].days) + 1], day, today)
    <2>1. inputs[Len(call[c].days) + 1] \in {"today", "fixed"}
      BY <1>2
    <2>2. QED
      BY <1>3, <2>1, ResolvedFits
  <1> DEFINE new == [call[c] EXCEPT !.days = Append(@, day)]
  <1>5. call' = [call EXCEPT ![c] = new]
    BY <1>1, <1>2, <1>3 DEF InsertDetail, Types
  <1>6. /\ new \in Working(c) /\ new.days = Append(call[c].days, day)
        /\ new.step = "details" /\ new.id = call[c].id /\ new.ids = call[c].ids
        /\ new.req = call[c].req /\ new.sent = call[c].sent /\ new.unsent = call[c].unsent
    <2>1. Append(call[c].days, day) \in Seq(Day)
      BY <1>2, <1>4
    <2>2. QED
      BY <1>2, <2>1 DEF Working, At
  <1> HIDE DEF new
  <1>7. Len(new.days) <= Len(inputs) /\ Fit(new.days, inputs, today)
    <2>1. /\ Len(new.days) = Len(call[c].days) + 1 /\ DOMAIN new.days = 1 .. Len(new.days)
          /\ \A i \in DOMAIN new.days :
               new.days[i] = IF i = Len(call[c].days) + 1 THEN day ELSE call[c].days[i]
          /\ DOMAIN call[c].days = 1 .. Len(call[c].days) /\ Len(inputs) \in Nat
      BY <1>2, <1>4, <1>6
    <2>2. QED
      BY <1>2, <1>4, <2>1 DEF Fit
  <1>8. /\ UNCHANGED <<faults, today, nextId, rows, submitted>>
        /\ faults' \in 0 .. MaxFaults /\ nextId' \in Nat /\ nextId <= nextId'
    BY DEF InsertDetail, Types
  <1>9. GoodCall(c, call[c], rows, nextId, today)
    BY DEF Types
  <1>10. inputs = AllJobs(new.req)[Len(new.ids) + 1]
    BY <1>1, <1>6 DEF Current
  <1>11. GoodCall(c, new, rows, nextId', today)
    BY <1>2, <1>6, <1>7, <1>8, <1>9, <1>10 DEF GoodCall, At
  <1>12. QED
    BY <1>2, <1>5, <1>6, <1>8, <1>11, CallChanged

\* A call is answered.
LEMMA AnswerStep ==
  ASSUME Types, NEW c \in Calls, NEW reply \in {"ok", "internal", "timeout"},
         call[c].step \in {"insert", "details", "forward", "reply"},
         call' = [call EXCEPT ![c] = Answer(c, reply)],
         faults' \in 0 .. MaxFaults, UNCHANGED <<today, nextId, rows, submitted>>
  PROVE  Types'
  <1>1. PICK new : new = Answer(c, reply)
    OBVIOUS
  <1>2. call[c] \in Working(c)
    BY AtWork
  <1>3. new \in Closed(c) /\ new.step = "over" /\ new.req = call[c].req
    BY <1>1, <1>2 DEF Answer, Working, Closed
  <1>4. GoodCall(c, new, rows, nextId', today)
    BY <1>3 DEF GoodCall
  <1>5. nextId' \in Nat /\ nextId <= nextId'
    BY DEF Types
  <1>6. QED
    BY <1>1, <1>3, <1>4, <1>5, CallChanged

\* What AfterInput makes of the call.
LEMMA AfterInputStep ==
  ASSUME Types, NEW c \in Calls, At(c, "forward"), NEW lost \in SUBSET (Nat \X Nat),
         NEW new, new = AfterInput(c, lost)
  PROVE  /\ new \in Working(c) /\ new.step \in {"forward", "reply"}
         /\ new.req = call[c].req /\ new.sent = call[c].sent + 1
         /\ new.unsent = call[c].unsent \cup lost
         /\ new.step = "forward" <=> new.sent < Len(Inputs(new.req))
         /\ GoodCall(c, new, rows, nextId, today)
         /\ call[c].sent + 1 \in DOMAIN Inputs(call[c].req)
         /\ Inputs(call[c].req)[call[c].sent + 1] \in Positions(call[c].req)
  <1>1. call[c] \in Working(c) /\ GoodCall(c, call[c], rows, nextId, today)
    BY AtWork DEF At, Types
  <1>2. PICK step \in {"forward", "reply"} :
          step = IF call[c].sent + 1 < Len(Inputs(call[c].req)) THEN "forward" ELSE "reply"
    OBVIOUS
  <1>3. new = [call[c] EXCEPT !.sent = @ + 1, !.unsent = @ \cup lost, !.step = step]
    BY <1>2 DEF AfterInput
  <1>4. /\ new \in Working(c) /\ new.step = step /\ new.ids = call[c].ids
        /\ new.req = call[c].req /\ new.sent = call[c].sent + 1
        /\ new.unsent = call[c].unsent \cup lost
    <2>1. PICK unsent, sent : unsent = call[c].unsent \cup lost /\ sent = call[c].sent + 1
      OBVIOUS
    <2>2. unsent \in SUBSET (Nat \X Nat) /\ sent \in Nat
      BY <1>1, <2>1 DEF Working
    <2>3. new = [call[c] EXCEPT !.sent = sent, !.unsent = unsent, !.step = step]
      BY <1>1, <1>3, <2>1 DEF Working
    <2>4. QED
      BY <1>1, <2>1, <2>2, <2>3 DEF Working
  <1>5. GoodCall(c, new, rows, nextId, today)
    BY <1>1, <1>2, <1>4 DEF GoodCall, At
  <1>6. Inputs(call[c].req) \in Seq(Positions(call[c].req))
    BY <1>1, RequestTypes DEF Working
  <1>7. call[c].sent \in Nat /\ call[c].sent < Len(Inputs(call[c].req))
    BY <1>1 DEF Working, GoodCall, At
  <1>8. QED
    BY <1>2, <1>4, <1>5, <1>6, <1>7

\* A position of a request is the place of one of its inputs.
LEMMA PositionTypes ==
  ASSUME NEW c \in Calls, NEW req \in Requests[c], NEW pos \in Positions(req)
  PROVE  /\ pos \in Nat \X Nat /\ pos[1] \in DOMAIN AllJobs(req)
         /\ pos[2] \in DOMAIN AllJobs(req)[pos[1]]
         /\ AllJobs(req)[pos[1]] \in Seq({"today", "fixed"})
         /\ AllJobs(req)[pos[1]][pos[2]] \in {"today", "fixed"}
  <1>1. AllJobs(req) \in Seq(Job) /\ DOMAIN AllJobs(req) = 1 .. Len(AllJobs(req))
    BY RequestTypes
  <1>2. /\ pos \in Nat \X Nat /\ pos[1] \in DOMAIN AllJobs(req)
        /\ pos[2] \in DOMAIN AllJobs(req)[pos[1]]
    BY <1>1 DEF Positions, Before
  <1>3. AllJobs(req)[pos[1]] \in Seq({"today", "fixed"})
    BY <1>2, RequestTypes
  <1>4. QED
    BY <1>2, <1>3

\* Failing to forward an input keeps Types.
LEMMA ForwardFailsStep ==
  ASSUME Types, NEW c \in Calls, ForwardFails(c)
  PROVE  Types'
  <1>1. PICK pos : pos = Inputs(call[c].req)[call[c].sent + 1]
    OBVIOUS
  <1>2. PICK new : new = AfterInput(c, {pos})
    OBVIOUS
  <1>3. At(c, "forward") /\ call' = [call EXCEPT ![c] = new]
    BY <1>1, <1>2 DEF ForwardFails
  <1>4. call[c].req \in Requests[c]
    BY <1>3, AtWork DEF At
  <1>5. pos \in Nat \X Nat
    BY <1>1, <1>3, <1>4, AfterInputStep, PositionTypes
  <1>6. /\ new.step \in {"forward", "reply"} /\ new.req = call[c].req
        /\ GoodCall(c, new, rows, nextId, today)
    BY <1>2, <1>3, <1>5, AfterInputStep
  <1>7. /\ faults' \in 0 .. MaxFaults /\ UNCHANGED <<today, nextId, rows, submitted>>
        /\ nextId' \in Nat /\ nextId <= nextId'
    BY FaultCounted DEF ForwardFails, Types
  <1>8. QED
    BY <1>3, <1>6, <1>7, CallChanged

\* The coordinator job that Forward submits is about the row of its input.
LEMMA SubmissionGood ==
  ASSUME Types, NEW c \in Calls, At(c, "forward"), NEW pos \in Positions(call[c].req),
         NEW s, s = Submission(c, pos)
  PROVE  GoodSubmission(s, rows, call, today) /\ s.call = c /\ s.pos = pos
  <1>1. call[c] \in Working(c) /\ GoodCall(c, call[c], rows, nextId, today)
    BY AtWork DEF At, Types
  <1>2. /\ call[c].req \in Requests[c] /\ call[c].ids \in Seq(Nat)
        /\ Recorded(c, call[c].ids, rows) /\ Len(call[c].ids) = Len(AllJobs(call[c].req))
        /\ AllJobs(call[c].req) \in Seq(Job)
    BY <1>1, RequestTypes DEF Working, GoodCall, At
  <1>3. PICK j, i : j = pos[1] /\ i = pos[2]
    OBVIOUS
  <1>4. /\ pos \in Nat \X Nat /\ j \in DOMAIN AllJobs(call[c].req) /\ j \in Nat
        /\ i \in DOMAIN AllJobs(call[c].req)[j] /\ i \in Nat
        /\ AllJobs(call[c].req)[j][i] \in {"today", "fixed"}
        /\ AllJobs(call[c].req)[j] \in Seq({"today", "fixed"})
    BY <1>2, <1>3, PositionTypes
  <1>5. j \in DOMAIN call[c].ids
    BY <1>2, <1>4
  <1>6. PICK id : id = call[c].ids[j]
    OBVIOUS
  <1>7. id \in DOMAIN rows /\ rows[id].by = c /\ rows[id].job = j /\ id \in Nat
    BY <1>2, <1>5, <1>6 DEF Recorded
  <1>8. PICK day : day = Resolved(AllJobs(call[c].req)[j][i])
    OBVIOUS
  <1>9. day \in Day /\ Fits(AllJobs(call[c].req)[j][i], day, today)
    BY <1>4, <1>8, ResolvedFits
  <1>10. s = [call |-> c, pos |-> pos, row |-> id, day |-> day, step |-> "running", marked |-> 0]
    BY <1>3, <1>5, <1>6, <1>8 DEF Submission, IdOf, Forwarded
  <1>11. /\ Len(rows[id].days) = Len(AllJobs(call[c].req)[j]) /\ rows[id].days \in Seq(Day)
         /\ Fit(rows[id].days, AllJobs(call[c].req)[j], today)
    BY <1>7 DEF Types, GoodRow, Row
  <1>12. i \in DOMAIN rows[id].days
    BY <1>4, <1>11
  <1>13. Fits(AllJobs(call[c].req)[j][i], rows[id].days[i], today)
    BY <1>11, <1>12 DEF Fit
  <1>14. day \in rows[id].days[i] .. today
    BY <1>4, <1>8, <1>9, <1>13, IngestionAssumption DEF Fits, Resolved, Types, Day
  <1>15. s \in Submitted
    BY <1>4, <1>7, <1>9, <1>10 DEF Submitted
  <1>16. AllJobs(call[c].req)[j][i] = "fixed" => day = rows[id].days[i]
    BY <1>9, <1>13 DEF Fits
  <1>17. /\ s.call = c /\ s.pos = pos /\ s.row = id /\ s.day = day /\ s.step = "running"
         /\ s.marked = 0
    BY <1>10
  <1>18. call[c].step # "waiting"
    BY DEF At
  <1>19. QED
    BY <1>3, <1>7, <1>14, <1>15, <1>16, <1>17, <1>18 DEF GoodSubmission

\* Forwarding an input keeps Types.
LEMMA ForwardStep ==
  ASSUME Types, NEW c \in Calls, Forward(c)
  PROVE  Types'
  <1>1. PICK pos : pos = Inputs(call[c].req)[call[c].sent + 1]
    OBVIOUS
  <1>2. PICK new : new = AfterInput(c, {})
    OBVIOUS
  <1>3. PICK s : s = Submission(c, pos)
    OBVIOUS
  <1>4. /\ At(c, "forward") /\ call' = [call EXCEPT ![c] = new]
        /\ submitted' = Append(submitted, s)
        /\ UNCHANGED <<faults, today, nextId, rows>>
    BY <1>1, <1>2, <1>3 DEF Forward
  <1>5. /\ new.step \in {"forward", "reply"} /\ new.req = call[c].req
        /\ GoodCall(c, new, rows, nextId, today) /\ pos \in Positions(call[c].req)
    BY <1>1, <1>2, <1>4, AfterInputStep
  <1>6. GoodSubmission(s, rows, call, today)
    BY <1>3, <1>4, <1>5, SubmissionGood
  <1>7. \A d \in Calls : call'[d] = IF d = c THEN new ELSE call[d]
    BY <1>4 DEF Types
  <1>8. DOMAIN call' = Calls /\ call' = [d \in Calls |-> call'[d]]
    BY <1>4 DEF Types
  <1>9. KeepsRequests(call, call')
    BY <1>5, <1>7 DEF KeepsRequests
  <1>10. today \in Nat /\ nextId \in Nat /\ today \in Day
    BY IngestionAssumption DEF Types, Day
  <1>11. Extends(rows, rows')
    BY <1>4 DEF Extends
  <1>12. GoodSubmission(s, rows', call', today')
    BY <1>4, <1>6, <1>9, <1>10, <1>11, SubmissionKept
  <1>13. /\ submitted' \in Seq(Submitted)
         /\ \A k \in DOMAIN submitted' :
              \/ k \in DOMAIN submitted /\ submitted'[k] = submitted[k]
              \/ submitted'[k] = s
    BY <1>4, <1>6 DEF Types, GoodSubmission
  <1>14. OwnIds'
    BY <1>5, <1>7 DEF Types, OwnIds, At
  <1>15. \A d \in Calls :
           \/ call'[d] = call[d] /\ (At(d, "details") => call[d].id \notin DOMAIN rows')
           \/ GoodCall(d, call'[d], rows', nextId', today')
    BY <1>4, <1>5, <1>7 DEF Types, GoodCall, At
  <1>16. /\ faults' \in 0 .. MaxFaults /\ today' \in Day /\ today <= today'
         /\ nextId' \in Nat /\ nextId <= nextId' /\ DOMAIN rows' \subseteq 1 .. nextId' - 1
         /\ \A id \in DOMAIN rows' : id \in DOMAIN rows /\ rows'[id] = rows[id]
    BY <1>4, <1>10 DEF Types
  <1>17. QED
    BY <1>8, <1>9, <1>11, <1>12, <1>13, <1>14, <1>15, <1>16, TypesKept

\* Committing a job keeps Types.
LEMMA CommitStep ==
  ASSUME Types, NEW c \in Calls, Commit(c)
  PROVE  Types'
  <1>1. /\ At(c, "details") /\ call[c] \in Working(c)
        /\ Current(c) = Len(call[c].ids) + 1
        /\ Current(c) \in DOMAIN AllJobs(call[c].req) /\ Current(c) \in Nat \ {0}
        /\ Fit(call[c].days, AllJobs(call[c].req)[Current(c)], today)
        /\ call[c].id \in 1 .. nextId - 1 /\ call[c].id \notin DOMAIN rows
        /\ Len(call[c].days) = Len(AllJobs(call[c].req)[Current(c)])
    BY CurrentJob DEF Commit
  <1>2. PICK row, id : row = RowOf(c) /\ id = call[c].id
    OBVIOUS
  <1>3. rows' = [x \in DOMAIN rows \cup {id} |-> IF x = id THEN row ELSE rows[x]]
    BY <1>2 DEF Commit
  <1>4. PICK step \in {"insert", "forward", "reply"} :
          /\ step = IF Current(c) < Len(AllJobs(call[c].req)) THEN "insert"
                    ELSE IF Inputs(call[c].req) # <<>> THEN "forward" ELSE "reply"
          /\ step = "insert" <=> Current(c) < Len(AllJobs(call[c].req))
          /\ step = "forward" => Inputs(call[c].req) # <<>>
    OBVIOUS
  <1>5. PICK ids : ids = Append(call[c].ids, id)
    OBVIOUS
  <1> DEFINE new == [call[c] EXCEPT !.days = <<>>, !.ids = ids, !.step = step]
  <1>6. call' = [call EXCEPT ![c] = new]
    BY <1>1, <1>2, <1>4, <1>5 DEF Commit, Types
  <1>7. ids \in Seq(Nat) /\ call[c].ids \in Seq(Nat) /\ call[c].req \in Requests[c] /\ id \in Nat
    BY <1>1, <1>2, <1>5 DEF Working
  <1>8. /\ new \in Working(c) /\ new.step = step /\ new.ids = ids /\ new.days = <<>>
        /\ new.req = call[c].req /\ new.sent = call[c].sent /\ new.unsent = call[c].unsent
    <2>1. <<>> \in Seq(Day)
      OBVIOUS
    <2>2. QED
      BY <1>1, <1>4, <1>7, <2>1 DEF Working
  <1> HIDE DEF new
  <1>9. /\ row \in Row /\ row.by = c /\ row.job = Current(c) /\ row.days = call[c].days
    BY <1>1, <1>2 DEF RowOf, Row, Working, Status
  <1>10. GoodRow(row, call, today)
    BY <1>1, <1>9 DEF GoodRow, At
  <1>11. /\ DOMAIN rows' = DOMAIN rows \cup {id} /\ rows'[id] = row
         /\ \A x \in DOMAIN rows : rows'[x] = rows[x]
    BY <1>1, <1>2, <1>3
  <1>12. Extends(rows, rows')
    BY <1>11 DEF Extends
  <1>13. Recorded(c, ids, rows')
    <2>1. GoodCall(c, call[c], rows, nextId, today)
      BY DEF Types
    <2>2. Recorded(c, call[c].ids, rows)
      BY <1>1, <2>1 DEF GoodCall, At
    <2>3. ASSUME NEW j \in DOMAIN ids
          PROVE  ids[j] \in DOMAIN rows' /\ rows'[ids[j]].by = c /\ rows'[ids[j]].job = j
      <3>1. CASE j \in DOMAIN call[c].ids
        <4>1. ids[j] = call[c].ids[j]
          BY <1>5, <1>7, <3>1
        <4>2. QED
          BY <1>11, <2>2, <3>1, <4>1 DEF Recorded
      <3>2. CASE j \notin DOMAIN call[c].ids
        <4>1. j = Len(call[c].ids) + 1 /\ ids[j] = id
          BY <1>5, <1>7, <2>3, <3>2
        <4>2. QED
          BY <1>1, <1>9, <1>11, <4>1
      <3>3. QED
        BY <3>1, <3>2
    <2>4. QED
      BY <2>3 DEF Recorded
  <1>14. /\ Len(ids) = Current(c) /\ Current(c) <= Len(AllJobs(call[c].req))
         /\ AllJobs(call[c].req) \in Seq(Job)
    BY <1>1, <1>5, <1>7, RequestTypes
  <1>15. step = "forward" => new.sent < Len(Inputs(call[c].req))
    <2>1. GoodCall(c, call[c], rows, nextId, today) /\ At(c, "details")
      BY <1>1 DEF Types
    <2>2. call[c].sent = 0
      BY <2>1 DEF GoodCall, At
    <2>3. QED
      BY <1>4, <1>7, <1>8, <2>2, RequestTypes
  <1>16. GoodCall(c, new, rows', nextId, today)
    <2>1. call[c].sent = 0 /\ call[c].unsent = {}
      BY <1>1 DEF Types, GoodCall, At
    <2>2. QED
      BY <1>4, <1>8, <1>13, <1>14, <1>15, <2>1 DEF GoodCall
  <1>17. \A d \in Calls : call'[d] = IF d = c THEN new ELSE call[d]
    BY <1>6 DEF Types
  <1>18. DOMAIN call' = Calls /\ call' = [d \in Calls |-> call'[d]]
    BY <1>6 DEF Types
  <1>19. KeepsRequests(call, call')
    BY <1>4, <1>8, <1>17 DEF KeepsRequests
  <1>20. OwnIds'
    BY <1>4, <1>8, <1>17 DEF Types, OwnIds, At
  <1>21. ASSUME NEW d \in Calls
         PROVE  \/ call'[d] = call[d] /\ (At(d, "details") => call[d].id \notin DOMAIN rows')
                \/ GoodCall(d, call'[d], rows', nextId', today')
    <2>1. CASE d = c
      BY <1>16, <1>17, <2>1 DEF Commit
    <2>2. CASE d # c
      <3>1. At(d, "details") => call[d].id # id /\ call[d].id \notin DOMAIN rows
        BY <1>1, <1>2, <2>2 DEF Types, OwnIds, GoodCall, At
      <3>2. QED
        BY <1>11, <1>17, <2>2, <3>1
    <2>3. QED
      BY <2>1, <2>2
  <1>22. today \in Nat /\ nextId \in Nat /\ today \in Day /\ UNCHANGED <<faults, today, nextId, submitted>>
    BY IngestionAssumption DEF Types, Day, Commit
  <1>23. GoodRow(row, call', today')
    BY <1>10, <1>19, <1>22, RowKept
  <1>24. /\ faults' \in 0 .. MaxFaults /\ today' \in Day /\ today <= today'
         /\ nextId' \in Nat /\ nextId <= nextId' /\ DOMAIN rows' \subseteq 1 .. nextId' - 1
         /\ submitted' \in Seq(Submitted)
         /\ \A k \in DOMAIN submitted' : k \in DOMAIN submitted /\ submitted'[k] = submitted[k]
    BY <1>1, <1>2, <1>11, <1>22 DEF Types
  <1>25. \A x \in DOMAIN rows' :
           \/ x \in DOMAIN rows /\ rows'[x] = rows[x]
           \/ GoodRow(rows'[x], call', today')
    BY <1>11, <1>23
  <1>26. QED
    BY <1>12, <1>18, <1>19, <1>20, <1>21, <1>24, <1>25, TypesKept

\* A handler goes on, or is lost.
LEMMA Moved ==
  ASSUME Types, NEW s, GoodSubmission(s, rows, call, today),
         NEW step \in {"mark", "evaluate", "over", "lost"}, NEW marked \in 0 .. 2,
         step = "mark" => marked < 2,
         NEW t, t = [s EXCEPT !.step = step, !.marked = marked]
  PROVE  GoodSubmission(t, rows, call, today)
  <1>1. s \in Submitted
    BY DEF GoodSubmission
  <1>2. /\ t \in Submitted /\ t.call = s.call /\ t.pos = s.pos /\ t.row = s.row
        /\ t.day = s.day /\ t.step = step /\ t.marked = marked
    BY <1>1 DEF Submitted
  <1>3. QED
    BY <1>2 DEF GoodSubmission

\* Handlers change nothing of a row but its marks.
MarksOnly(R, R2) ==
  /\ DOMAIN R2 = DOMAIN R
  /\ \A id \in DOMAIN R :
       \/ R2[id] = R[id]
       \/ \E status, files \in Status :
            R2[id] = [R[id] EXCEPT !.status = status, !.files = files]

\* Some consequences of Types.
LEMMA Bounds ==
  ASSUME Types
  PROVE  /\ today \in Nat /\ today \in Day /\ nextId \in Nat
         /\ DOMAIN rows \subseteq 1 .. nextId - 1
         /\ submitted \in [1 .. Len(submitted) -> Submitted]
         /\ Len(submitted) \in Nat /\ DOMAIN submitted = 1 .. Len(submitted)
  BY IngestionAssumption DEF Types, Day

\* Steps of completion handlers that only mark rows keep Types.
LEMMA HandlersMoved ==
  ASSUME Types, faults' \in 0 .. MaxFaults, UNCHANGED <<today, call, nextId>>,
         MarksOnly(rows, rows'), submitted' \in Seq(Submitted),
         \A k \in DOMAIN submitted' : GoodSubmission(submitted'[k], rows, call, today)
  PROVE  Types'
  <1>1. ASSUME NEW id \in DOMAIN rows
        PROVE  /\ GoodRow(rows'[id], call, today)
               /\ rows'[id].by = rows[id].by /\ rows'[id].job = rows[id].job
               /\ rows'[id].days = rows[id].days
    <2>1. GoodRow(rows[id], call, today)
      BY DEF Types
    <2>2. ASSUME NEW status \in Status, NEW files \in Status,
                 rows'[id] = [rows[id] EXCEPT !.status = status, !.files = files]
          PROVE  /\ rows'[id] \in Row /\ rows'[id].by = rows[id].by
                 /\ rows'[id].job = rows[id].job /\ rows'[id].days = rows[id].days
      BY <2>1, <2>2 DEF GoodRow, Row
    <2>3. QED
      <3>1. \/ rows'[id] = rows[id]
            \/ \E status, files \in Status :
                 rows'[id] = [rows[id] EXCEPT !.status = status, !.files = files]
        BY DEF MarksOnly
      <3>2. /\ rows'[id] \in Row /\ rows'[id].by = rows[id].by
            /\ rows'[id].job = rows[id].job /\ rows'[id].days = rows[id].days
        BY <2>1, <2>2, <3>1 DEF GoodRow
      <3>3. QED
        BY <2>1, <3>2 DEF GoodRow
  <1>2. Extends(rows, rows')
    BY <1>1 DEF Extends, MarksOnly
  <1>3. /\ today \in Nat /\ today' \in Day /\ today <= today' /\ nextId' \in Nat
        /\ nextId <= nextId' /\ DOMAIN rows' \subseteq 1 .. nextId' - 1
    <2>1. today' = today /\ nextId' = nextId /\ DOMAIN rows' = DOMAIN rows
      BY DEF MarksOnly
    <2>2. today <= today /\ nextId <= nextId
      BY Bounds
    <2>3. QED
      BY <2>1, <2>2, Bounds
  <1>4. DOMAIN call' = Calls /\ call' = [c \in Calls |-> call'[c]] /\ OwnIds'
        /\ KeepsRequests(call, call')
    BY DEF Types, OwnIds, At, KeepsRequests
  <1>5. \A c \in Calls : call'[c] = call[c] /\ (At(c, "details") => call[c].id \notin DOMAIN rows')
    BY DEF Types, GoodCall, At, MarksOnly
  <1>6. \A id \in DOMAIN rows' : GoodRow(rows'[id], call', today')
    BY <1>1 DEF MarksOnly
  <1>7. \A k \in DOMAIN submitted' : GoodSubmission(submitted'[k], rows', call', today')
    BY <1>2, <1>3, <1>4, SubmissionKept
  <1>8. QED
    BY <1>2, <1>3, <1>4, <1>5, <1>6, <1>7, TypesKept

\* The same, for a step of one handler.
LEMMA HandlerChanged ==
  ASSUME Types, faults' \in 0 .. MaxFaults, UNCHANGED <<today, call, nextId>>,
         NEW k \in DOMAIN submitted, NEW t, submitted' = [submitted EXCEPT ![k] = t],
         GoodSubmission(t, rows, call, today),
         MarksOnly(rows, rows')
  PROVE  Types'
  <1>1. t \in Submitted /\ submitted \in [1 .. Len(submitted) -> Submitted]
        /\ Len(submitted) \in Nat /\ DOMAIN submitted = 1 .. Len(submitted)
    BY Bounds DEF GoodSubmission
  <1>2. /\ submitted' \in Seq(Submitted) /\ DOMAIN submitted' = DOMAIN submitted
        /\ \A l \in DOMAIN submitted : submitted'[l] = IF l = k THEN t ELSE submitted[l]
    <2>1. /\ submitted' \in [1 .. Len(submitted) -> Submitted]
          /\ DOMAIN submitted' = DOMAIN submitted
          /\ \A l \in DOMAIN submitted : submitted'[l] = IF l = k THEN t ELSE submitted[l]
      BY <1>1
    <2>2. submitted' \in Seq(Submitted)
      BY <1>1, <2>1, FunctionIsSeq
    <2>3. QED
      BY <2>1, <2>2
  <1>3. \A l \in DOMAIN submitted' : GoodSubmission(submitted'[l], rows, call, today)
    BY <1>2 DEF Types
  <1>4. QED
    BY <1>2, <1>3, HandlersMoved

\* Marking a row keeps Types.
LEMMA MarkStep ==
  ASSUME Types, NEW k \in DOMAIN submitted, Mark(k)
  PROVE  Types'
  <1>1. PICK s : s = submitted[k]
    OBVIOUS
  <1>2. /\ GoodSubmission(s, rows, call, today) /\ s \in Submitted /\ s.step = "mark"
        /\ s.marked \in 0 .. 1 /\ s.row \in DOMAIN rows
    BY <1>1 DEF Types, GoodSubmission, Submitted, Mark, Is
  <1>3. PICK step \in {"mark", "evaluate"} :
          /\ step = IF s.marked + 1 < Len(Marks) THEN "mark" ELSE "evaluate"
          /\ step = "mark" => s.marked + 1 < 2
    BY DEF Marks
  <1>4. PICK t : t = [s EXCEPT !.step = step, !.marked = s.marked + 1]
    OBVIOUS
  <1>5. GoodSubmission(t, rows, call, today)
    <2>1. s.marked + 1 \in 0 .. 2
      BY <1>2
    <2>2. QED
      BY <1>2, <1>3, <1>4, <2>1, Moved
  <1>6. submitted' = [submitted EXCEPT ![k] = t]
    BY <1>1, <1>2, <1>3, <1>4 DEF Mark, Types, Submitted
  <1>7. PICK column : column = Marks[s.marked + 1]
    OBVIOUS
  <1>8. rows' = [rows EXCEPT
          ![s.row].status = IF column = "status" THEN "COMPLETED" ELSE @,
          ![s.row].files = IF column = "files" THEN "COMPLETED" ELSE @]
    BY <1>1, <1>7 DEF Mark
  <1>9. ASSUME NEW id \in DOMAIN rows
        PROVE  \/ rows'[id] = rows[id]
               \/ \E status, files \in Status :
                    rows'[id] = [rows[id] EXCEPT !.status = status, !.files = files]
    <2>1. CASE id = s.row
      <3>1. PICK status, files :
              /\ status = IF column = "status" THEN "COMPLETED" ELSE rows[id].status
              /\ files = IF column = "files" THEN "COMPLETED" ELSE rows[id].files
        OBVIOUS
      <3>2. status \in Status /\ files \in Status
        BY <3>1 DEF Types, GoodRow, Row, Status
      <3>3. rows'[id] = [rows[id] EXCEPT !.status = status, !.files = files]
        BY <1>8, <2>1, <3>1
      <3>4. QED
        BY <3>2, <3>3
    <2>2. CASE id # s.row
      BY <1>8, <2>2
    <2>3. QED
      BY <2>1, <2>2
  <1>10. /\ MarksOnly(rows, rows')
         /\ faults' \in 0 .. MaxFaults /\ UNCHANGED <<today, call, nextId>>
    BY <1>8, <1>9 DEF Mark, Types, MarksOnly
  <1>11. QED
    BY <1>5, <1>6, <1>10, HandlerChanged

\* The other steps of a completion handler keep Types.
LEMMA HandlerStep ==
  ASSUME Types, NEW k \in DOMAIN submitted, Complete(k) \/ MarkFails(k) \/ Evaluate(k)
  PROVE  Types'
  <1>1. PICK s : s = submitted[k]
    OBVIOUS
  <1>2. PICK step \in {"mark", "evaluate", "over"} :
          /\ submitted' = [submitted EXCEPT ![k].step = step]
          /\ step = "mark" => s.step = "running"
    BY <1>1 DEF Complete, MarkFails, Evaluate, Is
  <1>3. /\ GoodSubmission(s, rows, call, today) /\ s \in Submitted /\ s.marked \in 0 .. 2
        /\ s.step = "running" => s.marked = 0
    BY <1>1 DEF Types, GoodSubmission, Submitted
  <1>4. PICK t : t = [s EXCEPT !.step = step, !.marked = s.marked]
    OBVIOUS
  <1>5. GoodSubmission(t, rows, call, today)
    <2>1. step = "mark" => s.marked < 2
      BY <1>2, <1>3
    <2>2. QED
      BY <1>2, <1>3, <1>4, <2>1, Moved
  <1>6. submitted' = [submitted EXCEPT ![k] = t]
    BY <1>1, <1>2, <1>3, <1>4 DEF Submitted, Types
  <1>7. UNCHANGED <<today, call, nextId, rows>> /\ faults' \in 0 .. MaxFaults
    BY FaultCounted DEF Complete, MarkFails, Evaluate, Types
  <1>8. MarksOnly(rows, rows')
    BY <1>7 DEF MarksOnly
  <1>9. QED
    BY <1>5, <1>6, <1>7, <1>8, HandlerChanged

\* A restart keeps Types.
LEMMA RestartStep ==
  ASSUME Types, Restart
  PROVE  Types'
  <1>1. submitted \in Seq(Submitted) /\ Len(submitted) \in Nat
        /\ DOMAIN submitted = 1 .. Len(submitted)
    BY DEF Types
  <1>2. ASSUME NEW k \in DOMAIN submitted
        PROVE  GoodSubmission(submitted'[k], rows, call, today)
    <2>1. PICK s : s = submitted[k]
      OBVIOUS
    <2>2. /\ GoodSubmission(s, rows, call, today) /\ s \in Submitted /\ s.marked \in 0 .. 2
      BY <2>1 DEF Types, GoodSubmission, Submitted
    <2>3. CASE Is(k, "over")
      BY <2>1, <2>2, <2>3 DEF Restart
    <2>4. CASE ~Is(k, "over")
      <3>1. submitted'[k] = [s EXCEPT !.step = "lost"]
        BY <2>1, <2>4 DEF Restart
      <3>2. submitted'[k] = [s EXCEPT !.step = "lost", !.marked = s.marked]
        BY <2>2, <3>1 DEF Submitted
      <3>3. QED
        BY <2>2, <3>2, Moved
    <2>5. QED
      BY <2>3, <2>4
  <1>3. DOMAIN submitted' = DOMAIN submitted
    BY DEF Restart
  <1>4. submitted' \in [1 .. Len(submitted) -> Submitted]
    BY <1>1, <1>2 DEF Restart, GoodSubmission
  <1>5. submitted' \in Seq(Submitted)
    BY <1>1, <1>4, FunctionIsSeq
  <1>6. faults' \in 0 .. MaxFaults /\ UNCHANGED <<today, call, nextId, rows>>
    BY FaultCounted DEF Restart
  <1>7. MarksOnly(rows, rows')
    BY <1>6 DEF MarksOnly
  <1>8. QED
    BY <1>2, <1>3, <1>5, <1>6, <1>7, HandlersMoved

\* The next day keeps Types.
LEMMA MidnightStep ==
  ASSUME Types, Midnight
  PROVE  Types'
  <1>1. /\ today \in Nat /\ today' \in Day /\ today <= today'
        /\ UNCHANGED <<faults, call, nextId, rows, submitted>>
    BY IngestionAssumption DEF Types, Day, Midnight
  <1>2. KeepsRequests(call, call') /\ Extends(rows, rows') /\ OwnIds'
    BY <1>1 DEF KeepsRequests, Extends, Types, OwnIds, At
  <1>3. \A c \in Calls : call'[c] = call[c] /\ (At(c, "details") => call[c].id \notin DOMAIN rows')
    BY <1>1 DEF Types, GoodCall, At
  <1>4. /\ faults' \in 0 .. MaxFaults /\ nextId' \in Nat /\ nextId <= nextId'
        /\ DOMAIN rows' \subseteq 1 .. nextId' - 1
        /\ DOMAIN call' = Calls /\ call' = [c \in Calls |-> call'[c]]
        /\ submitted' \in Seq(Submitted)
        /\ \A id \in DOMAIN rows' : id \in DOMAIN rows /\ rows'[id] = rows[id]
        /\ \A k \in DOMAIN submitted' : k \in DOMAIN submitted /\ submitted'[k] = submitted[k]
    BY <1>1 DEF Types
  <1>5. QED
    BY <1>1, <1>2, <1>3, <1>4, TypesKept

\* Every step keeps Types.
LEMMA TypesStep ==
  ASSUME Types, [Next]_vars
  PROVE  Types'
  <1>1. ASSUME NEW c \in Calls, InsertFails(c) PROVE Types'
    BY <1>1, AnswerStep, FaultCounted DEF InsertFails, At
  <1>2. ASSUME NEW c \in Calls, Reply(c) PROVE Types'
    <2>1. faults' \in 0 .. MaxFaults
      BY <1>2 DEF Reply, Types
    <2>2. QED
      BY <1>2, <2>1, AnswerStep DEF Reply, At
  <1>3. ASSUME NEW c \in Calls, Timeout(c) PROVE Types'
    <2>1. call[c].step \in {"insert", "details", "forward", "reply"}
      BY <1>3, AtWork DEF Timeout, Idle, Working, Closed
    <2>2. QED
      BY <1>3, <2>1, AnswerStep, FaultCounted DEF Timeout
  <1>4. CASE UNCHANGED vars
    BY <1>4 DEF vars, Types, OwnIds, At
  <1>5. QED
    BY <1>1, <1>2, <1>3, <1>4, ReceiveStep, InsertJobStep, InsertDetailStep, CommitStep,
       ForwardStep, ForwardFailsStep, MarkStep, HandlerStep, RestartStep, MidnightStep
    DEF Next, Proceed, Process

\* Types holds initially.
LEMMA TypesInit == Init => Types
  <1> SUFFICES ASSUME Init PROVE Types
    OBVIOUS
  <1>1. [step |-> "waiting", reply |-> "none"] \in Idle
    BY DEF Idle
  <1>2. \A c \in Calls : GoodCall(c, call[c], rows, nextId, today)
    BY <1>1 DEF Init, GoodCall
  <1>3. /\ faults \in 0 .. MaxFaults /\ today \in Day /\ nextId \in Nat \ {0}
        /\ DOMAIN rows = {} /\ submitted = <<>> /\ submitted \in Seq(Submitted)
        /\ DOMAIN call = Calls /\ call = [c \in Calls |-> call[c]] /\ OwnIds
    BY IngestionAssumption DEF Init, Day, OwnIds, At
  <1>4. QED
    BY <1>2, <1>3 DEF Types

\* Types holds in every behaviour.
LEMMA TypesAlways == Spec => []Types
  BY TypesInit, TypesStep, PTL DEF Spec

\* Calls at work have what the next step needs, rows and coordinator jobs are well formed,
\* and ids of rows have been given out by the table (handle_ingest_inner, ingest_request).
THEOREM TypeCorrect == Spec => []TypeOK
  <1>1. ASSUME Types PROVE TypeOK
    <2>1. ASSUME NEW c \in Calls
          PROVE  /\ call[c].step \in Step
                 /\ At(c, "forward") => call[c].sent < Len(Inputs(call[c].req))
      BY <1>1, <2>1 DEF Types, GoodCall, Idle, Working, Closed, Step, At
    <2>2. ASSUME NEW id \in DOMAIN rows PROVE rows[id] \in Row
      BY <1>1, <2>2 DEF Types, GoodRow
    <2>3. ASSUME NEW k \in DOMAIN submitted PROVE submitted[k] \in Submitted
      BY <1>1, <2>3 DEF Types, GoodSubmission
    <2>4. QED
      BY <1>1, <2>1, <2>2, <2>3 DEF TypeOK, Types, Row
  <1>2. QED
    BY TypesAlways, <1>1, PTL

\* A job is in the database with the details and files of all its inputs or not at all,
\* whichever statement of ingest_request failed and whenever the call was dropped.
THEOREM WholeJobs == Spec => []JobsAreWhole
  <1>1. Types => JobsAreWhole
    BY DEF Types, GoodRow, JobsAreWhole, InputsOf
  <1>2. QED
    BY TypesAlways, <1>1, PTL

\* Every coordinator job carries the id of the database job its input was recorded under,
\* and is about the day recorded there or, if midnight passed, a later one.
THEOREM RowsMatched == Spec => []SubmittedMatchesRow
  <1>1. Types => SubmittedMatchesRow
    BY DEF Types, GoodSubmission, SubmittedMatchesRow, InputsOf
  <1>2. QED
    BY TypesAlways, <1>1, PTL

-----------------------------------------------------------------------------
(* What is forwarded *)

SubmissionsIn(S, c, p) == {k \in DOMAIN S : S[k].call = c /\ S[k].pos = p}

\* Position p of call c was forwarded once, or not at all and logged as failed.
Once(S, c, p, unsent) ==
  IF p \in unsent THEN SubmissionsIn(S, c, p) = {}
  ELSE \E k : SubmissionsIn(S, c, p) = {k}

\* The loop over the inputs got as far as position p.
Reached(r, p) == \E k \in DOMAIN Inputs(r.req) : k <= r.sent /\ Inputs(r.req)[k] = p

Forwarding(c, r, R, S) ==
  /\ r.step \in {"waiting", "insert", "details"} => \A k \in DOMAIN S : S[k].call # c
  /\ r.step \in {"forward", "reply"} =>
       \A p \in Positions(r.req) :
         /\ Reached(r, p) => Once(S, c, p, r.unsent)
         /\ ~Reached(r, p) => p \notin r.unsent /\ SubmissionsIn(S, c, p) = {}
  /\ r.step = "reply" => Len(Inputs(r.req)) <= r.sent
  /\ r.step = "over" /\ r.reply = "ok" =>
       /\ \A p \in Positions(r.req) : Once(S, c, p, r.unsent)
       /\ \A j \in DOMAIN AllJobs(r.req) : \E id \in DOMAIN R : R[id].by = c /\ R[id].job = j

AllForwarding == \A c \in Calls : Forwarding(c, call[c], rows, submitted)

SameSubmissions(c, S, S2) ==
  /\ \A p : SubmissionsIn(S2, c, p) = SubmissionsIn(S, c, p)
  /\ (\A k \in DOMAIN S : S[k].call # c) => \A k \in DOMAIN S2 : S2[k].call # c

\* A call's forwarding is as it was while its coordinator jobs are.
LEMMA ForwardingKept ==
  ASSUME NEW c, NEW r, NEW R, NEW R2, NEW S, NEW S2,
         Forwarding(c, r, R, S), Extends(R, R2), SameSubmissions(c, S, S2)
  PROVE  Forwarding(c, r, R2, S2)
  <1>1. \A p, unsent : Once(S, c, p, unsent) => Once(S2, c, p, unsent)
    BY DEF SameSubmissions, Once
  <1>2. \A j : (\E id \in DOMAIN R : R[id].by = c /\ R[id].job = j) =>
               \E id \in DOMAIN R2 : R2[id].by = c /\ R2[id].job = j
    BY DEF Extends
  <1>3. QED
    BY <1>1, <1>2 DEF Forwarding, SameSubmissions

\* Rows stay, and keep what they are about.
LEMMA RowsExtend ==
  ASSUME Types, [Next]_vars
  PROVE  Extends(rows, rows')
  <1>1. CASE rows' = rows
    BY <1>1 DEF Extends
  <1>2. ASSUME NEW c \in Calls, Commit(c) PROVE Extends(rows, rows')
    <2>1. call[c].id \notin DOMAIN rows
      BY <1>2, CurrentJob DEF Commit
    <2>2. QED
      BY <1>2, <2>1 DEF Commit, Extends
  <1>3. ASSUME NEW k \in DOMAIN submitted, Mark(k) PROVE Extends(rows, rows')
    <2>1. PICK row, status, files : rows' = [rows EXCEPT ![row].status = status, ![row].files = files]
      BY <1>3 DEF Mark
    <2>2. DOMAIN rows' = DOMAIN rows
      BY <2>1
    <2>3. ASSUME NEW id \in DOMAIN rows
          PROVE  /\ rows'[id].by = rows[id].by /\ rows'[id].job = rows[id].job
                 /\ rows'[id].days = rows[id].days
      <3>1. rows[id] \in Row
        BY DEF Types, GoodRow
      <3>2. CASE id = row
        <4>1. rows'[id] = [rows[id] EXCEPT !.status = status, !.files = files]
          BY <2>1, <3>2
        <4>2. QED
          BY <3>1, <4>1 DEF Row
      <3>3. CASE id # row
        BY <2>1, <3>3
      <3>4. QED
        BY <3>2, <3>3
    <2>4. QED
      BY <2>2, <2>3 DEF Extends
  <1>4. QED
    BY <1>1, <1>2, <1>3 DEF Next, Midnight, Restart, Receive, Proceed, InsertJob,
       RowsAfterInsert, InsertDetail, Forward, Reply, InsertFails, ForwardFails, Timeout,
       Process, Complete, Evaluate, MarkFails, vars

\* What a step does to one call.
LEMMA CallStep ==
  ASSUME Types, [Next]_vars, NEW c \in Calls
  PROVE  \/ call'[c] = call[c] /\ ~Forward(c)
         \/ \E req \in Requests[c] : Receive(c, req)
         \/ Proceed(c) \/ InsertFails(c) \/ ForwardFails(c) \/ Timeout(c)
  <1>1. ASSUME NEW d \in Calls, d # c,
               \/ \E req \in Requests[d] : Receive(d, req)
               \/ Proceed(d) \/ InsertFails(d) \/ ForwardFails(d) \/ Timeout(d)
        PROVE  call'[c] = call[c]
    BY <1>1 DEF Types, Receive, Proceed, InsertJob, InsertDetail, Commit, Forward, Reply,
       InsertFails, ForwardFails, Timeout
  <1>2. CASE \/ Midnight \/ Restart \/ UNCHANGED vars
             \/ \E k \in DOMAIN submitted : Process(k) \/ MarkFails(k)
    <2>1. call'[c] = call[c]
      BY <1>2 DEF Midnight, Restart, Process, Complete, Mark, Evaluate, MarkFails, vars
    <2>2. Forward(c) => Proceed(c)
      BY DEF Proceed
    <2>3. QED
      BY <2>1, <2>2
  <1>3. QED
    BY <1>1, <1>2 DEF Next, Proceed

\* Only Forward(c) adds a coordinator job of call c.
LEMMA SubmittedStep ==
  ASSUME Types, [Next]_vars, NEW c \in Calls, ~Forward(c)
  PROVE  SameSubmissions(c, submitted, submitted')
  <1>1. ASSUME DOMAIN submitted' = DOMAIN submitted,
               \A k \in DOMAIN submitted : submitted'[k].call = submitted[k].call
                                           /\ submitted'[k].pos = submitted[k].pos
        PROVE  SameSubmissions(c, submitted, submitted')
    BY <1>1 DEF SameSubmissions, SubmissionsIn
  <1>2. CASE submitted' = submitted
    BY <1>1, <1>2
  <1>3. ASSUME NEW k \in DOMAIN submitted, Process(k) \/ MarkFails(k)
        PROVE  SameSubmissions(c, submitted, submitted')
    <2>1. PICK step, marked : \/ submitted' = [submitted EXCEPT ![k].step = step]
                              \/ submitted' = [submitted EXCEPT ![k].marked = marked, ![k].step = step]
      BY <1>3 DEF Process, Complete, Mark, Evaluate, MarkFails
    <2>2. ASSUME NEW l \in DOMAIN submitted
          PROVE  submitted'[l].call = submitted[l].call /\ submitted'[l].pos = submitted[l].pos
      <3>1. submitted[l] \in Submitted
        BY DEF Types, GoodSubmission
      <3>2. \/ submitted'[l] = submitted[l]
            \/ submitted'[l] = [submitted[l] EXCEPT !.step = step]
            \/ submitted'[l] = [submitted[l] EXCEPT !.marked = marked, !.step = step]
        BY <2>1
      <3>3. QED
        BY <3>1, <3>2 DEF Submitted
    <2>3. DOMAIN submitted' = DOMAIN submitted
      BY <2>1
    <2>4. QED
      BY <1>1, <2>2, <2>3
  <1>4. CASE Restart
    <2>1. ASSUME NEW l \in DOMAIN submitted
          PROVE  submitted'[l].call = submitted[l].call /\ submitted'[l].pos = submitted[l].pos
      <3>1. submitted[l] \in Submitted
        BY DEF Types, GoodSubmission
      <3>2. \/ submitted'[l] = submitted[l]
            \/ submitted'[l] = [submitted[l] EXCEPT !.step = "lost"]
        BY <1>4 DEF Restart
      <3>3. QED
        BY <3>1, <3>2 DEF Submitted
    <2>2. QED
      BY <1>1, <1>4, <2>1 DEF Restart
  <1>5. ASSUME NEW d \in Calls, d # c, Forward(d)
        PROVE  SameSubmissions(c, submitted, submitted')
    <2>1. PICK s : submitted' = Append(submitted, s) /\ s.call = d
      <3>1. PICK s : s = Submission(d, Inputs(call[d].req)[call[d].sent + 1])
        OBVIOUS
      <3>2. submitted' = Append(submitted, s) /\ s.call = d
        BY <1>5, <3>1 DEF Forward, Submission
      <3>3. QED
        BY <3>2
    <2>2. /\ DOMAIN submitted' = 1 .. Len(submitted) + 1 /\ Len(submitted) \in Nat
          /\ DOMAIN submitted = 1 .. Len(submitted)
          /\ submitted'[Len(submitted) + 1].call = d
          /\ \A k \in DOMAIN submitted : submitted'[k] = submitted[k]
      BY <2>1 DEF Types
    <2>3. QED
      BY <1>5, <2>2 DEF SameSubmissions, SubmissionsIn
  <1>6. QED
    BY <1>2, <1>3, <1>4, <1>5 DEF Next, Midnight, Receive, Proceed, InsertJob, InsertDetail,
       Commit, Reply, InsertFails, ForwardFails, Timeout, vars

\* The next input of the loop is one that was not reached, and all others were or were not.
LEMMA ReachedStep ==
  ASSUME Types, NEW c \in Calls, At(c, "forward"),
         NEW new, new.req = call[c].req, new.sent = call[c].sent + 1,
         NEW pos, pos = Inputs(call[c].req)[call[c].sent + 1],
         NEW p \in Positions(call[c].req)
  PROVE  /\ ~Reached(call[c], pos) /\ pos \in Positions(call[c].req)
         /\ Reached(new, p) <=> Reached(call[c], p) \/ p = pos
  <1>1. /\ call[c] \in Working(c) /\ call[c].sent \in Nat
        /\ call[c].sent < Len(Inputs(call[c].req)) /\ call[c].req \in Requests[c]
    BY AtWork DEF At, Types, GoodCall, Working
  <1>2. Enumerates(Inputs(call[c].req), Positions(call[c].req))
    BY <1>1, RequestTypes, InputsEnumerate DEF Request
  <1>3. PICK s : s = Inputs(call[c].req)
    OBVIOUS
  <1>4. PICK n : n = call[c].sent
    OBVIOUS
  <1>5. /\ s \in Seq(Positions(call[c].req)) /\ DOMAIN s = 1 .. Len(s) /\ Len(s) \in Nat
        /\ n \in Nat /\ n + 1 \in DOMAIN s
        /\ \A k, l \in DOMAIN s : s[k] = s[l] => k = l
    BY <1>1, <1>2, <1>3, <1>4 DEF Enumerates
  <1>6. ~ \E k \in DOMAIN s : k <= n /\ s[k] = s[n + 1]
    BY <1>5
  <1>7. \A k \in DOMAIN s : k <= n + 1 <=> k <= n \/ k = n + 1
    BY <1>5
  <1>8. (\E k \in DOMAIN s : k <= n + 1 /\ s[k] = p) <=>
          (\E k \in DOMAIN s : k <= n /\ s[k] = p) \/ p = s[n + 1]
    BY <1>5, <1>7
  <1>9. s[n + 1] \in Positions(call[c].req)
    BY <1>5
  <1>10. QED
    BY <1>3, <1>4, <1>6, <1>8, <1>9 DEF Reached

\* An input that is forwarded has been forwarded once.
LEMMA ForwardForwarding ==
  ASSUME Types, AllForwarding, NEW c \in Calls, Forward(c)
  PROVE  Forwarding(c, call'[c], rows', submitted')
  <1>1. PICK pos : pos = Inputs(call[c].req)[call[c].sent + 1]
    OBVIOUS
  <1>2. PICK new : new = AfterInput(c, {})
    OBVIOUS
  <1>3. PICK s : s = Submission(c, pos)
    OBVIOUS
  <1>4. /\ At(c, "forward") /\ call' = [call EXCEPT ![c] = new]
        /\ submitted' = Append(submitted, s) /\ s.call = c /\ s.pos = pos
        /\ UNCHANGED rows
    BY <1>1, <1>2, <1>3 DEF Forward, Submission
  <1>5. /\ new.step \in {"forward", "reply"} /\ new.req = call[c].req
        /\ new.sent = call[c].sent + 1 /\ new.unsent = call[c].unsent
        /\ (new.step = "forward" <=> new.sent < Len(Inputs(new.req)))
    <2>1. PICK none : none = {}
      OBVIOUS
    <2>2. none \in SUBSET (Nat \X Nat) /\ new = AfterInput(c, none)
      BY <1>2, <2>1
    <2>3. /\ new.step \in {"forward", "reply"} /\ new.req = call[c].req
          /\ new.sent = call[c].sent + 1 /\ new.unsent = call[c].unsent \cup none
          /\ (new.step = "forward" <=> new.sent < Len(Inputs(new.req)))
      BY <1>4, <2>2, AfterInputStep
    <2>4. call[c].unsent \cup none = call[c].unsent
      BY <2>1
    <2>5. QED
      BY <2>3, <2>4
  <1>6. call'[c] = new
    BY <1>4 DEF Types
  <1>7. /\ DOMAIN submitted' = DOMAIN submitted \cup {Len(submitted) + 1}
        /\ Len(submitted) + 1 \notin DOMAIN submitted
        /\ submitted'[Len(submitted) + 1] = s
        /\ \A k \in DOMAIN submitted : submitted'[k] = submitted[k]
    BY <1>4 DEF Types
  <1>8. ASSUME NEW p
        PROVE  /\ p # pos => SubmissionsIn(submitted', c, p) = SubmissionsIn(submitted, c, p)
               /\ SubmissionsIn(submitted', c, pos) =
                    SubmissionsIn(submitted, c, pos) \cup {Len(submitted) + 1}
    BY <1>4, <1>7 DEF SubmissionsIn
  <1>9. /\ \A p \in Positions(call[c].req) :
             /\ Reached(call[c], p) => Once(submitted, c, p, call[c].unsent)
             /\ ~Reached(call[c], p) => p \notin call[c].unsent /\ SubmissionsIn(submitted, c, p) = {}
    BY <1>4 DEF AllForwarding, Forwarding, At
  <1>10. ASSUME NEW p \in Positions(new.req)
         PROVE  /\ Reached(new, p) => Once(submitted', c, p, new.unsent)
                /\ ~Reached(new, p) => p \notin new.unsent /\ SubmissionsIn(submitted', c, p) = {}
    <2>1. /\ ~Reached(call[c], pos) /\ pos \in Positions(call[c].req)
          /\ Reached(new, p) <=> Reached(call[c], p) \/ p = pos
      BY <1>1, <1>4, <1>5, ReachedStep
    <2>2. CASE p = pos
      <3>1. pos \notin new.unsent /\ SubmissionsIn(submitted', c, pos) = {Len(submitted) + 1}
        BY <1>5, <1>8, <1>9, <2>1
      <3>2. QED
        BY <2>1, <2>2, <3>1 DEF Once
    <2>3. CASE p # pos
      BY <1>5, <1>8, <1>9, <2>1, <2>3 DEF Once
    <2>4. QED
      BY <2>2, <2>3
  <1>11. new.step = "reply" => Len(Inputs(new.req)) <= new.sent
    <2>1. Len(Inputs(new.req)) \in Nat /\ new.sent \in Nat
      BY <1>4, <1>5, AtWork, RequestTypes DEF At, Working
    <2>2. QED
      BY <1>5, <2>1
  <1>12. QED
    BY <1>5, <1>6, <1>10, <1>11 DEF Forwarding

\* An input that is not forwarded is logged as failed.
LEMMA ForwardFailsForwarding ==
  ASSUME Types, AllForwarding, NEW c \in Calls, ForwardFails(c)
  PROVE  Forwarding(c, call'[c], rows', submitted')
  <1>1. PICK pos : pos = Inputs(call[c].req)[call[c].sent + 1]
    OBVIOUS
  <1>2. PICK new : new = AfterInput(c, {pos})
    OBVIOUS
  <1>3. /\ At(c, "forward") /\ call' = [call EXCEPT ![c] = new] /\ UNCHANGED <<rows, submitted>>
    BY <1>1, <1>2 DEF ForwardFails
  <1>4. pos \in Nat \X Nat
    BY <1>1, <1>3, AtWork, AfterInputStep, PositionTypes DEF At
  <1>5. /\ new.step \in {"forward", "reply"} /\ new.req = call[c].req
        /\ new.sent = call[c].sent + 1 /\ new.unsent = call[c].unsent \cup {pos}
        /\ (new.step = "forward" <=> new.sent < Len(Inputs(new.req)))
    BY <1>2, <1>3, <1>4, AfterInputStep
  <1>6. call'[c] = new
    BY <1>3 DEF Types
  <1>7. /\ \A p \in Positions(call[c].req) :
             /\ Reached(call[c], p) => Once(submitted, c, p, call[c].unsent)
             /\ ~Reached(call[c], p) => p \notin call[c].unsent /\ SubmissionsIn(submitted, c, p) = {}
    BY <1>3 DEF AllForwarding, Forwarding, At
  <1>8. ASSUME NEW p \in Positions(new.req)
        PROVE  /\ Reached(new, p) => Once(submitted, c, p, new.unsent)
               /\ ~Reached(new, p) => p \notin new.unsent /\ SubmissionsIn(submitted, c, p) = {}
    <2>1. /\ ~Reached(call[c], pos) /\ pos \in Positions(call[c].req)
          /\ Reached(new, p) <=> Reached(call[c], p) \/ p = pos
      BY <1>1, <1>3, <1>5, ReachedStep
    <2>2. QED
      BY <1>5, <1>7, <2>1 DEF Once
  <1>9. new.step = "reply" => Len(Inputs(new.req)) <= new.sent
    <2>1. Len(Inputs(new.req)) \in Nat /\ new.sent \in Nat
      BY <1>3, <1>5, AtWork, RequestTypes DEF At, Working
    <2>2. QED
      BY <1>5, <2>1
  <1>10. QED
    BY <1>3, <1>5, <1>6, <1>8, <1>9 DEF Forwarding

\* While a call commits its jobs, none of its inputs is forwarded.
LEMMA CommitForwarding ==
  ASSUME Types, AllForwarding, NEW c \in Calls, Commit(c)
  PROVE  Forwarding(c, call'[c], rows', submitted')
  <1>1. /\ At(c, "details") /\ call[c] \in Working(c) /\ call[c].sent = 0 /\ call[c].unsent = {}
        /\ UNCHANGED submitted
    BY AtWork DEF Commit, Types, GoodCall, At
  <1>2. PICK step, ids :
          /\ step = IF Current(c) < Len(AllJobs(call[c].req)) THEN "insert"
                    ELSE IF Inputs(call[c].req) # <<>> THEN "forward" ELSE "reply"
          /\ ids = Append(call[c].ids, call[c].id)
    OBVIOUS
  <1>3. call'[c] = [call[c] EXCEPT !.days = <<>>, !.ids = ids, !.step = step]
    BY <1>1, <1>2 DEF Commit, Types
  <1>4. PICK new : new = call'[c]
    OBVIOUS
  <1>5. /\ new.step = step /\ new.req = call[c].req /\ new.sent = 0 /\ new.unsent = {}
    BY <1>1, <1>3, <1>4 DEF Working
  <1>6. step \in {"insert", "forward", "reply"} /\ (step = "reply" => Inputs(new.req) = <<>>)
    BY <1>2, <1>5
  <1>7. \A k \in DOMAIN submitted : submitted[k].call # c
    BY <1>1 DEF AllForwarding, Forwarding, At
  <1>8. \A p : SubmissionsIn(submitted, c, p) = {}
    BY <1>7 DEF SubmissionsIn
  <1>9. Inputs(new.req) \in Seq(Positions(new.req))
    BY <1>1, <1>5, RequestTypes DEF Working
  <1>10. \A p : ~Reached(new, p)
    BY <1>5, <1>9 DEF Reached
  <1>11. QED
    BY <1>1, <1>4, <1>5, <1>6, <1>7, <1>8, <1>10 DEF Forwarding

\* When a call is answered, the loop has reached every input.
LEMMA ReplyForwarding ==
  ASSUME Types, AllForwarding, NEW c \in Calls, Reply(c)
  PROVE  Forwarding(c, call'[c], rows', submitted')
  <1>1. /\ At(c, "reply") /\ call[c] \in Working(c) /\ call[c].req \in Requests[c]
        /\ UNCHANGED <<rows, submitted>>
    BY AtWork DEF Reply, At, Working
  <1>2. PICK new : new = Answer(c, "ok")
    OBVIOUS
  <1>3. call'[c] = new /\ new.step = "over" /\ new.req = call[c].req /\ new.unsent = call[c].unsent
    BY <1>2 DEF Reply, Answer, Types
  <1>4. PICK s : s = Inputs(call[c].req)
    OBVIOUS
  <1>5. Enumerates(s, Positions(call[c].req))
    BY <1>1, <1>4, RequestTypes, InputsEnumerate DEF Request
  <1>6. Len(s) <= call[c].sent /\ call[c].sent \in Nat /\ Len(s) \in Nat /\ DOMAIN s = 1 .. Len(s)
    BY <1>1, <1>4, <1>5 DEF AllForwarding, Forwarding, At, Working, Enumerates
  <1>7. ASSUME NEW p \in Positions(call[c].req) PROVE Once(submitted, c, p, call[c].unsent)
    <2>1. Reached(call[c], p)
      BY <1>4, <1>5, <1>6 DEF Enumerates, Reached
    <2>2. QED
      BY <1>1, <2>1 DEF AllForwarding, Forwarding, At
  <1>8. ASSUME NEW j \in DOMAIN AllJobs(call[c].req)
        PROVE  \E id \in DOMAIN rows : rows[id].by = c /\ rows[id].job = j
    <2>1. /\ Recorded(c, call[c].ids, rows) /\ Len(call[c].ids) = Len(AllJobs(call[c].req))
          /\ call[c].ids \in Seq(Nat) /\ AllJobs(call[c].req) \in Seq(Job)
      BY <1>1, RequestTypes DEF Types, GoodCall, At, Working
    <2>2. j \in DOMAIN call[c].ids
      BY <2>1
    <2>3. QED
      BY <2>1, <2>2 DEF Recorded
  <1>9. QED
    BY <1>1, <1>3, <1>7, <1>8 DEF Forwarding

\* Every step keeps the forwarding of every call.
LEMMA ForwardingStep ==
  ASSUME Types, AllForwarding, [Next]_vars
  PROVE  AllForwarding'
  <1> SUFFICES ASSUME NEW c \in Calls PROVE Forwarding(c, call'[c], rows', submitted')
    BY DEF AllForwarding
  <1>1. CASE call'[c] = call[c] /\ ~Forward(c)
    BY <1>1, RowsExtend, SubmittedStep, ForwardingKept DEF AllForwarding
  <1>2. ASSUME NEW req \in Requests[c], Receive(c, req)
        PROVE  Forwarding(c, call'[c], rows', submitted')
    <2>1. PICK new : new = call'[c]
      OBVIOUS
    <2>2. /\ new.step \in {"over", "insert"}
          /\ new.step = "over" => new.reply = "invalid_argument"
          /\ At(c, "waiting") /\ submitted' = submitted
      BY <1>2, <2>1 DEF Receive, Types
    <2>3. \A k \in DOMAIN submitted : submitted[k].call # c
      BY <2>2 DEF AllForwarding, Forwarding, At
    <2>4. QED
      BY <2>1, <2>2, <2>3 DEF Forwarding
  <1>3. ASSUME InsertJob(c) \/ InsertDetail(c)
        PROVE  Forwarding(c, call'[c], rows', submitted')
    <2>1. /\ call[c].step \in {"insert", "details"} /\ call[c] \in Working(c)
          /\ submitted' = submitted
      BY <1>3, AtWork DEF InsertJob, InsertDetail, At
    <2>2. PICK new : new = call'[c]
      OBVIOUS
    <2>3. new.step = "details"
      BY <1>3, <2>1, <2>2 DEF InsertJob, InsertDetail, At, Types, Working
    <2>4. \A k \in DOMAIN submitted : submitted[k].call # c
      BY <2>1 DEF AllForwarding, Forwarding
    <2>5. QED
      BY <2>1, <2>2, <2>3, <2>4 DEF Forwarding
  <1>4. ASSUME InsertFails(c) \/ Timeout(c)
        PROVE  Forwarding(c, call'[c], rows', submitted')
    <2>1. PICK new : new = call'[c]
      OBVIOUS
    <2>2. new.step = "over" /\ new.reply \in {"internal", "timeout"}
      BY <1>4, <2>1 DEF InsertFails, Timeout, Answer, Types
    <2>3. QED
      BY <2>1, <2>2 DEF Forwarding
  <1>5. QED
    BY <1>1, <1>2, <1>3, <1>4, CallStep, ForwardForwarding, ForwardFailsForwarding,
       CommitForwarding, ReplyForwarding DEF Proceed

\* No input has been reached initially.
LEMMA ForwardingInit == Init => AllForwarding
  BY DEF Init, AllForwarding, Forwarding

\* A call answered ok has each of its jobs in the database, and each input of each job
\* submitted once or logged as failed (handle_ingest_inner: "best-effort").
THEOREM AnsweredCorrect == Spec => []AnsweredMeansForwarded
  <1>1. ASSUME Types, AllForwarding PROVE AnsweredMeansForwarded
    <2> SUFFICES ASSUME NEW c \in Calls, Answered(c), NEW j \in DOMAIN AllJobs(call[c].req)
                 PROVE  /\ \E id \in DOMAIN rows : rows[id].by = c /\ rows[id].job = j
                        /\ \A i \in DOMAIN AllJobs(call[c].req)[j] :
                             Cardinality(SubmissionsOf(c, <<j, i>>)) =
                               IF <<j, i>> \in call[c].unsent THEN 0 ELSE 1
      BY DEF AnsweredMeansForwarded
    <2>1. call[c].req \in Requests[c]
      BY <1>1, AtWork DEF Answered, At
    <2>2. AllJobs(call[c].req) \in Seq(Job) /\ AllJobs(call[c].req)[j] \in Seq({"today", "fixed"})
      BY <2>1, RequestTypes
    <2>3. ASSUME NEW i \in DOMAIN AllJobs(call[c].req)[j]
          PROVE  Cardinality(SubmissionsOf(c, <<j, i>>)) =
                   IF <<j, i>> \in call[c].unsent THEN 0 ELSE 1
      <3>1. <<j, i>> \in Positions(call[c].req)
        BY <2>2 DEF Positions, Before
      <3>2. Once(submitted, c, <<j, i>>, call[c].unsent)
        BY <1>1, <3>1 DEF AllForwarding, Forwarding, Answered, At
      <3>3. SubmissionsOf(c, <<j, i>>) = SubmissionsIn(submitted, c, <<j, i>>)
        BY DEF SubmissionsOf, SubmissionsIn
      <3>4. QED
        BY <3>2, <3>3, FS_EmptySet, FS_Singleton DEF Once
    <2>4. QED
      BY <1>1, <2>3 DEF AllForwarding, Forwarding, Answered, At
  <1>2. QED
    BY TypesAlways, ForwardingInit, ForwardingStep, <1>1, PTL DEF Spec
=============================================================================
