------------------------- MODULE PresentationProofs -------------------------
(***************************************************************************)
(* Theorems about Presentation, for every set of requests and benefits,    *)
(* every time to live and timeout, and any number of overlapping calls.    *)
(***************************************************************************)
EXTENDS Presentation, WellFoundedInduction, TLAPS

(* The inductive invariant *)

\* Evaluator e deserved or was given the verdict in tick m or later.
SeenSince(e, verdict, m) ==
  \E s \in seen : s.evaluator = e /\ s.verdict = verdict /\ s.at \in m .. now

\* What a list of a request, read when the table held the n first benefits in tick t, and
\* of which `pending` are still to be checked, has to do with the table and the verdicts
\* since m.
ReadAt(req, rows, pending, m, t, n) ==
  /\ t >= 0 /\ Held(n, t)
  /\ rows \cup pending \subseteq OfTheDay(req, n, t)
  /\ \A i \in OfTheDay(req, n, t) \ (rows \cup pending) :
       /\ req.evaluator = NoEvaluator
       /\ SeenSince(benefit[i].evaluator, FALSE, m - VerdictAge)
  /\ \A i \in rows : SeenSince(benefit[i].evaluator, TRUE, m - VerdictAge)

Recent(req, rows, pending, m) ==
  \E t \in m .. now, n \in 0 .. Len(benefit) : ReadAt(req, rows, pending, m, t, n)

UnderWay ==
  [step : Step \ {"waiting"}, req : Requests, started : Nat, rows : SUBSET Nat,
   pending : SUBSET Nat, verdict : BOOLEAN]

ForOne(r) == r.req.evaluator # NoEvaluator

Checking(r) == r.step \in {"validity", "select", "remember"}

Listing(r) == r.step \in {"store", "evict"}

First(pending) == CHOOSE i \in pending : \A j \in pending : i <= j

SubjectOf(r) == IF ForOne(r) THEN r.req.evaluator ELSE benefit[First(r.pending)].evaluator

\* A call has the verdict it read since it began; it fetches a list for one evaluator
\* after a positive verdict; and what it lists was read since it began.
Good(r) ==
  /\ r \in UnderWay
  /\ r.started <= now /\ now <= r.started + ApiTimeout
  /\ IF r.step = "remember" THEN SeenSince(SubjectOf(r), r.verdict, r.started)
     ELSE r.verdict = FALSE
  /\ r.step = "fetch" /\ ForOne(r) => SeenSince(r.req.evaluator, TRUE, r.started - VerdictAge)
  /\ Checking(r) => ForOne(r) \/ r.pending # {}
  /\ IF Listing(r) \/ (Checking(r) /\ ~ForOne(r))
       THEN Recent(r.req, r.rows, r.pending, r.started)
       ELSE r.rows = {} /\ r.pending = {}
  /\ Listing(r) => r.pending = {}

Calling == DOMAIN call = Calls /\ \A c \in Calls : call[c] = Waiting \/ Good(call[c])

\* The tables, and what is known of the verdicts: each one deserved now was noted.
World ==
  /\ now \in 0 .. MaxTime /\ valid \subseteq Evaluator /\ changes \in 0 .. MaxChanges
  /\ benefit \in Seq(BenefitModel)
  /\ \A i \in DOMAIN benefit : benefit[i].created <= now
  /\ \A s \in seen : s.at \in 0 .. now
  /\ \A e \in Evaluator : SeenSince(e, e \in valid, now)

\* An entry was read at most a timeout before its life began.
VerdictCached(e, entry) ==
  /\ entry.verdict \in BOOLEAN /\ entry.expiry \in Nat
  /\ SeenSince(e, entry.verdict, entry.expiry - EvaluatorTtl - ApiTimeout)

ListCached(key, entry) ==
  /\ entry.expiry \in Nat
  /\ Recent(key, entry.rows, {}, entry.expiry - BenefitTtl - ApiTimeout)

Cached(lists, verdicts) ==
  /\ DOMAIN verdicts \subseteq Evaluator /\ DOMAIN lists \subseteq Requests
  /\ \A e \in DOMAIN verdicts : VerdictCached(e, verdicts[e])
  /\ \A k \in DOMAIN lists : ListCached(k, lists[k])

\* What an answer says.
Honest(a) ==
  /\ a.reply = "ok" => Recent(a.req, a.rows, {}, now - ListAge)
  /\ a.reply = "refused" => SeenSince(a.req.evaluator, FALSE, now - VerdictAge)

Answering == answer.step = "over" => Honest(answer)

Inv == World /\ Calling /\ Cached(benefitCache, validityCache) /\ Answering

-----------------------------------------------------------------------------
(* Numbers *)

\* The lives and the timeout are numbers, and bound the ages.
LEMMA Ages ==
  /\ BenefitTtl \in Nat \ {0} /\ EvaluatorTtl \in Nat \ {0} /\ ApiTimeout \in Nat
  /\ ListAge \in Nat /\ VerdictAge \in Nat
  /\ ListAge = ApiTimeout + BenefitTtl - 1 /\ VerdictAge = ApiTimeout + EvaluatorTtl - 1
  /\ MaxTime \in Nat /\ MaxGrants \in Nat /\ MaxChanges \in Nat
  BY PresentationAssumption DEF ListAge, VerdictAge

\* The order of the natural numbers, as the set of its pairs.
Lt == {p \in Nat \X Nat : p[1] < p[2]}

\* A set of benefits has a first one.
LEMMA FirstIn ==
  ASSUME NEW pending \in SUBSET Nat, pending # {}
  PROVE  First(pending) \in pending
  <1>1. IsWellFoundedOn(Lt, Nat)
    BY NatLessThanWellFounded DEF OpToRel, Lt
  <1>2. PICK i \in pending : \A j \in pending : ~ (<<j, i>> \in Lt)
    BY <1>1, WFMin
  <1>3. ASSUME NEW j \in pending PROVE i <= j
    <2>1. i \in Nat /\ j \in Nat /\ ~ (<<j, i>> \in Lt)
      BY <1>2
    <2>2. ~ (j < i)
      BY <2>1 DEF Lt
    <2>3. QED
      BY <2>1, <2>2
  <1>4. QED
    BY <1>2, <1>3 DEF First

-----------------------------------------------------------------------------
(* What is known is not forgotten *)

\* Time goes on, and benefits and verdicts are added.
Grows ==
  /\ now \in Nat /\ now' \in Nat /\ now <= now' /\ seen \subseteq seen'
  /\ benefit \in Seq(BenefitModel) /\ benefit' \in Seq(BenefitModel)
  /\ Len(benefit) <= Len(benefit')
  /\ \A i \in 1 .. Len(benefit) : benefit'[i] = benefit[i]
  /\ \A i \in Len(benefit) + 1 .. Len(benefit') : benefit'[i].created = now

\* A verdict that was seen has been seen for good.
LEMMA SeenKept ==
  ASSUME Grows, \A s \in seen : s.at \in 0 .. now,
         NEW e, NEW verdict, NEW m \in Int, NEW m2 \in Int, m2 <= m, SeenSince(e, verdict, m)
  PROVE  SeenSince(e, verdict, m2) /\ SeenSince(e, verdict, m2)'
  <1>1. PICK s \in seen : s.evaluator = e /\ s.verdict = verdict /\ s.at \in m .. now
    BY DEF SeenSince
  <1>2. s \in seen' /\ s.at \in m2 .. now /\ s.at \in m2 .. now'
    BY <1>1 DEF Grows
  <1>3. QED
    BY <1>1, <1>2 DEF SeenSince

\* A list that was read when the table held some benefits stays one that was.
LEMMA ReadKept ==
  ASSUME Grows, World, NEW req, NEW rows, NEW pending, NEW m \in Int, NEW m2 \in Int, m2 <= m,
         NEW t \in m .. now, NEW n \in 0 .. Len(benefit), ReadAt(req, rows, pending, m, t, n)
  PROVE  /\ ReadAt(req, rows, pending, m2, t, n) /\ ReadAt(req, rows, pending, m2, t, n)'
         /\ t \in m2 .. now /\ t \in m2 .. now' /\ n \in 0 .. Len(benefit')
  <1>1. Len(benefit) \in Nat /\ Len(benefit') \in Nat /\ \A i \in 1 .. n : benefit'[i] = benefit[i]
    BY DEF Grows
  <1>2. PICK D : D = OfTheDay(req, n, t)
    OBVIOUS
  <1>3. OfTheDay(req, n, t)' = D
    BY <1>1, <1>2 DEF OfTheDay
  <1>4. D \subseteq 1 .. n
    BY <1>2 DEF OfTheDay
  <1>5. Held(n, t) /\ t >= 0 /\ rows \cup pending \subseteq D
    BY <1>2 DEF ReadAt
  <1>6. Held(n, t)'
    <2>1. \A i \in 1 .. n : benefit'[i].created <= t
      BY <1>1, <1>5 DEF Held
    <2>2. ASSUME NEW i \in n + 1 .. Len(benefit') PROVE benefit'[i].created >= t
      <3>1. CASE i \in 1 .. Len(benefit)
        BY <1>1, <1>5, <2>2, <3>1 DEF Held, Grows
      <3>2. CASE i \notin 1 .. Len(benefit)
        BY <1>1, <2>2, <3>2 DEF Grows
      <3>3. QED
        BY <3>1, <3>2
    <2>3. QED
      BY <2>1, <2>2 DEF Held
  <1>7. VerdictAge \in Nat /\ m - VerdictAge \in Int /\ m2 - VerdictAge \in Int
        /\ m2 - VerdictAge <= m - VerdictAge
    BY Ages
  <1>8. ASSUME NEW i \in D \ (rows \cup pending)
        PROVE  /\ req.evaluator = NoEvaluator
               /\ SeenSince(benefit[i].evaluator, FALSE, m2 - VerdictAge)
               /\ SeenSince(benefit[i].evaluator, FALSE, m2 - VerdictAge)'
    <2>1. req.evaluator = NoEvaluator /\ SeenSince(benefit[i].evaluator, FALSE, m - VerdictAge)
      BY <1>2, <1>8 DEF ReadAt
    <2>2. PICK e : e = benefit[i].evaluator
      OBVIOUS
    <2>3. SeenSince(e, FALSE, m2 - VerdictAge) /\ SeenSince(e, FALSE, m2 - VerdictAge)'
      BY <1>7, <2>1, <2>2, SeenKept DEF World
    <2>4. benefit'[i].evaluator = e
      BY <1>1, <1>4, <1>8, <2>2
    <2>5. QED
      BY <2>1, <2>2, <2>3, <2>4
  <1>9. ASSUME NEW i \in rows
        PROVE  /\ SeenSince(benefit[i].evaluator, TRUE, m2 - VerdictAge)
               /\ SeenSince(benefit[i].evaluator, TRUE, m2 - VerdictAge)'
    <2>1. SeenSince(benefit[i].evaluator, TRUE, m - VerdictAge)
      BY <1>9 DEF ReadAt
    <2>2. PICK e : e = benefit[i].evaluator
      OBVIOUS
    <2>3. SeenSince(e, TRUE, m2 - VerdictAge) /\ SeenSince(e, TRUE, m2 - VerdictAge)'
      BY <1>7, <2>1, <2>2, SeenKept DEF World
    <2>4. benefit'[i].evaluator = e
      BY <1>1, <1>4, <1>5, <1>9, <2>2
    <2>5. QED
      BY <2>2, <2>3, <2>4
  <1>10. t \in m2 .. now /\ t \in m2 .. now' /\ n \in 0 .. Len(benefit')
    BY <1>1 DEF Grows
  <1>11. ReadAt(req, rows, pending, m2, t, n)
    BY <1>2, <1>5, <1>8, <1>9 DEF ReadAt
  <1>12. ReadAt(req, rows, pending, m2, t, n)'
    BY <1>3, <1>5, <1>6, <1>8, <1>9 DEF ReadAt
  <1>13. QED
    BY <1>10, <1>11, <1>12

\* So does one that was read since some moment.
LEMMA RecentKept ==
  ASSUME Grows, World, NEW req, NEW rows, NEW pending, NEW m \in Int, NEW m2 \in Int, m2 <= m,
         Recent(req, rows, pending, m)
  PROVE  Recent(req, rows, pending, m2) /\ Recent(req, rows, pending, m2)'
  <1>1. PICK t \in m .. now, n \in 0 .. Len(benefit) : ReadAt(req, rows, pending, m, t, n)
    BY DEF Recent
  <1>2. /\ ReadAt(req, rows, pending, m2, t, n) /\ ReadAt(req, rows, pending, m2, t, n)'
        /\ t \in m2 .. now /\ t \in m2 .. now' /\ n \in 0 .. Len(benefit')
    BY <1>1, ReadKept
  <1>3. QED
    BY <1>2 DEF Recent

\* The subject of a call is in the table, and stays the same.
LEMMA SubjectKept ==
  ASSUME World, NEW r, Good(r), Checking(r)
  PROVE  /\ SubjectOf(r) \in Evaluator
         /\ ~ ForOne(r) => First(r.pending) \in r.pending /\ First(r.pending) \in DOMAIN benefit
         /\ Grows => SubjectOf(r)' = SubjectOf(r)
  <1>1. CASE ForOne(r)
    BY <1>1 DEF Good, UnderWay, SubjectOf, ForOne, Evaluator
  <1>2. CASE ~ ForOne(r)
    <2>1. /\ r.pending \in SUBSET Nat /\ r.pending # {}
          /\ Recent(r.req, r.rows, r.pending, r.started)
      BY <1>2 DEF Good, UnderWay
    <2>2. PICK i : i = First(r.pending)
      OBVIOUS
    <2>3. i \in r.pending
      BY <2>1, <2>2, FirstIn
    <2>4. r.pending \subseteq 1 .. Len(benefit)
      <3>1. PICK n \in 0 .. Len(benefit), t \in r.started .. now :
              ReadAt(r.req, r.rows, r.pending, r.started, t, n)
        BY <2>1 DEF Recent
      <3>2. r.pending \subseteq 1 .. n
        BY <3>1 DEF ReadAt, OfTheDay
      <3>3. QED
        BY <3>2 DEF World
    <2>5. i \in 1 .. Len(benefit) /\ i \in DOMAIN benefit /\ benefit[i] \in BenefitModel
      BY <2>3, <2>4 DEF World
    <2>6. benefit[i].evaluator \in Evaluator
      BY <2>5 DEF BenefitModel
    <2>7. Grows => benefit'[i] = benefit[i]
      BY <2>5 DEF Grows
    <2>8. SubjectOf(r) = benefit[i].evaluator /\ SubjectOf(r)' = benefit'[i].evaluator
      BY <1>2, <2>2 DEF SubjectOf, ForOne
    <2>9. QED
      BY <1>2, <2>2, <2>3, <2>5, <2>6, <2>7, <2>8
  <1>3. QED
    BY <1>1, <1>2

\* A call that does nothing stays in order, as long as its timeout is not over.
LEMMA GoodKept ==
  ASSUME Grows, World, NEW r, Good(r), now' <= r.started + ApiTimeout
  PROVE  Good(r)'
  <1>1. r \in UnderWay /\ r.started \in Nat /\ r.started <= now /\ now \in Nat /\ now' \in Nat
        /\ now <= now' /\ \A s \in seen : s.at \in 0 .. now
    BY DEF Good, UnderWay, World, Grows
  <1>2. r.started \in Int /\ r.started - VerdictAge \in Int
    BY <1>1, Ages
  <1>3. IF r.step = "remember" THEN SeenSince(SubjectOf(r), r.verdict, r.started)'
        ELSE r.verdict = FALSE
    <2>1. CASE r.step = "remember"
      <3>1. PICK e, v : e = SubjectOf(r) /\ v = r.verdict
        OBVIOUS
      <3>2. SeenSince(e, v, r.started)
        BY <2>1, <3>1 DEF Good
      <3>3. SeenSince(e, v, r.started)'
        BY <1>1, <1>2, <3>2, SeenKept
      <3>4. SubjectOf(r)' = e
        BY <2>1, <3>1, SubjectKept DEF Checking
      <3>5. QED
        BY <2>1, <3>1, <3>3, <3>4
    <2>2. QED
      BY <2>1 DEF Good
  <1>4. r.step = "fetch" /\ ForOne(r) =>
          SeenSince(r.req.evaluator, TRUE, r.started - VerdictAge)'
    <2>1. PICK e, m : e = r.req.evaluator /\ m = r.started - VerdictAge
      OBVIOUS
    <2>2. r.step = "fetch" /\ ForOne(r) => SeenSince(e, TRUE, m)
      BY <2>1 DEF Good
    <2>3. ASSUME SeenSince(e, TRUE, m) PROVE SeenSince(e, TRUE, m)'
      <3>1. m \in Int /\ m <= m
        BY <1>2, <2>1
      <3>2. QED
        BY <1>1, <2>3, <3>1, SeenKept
    <2>4. QED
      BY <2>1, <2>2, <2>3
  <1>5. Recent(r.req, r.rows, r.pending, r.started) =>
          Recent(r.req, r.rows, r.pending, r.started)'
    BY <1>2, RecentKept
  <1>6. (r \in UnderWay)'
    BY <1>1 DEF UnderWay, Step
  <1>7. /\ Checking(r) => ForOne(r) \/ r.pending # {}
        /\ Listing(r) => r.pending = {}
        /\ IF Listing(r) \/ (Checking(r) /\ ~ForOne(r))
             THEN Recent(r.req, r.rows, r.pending, r.started)'
             ELSE r.rows = {} /\ r.pending = {}
    BY <1>5 DEF Good
  <1>8. /\ ForOne(r)' = ForOne(r) /\ Checking(r)' = Checking(r) /\ Listing(r)' = Listing(r)
    BY DEF ForOne, Checking, Listing
  <1>9. r.started <= now' /\ now' <= r.started + ApiTimeout
    BY <1>1
  <1>10. QED
    BY <1>3, <1>4, <1>6, <1>7, <1>8, <1>9, Zenon DEF Good

\* So do the entries of caches.
LEMMA CachedKept ==
  ASSUME Grows, World, NEW lists, NEW verdicts, Cached(lists, verdicts)
  PROVE  Cached(lists, verdicts)'
  <1>1. ASSUME NEW e \in DOMAIN verdicts PROVE VerdictCached(e, verdicts[e])'
    <2>1. PICK entry : entry = verdicts[e]
      OBVIOUS
    <2>2. VerdictCached(e, entry)
      BY <2>1 DEF Cached
    <2>3. PICK m : m = entry.expiry - EvaluatorTtl - ApiTimeout
      OBVIOUS
    <2>4. m \in Int /\ m <= m
      BY <2>2, <2>3, Ages DEF VerdictCached
    <2>5. SeenSince(e, entry.verdict, m)'
      BY <2>2, <2>3, <2>4, SeenKept DEF VerdictCached, World
    <2>6. QED
      BY <2>1, <2>2, <2>3, <2>5 DEF VerdictCached
  <1>2. ASSUME NEW k \in DOMAIN lists PROVE ListCached(k, lists[k])'
    <2>1. PICK entry : entry = lists[k]
      OBVIOUS
    <2>2. ListCached(k, entry)
      BY <2>1 DEF Cached
    <2>3. PICK m : m = entry.expiry - BenefitTtl - ApiTimeout
      OBVIOUS
    <2>4. m \in Int /\ m <= m
      BY <2>2, <2>3, Ages DEF ListCached
    <2>5. Recent(k, entry.rows, {}, m)'
      BY <2>2, <2>3, <2>4, RecentKept DEF ListCached
    <2>6. QED
      BY <2>1, <2>2, <2>3, <2>5 DEF ListCached
  <1>3. QED
    BY <1>1, <1>2 DEF Cached

\* It is enough to look at what a step makes of its call.
LEMMA CallBecomes ==
  ASSUME Inv, Grows, now' = now, World', Cached(benefitCache, validityCache)', NEW c \in Calls, NEW next, Becomes(c, next),
         IF next.step = "over" THEN Honest(next)' ELSE Good(next)'
  PROVE  Inv'
  <1>1. PICK new : new = IF next.step = "over" THEN Waiting ELSE next
    OBVIOUS
  <1>2. /\ call' = [call EXCEPT ![c] = new]
        /\ answer' = IF next.step = "over" THEN next ELSE NoAnswer
    BY <1>1 DEF Becomes
  <1>3. DOMAIN call = Calls /\ DOMAIN call' = Calls
    BY <1>2 DEF Inv, Calling
  <1>4. ASSUME NEW d \in Calls PROVE (call[d] = Waiting \/ Good(call[d]))'
    <2>1. CASE d = c
      <3>1. call'[d] = new
        BY <1>2, <1>3, <2>1
      <3>2. new = Waiting \/ Good(new)'
        BY <1>1
      <3>3. QED
        BY <3>1, <3>2
    <2>2. CASE d # c /\ call[d] # Waiting
      <3>1. PICK r : r = call[d]
        OBVIOUS
      <3>2. Good(r) /\ World
        BY <2>2, <3>1 DEF Inv, Calling
      <3>3. now' <= r.started + ApiTimeout
        BY <3>2 DEF Good
      <3>4. Good(r)' /\ call'[d] = r
        BY <1>2, <1>3, <2>2, <3>1, <3>2, <3>3, GoodKept
      <3>5. QED
        BY <3>4
    <2>3. CASE d # c /\ call[d] = Waiting
      <3>1. call'[d] = Waiting
        BY <1>2, <1>3, <2>3
      <3>2. QED
        BY <3>1 DEF Waiting
    <2>4. QED
      BY <2>1, <2>2, <2>3
  <1>5. Calling'
    BY <1>3, <1>4 DEF Calling
  <1>6. Answering'
    BY <1>2 DEF Answering, NoAnswer
  <1>7. QED
    BY <1>5, <1>6 DEF Inv

\* While time and the table stand still, the world is as it was but for added verdicts.
LEMMA WorldKept ==
  ASSUME World, UNCHANGED <<now, benefit, valid>>, changes' \in 0 .. MaxChanges,
         seen \subseteq seen', \A s \in seen' \ seen : s.at = now
  PROVE  Grows /\ World'
  <1>1. now \in Nat
    BY Ages DEF World
  <1>2. benefit \in Seq(BenefitModel) /\ Len(benefit) \in Nat
    BY DEF World
  <1>3. Grows
    BY <1>1, <1>2 DEF Grows
  <1>4. \A s \in seen' : s.at \in 0 .. now
    BY <1>1 DEF World
  <1>5. ASSUME NEW e \in Evaluator PROVE SeenSince(e, e \in valid, now)'
    BY <1>1 DEF World, SeenSince
  <1>6. QED
    BY <1>1, <1>3, <1>4, <1>5 DEF World, Evaluator, BenefitModel

\* An answer is as true in the next state, if time stands still.
LEMMA HonestKept ==
  ASSUME Grows, World, now' = now, NEW a, Honest(a)
  PROVE  Honest(a)'
  <1>1. /\ now - ListAge \in Int /\ now - ListAge <= now - ListAge
        /\ now - VerdictAge \in Int /\ now - VerdictAge <= now - VerdictAge
    BY Ages DEF World
  <1>2. PICK m, w : m = now - ListAge /\ w = now - VerdictAge
    OBVIOUS
  <1>3. /\ now' - ListAge' = m /\ now' - VerdictAge' = w
    BY <1>2 DEF ListAge, VerdictAge
  <1>4. ASSUME a.reply = "ok" PROVE Recent(a.req, a.rows, {}, m)'
    BY <1>1, <1>2, <1>4, RecentKept DEF Honest
  <1>5. ASSUME a.reply = "refused" PROVE SeenSince(a.req.evaluator, FALSE, w)'
    BY <1>1, <1>2, <1>5, SeenKept DEF Honest, World
  <1>6. QED
    BY <1>3, <1>4, <1>5 DEF Honest

\* A step of a call that leaves the world alone is in order when what it makes of the
\* call and of the caches is.
LEMMA GoesOn ==
  ASSUME Inv, UNCHANGED <<now, benefit, valid, seen>>, changes' \in 0 .. MaxChanges,
         NEW lists, NEW verdicts, benefitCache' = lists, validityCache' = verdicts,
         Cached(lists, verdicts), NEW c \in Calls, NEW next, Becomes(c, next),
         IF next.step = "over" THEN Honest(next) ELSE Good(next)
  PROVE  Inv'
  <1>1. World /\ Grows /\ World'
    BY WorldKept DEF Inv
  <1>2. Cached(benefitCache, validityCache)'
    BY <1>1, CachedKept DEF Cached
  <1>3. CASE next.step = "over"
    BY <1>1, <1>2, <1>3, HonestKept, CallBecomes
  <1>4. CASE next.step # "over"
    <2>1. Good(next) /\ now' <= next.started + ApiTimeout
      BY <1>4 DEF Good
    <2>2. Good(next)'
      BY <1>1, <2>1, GoodKept
    <2>3. QED
      BY <1>1, <1>2, <1>4, <2>2, CallBecomes
  <1>5. QED
    BY <1>3, <1>4

\* A call that is not idle is in order.
LEMMA Busy ==
  ASSUME Inv, NEW c \in Calls, ~ Idle(c)
  PROVE  Good(call[c]) /\ World
  BY DEF Inv, Calling, Idle, At, Waiting

\* A step of a call that changes nothing else is in order when the call is.
LEMMA CallOnly ==
  ASSUME Inv, UNCHANGED <<now, benefit, valid, seen, caches>>, changes' \in 0 .. MaxChanges,
         NEW c \in Calls, NEW next, Becomes(c, next),
         IF next.step = "over" THEN Honest(next) ELSE Good(next)
  PROVE  Inv'
  <1>1. PICK lists, verdicts : lists = benefitCache /\ verdicts = validityCache
    OBVIOUS
  <1>2. Cached(lists, verdicts) /\ benefitCache' = lists /\ validityCache' = verdicts
    BY <1>1 DEF Inv, caches
  <1>3. QED
    BY <1>2, GoesOn

\* What was read or seen since some moment was so since any earlier one.
LEMMA Weaker ==
  ASSUME World, NEW m \in Int, NEW m2 \in Int, m2 <= m
  PROVE  /\ \A e, verdict : SeenSince(e, verdict, m) => SeenSince(e, verdict, m2)
         /\ \A req, rows, pending : Recent(req, rows, pending, m) => Recent(req, rows, pending, m2)
  <1>1. now \in Nat /\ VerdictAge \in Nat
    BY Ages DEF World
  <1>2. ASSUME NEW e, NEW verdict, NEW k \in Int, NEW k2 \in Int, k2 <= k,
               SeenSince(e, verdict, k)
        PROVE  SeenSince(e, verdict, k2)
    BY <1>1, <1>2 DEF SeenSince, World
  <1>3. ASSUME NEW req, NEW rows, NEW pending, Recent(req, rows, pending, m)
        PROVE  Recent(req, rows, pending, m2)
    <2>1. PICK t \in m .. now, n \in 0 .. Len(benefit) : ReadAt(req, rows, pending, m, t, n)
      BY <1>3 DEF Recent
    <2>2. PICK k, k2 : k = m - VerdictAge /\ k2 = m2 - VerdictAge
      OBVIOUS
    <2>3. k \in Int /\ k2 \in Int /\ k2 <= k
      BY <1>1, <2>2
    <2>4. \A e, verdict : SeenSince(e, verdict, k) => SeenSince(e, verdict, k2)
      BY <1>2, <2>3
    <2>5. ReadAt(req, rows, pending, m2, t, n)
      BY <2>1, <2>2, <2>4 DEF ReadAt
    <2>6. t \in m2 .. now
      BY <1>1
    <2>7. QED
      BY <2>5, <2>6 DEF Recent
  <1>4. QED
    BY <1>2, <1>3

-----------------------------------------------------------------------------
(* The steps of a call *)

\* A request that arrives has read nothing yet.
LEMMA ReceiveStep ==
  ASSUME Inv, NEW c \in Calls, NEW req \in Requests, Receive(c, req)
  PROVE  Inv'
  <1>1. PICK next : next = [step |-> "lookup", req |-> req, started |-> now,
                            rows |-> {}, pending |-> {}, verdict |-> FALSE]
    OBVIOUS
  <1>2. World /\ now \in Nat /\ now <= now + ApiTimeout
    BY Ages DEF Inv, World
  <1>3. next \in UnderWay
    BY <1>1, <1>2 DEF UnderWay, Step
  <1>4. Good(next)
    BY <1>1, <1>2, <1>3 DEF Good, Checking, Listing
  <1>5. /\ Becomes(c, next) /\ UNCHANGED <<now, benefit, valid, seen, caches>>
        /\ changes' \in 0 .. MaxChanges
    BY <1>1, <1>2 DEF Receive, database, World
  <1>6. QED
    BY <1>1, <1>4, <1>5, CallOnly

\* A list found alive in the cache was read at most ListAge before; without one the
\* call goes on with nothing.
LEMMA LookupStep ==
  ASSUME Inv, NEW c \in Calls, Lookup(c)
  PROVE  Inv'
  <1>1. PICK r : r = call[c]
    OBVIOUS
  <1>2. Good(r) /\ World /\ r.step = "lookup"
    BY <1>1, Busy DEF Lookup, At, Idle
  <1>3. /\ UNCHANGED <<now, benefit, valid, seen, caches>> /\ changes' \in 0 .. MaxChanges
        /\ now \in Nat
    BY <1>2 DEF Lookup, database, World
  <1>4. CASE Hit(benefitCache, r.req)
    <2>1. PICK entry : entry = benefitCache[r.req]
      OBVIOUS
    <2>2. ListCached(r.req, entry) /\ now < entry.expiry
      BY <1>4, <2>1 DEF Hit, Live, Inv, Cached
    <2>3. PICK m : m = entry.expiry - BenefitTtl - ApiTimeout
      OBVIOUS
    <2>4. Recent(r.req, entry.rows, {}, m)
      BY <2>2, <2>3 DEF ListCached
    <2>5. entry.expiry \in Nat
      BY <2>2 DEF ListCached
    <2>6. m \in Int /\ now - ListAge \in Int /\ now - ListAge <= m
      BY <1>3, <2>2, <2>3, <2>5, Ages
    <2>7. Recent(r.req, entry.rows, {}, now - ListAge)
      BY <1>2, <1>3, <2>4, <2>6, Weaker
    <2>8. PICK next : next = Answer(c, "ok", entry.rows)
      OBVIOUS
    <2>9. next.step = "over" /\ Honest(next)
      BY <1>1, <2>7, <2>8 DEF Answer, Honest
    <2>10. Becomes(c, next)
      BY <1>1, <1>4, <2>1, <2>8 DEF Lookup, CacheKey
    <2>11. QED
      BY <1>3, <2>9, <2>10, CallOnly
  <1>5. CASE ~ Hit(benefitCache, r.req)
    <2>1. PICK next : next = [r EXCEPT !.step = IF ForOne(r) THEN "validity" ELSE "fetch"]
      OBVIOUS
    <2>2. r \in UnderWay /\ r.rows = {} /\ r.pending = {}
      BY <1>2 DEF Good, Checking, Listing
    <2>3. /\ next \in UnderWay /\ next.step = (IF ForOne(r) THEN "validity" ELSE "fetch")
          /\ next.rows = {} /\ next.pending = {} /\ next.req = r.req
          /\ next.verdict = r.verdict /\ next.started = r.started
      BY <2>1, <2>2 DEF UnderWay, Step
    <2>4. Good(next)
      BY <1>2, <2>3 DEF Good, Checking, Listing, ForOne
    <2>5. Becomes(c, next)
      BY <1>1, <1>5, <2>1 DEF Lookup, CacheKey, Keyed, ForOne
    <2>6. next.step # "over"
      BY <2>3
    <2>7. QED
      BY <1>3, <2>4, <2>5, <2>6, CallOnly
  <1>6. QED
    BY <1>4, <1>5

\* A benefit whose evaluator was checked is kept or left out of a list, rightly.
LEMMA RowChecked ==
  ASSUME World, NEW r, Good(r), Checking(r), ~ ForOne(r), NEW verdict \in BOOLEAN,
         SeenSince(SubjectOf(r), verdict, r.started - VerdictAge), NEW i, i = First(r.pending),
         NEW rows, rows = IF verdict THEN r.rows \cup {i} ELSE r.rows
  PROVE  i \in r.pending /\ i \in Nat /\ Recent(r.req, rows, r.pending \ {i}, r.started)
  <1>1. i \in r.pending /\ r.pending \in SUBSET Nat
    BY SubjectKept DEF Good, UnderWay
  <1>2. PICK t \in r.started .. now, n \in 0 .. Len(benefit) :
          ReadAt(r.req, r.rows, r.pending, r.started, t, n)
    BY DEF Good, Recent
  <1>3. PICK D : D = OfTheDay(r.req, n, t)
    OBVIOUS
  <1>4. r.req.evaluator = NoEvaluator
    BY DEF ForOne
  <1>5. SeenSince(benefit[i].evaluator, verdict, r.started - VerdictAge)
    BY DEF SubjectOf
  <1>6. rows \cup (r.pending \ {i}) \subseteq D
    BY <1>1, <1>2, <1>3 DEF ReadAt
  <1>7. ASSUME NEW j \in D \ (rows \cup (r.pending \ {i}))
        PROVE  SeenSince(benefit[j].evaluator, FALSE, r.started - VerdictAge)
    <2>1. CASE j = i
      <3>1. verdict = FALSE
        BY <1>7, <2>1
      <3>2. QED
        BY <1>5, <2>1, <3>1
    <2>2. CASE j # i
      <3>1. j \in D \ (r.rows \cup r.pending)
        BY <1>7, <2>2
      <3>2. QED
        BY <1>2, <1>3, <3>1 DEF ReadAt
    <2>3. QED
      BY <2>1, <2>2
  <1>8. ASSUME NEW j \in rows
        PROVE  SeenSince(benefit[j].evaluator, TRUE, r.started - VerdictAge)
    <2>1. CASE j \in r.rows
      BY <1>2, <2>1 DEF ReadAt
    <2>2. CASE j \notin r.rows
      <3>1. verdict = TRUE /\ j = i
        BY <1>8, <2>2
      <3>2. QED
        BY <1>5, <3>1
    <2>3. QED
      BY <2>1, <2>2
  <1>9. ReadAt(r.req, rows, r.pending \ {i}, r.started, t, n)
    BY <1>2, <1>3, <1>4, <1>6, <1>7, <1>8 DEF ReadAt
  <1>10. QED
    BY <1>1, <1>9 DEF Recent

\* With a verdict on its subject a call goes on, or is refused, rightly.
LEMMA Checked ==
  ASSUME World, NEW c, NEW r, r = call[c], Good(r), Checking(r), NEW verdict \in BOOLEAN,
         SeenSince(SubjectOf(r), verdict, now - VerdictAge),
         NEW next, next = AfterCheck(c, verdict)
  PROVE  IF next.step = "over" THEN Honest(next) ELSE Good(next)
  <1>1. r \in UnderWay /\ r.started \in Nat /\ now \in Nat /\ r.started <= now
        /\ VerdictAge \in Nat
    BY Ages DEF Good, UnderWay, World
  <1>2. SeenSince(SubjectOf(r), verdict, r.started - VerdictAge)
    <2>1. PICK k, m : k = now - VerdictAge /\ m = r.started - VerdictAge
      OBVIOUS
    <2>2. k \in Int /\ m \in Int /\ m <= k
      BY <1>1, <2>1
    <2>3. QED
      BY <2>1, <2>2, Weaker
  <1>3. CASE ForOne(r) /\ verdict = TRUE
    <2>1. next = [r EXCEPT !.step = "fetch", !.verdict = FALSE]
      BY <1>3 DEF AfterCheck, Keyed, ForOne
    <2>2. r.rows = {} /\ r.pending = {}
      BY <1>3 DEF Good, Checking, Listing
    <2>3. /\ next \in UnderWay /\ next.step = "fetch" /\ next.req = r.req
          /\ next.rows = {} /\ next.pending = {}
          /\ next.verdict = FALSE /\ next.started = r.started
      BY <1>1, <2>1, <2>2 DEF UnderWay, Step
    <2>4. SeenSince(r.req.evaluator, TRUE, r.started - VerdictAge)
      BY <1>2, <1>3 DEF SubjectOf
    <2>5. QED
      BY <2>3, <2>4 DEF Good, Checking, Listing
  <1>4. CASE ForOne(r) /\ verdict = FALSE
    <2>1. next = Answer(c, "refused", {})
      BY <1>4 DEF AfterCheck, Keyed, ForOne
    <2>2. next.step = "over" /\ next.reply = "refused" /\ next.req = r.req
      BY <2>1 DEF Answer
    <2>3. SeenSince(r.req.evaluator, FALSE, now - VerdictAge)
      BY <1>4 DEF SubjectOf
    <2>4. QED
      BY <2>2, <2>3 DEF Honest
  <1>5. CASE ~ ForOne(r)
    <2>1. PICK i, rows : i = First(r.pending)
                         /\ rows = IF verdict THEN r.rows \cup {i} ELSE r.rows
      OBVIOUS
    <2>2. i \in r.pending /\ i \in Nat /\ Recent(r.req, rows, r.pending \ {i}, r.started)
      BY <1>2, <1>5, <2>1, RowChecked
    <2>3. next = [r EXCEPT !.step = IF r.pending = {i} THEN "store" ELSE "validity",
                           !.pending = r.pending \ {i}, !.verdict = FALSE, !.rows = rows]
      BY <1>5, <2>1 DEF AfterCheck, Keyed, ForOne, NextRow, First, Keeps
    <2>4. rows \in SUBSET Nat /\ r.pending \ {i} \in SUBSET Nat
      BY <1>1, <2>1, <2>2 DEF UnderWay
    <2>5. /\ next \in UnderWay /\ next.req = r.req /\ next.started = r.started
          /\ next.rows = rows /\ next.pending = r.pending \ {i} /\ next.verdict = FALSE
          /\ next.step = IF r.pending = {i} THEN "store" ELSE "validity"
      BY <1>1, <2>3, <2>4 DEF UnderWay, Step
    <2>6. next.step = "validity" => next.pending # {}
      BY <2>2, <2>5
    <2>7. next.step = "store" => next.pending = {}
      BY <2>5
    <2>8. next.step \in {"store", "validity"} /\ Recent(next.req, next.rows, next.pending, next.started)
      BY <2>2, <2>5
    <2>9. next.started <= now /\ now <= next.started + ApiTimeout
      BY <2>5 DEF Good
    <2>10. Good(next)
      BY <1>5, <2>5, <2>6, <2>7, <2>8, <2>9 DEF Good, Checking, Listing, ForOne
    <2>11. QED
      BY <2>8, <2>10
  <1>6. QED
    BY <1>3, <1>4, <1>5

\* A verdict found alive in the cache was right when its call began, a timeout before its
\* life at most.
LEMMA LookupValidityStep ==
  ASSUME Inv, NEW c \in Calls, LookupValidity(c)
  PROVE  Inv'
  <1>1. PICK r : r = call[c]
    OBVIOUS
  <1>2. Good(r) /\ World /\ r.step = "validity" /\ Checking(r)
    BY <1>1, Busy DEF LookupValidity, At, Idle, Checking
  <1>3. /\ UNCHANGED <<now, benefit, valid, seen, caches>> /\ changes' \in 0 .. MaxChanges
        /\ now \in Nat
    BY <1>2 DEF LookupValidity, database, World
  <1>4. PICK e : e = SubjectOf(r)
    OBVIOUS
  <1>5. Subject(c) = e
    BY <1>1, <1>4 DEF Subject, SubjectOf, Keyed, ForOne, NextRow, First
  <1>6. CASE Hit(validityCache, e)
    <2>1. PICK entry, next : entry = validityCache[e] /\ next = AfterCheck(c, entry.verdict)
      OBVIOUS
    <2>2. VerdictCached(e, entry) /\ now < entry.expiry
      BY <1>6, <2>1 DEF Hit, Live, Inv, Cached
    <2>3. PICK m : m = entry.expiry - EvaluatorTtl - ApiTimeout
      OBVIOUS
    <2>4. SeenSince(e, entry.verdict, m) /\ entry.expiry \in Nat /\ entry.verdict \in BOOLEAN
      BY <2>2, <2>3 DEF VerdictCached
    <2>5. m \in Int /\ now - VerdictAge \in Int /\ now - VerdictAge <= m
      BY <1>3, <2>2, <2>3, <2>4, Ages
    <2>6. SeenSince(e, entry.verdict, now - VerdictAge)
      BY <1>2, <2>4, <2>5, Weaker
    <2>7. IF next.step = "over" THEN Honest(next) ELSE Good(next)
      BY <1>1, <1>2, <1>4, <2>1, <2>4, <2>6, Checked
    <2>8. Becomes(c, next)
      BY <1>5, <1>6, <2>1 DEF LookupValidity
    <2>9. QED
      BY <1>3, <2>7, <2>8, CallOnly
  <1>7. CASE ~ Hit(validityCache, e)
    <2>1. PICK next : next = [r EXCEPT !.step = "select"]
      OBVIOUS
    <2>2. r \in UnderWay
      BY <1>2 DEF Good
    <2>3. /\ next \in UnderWay /\ next.step = "select"
          /\ next.rows = r.rows /\ next.pending = r.pending /\ next.req = r.req
          /\ next.verdict = r.verdict /\ next.started = r.started
      BY <2>1, <2>2 DEF UnderWay, Step
    <2>4. Good(next)
      BY <1>2, <2>3 DEF Good, Checking, Listing, ForOne
    <2>5. Becomes(c, next)
      BY <1>1, <1>5, <1>7, <2>1 DEF LookupValidity
    <2>6. next.step # "over"
      BY <2>3
    <2>7. QED
      BY <1>3, <2>4, <2>5, <2>6, CallOnly
  <1>8. QED
    BY <1>6, <1>7

\* A verdict that is read is the one the evaluator deserves in that tick.
LEMMA SelectEvaluatorStep ==
  ASSUME Inv, NEW c \in Calls, SelectEvaluator(c)
  PROVE  Inv'
  <1>1. PICK r : r = call[c]
    OBVIOUS
  <1>2. Good(r) /\ World /\ r.step = "select" /\ Checking(r)
    BY <1>1, Busy DEF SelectEvaluator, At, Idle, Checking
  <1>3. /\ UNCHANGED <<now, benefit, valid, seen, caches>> /\ changes' \in 0 .. MaxChanges
        /\ now \in Nat
    BY <1>2 DEF SelectEvaluator, database, World
  <1>4. PICK e, v, next : /\ e = SubjectOf(r) /\ v = (e \in valid)
                          /\ next = [r EXCEPT !.step = "remember", !.verdict = v]
    OBVIOUS
  <1>5. Subject(c) = e
    BY <1>1, <1>4 DEF Subject, SubjectOf, Keyed, ForOne, NextRow, First
  <1>6. r \in UnderWay /\ v \in BOOLEAN /\ r.started \in Nat /\ r.started <= now
    BY <1>2, <1>4 DEF Good, UnderWay
  <1>7. /\ next \in UnderWay /\ next.step = "remember"
        /\ next.rows = r.rows /\ next.pending = r.pending /\ next.req = r.req
        /\ next.verdict = v /\ next.started = r.started
    BY <1>4, <1>6 DEF UnderWay, Step
  <1>8. SeenSince(e, v, r.started)
    <2>1. e \in Evaluator
      BY <1>2, <1>4, SubjectKept
    <2>2. SeenSince(e, v, now)
      BY <1>2, <1>4, <2>1 DEF World
    <2>3. r.started \in Int /\ now \in Int
      BY <1>3, <1>6
    <2>4. QED
      BY <1>2, <1>6, <2>2, <2>3, Weaker
  <1>9. SubjectOf(next) = e
    BY <1>4, <1>7 DEF SubjectOf, ForOne
  <1>10. Good(next)
    BY <1>2, <1>7, <1>8, <1>9 DEF Good, Checking, Listing, ForOne
  <1>11. Becomes(c, next)
    BY <1>1, <1>4, <1>5 DEF SelectEvaluator
  <1>12. next.step # "over"
    BY <1>7
  <1>13. QED
    BY <1>3, <1>10, <1>11, <1>12, CallOnly

\* A SELECT that fails gives a negative verdict in that tick.
LEMMA SelectFailsStep ==
  ASSUME Inv, NEW c \in Calls, SelectFails(c)
  PROVE  Inv'
  <1>1. PICK r : r = call[c]
    OBVIOUS
  <1>2. Good(r) /\ World /\ r.step = "select" /\ Checking(r)
    BY <1>1, Busy DEF SelectFails, At, Idle, Checking
  <1>3. /\ UNCHANGED <<now, benefit, valid, benefitCache, validityCache>>
        /\ changes' \in 0 .. MaxChanges /\ now \in Nat
    BY <1>2, Ages DEF SelectFails, caches, World
  <1>4. PICK e, next : e = SubjectOf(r) /\ next = [r EXCEPT !.step = "remember"]
    OBVIOUS
  <1>5. Subject(c) = e
    BY <1>1, <1>4 DEF Subject, SubjectOf, Keyed, ForOne, NextRow, First
  <1>6. /\ seen' = seen \cup {[evaluator |-> e, at |-> now, verdict |-> FALSE]}
        /\ Becomes(c, next)
    BY <1>1, <1>4, <1>5 DEF SelectFails
  <1>7. Grows /\ World'
    BY <1>2, <1>3, <1>6, WorldKept
  <1>8. Cached(benefitCache, validityCache)'
    BY <1>2, <1>3, <1>7, CachedKept DEF Cached, Inv
  <1>9. /\ r \in UnderWay /\ r.started \in Nat /\ r.started <= now
        /\ now <= r.started + ApiTimeout /\ r.verdict = FALSE
    BY <1>2 DEF Good, UnderWay
  <1>10. Good(r)'
    BY <1>2, <1>3, <1>7, <1>9, GoodKept
  <1>11. /\ next \in UnderWay /\ next.step = "remember"
         /\ next.rows = r.rows /\ next.pending = r.pending /\ next.req = r.req
         /\ next.verdict = FALSE /\ next.started = r.started
    BY <1>4, <1>9 DEF UnderWay, Step
  <1>12. (next \in UnderWay)'
    BY <1>11 DEF UnderWay, Step
  <1>13. SubjectOf(next)' = e
    <2>1. SubjectOf(r)' = e
      BY <1>2, <1>4, <1>7, SubjectKept
    <2>2. QED
      BY <1>11, <2>1 DEF SubjectOf, ForOne
  <1>14. SeenSince(e, FALSE, r.started)'
    <2>1. PICK s : s = [evaluator |-> e, at |-> now, verdict |-> FALSE]
      OBVIOUS
    <2>2. s \in seen' /\ s.evaluator = e /\ s.verdict = FALSE /\ s.at = now
      BY <1>6, <2>1
    <2>3. s.at \in r.started .. now'
      BY <1>3, <1>9, <2>2
    <2>4. QED
      BY <2>2, <2>3 DEF SeenSince
  <1>15. Good(next)'
    BY <1>2, <1>10, <1>11, <1>12, <1>13, <1>14 DEF Good, Checking, Listing, ForOne
  <1>16. next.step # "over"
    BY <1>11
  <1>17. QED
    BY <1>3, <1>6, <1>7, <1>8, <1>15, <1>16, CallBecomes

\* The verdict read since a call began is cached, at most a timeout old, and used.
LEMMA RememberStep ==
  ASSUME Inv, NEW c \in Calls, Remember(c)
  PROVE  Inv'
  <1>1. PICK r : r = call[c]
    OBVIOUS
  <1>2. Good(r) /\ World /\ r.step = "remember" /\ Checking(r)
    BY <1>1, Busy DEF Remember, At, Idle, Checking
  <1>3. /\ UNCHANGED <<now, benefit, valid, seen, benefitCache>>
        /\ changes' \in 0 .. MaxChanges /\ now \in Nat
    BY <1>2 DEF Remember, database, World
  <1>4. PICK e, v, next : /\ e = SubjectOf(r) /\ v = r.verdict /\ next = AfterCheck(c, v)
    OBVIOUS
  <1>5. Subject(c) = e
    BY <1>1, <1>4 DEF Subject, SubjectOf, Keyed, ForOne, NextRow, First
  <1>6. /\ r.started \in Nat /\ r.started <= now /\ now <= r.started + ApiTimeout
        /\ v \in BOOLEAN /\ e \in Evaluator /\ SeenSince(e, v, r.started)
    BY <1>2, <1>4, SubjectKept DEF Good, UnderWay
  <1>7. PICK entry, m : /\ entry = [verdict |-> v, expiry |-> now + EvaluatorTtl]
                        /\ m = entry.expiry - EvaluatorTtl - ApiTimeout
    OBVIOUS
  <1>8. /\ m \in Int /\ m <= r.started /\ entry.expiry \in Nat /\ entry.verdict = v
        /\ now - VerdictAge \in Int /\ now - VerdictAge <= r.started
    BY <1>3, <1>6, <1>7, Ages
  <1>9. SeenSince(e, v, m) /\ SeenSince(e, v, now - VerdictAge)
    BY <1>2, <1>6, <1>8, Weaker
  <1>10. VerdictCached(e, entry)
    BY <1>6, <1>7, <1>8, <1>9 DEF VerdictCached
  <1>11. PICK lists, verdicts : lists = benefitCache /\ verdicts = Inserted(validityCache, e, entry)
    OBVIOUS
  <1>12. Cached(lists, verdicts)
    <2>1. /\ DOMAIN verdicts = DOMAIN validityCache \cup {e} /\ verdicts[e] = entry
          /\ \A d \in DOMAIN validityCache \ {e} : verdicts[d] = validityCache[d]
      BY <1>11 DEF Inserted
    <2>2. QED
      BY <1>6, <1>10, <1>11, <2>1 DEF Inv, Cached
  <1>13. /\ benefitCache' = lists /\ validityCache' = verdicts /\ Becomes(c, next)
    BY <1>1, <1>3, <1>4, <1>5, <1>7, <1>11 DEF Remember
  <1>14. IF next.step = "over" THEN Honest(next) ELSE Good(next)
    BY <1>1, <1>2, <1>4, <1>6, <1>9, Checked
  <1>15. QED
    BY <1>3, <1>12, <1>13, <1>14, GoesOn

\* What a SELECT finds is what the table says in that tick.
LEMMA FetchStep ==
  ASSUME Inv, NEW c \in Calls, Fetch(c)
  PROVE  Inv'
  <1>1. PICK r : r = call[c]
    OBVIOUS
  <1>2. Good(r) /\ World /\ r.step = "fetch"
    BY <1>1, Busy DEF Fetch, At, Idle
  <1>3. /\ UNCHANGED <<now, benefit, valid, seen, caches>> /\ changes' \in 0 .. MaxChanges
        /\ now \in Nat /\ benefit \in Seq(BenefitModel)
    BY <1>2 DEF Fetch, database, World
  <1>4. /\ r \in UnderWay /\ r.rows = {} /\ r.pending = {} /\ r.verdict = FALSE
        /\ r.started \in Nat /\ r.started <= now /\ now <= r.started + ApiTimeout
    BY <1>2 DEF Good, UnderWay, Checking, Listing
  <1>5. PICK n, found, next :
          n = Len(benefit) /\ found = Selected(r.req) /\ next = AfterFetch(c, found)
    OBVIOUS
  <1>6. found = OfTheDay(r.req, n, now) /\ n \in Nat /\ DOMAIN benefit = 1 .. n
    BY <1>3, <1>5 DEF Selected, OfTheDay
  <1>7. found \in SUBSET Nat
    BY <1>6 DEF OfTheDay
  <1>8. Held(n, now) /\ now \in r.started .. now /\ n \in 0 .. Len(benefit) /\ now >= 0
    BY <1>2, <1>3, <1>4, <1>5, <1>6 DEF Held, World
  <1>9. Becomes(c, next)
    BY <1>1, <1>5 DEF Fetch
  <1>10. CASE ForOne(r)
    <2>1. next = [r EXCEPT !.step = "store", !.rows = found]
      BY <1>1, <1>5, <1>10 DEF AfterFetch, Keyed, ForOne
    <2>2. /\ next \in UnderWay /\ next.step = "store" /\ next.rows = found
          /\ next.pending = {} /\ next.verdict = FALSE /\ next.req = r.req
          /\ next.started = r.started
      BY <1>4, <1>7, <2>1 DEF UnderWay, Step
    <2>3. ASSUME NEW i \in found
          PROVE  SeenSince(benefit[i].evaluator, TRUE, r.started - VerdictAge)
      <3>1. benefit[i].evaluator = r.req.evaluator
        BY <1>6, <1>10 DEF OfTheDay, ForOne
      <3>2. QED
        BY <1>2, <1>10, <3>1 DEF Good
    <2>4. ReadAt(r.req, found, {}, r.started, now, n)
      BY <1>6, <1>8, <2>3 DEF ReadAt
    <2>5. Recent(r.req, found, {}, r.started)
      BY <1>8, <2>4 DEF Recent
    <2>6. Good(next)
      BY <1>4, <2>2, <2>5 DEF Good, Checking, Listing
    <2>7. QED
      BY <1>3, <1>9, <2>2, <2>6, CallOnly
  <1>11. CASE ~ ForOne(r)
    <2>1. r.req.evaluator = NoEvaluator
      BY <1>11 DEF ForOne
    <2>2. ReadAt(r.req, {}, found, r.started, now, n)
      BY <1>6, <1>8, <2>1 DEF ReadAt
    <2>3. Recent(r.req, {}, found, r.started)
      BY <1>8, <2>2 DEF Recent
    <2>4. CASE found = {}
      <3>1. next = [r EXCEPT !.step = "store", !.rows = found]
        BY <1>1, <1>5, <2>4 DEF AfterFetch
      <3>2. /\ next \in UnderWay /\ next.step = "store" /\ next.rows = {}
            /\ next.pending = {} /\ next.verdict = FALSE /\ next.req = r.req
            /\ next.started = r.started
        BY <1>4, <1>7, <2>4, <3>1 DEF UnderWay, Step
      <3>3. Good(next)
        BY <1>4, <2>3, <2>4, <3>2 DEF Good, Checking, Listing
      <3>4. QED
        BY <1>3, <1>9, <3>2, <3>3, CallOnly
    <2>5. CASE found # {}
      <3>1. next = [r EXCEPT !.step = "validity", !.pending = found]
        BY <1>1, <1>5, <1>11, <2>5 DEF AfterFetch, Keyed, ForOne
      <3>2. /\ next \in UnderWay /\ next.step = "validity" /\ next.rows = {}
            /\ next.pending = found /\ next.verdict = FALSE /\ next.req = r.req
            /\ next.started = r.started
        BY <1>4, <1>7, <3>1 DEF UnderWay, Step
      <3>3. Good(next)
        BY <1>4, <1>11, <2>3, <2>5, <3>2 DEF Good, Checking, Listing, ForOne
      <3>4. QED
        BY <1>3, <1>9, <3>2, <3>3, CallOnly
    <2>6. QED
      BY <2>4, <2>5
  <1>12. QED
    BY <1>10, <1>11

\* A call that fails or is dropped says nothing of the table.
LEMMA FailStep ==
  ASSUME Inv, NEW c \in Calls, FetchFails(c) \/ Timeout(c)
  PROVE  Inv'
  <1>1. World /\ UNCHANGED <<now, benefit, valid, seen, caches>>
    BY DEF FetchFails, Timeout, Inv, database
  <1>2. changes' \in 0 .. MaxChanges
    BY <1>1, Ages DEF FetchFails, Timeout, World, database
  <1>3. PICK next : /\ Becomes(c, next)
                    /\ next = Answer(c, "internal", {}) \/ next = Answer(c, "timeout", {})
    BY DEF FetchFails, Timeout
  <1>4. next.step = "over" /\ Honest(next)
    <2>1. next.step = "over" /\ next.reply \in {"internal", "timeout"}
      BY <1>3 DEF Answer
    <2>2. QED
      BY <2>1 DEF Honest
  <1>5. QED
    BY <1>1, <1>2, <1>3, <1>4, CallOnly

\* A list that is cached was read at most a timeout before.
LEMMA StoreStep ==
  ASSUME Inv, NEW c \in Calls, Store(c)
  PROVE  Inv'
  <1>1. PICK r : r = call[c]
    OBVIOUS
  <1>2. Good(r) /\ World /\ r.step = "store"
    BY <1>1, Busy DEF Store, At, Idle
  <1>3. /\ UNCHANGED <<now, benefit, valid, seen, validityCache>>
        /\ changes' \in 0 .. MaxChanges /\ now \in Nat
    BY <1>2 DEF Store, database, World
  <1>4. /\ r \in UnderWay /\ r.req \in Requests /\ r.pending = {} /\ r.verdict = FALSE
        /\ r.started \in Nat /\ r.started <= now /\ now <= r.started + ApiTimeout
        /\ Recent(r.req, r.rows, {}, r.started)
    BY <1>2 DEF Good, UnderWay, Listing
  <1>5. PICK key, rows, entry, m :
          /\ key = r.req /\ rows = r.rows /\ entry = [rows |-> rows, expiry |-> now + BenefitTtl]
          /\ m = entry.expiry - BenefitTtl - ApiTimeout
    OBVIOUS
  <1>6. m \in Int /\ m <= r.started /\ entry.expiry \in Nat /\ entry.rows = rows
    BY <1>3, <1>4, <1>5, Ages
  <1>7. Recent(key, rows, {}, m)
    BY <1>2, <1>4, <1>5, <1>6, Weaker
  <1>8. ListCached(key, entry)
    BY <1>5, <1>6, <1>7 DEF ListCached
  <1>9. PICK lists, verdicts : lists = Inserted(benefitCache, key, entry) /\ verdicts = validityCache
    OBVIOUS
  <1>10. Cached(lists, verdicts)
    <2>1. /\ DOMAIN lists = DOMAIN benefitCache \cup {key} /\ lists[key] = entry
          /\ \A k \in DOMAIN benefitCache \ {key} : lists[k] = benefitCache[k]
      BY <1>9 DEF Inserted
    <2>2. QED
      BY <1>4, <1>5, <1>8, <1>9, <2>1 DEF Inv, Cached
  <1>11. PICK next : next = [r EXCEPT !.step = "evict"]
    OBVIOUS
  <1>12. /\ benefitCache' = lists /\ validityCache' = verdicts /\ Becomes(c, next)
    BY <1>1, <1>3, <1>5, <1>9, <1>11 DEF Store, CacheKey
  <1>13. /\ next \in UnderWay /\ next.step = "evict" /\ next.rows = r.rows
         /\ next.pending = {} /\ next.verdict = FALSE /\ next.req = r.req
         /\ next.started = r.started
    BY <1>4, <1>11 DEF UnderWay, Step
  <1>14. Good(next)
    BY <1>4, <1>13 DEF Good, Checking, Listing
  <1>15. QED
    BY <1>3, <1>10, <1>12, <1>13, <1>14, GoesOn

\* The caches lose what has expired, and the list is served.
LEMMA EvictStep ==
  ASSUME Inv, NEW c \in Calls, Evict(c)
  PROVE  Inv'
  <1>1. PICK r : r = call[c]
    OBVIOUS
  <1>2. Good(r) /\ World /\ r.step = "evict"
    BY <1>1, Busy DEF Evict, At, Idle
  <1>3. /\ UNCHANGED <<now, benefit, valid, seen>>
        /\ changes' \in 0 .. MaxChanges /\ now \in Nat
    BY <1>2 DEF Evict, database, World
  <1>4. /\ r.started \in Nat /\ r.started <= now /\ now <= r.started + ApiTimeout
        /\ Recent(r.req, r.rows, {}, r.started)
    BY <1>2 DEF Good, UnderWay, Listing
  <1>5. PICK lists, verdicts : lists = Evicted(benefitCache) /\ verdicts = Evicted(validityCache)
    OBVIOUS
  <1>6. Cached(lists, verdicts)
    <2>1. /\ DOMAIN lists \subseteq DOMAIN benefitCache
          /\ DOMAIN verdicts \subseteq DOMAIN validityCache
          /\ \A k \in DOMAIN lists : lists[k] = benefitCache[k]
          /\ \A e \in DOMAIN verdicts : verdicts[e] = validityCache[e]
      BY <1>5 DEF Evicted, Restrict
    <2>2. QED
      BY <2>1 DEF Inv, Cached
  <1>7. PICK next : next = Answer(c, "ok", r.rows)
    OBVIOUS
  <1>8. benefitCache' = lists /\ validityCache' = verdicts /\ Becomes(c, next)
    BY <1>1, <1>5, <1>7 DEF Evict
  <1>9. next.step = "over" /\ next.req = r.req /\ next.rows = r.rows /\ next.reply = "ok"
    BY <1>1, <1>7 DEF Answer
  <1>10. Recent(r.req, r.rows, {}, now - ListAge)
    <2>1. now - ListAge \in Int /\ r.started \in Int /\ now - ListAge <= r.started
      BY <1>3, <1>4, Ages
    <2>2. QED
      BY <1>2, <1>4, <2>1, Weaker
  <1>11. Honest(next)
    BY <1>9, <1>10 DEF Honest
  <1>12. QED
    BY <1>3, <1>6, <1>8, <1>9, <1>11, GoesOn

-----------------------------------------------------------------------------
(* The steps of others *)

\* A step that is no call's is in order when it leaves the calls and caches alone and the
\* world grows, and time does not pass a timeout.  There may be no step at all.
LEMMA OthersGo ==
  ASSUME Inv, Grows, World', UNCHANGED <<caches, call>>,
         answer' = NoAnswer \/ (answer' = answer /\ now' = now),
         now' = now \/ \A c \in Calls : ~ Idle(c) => now' <= call[c].started + ApiTimeout
  PROVE  Inv'
  <1>1. World /\ UNCHANGED <<benefitCache, validityCache>>
    BY DEF Inv, caches
  <1>2. Cached(benefitCache, validityCache)'
    BY <1>1, CachedKept DEF Cached, Inv
  <1>3. ASSUME NEW c \in Calls PROVE (call[c] = Waiting \/ Good(call[c]))'
    <2>1. PICK r : r = call[c]
      OBVIOUS
    <2>2. r = Waiting \/ Good(r)
      BY <2>1 DEF Inv, Calling
    <2>3. CASE r = Waiting
      BY <2>1, <2>3 DEF Waiting
    <2>4. CASE Good(r)
      <3>1. ~ Idle(c) /\ now <= r.started + ApiTimeout
        BY <2>1, <2>4 DEF Good, UnderWay, Idle, At
      <3>2. now' <= r.started + ApiTimeout
        BY <2>1, <3>1
      <3>3. Good(r)'
        BY <1>1, <2>4, <3>2, GoodKept
      <3>4. QED
        BY <2>1, <3>3
    <2>5. QED
      BY <2>2, <2>3, <2>4
  <1>4. Calling'
    BY <1>3 DEF Calling, Inv
  <1>5. Answering'
    <2>1. CASE answer' = NoAnswer
      BY <2>1 DEF Answering, NoAnswer
    <2>2. CASE answer' = answer /\ now' = now
      <3>1. PICK a : a = answer
        OBVIOUS
      <3>2. a.step = "over" => Honest(a)
        BY <3>1 DEF Inv, Answering
      <3>3. ASSUME a.step = "over" PROVE Honest(a)'
        BY <1>1, <2>2, <3>2, <3>3, HonestKept
      <3>4. QED
        BY <2>2, <3>1, <3>3 DEF Answering
    <2>3. QED
      BY <2>1, <2>2
  <1>6. QED
    BY <1>2, <1>4, <1>5 DEF Inv

\* A benefit is added at the end of the table, with the time of its creation.
LEMMA GrantStep ==
  ASSUME Inv, NEW g \in Grants, Grant(g)
  PROVE  Inv'
  <1>1. World /\ UNCHANGED <<now, valid, changes, seen, caches, call>> /\ answer' = NoAnswer
    BY DEF Inv, Grant
  <1>2. PICK b : b = [evaluator |-> g.evaluator, customer |-> g.customer, created |-> now]
    OBVIOUS
  <1>3. b \in BenefitModel /\ b.created = now
    <2>1. g.evaluator \in Evaluator /\ now \in 0 .. MaxTime
      BY <1>1, PresentationAssumption DEF Evaluator, World
    <2>2. QED
      BY <1>2, <2>1 DEF BenefitModel
  <1>4. benefit' = Append(benefit, b) /\ benefit \in Seq(BenefitModel)
    BY <1>1, <1>2 DEF Grant, World
  <1>5. /\ benefit' \in Seq(BenefitModel) /\ Len(benefit) \in Nat
        /\ Len(benefit') = Len(benefit) + 1 /\ benefit'[Len(benefit) + 1] = b
        /\ \A i \in 1 .. Len(benefit) : benefit'[i] = benefit[i]
    BY <1>3, <1>4
  <1>6. now \in Nat
    BY <1>1, Ages DEF World
  <1>7. Grows
    BY <1>1, <1>3, <1>4, <1>5, <1>6 DEF Grows
  <1>8. World'
    <2>1. \A i \in DOMAIN benefit' : benefit'[i].created <= now
      BY <1>1, <1>3, <1>4, <1>5, <1>6 DEF World
    <2>2. ASSUME NEW e \in Evaluator PROVE SeenSince(e, e \in valid, now)'
      BY <1>1 DEF World, SeenSince
    <2>3. (benefit \in Seq(BenefitModel))'
      BY <1>5 DEF BenefitModel, Evaluator
    <2>4. QED
      BY <1>1, <2>1, <2>2, <2>3 DEF World, Evaluator
  <1>9. QED
    BY <1>1, <1>7, <1>8, OthersGo

\* The verdict an evaluator deserves from now on is noted.
LEMMA ChangeStep ==
  ASSUME Inv, NEW e \in Evaluator, Change(e)
  PROVE  Inv'
  <1>1. World /\ UNCHANGED <<now, benefit, caches, call>> /\ answer' = NoAnswer
    BY DEF Inv, Change
  <1>2. PICK s : s = [evaluator |-> e, at |-> now, verdict |-> e \notin valid]
    OBVIOUS
  <1>3. seen' = seen \cup {s} /\ s.evaluator = e /\ s.at = now /\ s.verdict = (e \notin valid)
    BY <1>2 DEF Change
  <1>4. now \in Nat /\ changes' \in 0 .. MaxChanges /\ valid' = (valid \ {e}) \cup ({e} \ valid)
    BY <1>1, Ages DEF World, Change
  <1>5. benefit \in Seq(BenefitModel) /\ Len(benefit) \in Nat
    BY <1>1 DEF World
  <1>6. Grows
    BY <1>1, <1>3, <1>4, <1>5 DEF Grows
  <1>7. World'
    <2>1. ASSUME NEW d \in Evaluator PROVE SeenSince(d, d \in valid, now)'
      <3>1. CASE d = e
        <4>1. (e \notin valid) = (e \in valid')
          BY <1>4
        <4>2. s \in seen' /\ s.at \in now' .. now'
          BY <1>1, <1>3, <1>4
        <4>3. QED
          BY <1>3, <3>1, <4>1, <4>2 DEF SeenSince
      <3>2. CASE d # e
        <4>1. SeenSince(d, d \in valid, now)
          BY <1>1 DEF World
        <4>2. (d \in valid) = (d \in valid')
          BY <1>4, <3>2
        <4>3. QED
          BY <1>1, <1>3, <4>1, <4>2 DEF SeenSince
      <3>3. QED
        BY <3>1, <3>2
    <2>2. \A x \in seen' : x.at \in 0 .. now
      BY <1>1, <1>3, <1>4 DEF World
    <2>3. valid' \subseteq Evaluator
      BY <1>1, <1>4 DEF World
    <2>4. QED
      BY <1>1, <1>4, <2>1, <2>2, <2>3 DEF World, Evaluator, BenefitModel
  <1>8. QED
    BY <1>1, <1>6, <1>7, OthersGo

\* A tick passes no timeout, and the verdicts each evaluator deserves are noted.
LEMMA TickStep ==
  ASSUME Inv, Tick
  PROVE  Inv'
  <1>1. /\ World /\ UNCHANGED <<benefit, valid, changes, caches, call>> /\ answer' = NoAnswer
        /\ now' = now + 1 /\ now < MaxTime
    BY DEF Inv, Tick, database
  <1>2. now \in Nat /\ now + 1 \in 0 .. MaxTime
    BY <1>1, Ages DEF World
  <1>3. benefit \in Seq(BenefitModel) /\ Len(benefit) \in Nat
    BY <1>1 DEF World
  <1>4. seen' = seen \cup
          {[evaluator |-> e, at |-> now + 1, verdict |-> e \in valid] : e \in Evaluator}
    BY DEF Tick
  <1>5. Grows
    BY <1>1, <1>2, <1>3, <1>4 DEF Grows
  <1>6. World'
    <2>1. ASSUME NEW e \in Evaluator PROVE SeenSince(e, e \in valid, now)'
      <3>1. PICK s : s = [evaluator |-> e, at |-> now + 1, verdict |-> e \in valid]
        OBVIOUS
      <3>2. s \in seen' /\ s.evaluator = e /\ s.at = now + 1 /\ s.verdict = (e \in valid)
        BY <1>4, <3>1
      <3>3. s.at \in now' .. now' /\ s.verdict = (e \in valid')
        BY <1>1, <1>2, <3>2
      <3>4. QED
        BY <3>2, <3>3 DEF SeenSince
    <2>2. \A s \in seen' : s.at \in 0 .. now'
      BY <1>1, <1>2, <1>4 DEF World
    <2>3. \A i \in DOMAIN benefit : benefit[i].created <= now + 1
      <3>1. ASSUME NEW i \in DOMAIN benefit PROVE benefit[i].created <= now + 1
        <4>1. benefit[i] \in BenefitModel /\ benefit[i].created <= now
          BY <1>1, <1>3, <3>1 DEF World
        <4>2. benefit[i].created \in 0 .. MaxTime
          BY <4>1 DEF BenefitModel
        <4>3. QED
          BY <1>2, <4>1, <4>2, Ages
      <3>2. QED
        BY <3>1
    <2>4. QED
      BY <1>1, <1>2, <2>1, <2>2, <2>3 DEF World, Evaluator, BenefitModel
  <1>7. ASSUME NEW c \in Calls, ~ Idle(c) PROVE now' <= call[c].started + ApiTimeout
    <2>1. Good(call[c]) /\ now - call[c].started < ApiTimeout
      BY <1>7, Busy DEF Tick
    <2>2. PICK k : k = call[c].started
      OBVIOUS
    <2>3. k \in Nat
      BY <2>1, <2>2 DEF Good, UnderWay
    <2>4. now + 1 <= k + ApiTimeout
      BY <1>2, <2>1, <2>2, <2>3, Ages
    <2>5. QED
      BY <1>1, <2>2, <2>4
  <1>8. QED
    BY <1>1, <1>5, <1>6, <1>7, OthersGo

-----------------------------------------------------------------------------
(* The theorems *)

\* The service starts with an empty table and empty caches, and no call.
LEMMA InvInit == Init => Inv
  <1>1. SUFFICES ASSUME Init PROVE Inv
    OBVIOUS
  <1>2. now = 0 /\ benefit = <<>> /\ valid = Evaluator /\ changes = 0
        /\ seen = {[evaluator |-> e, at |-> 0, verdict |-> TRUE] : e \in Evaluator}
    BY <1>1 DEF Init
  <1>3. World
    <2>1. ASSUME NEW e \in Evaluator PROVE SeenSince(e, e \in valid, now)
      <3>1. PICK s : s = [evaluator |-> e, at |-> 0, verdict |-> TRUE]
        OBVIOUS
      <3>2. s \in seen /\ s.evaluator = e /\ s.at = 0 /\ s.verdict = (e \in valid)
        BY <1>2, <3>1
      <3>3. QED
        BY <1>2, <3>2 DEF SeenSince
    <2>2. now \in 0 .. MaxTime /\ changes \in 0 .. MaxChanges
      BY <1>2, Ages
    <2>3. \A s \in seen : s.at \in 0 .. now
      BY <1>2
    <2>4. benefit \in Seq(BenefitModel) /\ DOMAIN benefit = {}
      BY <1>2
    <2>5. QED
      BY <1>2, <2>1, <2>2, <2>3, <2>4 DEF World
  <1>4. Calling
    BY <1>1 DEF Init, Calling
  <1>5. Cached(benefitCache, validityCache)
    <2>1. DOMAIN benefitCache = {} /\ DOMAIN validityCache = {}
      BY <1>1 DEF Init
    <2>2. QED
      BY <2>1 DEF Cached
  <1>6. Answering
    BY <1>1 DEF Init, Answering, NoAnswer
  <1>7. QED
    BY <1>3, <1>4, <1>5, <1>6 DEF Inv

\* Every step preserves the invariant.
LEMMA InvStep == Inv /\ [Next]_vars => Inv'
  <1>1. SUFFICES ASSUME Inv, [Next]_vars PROVE Inv'
    OBVIOUS
  <1>2. CASE Tick
    BY <1>1, <1>2, TickStep
  <1>3. ASSUME NEW g \in Grants, Grant(g) PROVE Inv'
    BY <1>1, <1>3, GrantStep
  <1>4. ASSUME NEW e \in Evaluator, Change(e) PROVE Inv'
    BY <1>1, <1>4, ChangeStep
  <1>5. ASSUME NEW c \in Calls, NEW req \in Requests, Receive(c, req) PROVE Inv'
    BY <1>1, <1>5, ReceiveStep
  <1>6. ASSUME NEW c \in Calls, Lookup(c) PROVE Inv'
    BY <1>1, <1>6, LookupStep
  <1>7. ASSUME NEW c \in Calls, LookupValidity(c) PROVE Inv'
    BY <1>1, <1>7, LookupValidityStep
  <1>8. ASSUME NEW c \in Calls, SelectEvaluator(c) PROVE Inv'
    BY <1>1, <1>8, SelectEvaluatorStep
  <1>9. ASSUME NEW c \in Calls, SelectFails(c) PROVE Inv'
    BY <1>1, <1>9, SelectFailsStep
  <1>10. ASSUME NEW c \in Calls, Remember(c) PROVE Inv'
    BY <1>1, <1>10, RememberStep
  <1>11. ASSUME NEW c \in Calls, Fetch(c) PROVE Inv'
    BY <1>1, <1>11, FetchStep
  <1>12. ASSUME NEW c \in Calls, FetchFails(c) \/ Timeout(c) PROVE Inv'
    BY <1>1, <1>12, FailStep
  <1>13. ASSUME NEW c \in Calls, Store(c) PROVE Inv'
    BY <1>1, <1>13, StoreStep
  <1>14. ASSUME NEW c \in Calls, Evict(c) PROVE Inv'
    BY <1>1, <1>14, EvictStep
  <1>15. CASE UNCHANGED vars
    <2>1. /\ UNCHANGED <<now, benefit, valid, changes, caches, call, seen>>
          /\ answer' = answer /\ World
      BY <1>1, <1>15 DEF vars, caches, Inv
    <2>2. changes' \in 0 .. MaxChanges /\ seen' \ seen = {}
      BY <2>1 DEF World
    <2>3. Grows /\ World'
      BY <2>1, <2>2, WorldKept
    <2>4. QED
      BY <1>1, <2>1, <2>3, OthersGo
  <1>16. QED
    BY <1>1, <1>2, <1>3, <1>4, <1>5, <1>6, <1>7, <1>8, <1>9, <1>10, <1>11, <1>12, <1>13,
       <1>14, <1>15 DEF Next

\* The invariant holds of every behaviour.
LEMMA InvAlways == Spec => []Inv
  BY InvInit, InvStep, PTL DEF Spec

\* The caches hold ids of the table, and a call that checks an evaluator has one to check.
THEOREM TypeCorrect == Spec => []TypeOK
  <1>1. ASSUME Inv PROVE TypeOK
    <2>1. ASSUME NEW k \in DOMAIN benefitCache
          PROVE  benefitCache[k].rows \subseteq DOMAIN benefit
      <3>1. PICK m : Recent(k, benefitCache[k].rows, {}, m)
        BY <1>1, <2>1 DEF Inv, Cached, ListCached
      <3>2. PICK t \in m .. now, n \in 0 .. Len(benefit) :
              ReadAt(k, benefitCache[k].rows, {}, m, t, n)
        BY <3>1 DEF Recent
      <3>3. benefitCache[k].rows \subseteq 1 .. n
        BY <3>2 DEF ReadAt, OfTheDay
      <3>4. DOMAIN benefit = 1 .. Len(benefit) /\ Len(benefit) \in Nat
        BY <1>1 DEF Inv, World
      <3>5. QED
        BY <3>3, <3>4
    <2>2. ASSUME NEW c \in Calls
          PROVE  /\ call[c].step \in Step
                 /\ ~Idle(c) => call[c].rows \cup call[c].pending \subseteq DOMAIN benefit
                 /\ call[c].step \in {"validity", "select", "remember"} =>
                      Keyed(c) \/ call[c].pending # {}
      <3>1. CASE Idle(c)
        BY <3>1 DEF Idle, At, Step
      <3>2. CASE ~ Idle(c)
        <4>1. PICK r : r = call[c]
          OBVIOUS
        <4>2. Good(r)
          BY <1>1, <3>2, <4>1, Busy
        <4>3. r.step \in Step
          BY <4>2 DEF Good, UnderWay
        <4>4. r.rows \cup r.pending \subseteq DOMAIN benefit
          <5>1. CASE r.rows = {} /\ r.pending = {}
            BY <5>1
          <5>2. CASE Recent(r.req, r.rows, r.pending, r.started)
            <6>1. PICK t \in r.started .. now, n \in 0 .. Len(benefit) :
                    ReadAt(r.req, r.rows, r.pending, r.started, t, n)
              BY <5>2 DEF Recent
            <6>2. r.rows \cup r.pending \subseteq 1 .. n
              BY <6>1 DEF ReadAt, OfTheDay
            <6>3. DOMAIN benefit = 1 .. Len(benefit) /\ Len(benefit) \in Nat
              BY <1>1 DEF Inv, World
            <6>4. QED
              BY <6>2, <6>3
          <5>3. QED
            BY <4>2, <5>1, <5>2 DEF Good
        <4>5. Checking(r) => Keyed(c) \/ r.pending # {}
          BY <4>1, <4>2 DEF Good, Keyed, ForOne
        <4>6. QED
          BY <4>1, <4>3, <4>4, <4>5 DEF Checking
      <3>3. QED
        BY <3>1, <3>2
    <2>3. QED
      BY <1>1, <2>1, <2>2 DEF TypeOK, Inv, World, Cached
  <1>2. QED
    BY <1>1, InvAlways, PTL

\* A list that is served is what the table said at one moment within ListAge, but for the
\* benefits whose evaluators got a negative verdict within the life of both caches.
THEOREM ListsCorrect == Spec => []ListsAreRecent
  <1>1. ASSUME Inv PROVE ListsAreRecent
    <2>1. SUFFICES ASSUME Answered("ok")
          PROVE  \E t \in now - ListAge .. now, n \in 0 .. Len(benefit) :
                   LET rows == OfTheDay(answer.req, n, t) IN
                   /\ t >= 0 /\ Held(n, t)
                   /\ answer.rows \subseteq rows
                   /\ \A i \in rows \ answer.rows :
                        /\ answer.req.evaluator = NoEvaluator
                        /\ Seen(benefit[i].evaluator, FALSE, ListAge + VerdictAge)
      BY DEF ListsAreRecent
    <2>2. PICK t \in now - ListAge .. now, n \in 0 .. Len(benefit) :
            ReadAt(answer.req, answer.rows, {}, now - ListAge, t, n)
      BY <1>1, <2>1 DEF Inv, Answering, Honest, Answered, Recent
    <2>3. now - ListAge - VerdictAge = now - (ListAge + VerdictAge)
      BY <1>1, Ages DEF Inv, World
    <2>4. QED
      BY <2>2, <2>3 DEF ReadAt, Seen, SeenSince
  <1>2. QED
    BY <1>1, InvAlways, PTL

\* The evaluator of a benefit that is served was valid within the life of both caches.
THEOREM ServedCorrect == Spec => []ServedWereValid
  <1>1. ASSUME Inv PROVE ServedWereValid
    <2>1. SUFFICES ASSUME Answered("ok"), NEW i \in answer.rows
          PROVE  Seen(benefit[i].evaluator, TRUE, ListAge + VerdictAge)
      BY DEF ServedWereValid
    <2>2. PICK t \in now - ListAge .. now, n \in 0 .. Len(benefit) :
            ReadAt(answer.req, answer.rows, {}, now - ListAge, t, n)
      BY <1>1, <2>1 DEF Inv, Answering, Honest, Answered, Recent
    <2>3. now - ListAge - VerdictAge = now - (ListAge + VerdictAge)
      BY <1>1, Ages DEF Inv, World
    <2>4. QED
      BY <2>1, <2>2, <2>3 DEF ReadAt, Seen, SeenSince
  <1>2. QED
    BY <1>1, InvAlways, PTL

\* The evaluator of a refused request was invalid, or could not be read, within the life
\* of one verdict.
THEOREM RefusalsCorrect == Spec => []RefusalsAreRecent
  <1>1. ASSUME Inv PROVE RefusalsAreRecent
    BY <1>1 DEF Inv, Answering, Honest, RefusalsAreRecent, Answered, Seen, SeenSince
  <1>2. QED
    BY <1>1, InvAlways, PTL
=============================================================================
