-------------------------- MODULE SchedulerProofs --------------------------
(***************************************************************************)
(* Theorems about Scheduler, for every number of firings that overlap, all *)
(* tables of finitely many evaluators and rules, and every JSON input.     *)
(***************************************************************************)
EXTENDS Scheduler, WellFoundedInduction, FiniteSetTheorems, TLAPS

(* The inductive invariant.  What is known of a firing is said of the      *)
(* moments it has lived through: there are only ever more of them.         *)

\* The evaluators that are valid by their rows at moment s and the time of moment t.
ValidIn(s, t) == {e \in Evaluators : ValidAt(s.evaluator[e], t.clock)}

Asked(jobs) == {jobs[i].evaluator_id : i \in DOMAIN jobs}

\* What a rule asks for, by its keys, at moment s.
KeysAt(s, r) ==
  IF KeysOf(s.rule[r].input) = {} THEN {FallbackKey(r)} ELSE KeysOf(s.rule[r].input)

\* The job has what the rules of its evaluator asked for at moment s.
HeardAt(s, job) ==
  LET heard == {r \in Rules : Owner[r] = job.evaluator_id /\ s.rule[r].active} IN
  {job.input[k].key : k \in DOMAIN job.input} =
    IF heard = {} THEN {"default"} ELSE UNION {KeysAt(s, r) : r \in heard}

\* A job of a firing that has lived through these moments.
JobGood(moments, job) ==
  job.input # <<>> /\ \E s \in moments : HeardAt(s, job)

\* The evaluators of the jobs were valid together, and nobody else was.
OfOneMoment(moments, request) ==
  \E s, t \in moments :
    /\ t.clock <= s.clock
    /\ IF ValidIn(s, t) = {} THEN request = DemoRequest
       ELSE Asked(request) = ValidIn(s, t) /\ Len(request) = Cardinality(Asked(request))

\* The evaluators with a job and those to come were valid together, each counted once.
Reading(moments, pending, jobs) ==
  /\ pending \in Seq(Evaluators) /\ pending # <<>>
  /\ jobs \in Seq(ToSet(jobs))
  /\ \A i \in DOMAIN jobs : JobGood(moments, jobs[i])
  /\ \E s, t \in moments :
       /\ t.clock <= s.clock
       /\ Asked(jobs) \cup ToSet(pending) = ValidIn(s, t)
       /\ Len(jobs) + Len(pending) = Cardinality(ValidIn(s, t))

RequestGood(moments, failed, request) ==
  /\ request # <<>> /\ \A i \in DOMAIN request : request[i].input # <<>>
  /\ ~ failed => OfOneMoment(moments, request)
  /\ request # DemoRequest => \A i \in DOMAIN request : JobGood(moments, request[i])

\* A firing in one of its states, that has lived through these moments.
FiringGood(moments, state) ==
  \/ state.step \in {"idle", "dropped"}
  \/ /\ state.step = "listing"
     /\ \E t \in moments : state = [step |-> "listing", now |-> t.clock]
  \/ /\ state.step = "rules"
     /\ state = [step |-> "rules", pending |-> state.pending, jobs |-> state.jobs]
     /\ Reading(moments, state.pending, state.jobs)
  \/ /\ state.step = "sending"
     /\ state = Sending(state.failed, state.request)
     /\ RequestGood(moments, state.failed, state.request)
  \/ state.step = "over" /\ RequestGood(moments, state.failed, state.request)

World ==
  /\ clock \in Moment /\ changes \in 0 .. MaxChanges /\ running \in BOOLEAN
  /\ evaluator \in [Evaluators -> Rows]
  /\ rule \in [Rules -> RuleModel]

\* A firing that is under way has lived through the present moment.
Lives(f) ==
  /\ \A s \in during[f] : s.clock \in 0 .. clock
  /\ UnderWay(f) => Now \in during[f]
  /\ FiringGood(during[f], firing[f])

Inv ==
  /\ World /\ DOMAIN firing = Firings /\ DOMAIN during = Firings
  /\ \A f \in Firings : Lives(f)

-----------------------------------------------------------------------------
(* Sequences *)

\* The order of the natural numbers, as the set of its pairs.
Lt == {p \in Nat \X Nat : p[1] < p[2]}

\* No set of natural numbers goes down for ever.
LEMMA LtWF == IsWellFoundedOn(Lt, Nat)
  BY NatLessThanWellFounded DEF OpToRel, Lt

\* Induction, for a set of numbers in place of a property.
LEMMA Induction ==
  ASSUME NEW S, 0 \in S, \A n \in Nat : n \in S => n + 1 \in S
  PROVE  Nat \subseteq S
  <1> DEFINE T == Nat \ S
  <1> SUFFICES ASSUME T # {} PROVE FALSE
    OBVIOUS
  <1>1. T \subseteq Nat
    OBVIOUS
  <1> HIDE DEF T
  <1>2. PICK x \in T : \A y \in T : ~ (<<y, x>> \in Lt)
    BY <1>1, LtWF, WFMin
  <1>3. x \in Nat /\ x \notin S /\ x # 0
    BY DEF T
  <1>4. x - 1 \in Nat /\ <<x - 1, x>> \in Lt
    BY <1>3 DEF Lt
  <1>5. x - 1 \notin T
    BY <1>2, <1>4
  <1>6. QED
    BY <1>3, <1>4, <1>5 DEF T

\* What FlattenSeq defines by recursion, on the first n sequences.
Flattens(g, seqs, n) ==
  g = [i \in 1 .. n |-> IF i = 1 THEN seqs[i] ELSE g[i - 1] \o seqs[i]]

\* The recursion has a solution, for any number of sequences.
LEMMA FlattensExists ==
  ASSUME NEW seqs, NEW n \in Nat
  PROVE  \E g : Flattens(g, seqs, n)
  <1> DEFINE S == {m \in Nat : \E g : Flattens(g, seqs, m)}
  <1>1. 0 \in S
    <2>1. Flattens([i \in 1 .. 0 |-> 0], seqs, 0)
      BY DEF Flattens
    <2>2. QED
      BY <2>1
  <1>2. ASSUME NEW m \in Nat, m \in S PROVE m + 1 \in S
    <2>1. PICK g : Flattens(g, seqs, m)
      BY <1>2
    <2> DEFINE h == [i \in 1 .. m + 1 |->
                       IF i = m + 1 THEN IF i = 1 THEN seqs[i] ELSE g[i - 1] \o seqs[i]
                       ELSE g[i]]
    <2>2. ASSUME NEW i \in 1 .. m + 1
          PROVE  h[i] = IF i = 1 THEN seqs[i] ELSE h[i - 1] \o seqs[i]
      <3>1. i # 1 => i - 1 \in 1 .. m /\ h[i - 1] = g[i - 1]
        OBVIOUS
      <3>2. CASE i = m + 1
        BY <3>1, <3>2
      <3>3. CASE i # m + 1
        <4>1. i \in 1 .. m /\ h[i] = g[i]
          BY <3>3
        <4>2. g[i] = IF i = 1 THEN seqs[i] ELSE g[i - 1] \o seqs[i]
          BY <2>1, <4>1 DEF Flattens
        <4>3. QED
          BY <3>1, <4>1, <4>2
      <3>4. QED
        BY <3>2, <3>3
    <2>3. h = [i \in 1 .. m + 1 |-> h[i]]
      OBVIOUS
    <2> HIDE DEF h
    <2>4. Flattens(h, seqs, m + 1)
      BY <2>2, <2>3 DEF Flattens
    <2>5. QED
      BY <2>4
  <1>3. Nat \subseteq S
    <2> HIDE DEF S
    <2>1. QED
      BY <1>1, <1>2, Induction
  <1>4. QED
    BY <1>3

\* FlattenSeq is the last value of the recursion.
LEMMA FlattenSeqIs ==
  ASSUME NEW seqs, Len(seqs) \in Nat \ {0}
  PROVE  \E g : Flattens(g, seqs, Len(seqs)) /\ FlattenSeq(seqs) = g[Len(seqs)]
  <1> DEFINE G == CHOOSE g : Flattens(g, seqs, Len(seqs))
  <1>1. Flattens(G, seqs, Len(seqs))
    BY FlattensExists
  <1>2. FlattenSeq(seqs) = G[Len(seqs)]
    BY DEF FlattenSeq, Flattens
  <1>3. QED
    BY <1>1, <1>2

\* Two sequences, one after the other, have the elements of both.
LEMMA ConcatElements ==
  ASSUME NEW P, NEW first \in Seq(P), NEW last \in Seq(P)
  PROVE  first \o last \in Seq(P) /\ ToSet(first \o last) = ToSet(first) \cup ToSet(last)
  <1>1. PICK s : s = first \o last
    OBVIOUS
  <1>2. /\ s \in Seq(P) /\ DOMAIN s = 1 .. Len(first) + Len(last)
        /\ DOMAIN first = 1 .. Len(first) /\ DOMAIN last = 1 .. Len(last)
        /\ Len(first) \in Nat /\ Len(last) \in Nat
        /\ \A i \in DOMAIN first : s[i] = first[i]
        /\ \A i \in DOMAIN last : s[Len(first) + i] = last[i]
    BY <1>1
  <1>3. ASSUME NEW i \in DOMAIN s PROVE s[i] \in ToSet(first) \cup ToSet(last)
    <2>1. CASE i \in DOMAIN first
      BY <1>2, <2>1 DEF ToSet
    <2>2. CASE i \notin DOMAIN first
      <3>1. i - Len(first) \in DOMAIN last /\ Len(first) + (i - Len(first)) = i
        BY <1>2, <1>3, <2>2
      <3>2. s[i] = last[i - Len(first)]
        BY <1>2, <3>1
      <3>3. QED
        BY <3>1, <3>2 DEF ToSet
    <2>3. QED
      BY <2>1, <2>2
  <1>4. ASSUME NEW i \in DOMAIN first PROVE first[i] \in ToSet(s)
    <2>1. i \in DOMAIN s /\ s[i] = first[i]
      BY <1>2
    <2>2. QED
      BY <2>1 DEF ToSet
  <1>5. ASSUME NEW i \in DOMAIN last PROVE last[i] \in ToSet(s)
    <2>1. Len(first) + i \in DOMAIN s /\ s[Len(first) + i] = last[i]
      BY <1>2
    <2>2. QED
      BY <2>1 DEF ToSet
  <1>6. ToSet(s) = ToSet(first) \cup ToSet(last)
    BY <1>3, <1>4, <1>5 DEF ToSet
  <1>7. QED
    BY <1>1, <1>2, <1>6

\* Sequences, one after the other, have the elements that one of them has.
LEMMA FlattenElements ==
  ASSUME NEW P, NEW seqs \in Seq(Seq(P))
  PROVE  /\ FlattenSeq(seqs) \in Seq(P)
         /\ ToSet(FlattenSeq(seqs)) = UNION {ToSet(seqs[i]) : i \in DOMAIN seqs}
  <1>1. CASE Len(seqs) = 0
    <2>1. seqs = <<>> /\ FlattenSeq(seqs) = seqs
      BY <1>1 DEF FlattenSeq
    <2>2. DOMAIN seqs = {} /\ seqs \in Seq(P)
      BY <2>1
    <2>3. QED
      BY <2>1, <2>2 DEF ToSet
  <1>2. CASE Len(seqs) # 0
    <2>1. PICK N \in Nat : N = Len(seqs) /\ N # 0 /\ DOMAIN seqs = 1 .. N
      BY <1>2
    <2>2. PICK g : Flattens(g, seqs, N) /\ FlattenSeq(seqs) = g[N]
      BY <2>1, FlattenSeqIs
    <2> DEFINE S == {n \in Nat : n \in 1 .. N =>
                       /\ g[n] \in Seq(P)
                       /\ ToSet(g[n]) = UNION {ToSet(seqs[i]) : i \in 1 .. n}}
    <2>3. 0 \in S
      OBVIOUS
    <2>4. ASSUME NEW n \in Nat, n \in S PROVE n + 1 \in S
      <3>1. SUFFICES ASSUME n + 1 \in 1 .. N
            PROVE  /\ g[n + 1] \in Seq(P)
                   /\ ToSet(g[n + 1]) = UNION {ToSet(seqs[i]) : i \in 1 .. n + 1}
        OBVIOUS
      <3>2. g[n + 1] = IF n = 0 THEN seqs[n + 1] ELSE g[n] \o seqs[n + 1]
        <4>1. PICK m : m = n + 1
          OBVIOUS
        <4>2. m \in 1 .. N /\ m - 1 = n
          BY <3>1, <4>1
        <4>3. g[m] = IF m = 1 THEN seqs[m] ELSE g[m - 1] \o seqs[m]
          BY <2>2, <4>2 DEF Flattens
        <4>4. m = 1 <=> n = 0
          BY <4>1
        <4>5. QED
          BY <4>1, <4>2, <4>3, <4>4
      <3>3. PICK last : last = seqs[n + 1]
        OBVIOUS
      <3>4. last \in Seq(P)
        BY <2>1, <3>1, <3>3
      <3>5. CASE n = 0
        <4>1. g[n + 1] = last /\ 1 .. n + 1 = {n + 1}
          BY <3>2, <3>3, <3>5
        <4>2. QED
          BY <3>3, <3>4, <4>1
      <3>6. CASE n # 0
        <4>1. PICK first : first = g[n]
          OBVIOUS
        <4>2. first \in Seq(P) /\ ToSet(first) = UNION {ToSet(seqs[i]) : i \in 1 .. n}
          BY <2>4, <3>1, <3>6, <4>1
        <4>3. g[n + 1] = first \o last
          BY <3>2, <3>3, <3>6, <4>1
        <4>4. ToSet(first \o last) = ToSet(first) \cup ToSet(last) /\ first \o last \in Seq(P)
          BY <3>4, <4>2, ConcatElements
        <4>5. 1 .. n + 1 = (1 .. n) \cup {n + 1}
          OBVIOUS
        <4>6. QED
          BY <3>3, <4>2, <4>3, <4>4, <4>5
      <3>7. QED
        BY <3>5, <3>6
    <2>5. N \in S
      <3> HIDE DEF S
      <3>1. QED
        BY <2>3, <2>4, Induction
    <2>6. QED
      BY <2>1, <2>2, <2>5
  <1>3. QED
    BY <1>1, <1>2

\* An order of a finite set has its elements, and as many.
LEMMA OrderedIs ==
  ASSUME NEW S, IsFiniteSet(S), NEW order \in Ordered(S)
  PROVE  /\ order \in Seq(S) /\ ToSet(order) = S /\ Len(order) = Cardinality(S)
         /\ DOMAIN order = 1 .. Len(order)
  <1>1. PICK N : N = Cardinality(S)
    OBVIOUS
  <1>2. N \in Nat
    BY <1>1, FS_CardinalityType
  <1>3. order \in [1 .. N -> S] /\ \A i, j \in 1 .. N : i # j => order[i] # order[j]
    BY <1>1 DEF Ordered, SetToSeqs
  <1>4. order \in Injection(1 .. N, S)
    BY <1>3 DEF Injection, IsInjective
  <1>5. Cardinality(1 .. N) = Cardinality(S)
    BY <1>1, <1>2, FS_Interval
  <1>6. order \in Surjection(1 .. N, S)
    BY <1>4, <1>5, FS_Injection
  <1>7. \A x \in S : \E i \in 1 .. N : order[i] = x
    BY <1>6 DEF Surjection
  <1>8. order \in Seq(S) /\ Len(order) = N /\ DOMAIN order = 1 .. N
    BY <1>2, <1>3
  <1>9. ToSet(order) = S
    BY <1>3, <1>7, <1>8 DEF ToSet
  <1>10. QED
    BY <1>1, <1>8, <1>9

-----------------------------------------------------------------------------
(* Jobs *)

\* The inputs of a rule ask for what its JSON does, or under a key of its own.
LEMMA InputsOfKeys ==
  ASSUME NEW r, NEW input \in Inputs
  PROVE  /\ InputsOf(r, input) \in Seq(ToSet(InputsOf(r, input))) /\ InputsOf(r, input) # <<>>
         /\ {i.key : i \in ToSet(InputsOf(r, input))} =
              IF KeysOf(input) = {} THEN {FallbackKey(r)} ELSE KeysOf(input)
  <1>1. PICK values, inputs : values = ValuesOf(input) /\ inputs = RuleInputs(input)
    OBVIOUS
  <1>2. values \in Seq(ToSet(values))
    BY <1>1, InputsAreJson
  <1>3. PICK n \in Nat : n = Len(values) /\ DOMAIN values = 1 .. n
    BY <1>2
  <1>4. /\ DOMAIN inputs = 1 .. n
        /\ \A i \in 1 .. n : inputs[i].key = Text(values[i], "key", "default_key")
        /\ inputs = [i \in 1 .. n |-> inputs[i]]
    BY <1>1, <1>3 DEF RuleInputs, JobInput
  <1>5. KeysOf(input) = {Text(values[i], "key", "default_key") : i \in 1 .. n}
    BY <1>1, <1>3 DEF KeysOf, ToSet
  <1>6. CASE n = 0
    <2>1. inputs = <<>> /\ KeysOf(input) = {}
      BY <1>4, <1>5, <1>6
    <2>2. PICK only : only = JobInput(FallbackKey(r), "transaction", Named("today"))
      OBVIOUS
    <2>3. InputsOf(r, input) = <<only>> /\ only.key = FallbackKey(r)
      BY <1>1, <2>1, <2>2 DEF InputsOf, JobInput
    <2>4. ToSet(<<only>>) = {only} /\ <<only>> \in Seq({only}) /\ <<only>> # <<>>
      BY DEF ToSet
    <2>5. QED
      BY <2>1, <2>3, <2>4
  <1>7. CASE n # 0
    <2>1. \A i \in 1 .. n : inputs[i] \in ToSet(inputs)
      BY <1>4 DEF ToSet
    <2>2. inputs \in [1 .. n -> ToSet(inputs)]
      BY <1>4, <2>1
    <2>3. inputs \in Seq(ToSet(inputs)) /\ Len(inputs) = n
      BY <2>2
    <2>4. inputs # <<>> /\ InputsOf(r, input) = inputs
      BY <1>1, <1>7, <2>3 DEF InputsOf
    <2>5. KeysOf(input) # {}
      <3>1. 1 \in 1 .. n
        BY <1>7
      <3>2. QED
        BY <1>5, <3>1
    <2>6. {i.key : i \in ToSet(inputs)} = KeysOf(input)
      BY <1>4, <1>5 DEF ToSet
    <2>7. QED
      BY <2>3, <2>4, <2>5, <2>6
  <1>8. QED
    BY <1>6, <1>7

\* The job of an evaluator hears every rule that is active, and has an input without any.
LEMMA JobHears ==
  ASSUME World, NEW e \in Evaluators, NEW order \in Ordered(RulesOf(e)), NEW job,
         job = JobOf(e, [i \in DOMAIN order |-> <<order[i], rule[order[i]].input>>])
  PROVE  job.evaluator_id = e /\ job.input # <<>> /\ HeardAt(Now, job)
  <1>1. RulesOf(e) \subseteq Rules /\ IsFiniteSet(RulesOf(e))
    <2>1. RulesOf(e) \in SUBSET Rules
      BY DEF RulesOf
    <2>2. QED
      BY <2>1, SchedulerAssumption, FS_Subset
  <1>2. /\ order \in Seq(RulesOf(e)) /\ ToSet(order) = RulesOf(e) /\ Len(order) \in Nat
        /\ DOMAIN order = 1 .. Len(order)
    <2>1. /\ order \in Seq(RulesOf(e)) /\ ToSet(order) = RulesOf(e)
          /\ DOMAIN order = 1 .. Len(order)
      BY <1>1, OrderedIs
    <2>2. QED
      BY <2>1
  <1>3. PICK n \in Nat : n = Len(order)
    BY <1>2
  <1>4. PICK read : read = [i \in DOMAIN order |-> <<order[i], rule[order[i]].input>>]
    OBVIOUS
  <1>5. PICK each : each = [i \in DOMAIN read |-> InputsOf(read[i][1], read[i][2])]
    OBVIOUS
  <1>6. PICK inputs : inputs = FlattenSeq(each)
    OBVIOUS
  <1>7. job = [evaluator_id |-> e, input |-> IF inputs = <<>> THEN <<Default>> ELSE inputs]
    BY <1>4, <1>5, <1>6 DEF JobOf
  <1>8. /\ DOMAIN each = 1 .. n
        /\ \A i \in 1 .. n : order[i] \in RulesOf(e)
                             /\ each[i] = InputsOf(order[i], rule[order[i]].input)
    BY <1>2, <1>3, <1>4, <1>5
  <1>9. ASSUME NEW i \in 1 .. n
        PROVE  /\ each[i] \in Seq(ToSet(each[i])) /\ each[i] # <<>>
               /\ {x.key : x \in ToSet(each[i])} = KeysAt(Now, order[i])
    <2>1. PICK r : r = order[i]
      OBVIOUS
    <2>2. r \in Rules /\ each[i] = InputsOf(r, rule[r].input)
      BY <1>1, <1>8, <2>1
    <2>3. rule[r].input \in Inputs
      BY <2>2 DEF World, RuleModel
    <2>4. Now.rule = rule
      BY DEF Now
    <2>5. QED
      BY <2>1, <2>2, <2>3, <2>4, InputsOfKeys DEF KeysAt
  <1>10. PICK P : P = UNION {ToSet(each[i]) : i \in 1 .. n}
    OBVIOUS
  <1>11. each \in Seq(Seq(P))
    <2>1. ASSUME NEW i \in 1 .. n PROVE each[i] \in Seq(P)
      <3>1. ToSet(each[i]) \subseteq P
        BY <1>10
      <3>2. QED
        BY <1>9, <3>1
    <2>2. each = [i \in 1 .. n |-> each[i]]
      BY <1>5, <1>8
    <2>3. each \in [1 .. n -> Seq(P)]
      BY <2>1, <2>2
    <2>4. QED
      BY <2>3
  <1>12. inputs \in Seq(P) /\ ToSet(inputs) = P
    BY <1>6, <1>8, <1>10, <1>11, FlattenElements
  <1>13. {r \in Rules : Owner[r] = job.evaluator_id /\ Now.rule[r].active} = RulesOf(e)
    BY <1>7 DEF RulesOf, Now
  <1>14. CASE n = 0
    <2>1. RulesOf(e) = {}
      BY <1>2, <1>3, <1>14 DEF ToSet
    <2>2. inputs = <<>>
      <3>1. P = {}
        BY <1>10, <1>14
      <3>2. QED
        BY <1>12, <3>1
    <2>3. job.input = <<Default>> /\ Default.key = "default"
      BY <1>7, <2>2 DEF Default, JobInput
    <2>4. {job.input[k].key : k \in DOMAIN job.input} = {"default"}
      BY <2>3
    <2>5. HeardAt(Now, job)
      BY <1>13, <2>1, <2>4 DEF HeardAt
    <2>6. QED
      BY <1>7, <2>3, <2>5
  <1>15. CASE n # 0
    <2>1. 1 \in 1 .. n /\ order[1] \in RulesOf(e)
      BY <1>8, <1>15
    <2>2. P # {}
      <3>1. PICK one : one = each[1]
        OBVIOUS
      <3>2. one \in Seq(ToSet(one)) /\ one # <<>>
        BY <1>9, <2>1, <3>1
      <3>3. 1 \in DOMAIN one
        BY <3>2
      <3>4. ToSet(one) # {}
        BY <3>3 DEF ToSet
      <3>5. QED
        BY <1>10, <2>1, <3>1, <3>4
    <2>3. inputs # <<>>
      BY <1>12, <2>2 DEF ToSet
    <2>4. job.input = inputs /\ job.evaluator_id = e
      BY <1>7, <2>3
    <2>5. {job.input[k].key : k \in DOMAIN job.input} = {x.key : x \in P}
      <3>1. {inputs[k].key : k \in DOMAIN inputs} = {x.key : x \in ToSet(inputs)}
        BY DEF ToSet
      <3>2. QED
        BY <1>12, <2>4, <3>1
    <2>6. {x.key : x \in P} = UNION {{x.key : x \in ToSet(each[i])} : i \in 1 .. n}
      BY <1>10
    <2>7. {{x.key : x \in ToSet(each[i])} : i \in 1 .. n} = {KeysAt(Now, order[i]) : i \in 1 .. n}
      BY <1>9
    <2>8. {KeysAt(Now, order[i]) : i \in 1 .. n} = {KeysAt(Now, r) : r \in RulesOf(e)}
      BY <1>2, <1>3 DEF ToSet
    <2>9. HeardAt(Now, job)
      BY <1>13, <2>1, <2>5, <2>6, <2>7, <2>8 DEF HeardAt
    <2>10. QED
      BY <2>3, <2>4, <2>9
  <1>16. QED
    BY <1>14, <1>15

-----------------------------------------------------------------------------
(* The steps of a firing *)

\* A firing that has lived through more knows no less.
LEMMA KnowsMore ==
  ASSUME NEW moments, NEW more, moments \subseteq more, NEW state, FiringGood(moments, state)
  PROVE  FiringGood(more, state)
  <1>1. \A job : JobGood(moments, job) => JobGood(more, job)
    BY DEF JobGood
  <1>2. \A request : OfOneMoment(moments, request) => OfOneMoment(more, request)
    BY DEF OfOneMoment
  <1>3. \A pending, jobs : Reading(moments, pending, jobs) => Reading(more, pending, jobs)
    BY <1>1 DEF Reading
  <1>4. \A failed, request :
          RequestGood(moments, failed, request) => RequestGood(more, failed, request)
    BY <1>1, <1>2 DEF RequestGood
  <1>5. QED
    BY <1>3, <1>4 DEF FiringGood

\* A firing that reads goes on in order when its state fits what it has lived through.
LEMMA Reader ==
  ASSUME Inv, NEW f \in Firings, NEW state, Goes(f, state), Reads, UnderWay(f),
         FiringGood(during[f], state)
  PROVE  Inv'
  <1>1. /\ UNCHANGED <<clock, changes, evaluator, rule, running, during>>
        /\ firing' = [firing EXCEPT ![f] = state]
        /\ DOMAIN firing = Firings /\ Now' = Now
    BY DEF Reads, Goes, Inv, Now
  <1>2. World'
    BY <1>1 DEF Inv, World, Moment, RuleModel
  <1>3. ASSUME NEW g \in Firings PROVE Lives(g)'
    <2>1. Lives(g) /\ Lives(f) /\ during'[g] = during[g]
      BY <1>1 DEF Inv
    <2>2. \A s \in during'[g] : s.clock \in 0 .. clock'
      BY <1>1, <2>1 DEF Lives
    <2>3. CASE g = f
      <3>1. firing'[g] = state /\ Now \in during[f]
        BY <1>1, <2>1, <2>3 DEF Lives
      <3>2. QED
        BY <1>1, <2>2, <2>3, <3>1 DEF Lives
    <2>4. CASE g # f
      <3>1. firing'[g] = firing[g] /\ UnderWay(g)' = UnderWay(g)
        BY <1>1, <2>4 DEF UnderWay
      <3>2. QED
        BY <1>1, <2>1, <2>2, <3>1 DEF Lives
    <2>5. QED
      BY <2>3, <2>4
  <1>4. QED
    BY <1>1, <1>2, <1>3 DEF Inv

\* A firing begins with the present moment.
LEMMA FireStep ==
  ASSUME Inv, NEW f \in Firings, Fire(f)
  PROVE  Inv'
  <1>1. /\ UNCHANGED <<clock, changes, evaluator, rule, running>>
        /\ firing' = [firing EXCEPT ![f] = [step |-> "listing", now |-> clock]]
        /\ during' = [during EXCEPT ![f] = {Now}]
        /\ DOMAIN firing = Firings /\ DOMAIN during = Firings /\ Now' = Now
    BY DEF Fire, Goes, Inv, Now
  <1>2. World'
    BY <1>1 DEF Inv, World, Moment, RuleModel
  <1>3. ASSUME NEW g \in Firings PROVE Lives(g)'
    <2>1. CASE g = f
      <3>1. /\ firing'[g] = [step |-> "listing", now |-> clock] /\ during'[g] = {Now}
            /\ Now.clock = clock
        BY <1>1, <2>1 DEF Now
      <3>2. \A s \in during'[g] : s.clock \in 0 .. clock'
        BY <1>1, <3>1 DEF Inv, World, Moment
      <3>3. FiringGood(during'[g], firing'[g])
        BY <3>1 DEF FiringGood
      <3>4. QED
        BY <1>1, <3>1, <3>2, <3>3 DEF Lives
    <2>2. CASE g # f
      <3>1. firing'[g] = firing[g] /\ during'[g] = during[g] /\ UnderWay(g)' = UnderWay(g)
        BY <1>1, <2>2 DEF UnderWay
      <3>2. QED
        BY <1>1, <3>1 DEF Lives, Inv
    <2>3. QED
      BY <2>1, <2>2
  <1>4. QED
    BY <1>1, <1>2, <1>3 DEF Inv

\* A row is listed when its evaluator is valid by it at that time.
LEMMA ListedIs ==
  ASSUME NEW row \in Rows, NEW time \in Moment
  PROVE  Listed(row, time) <=> ValidAt(row, time)
  <1>1. PICK from, until, active, deleted :
          row = [active |-> active, deleted |-> deleted, from |-> from, until |-> until]
          /\ active \in BOOLEAN /\ deleted \in BOOLEAN /\ from \in Date /\ until \in Date
    BY SchedulerAssumption DEF EvaluatorModel
  <1>2. LastMoment \in Nat /\ time \in 0 .. LastMoment
    BY SchedulerAssumption DEF Moment
  <1>3. (from = Null \/ from <= time) <=> from \in {Null} \cup 0 .. time
    BY <1>1, <1>2 DEF Date, Moment
  <1>4. (until = Null \/ until >= time) <=> until \in {Null} \cup time .. LastMoment
    BY <1>1, <1>2 DEF Date, Moment
  <1>5. Listed(row, time) <=>
          /\ active = TRUE /\ deleted = FALSE
          /\ from = Null \/ from <= time
          /\ until = Null \/ until >= time
    BY <1>1 DEF Listed
  <1>6. ValidAt(row, time) <=>
          /\ active = TRUE /\ deleted = FALSE
          /\ from \in {Null} \cup 0 .. time /\ until \in {Null} \cup time .. LastMoment
    BY <1>1 DEF ValidAt
  <1>7. QED
    BY <1>3, <1>4, <1>5, <1>6

\* A firing that has a request to send.
LEMMA SendingGood ==
  ASSUME NEW moments, NEW failed, NEW request, RequestGood(moments, failed, request)
  PROVE  FiringGood(moments, Sending(failed, request))
  <1>1. PICK state : state = Sending(failed, request)
    OBVIOUS
  <1>2. state.step = "sending" /\ state.failed = failed /\ state.request = request
    BY <1>1 DEF Sending
  <1>3. QED
    BY <1>1, <1>2 DEF FiringGood

\* A firing that has evaluators to read the rules of.
LEMMA RulesGood ==
  ASSUME NEW moments, NEW pending, NEW jobs, Reading(moments, pending, jobs)
  PROVE  FiringGood(moments, [step |-> "rules", pending |-> pending, jobs |-> jobs])
  <1>1. PICK state : state = [step |-> "rules", pending |-> pending, jobs |-> jobs]
    OBVIOUS
  <1>2. state.step = "rules" /\ state.pending = pending /\ state.jobs = jobs
    BY <1>1
  <1>3. QED
    BY <1>1, <1>2 DEF FiringGood

\* A sequence that is not empty has its first element, and those of the rest.
LEMMA HeadAndTail ==
  ASSUME NEW S, NEW s \in Seq(S), s # <<>>
  PROVE  /\ Head(s) \in S /\ Tail(s) \in Seq(S)
         /\ Len(s) \in Nat /\ Len(s) # 0 /\ Len(Tail(s)) = Len(s) - 1
         /\ ToSet(s) = {Head(s)} \cup ToSet(Tail(s))
  <1>1. PICK first, rest : first = Head(s) /\ rest = Tail(s)
    OBVIOUS
  <1>2. /\ Len(s) \in Nat /\ Len(s) # 0 /\ first = s[1] /\ first \in S
        /\ rest \in Seq(S) /\ Len(rest) = Len(s) - 1 /\ DOMAIN s = 1 .. Len(s)
        /\ DOMAIN rest = 1 .. Len(s) - 1 /\ \A i \in DOMAIN rest : rest[i] = s[i + 1]
    BY <1>1
  <1>3. ASSUME NEW i \in DOMAIN s PROVE s[i] \in {first} \cup ToSet(rest)
    <2>1. CASE i = 1
      BY <1>2, <2>1
    <2>2. CASE i # 1
      <3>1. i - 1 \in DOMAIN rest /\ (i - 1) + 1 = i
        BY <1>2, <1>3, <2>2
      <3>2. s[i] = rest[i - 1]
        BY <1>2, <3>1
      <3>3. QED
        BY <3>1, <3>2 DEF ToSet
    <2>3. QED
      BY <2>1, <2>2
  <1>4. ASSUME NEW i \in DOMAIN rest PROVE rest[i] \in ToSet(s)
    <2>1. i + 1 \in DOMAIN s /\ rest[i] = s[i + 1]
      BY <1>2
    <2>2. QED
      BY <2>1 DEF ToSet
  <1>5. first \in ToSet(s)
    <2>1. 1 \in DOMAIN s
      BY <1>2
    <2>2. QED
      BY <1>2, <2>1 DEF ToSet
  <1>6. ToSet(s) = {first} \cup ToSet(rest)
    BY <1>3, <1>4, <1>5 DEF ToSet
  <1>7. QED
    BY <1>1, <1>2, <1>6

\* The fixed jobs are some, each with an input.
LEMMA DemoIs ==
  /\ DemoRequest # <<>>
  /\ \A i \in DOMAIN DemoRequest : DemoRequest[i].input # <<>>
  <1>1. PICK a, b, c, d :
          /\ DemoRequest = <<[evaluator_id |-> 1, input |-> <<a>>],
                             [evaluator_id |-> 12, input |-> <<b>>],
                             [evaluator_id |-> 13, input |-> <<c>>],
                             [evaluator_id |-> 14, input |-> <<d>>]>>
    BY DEF DemoRequest
  <1>2. /\ DOMAIN DemoRequest = 1 .. 4 /\ DemoRequest # <<>>
        /\ DemoRequest[1].input = <<a>> /\ DemoRequest[2].input = <<b>>
        /\ DemoRequest[3].input = <<c>> /\ DemoRequest[4].input = <<d>>
    BY <1>1
  <1>3. \A x : <<x>> # <<>>
    OBVIOUS
  <1>4. ASSUME NEW i \in 1 .. 4 PROVE DemoRequest[i].input # <<>>
    <2>1. i = 1 \/ i = 2 \/ i = 3 \/ i = 4
      OBVIOUS
    <2>2. QED
      BY <1>2, <1>3, <2>1
  <1>5. QED
    BY <1>2, <1>4

\* Without anybody valid the fixed jobs are asked for, or else one for each who is.
LEMMA SelectEvaluatorsStep ==
  ASSUME Inv, NEW f \in Firings, SelectEvaluators(f)
  PROVE  Inv'
  <1>1. firing[f].step = "listing" /\ Lives(f) /\ World /\ Reads
    BY DEF SelectEvaluators, At, Inv
  <1>2. PICK moments : moments = during[f]
    OBVIOUS
  <1>3. UnderWay(f) /\ Now \in moments
    BY <1>1, <1>2 DEF UnderWay, Lives
  <1>4. PICK t \in moments : firing[f] = [step |-> "listing", now |-> t.clock]
    BY <1>1, <1>2 DEF Lives, FiringGood
  <1>5. /\ firing[f].now = t.clock /\ t.clock \in 0 .. clock /\ t.clock \in Moment
        /\ t.clock <= clock
    BY <1>1, <1>2, <1>4, SchedulerAssumption DEF Lives, World, Moment
  <1>6. PICK V : V = {e \in Evaluators : Listed(evaluator[e], t.clock)}
    OBVIOUS
  <1>7. V = ValidIn(Now, t)
    <2>1. \A e \in Evaluators : evaluator[e] \in Rows /\ Now.evaluator[e] = evaluator[e]
      BY <1>1 DEF World, Now
    <2>2. \A e \in Evaluators : Listed(evaluator[e], t.clock) <=> ValidAt(evaluator[e], t.clock)
      BY <1>5, <2>1, ListedIs
    <2>3. QED
      BY <1>6, <2>1, <2>2 DEF ValidIn
  <1>8. PICK order \in Ordered(V) : Goes(f, AfterListing(order))
    BY <1>5, <1>6 DEF SelectEvaluators
  <1>9. IsFiniteSet(V) /\ V \subseteq Evaluators
    <2>1. V \in SUBSET Evaluators
      BY <1>6
    <2>2. QED
      BY <2>1, SchedulerAssumption, FS_Subset
  <1>10. order \in Seq(V) /\ ToSet(order) = V /\ Len(order) = Cardinality(V)
    BY <1>9, OrderedIs
  <1>11. Now.clock = clock
    BY DEF Now
  <1>12. FiringGood(moments, AfterListing(order))
    <2>1. CASE order = <<>>
      <3>1. V = {}
        BY <1>10, <2>1 DEF ToSet
      <3>2. OfOneMoment(moments, DemoRequest)
        BY <1>3, <1>5, <1>7, <1>11, <3>1 DEF OfOneMoment
      <3>3. RequestGood(moments, FALSE, DemoRequest)
        BY <3>2, DemoIs DEF RequestGood
      <3>4. AfterListing(order) = Sending(FALSE, DemoRequest)
        BY <2>1 DEF AfterListing
      <3>5. QED
        BY <3>3, <3>4, SendingGood
    <2>2. CASE order # <<>>
      <3>1. PICK none : none = <<>>
        OBVIOUS
      <3>2. /\ DOMAIN none = {} /\ none \in Seq(ToSet(none)) /\ Len(none) = 0
            /\ Asked(none) = {}
        BY <3>1 DEF Asked
      <3>3. Len(none) + Len(order) = Cardinality(ValidIn(Now, t))
        <4>1. Len(order) \in Nat
          BY <1>10
        <4>2. QED
          BY <1>7, <1>10, <3>2, <4>1
      <3>4. order \in Seq(Evaluators)
        BY <1>9, <1>10
      <3>5. Asked(none) \cup ToSet(order) = ValidIn(Now, t)
        BY <1>7, <1>10, <3>2
      <3>6. Reading(moments, order, none)
        BY <1>3, <1>5, <1>11, <2>2, <3>2, <3>3, <3>4, <3>5 DEF Reading
      <3>7. AfterListing(order) = [step |-> "rules", pending |-> order, jobs |-> none]
        BY <2>2, <3>1 DEF AfterListing
      <3>8. QED
        BY <3>6, <3>7, RulesGood
    <2>3. QED
      BY <2>1, <2>2
  <1>13. QED
    BY <1>1, <1>2, <1>3, <1>8, <1>12, Reader

\* With the rules of the next evaluator its job is added, and the request is complete with
\* the last.
LEMMA SelectRulesStep ==
  ASSUME Inv, NEW f \in Firings, SelectRules(f)
  PROVE  Inv'
  <1>1. firing[f].step = "rules" /\ Lives(f) /\ World /\ Reads
    BY DEF SelectRules, At, Inv
  <1>2. PICK moments, pending, jobs :
          /\ moments = during[f] /\ pending = firing[f].pending /\ jobs = firing[f].jobs
    OBVIOUS
  <1>3. UnderWay(f) /\ Now \in moments
    BY <1>1, <1>2 DEF UnderWay, Lives
  <1>4. /\ firing[f] = [step |-> "rules", pending |-> pending, jobs |-> jobs]
        /\ Reading(moments, pending, jobs)
    BY <1>1, <1>2 DEF Lives, FiringGood, Sending
  <1>5. PICK e, rest : e = Head(pending) /\ rest = Tail(pending)
    OBVIOUS
  <1>6. /\ e \in Evaluators /\ rest \in Seq(Evaluators)
        /\ Len(pending) \in Nat /\ Len(pending) # 0 /\ Len(rest) = Len(pending) - 1
        /\ ToSet(pending) = {e} \cup ToSet(rest)
    BY <1>4, <1>5, HeadAndTail DEF Reading
  <1>7. PICK order \in Ordered(RulesOf(e)) :
          Goes(f, AfterRules(f, JobOf(e, [i \in DOMAIN order |-> <<order[i], rule[order[i]].input>>])))
    BY <1>2, <1>5 DEF SelectRules
  <1>8. PICK job : job = JobOf(e, [i \in DOMAIN order |-> <<order[i], rule[order[i]].input>>])
    OBVIOUS
  <1>9. job.evaluator_id = e /\ JobGood(moments, job)
    BY <1>1, <1>3, <1>6, <1>8, JobHears DEF JobGood
  <1>10. PICK more : more = Append(jobs, job)
    OBVIOUS
  <1>11. /\ jobs \in Seq(ToSet(jobs)) /\ Len(jobs) \in Nat /\ DOMAIN jobs = 1 .. Len(jobs)
    BY <1>4 DEF Reading
  <1>12. /\ DOMAIN more = 1 .. Len(jobs) + 1 /\ Len(more) = Len(jobs) + 1 /\ more # <<>>
         /\ more[Len(jobs) + 1] = job /\ \A i \in DOMAIN jobs : more[i] = jobs[i]
         /\ more = [i \in 1 .. Len(jobs) + 1 |-> more[i]]
    <2>1. PICK S : S = ToSet(jobs) \cup {job}
      OBVIOUS
    <2>2. jobs \in Seq(S) /\ job \in S
      BY <1>11, <2>1
    <2>3. /\ more \in Seq(S) /\ Len(more) = Len(jobs) + 1 /\ more[Len(jobs) + 1] = job
          /\ \A i \in DOMAIN jobs : more[i] = jobs[i]
      BY <1>10, <1>11, <2>2
    <2>4. DOMAIN more = 1 .. Len(jobs) + 1 /\ more # <<>>
      BY <1>11, <2>3
    <2>5. more = [i \in 1 .. Len(jobs) + 1 |-> more[i]]
      BY <2>3, <2>4
    <2>6. QED
      BY <2>3, <2>4, <2>5
  <1>13. more \in Seq(ToSet(more))
    <2>1. more \in [1 .. Len(jobs) + 1 -> ToSet(more)]
      BY <1>12 DEF ToSet
    <2>2. QED
      BY <1>11, <2>1
  <1>14. \A i \in DOMAIN more : JobGood(moments, more[i])
    <2>1. \A i \in DOMAIN jobs : JobGood(moments, jobs[i])
      BY <1>4 DEF Reading
    <2>2. \A i \in DOMAIN more : i \in DOMAIN jobs \/ i = Len(jobs) + 1
      BY <1>11, <1>12
    <2>3. QED
      BY <1>9, <1>12, <2>1, <2>2
  <1>15. Asked(more) = Asked(jobs) \cup {e}
    <2>1. \A i \in DOMAIN more : i \in DOMAIN jobs \/ i = Len(jobs) + 1
      BY <1>11, <1>12
    <2>2. Len(jobs) + 1 \in DOMAIN more /\ DOMAIN jobs \subseteq DOMAIN more
      BY <1>11, <1>12
    <2>3. more[Len(jobs) + 1].evaluator_id = e
      BY <1>9, <1>12
    <2>4. \A i \in DOMAIN jobs : more[i].evaluator_id = jobs[i].evaluator_id
      BY <1>12
    <2>5. QED
      BY <2>1, <2>2, <2>3, <2>4 DEF Asked
  <1>16. PICK s \in moments, t \in moments :
           /\ t.clock <= s.clock
           /\ Asked(jobs) \cup ToSet(pending) = ValidIn(s, t)
           /\ Len(jobs) + Len(pending) = Cardinality(ValidIn(s, t))
    BY <1>4 DEF Reading
  <1>17. FiringGood(moments, AfterRules(f, job))
    <2>1. CASE Len(pending) = 1
      <3>1. AfterRules(f, job) = Sending(FALSE, more)
        BY <1>2, <1>10, <2>1 DEF AfterRules
      <3>2. ToSet(rest) = {}
        BY <1>6, <2>1 DEF ToSet
      <3>3. Asked(more) = ValidIn(s, t) /\ ValidIn(s, t) # {}
        BY <1>6, <1>15, <1>16, <3>2
      <3>4. Len(more) = Cardinality(Asked(more))
        BY <1>11, <1>12, <1>16, <2>1, <3>3
      <3>5. OfOneMoment(moments, more)
        BY <1>16, <3>3, <3>4 DEF OfOneMoment
      <3>6. RequestGood(moments, FALSE, more)
        BY <1>12, <1>14, <3>5 DEF RequestGood, JobGood
      <3>7. QED
        BY <3>1, <3>6, SendingGood
    <2>2. CASE Len(pending) # 1
      <3>1. AfterRules(f, job) = [step |-> "rules", pending |-> rest, jobs |-> more]
        <4>1. AfterRules(f, job) =
                [firing[f] EXCEPT !.pending = Tail(firing[f].pending), !.jobs = more]
          BY <1>2, <1>10, <2>2 DEF AfterRules
        <4>2. PICK state : state = firing[f]
          OBVIOUS
        <4>3. AfterRules(f, job) = [state EXCEPT !.pending = rest, !.jobs = more]
          BY <1>2, <1>5, <4>1, <4>2
        <4>4. state = [step |-> "rules", pending |-> pending, jobs |-> jobs]
          BY <1>4, <4>2
        <4>5. QED
          BY <4>3, <4>4
      <3>2. rest # <<>>
        BY <1>6, <2>2
      <3>3. Asked(more) \cup ToSet(rest) = ValidIn(s, t)
        BY <1>6, <1>15, <1>16
      <3>4. Len(more) + Len(rest) = Cardinality(ValidIn(s, t))
        BY <1>6, <1>11, <1>12, <1>16
      <3>5. Reading(moments, rest, more)
        BY <1>6, <1>13, <1>14, <1>16, <3>2, <3>3, <3>4 DEF Reading
      <3>6. QED
        BY <3>1, <3>5, RulesGood
    <2>3. QED
      BY <2>1, <2>2
  <1>18. QED
    BY <1>1, <1>2, <1>3, <1>7, <1>8, <1>17, Reader

\* When a SELECT fails, nothing that was read is sent.
LEMMA SelectFailsStep ==
  ASSUME Inv, NEW f \in Firings, SelectFails(f)
  PROVE  Inv'
  <1>1. Goes(f, Sending(TRUE, DemoRequest)) /\ Reads /\ UnderWay(f)
    BY DEF SelectFails, AfterFailure, UnderWay, At
  <1>2. RequestGood(during[f], TRUE, DemoRequest)
    BY DemoIs DEF RequestGood
  <1>3. FiringGood(during[f], Sending(TRUE, DemoRequest))
    BY <1>2, SendingGood
  <1>4. QED
    BY <1>1, <1>3, Reader

\* A firing that is over keeps what it sent.
LEMMA SendStep ==
  ASSUME Inv, NEW f \in Firings, Send(f) \/ SendFails(f)
  PROVE  Inv'
  <1>1. At(f, "sending") /\ Reads /\ UnderWay(f) /\ \E sent \in BOOLEAN : Goes(f, Over(f, sent))
    BY DEF Send, SendFails, UnderWay, At
  <1>2. PICK sent \in BOOLEAN : Goes(f, Over(f, sent))
    BY <1>1
  <1>3. PICK before, state, moments :
          before = firing[f] /\ state = Over(f, sent) /\ moments = during[f]
    OBVIOUS
  <1>4. PICK failed, request : failed = before.failed /\ request = before.request
    OBVIOUS
  <1>5. before = Sending(failed, request) /\ RequestGood(moments, failed, request)
    BY <1>1, <1>3, <1>4 DEF Inv, Lives, FiringGood, At
  <1>6. state.step = "over" /\ state.failed = failed /\ state.request = request
    BY <1>3, <1>4 DEF Over
  <1>7. FiringGood(moments, state)
    BY <1>5, <1>6 DEF FiringGood
  <1>8. QED
    BY <1>1, <1>2, <1>3, <1>7, Reader

-----------------------------------------------------------------------------
(* The steps of others *)

\* The firings that are under way live through what the tables become.
LEMMA Watched ==
  ASSUME Inv, World', UNCHANGED firing, Witnessed, clock' \in Nat, clock <= clock'
  PROVE  Inv'
  <1>1. /\ DOMAIN firing' = Firings /\ DOMAIN during' = Firings /\ clock \in Nat
        /\ Now'.clock = clock'
    BY SchedulerAssumption DEF Inv, Witnessed, World, Moment, Now
  <1>2. ASSUME NEW f \in Firings PROVE Lives(f)'
    <2>1. Lives(f) /\ firing'[f] = firing[f] /\ UnderWay(f)' = UnderWay(f)
      BY DEF Inv, UnderWay
    <2>2. /\ during[f] \subseteq during'[f] /\ during'[f] \subseteq during[f] \cup {Now'}
          /\ UnderWay(f) => Now' \in during'[f]
      BY DEF Witnessed
    <2>3. \A s \in during'[f] : s.clock \in 0 .. clock'
      BY <1>1, <2>1, <2>2 DEF Lives
    <2>4. FiringGood(during'[f], firing'[f])
      BY <2>1, <2>2, KnowsMore DEF Lives
    <2>5. QED
      BY <2>1, <2>2, <2>3, <2>4 DEF Lives
  <1>3. QED
    BY <1>1, <1>2 DEF Inv

\* The tables change.
LEMMA ChangeStep ==
  ASSUME Inv,
         \/ \E e \in Evaluators, row \in Rows : ChangeEvaluator(e, row)
         \/ \E r \in Rules, active \in BOOLEAN, input \in Inputs : ChangeRule(r, active, input)
  PROVE  Inv'
  <1>1. /\ UNCHANGED <<clock, running, firing>> /\ Witnessed /\ World
        /\ changes < MaxChanges /\ changes' = changes + 1
    BY DEF ChangeEvaluator, ChangeRule, Changes, Inv
  <1>2. changes' \in 0 .. MaxChanges /\ clock' \in Nat /\ clock <= clock'
    BY <1>1, SchedulerAssumption DEF World, Moment
  <1>3. evaluator' \in [Evaluators -> Rows] /\ rule' \in [Rules -> RuleModel]
    <2>1. CASE \E e \in Evaluators, row \in Rows : ChangeEvaluator(e, row)
      BY <1>1, <2>1 DEF ChangeEvaluator, World
    <2>2. CASE \E r \in Rules, active \in BOOLEAN, input \in Inputs :
                 ChangeRule(r, active, input)
      <3>1. PICK r \in Rules, active \in BOOLEAN, input \in Inputs :
              ChangeRule(r, active, input)
        BY <2>2
      <3>2. [active |-> active, input |-> input] \in RuleModel
        BY DEF RuleModel
      <3>3. QED
        BY <1>1, <3>1, <3>2 DEF ChangeRule, World
    <2>3. QED
      BY <2>1, <2>2
  <1>4. World'
    BY <1>1, <1>2, <1>3 DEF World, Moment, RuleModel
  <1>5. QED
    BY <1>1, <1>2, <1>4, Watched

\* Time goes on.
LEMMA TickStep ==
  ASSUME Inv, Tick
  PROVE  Inv'
  <1>1. /\ UNCHANGED <<changes, evaluator, rule, running, firing>> /\ Witnessed /\ World
        /\ clock < LastMoment /\ clock' = clock + 1
    BY DEF Tick, Inv
  <1>2. clock' \in 0 .. LastMoment /\ clock' \in Nat /\ clock <= clock'
    BY <1>1, SchedulerAssumption DEF World, Moment
  <1>3. World'
    BY <1>1, <1>2 DEF World, Moment, RuleModel
  <1>4. QED
    BY <1>1, <1>2, <1>3, Watched

\* The process ends, and what was under way is dropped.
LEMMA ExitStep ==
  ASSUME Inv, Exit
  PROVE  Inv'
  <1>1. /\ UNCHANGED <<clock, changes, evaluator, rule, during>> /\ running' = FALSE /\ World
        /\ firing' = [f \in Firings |-> IF At(f, "over") THEN firing[f] ELSE [step |-> "dropped"]]
        /\ DOMAIN during = Firings
    BY DEF Exit, Inv
  <1>2. World'
    BY <1>1 DEF World, Moment, RuleModel
  <1>3. ASSUME NEW f \in Firings PROVE Lives(f)'
    <2>1. Lives(f) /\ during'[f] = during[f]
      BY <1>1 DEF Inv
    <2>2. CASE At(f, "over")
      <3>1. firing'[f] = firing[f] /\ firing[f].step = "over"
        BY <1>1, <2>2 DEF At
      <3>2. QED
        BY <1>1, <2>1, <3>1 DEF Lives, UnderWay
    <2>3. CASE ~ At(f, "over")
      <3>1. firing'[f].step = "dropped"
        BY <1>1, <2>3
      <3>2. QED
        BY <1>1, <2>1, <3>1 DEF Lives, UnderWay, FiringGood
    <2>4. QED
      BY <2>2, <2>3
  <1>4. QED
    BY <1>1, <1>2, <1>3 DEF Inv

-----------------------------------------------------------------------------
(* The theorems *)

\* The scheduler starts with tables of the right columns and no firing.
LEMMA InvInit == Init => Inv
  <1>1. SUFFICES ASSUME Init PROVE Inv
    OBVIOUS
  <1>2. World
    BY <1>1, SchedulerAssumption DEF Init, World, Moment
  <1>3. ASSUME NEW f \in Firings PROVE Lives(f)
    BY <1>1 DEF Init, Lives, UnderWay, FiringGood, Idle
  <1>4. QED
    BY <1>1, <1>2, <1>3 DEF Init, Inv

\* Every step preserves the invariant.
LEMMA InvStep == Inv /\ [Next]_vars => Inv'
  <1>1. SUFFICES ASSUME Inv, [Next]_vars PROVE Inv'
    OBVIOUS
  <1>2. ASSUME NEW f \in Firings, Step(f) PROVE Inv'
    BY <1>1, <1>2, FireStep, SelectEvaluatorsStep, SelectRulesStep, SelectFailsStep, SendStep
       DEF Step
  <1>3. CASE \/ \E e \in Evaluators, row \in Rows : ChangeEvaluator(e, row)
             \/ \E r \in Rules, active \in BOOLEAN, input \in Inputs :
                  ChangeRule(r, active, input)
    BY <1>1, <1>3, ChangeStep
  <1>4. CASE Exit
    BY <1>1, <1>4, ExitStep
  <1>5. CASE Tick
    BY <1>1, <1>5, TickStep
  <1>6. CASE UNCHANGED vars
    BY <1>1, <1>6 DEF vars, Inv, World, Lives, UnderWay, Now, Moment, RuleModel
  <1>7. QED
    BY <1>1, <1>2, <1>3, <1>4, <1>5, <1>6 DEF Next

\* The invariant holds of every behaviour.
LEMMA InvAlways == Spec => []Inv
  BY InvInit, InvStep, PTL DEF Spec

\* What a firing with a request knows.
LEMMA RequestKnown ==
  ASSUME Inv, NEW f \in Firings, HasRequest(f)
  PROVE  RequestGood(during[f], firing[f].failed, firing[f].request)
  BY DEF Inv, Lives, FiringGood, HasRequest

\* A firing that reads rules has an evaluator to read them of, and a request that is sent
\* has jobs, and every job an input.
THEOREM TypeCorrect == Spec => []TypeOK
  <1>1. ASSUME Inv PROVE TypeOK
    <2>1. ASSUME NEW f \in Firings
          PROVE  /\ firing[f].step \in {"idle", "listing", "rules", "sending", "over", "dropped"}
                 /\ At(f, "listing") => firing[f].now \in 0 .. clock
                 /\ At(f, "rules") => firing[f].pending # <<>>
                 /\ HasRequest(f) =>
                      /\ firing[f].request # <<>>
                      /\ \A i \in DOMAIN firing[f].request : firing[f].request[i].input # <<>>
      <3>1. Lives(f)
        BY <1>1 DEF Inv
      <3>2. firing[f].step \in {"idle", "listing", "rules", "sending", "over", "dropped"}
        BY <3>1 DEF Lives, FiringGood
      <3>3. ASSUME At(f, "listing") PROVE firing[f].now \in 0 .. clock
        <4>1. PICK t \in during[f] : firing[f] = [step |-> "listing", now |-> t.clock]
          BY <3>1, <3>3 DEF Lives, FiringGood, At
        <4>2. firing[f].now = t.clock
          BY <4>1
        <4>3. QED
          BY <3>1, <4>2 DEF Lives
      <3>4. At(f, "rules") => firing[f].pending # <<>>
        BY <3>1 DEF Lives, FiringGood, At, Reading
      <3>5. ASSUME HasRequest(f)
            PROVE  /\ firing[f].request # <<>>
                   /\ \A i \in DOMAIN firing[f].request : firing[f].request[i].input # <<>>
        BY <1>1, <3>5, RequestKnown DEF RequestGood
      <3>6. QED
        BY <3>2, <3>3, <3>4, <3>5
    <2>2. QED
      BY <1>1, <2>1 DEF TypeOK, Inv, World
  <1>2. QED
    BY <1>1, InvAlways, PTL

\* The evaluators of a request are those that were valid together at one moment of the
\* firing, each once; the fixed jobs are asked for when there was none, or a SELECT failed.
THEOREM OneMomentCorrect == Spec => []EvaluatorsOfOneMoment
  <1>1. ASSUME Inv PROVE EvaluatorsOfOneMoment
    <2>1. ASSUME NEW f \in Firings, HasRequest(f), ~ firing[f].failed
          PROVE  OfOneMoment(during[f], firing[f].request)
      BY <1>1, <2>1, RequestKnown DEF RequestGood
    <2>2. QED
      BY <2>1 DEF EvaluatorsOfOneMoment, OfOneMoment, ValidIn, Asked
  <1>2. QED
    BY <1>1, InvAlways, PTL

\* The job of an evaluator has every rule that was active at one moment of the firing, one
\* that cannot be read under a key of its own, and nothing of the others.
THEOREM RulesHeard == Spec => []JobsHearEveryRule
  <1>1. ASSUME Inv PROVE JobsHearEveryRule
    <2>1. ASSUME NEW f \in Firings, HasRequest(f), firing[f].request # DemoRequest,
                 NEW i \in DOMAIN firing[f].request
          PROVE  JobGood(during[f], firing[f].request[i])
      BY <1>1, <2>1, RequestKnown DEF RequestGood
    <2>2. QED
      BY <2>1 DEF JobsHearEveryRule, JobGood, HeardAt, KeysAt
  <1>2. QED
    BY <1>1, InvAlways, PTL
=============================================================================
