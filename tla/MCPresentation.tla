--------------------------- MODULE MCPresentation ---------------------------
(* Model-checking instance of Presentation: requests and benefits. *)
EXTENDS Presentation, TLC

\* One customer, asked for with and without an evaluator.
MCRequests ==
  {[customer |-> 1, evaluator |-> 1], [customer |-> 1, evaluator |-> NoEvaluator]}

MCGrants == {[customer |-> 1, evaluator |-> 1]}

\* The defaults in the small.
MCEnv == [BENEFIT_CACHE_TTL_MS |-> 1, EVALUATOR_CACHE_TTL_MS |-> 1, API_TIMEOUT_MS |-> 1]

\* Answers no property is about.
Failed == answer.step = "over" /\ answer.reply \in {"timeout", "internal"}

\* An entry that has expired is as good as evicted, and no property looks further
\* back than the two ages.
View ==
  <<now, benefit, valid, changes, Evicted(benefitCache), Evicted(validityCache), call,
    IF Failed THEN NoAnswer ELSE answer, {s \in seen : s.at >= now - ListAge - VerdictAge}>>

\* Sound: calls differ in nothing, and no property is temporal.
Symmetry == Permutations(Calls)
=============================================================================
