---------------------------- MODULE MCEvaluator ----------------------------
(* Model-checking instance of Evaluator: the requests. *)
EXTENDS Evaluator

Request(e, c, t, j) == [evaluator |-> e, customer |-> c, transaction |-> t, job |-> j]

\* One customer: two jobs of evaluator 1, one of evaluator 2.
OneCustomer ==
  {Request(1, 1, TRUE, 1), Request(1, 1, TRUE, 2), Request(2, 1, TRUE, 1)}

\* The requests that are refused or credit nobody, or customer 0.
Odd ==
  {Request(0, 1, TRUE, 1), Request(1, 0, TRUE, 1),
   Request(1, NoCustomer, FALSE, 1), Request(1, NoCustomer, TRUE, 1)}

MCRequests == OneCustomer \cup Odd
=============================================================================
