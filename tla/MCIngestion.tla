---------------------------- MODULE MCIngestion ----------------------------
(* Model-checking instance of Ingestion: the requests. *)
EXTENDS Ingestion

CONSTANTS c1, c2

\* One job of two inputs; a job in each of the two fields; a job without inputs;
\* and no job at all.
Varied ==
  {[job |-> <<<<"today", "fixed">>>>, jobs |-> <<>>],
   [job |-> <<<<"today">>>>, jobs |-> <<<<"fixed">>>>],
   [job |-> <<>>, jobs |-> <<<<>>>>],
   [job |-> <<>>, jobs |-> <<>>]}

\* What the scheduler asks for.
Simple == {[job |-> <<<<"fixed">>>>, jobs |-> <<>>]}

MCRequests == [c \in Calls |-> IF c = c1 THEN Varied ELSE Simple]
=============================================================================
