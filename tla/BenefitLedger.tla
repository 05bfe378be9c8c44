--------------------------- MODULE BenefitLedger ---------------------------
(***************************************************************************)
(* What the evaluator promises with calls, timeouts, rows and files left   *)
(* out: an evaluator grants a customer one outcome a day.  The first one   *)
(* counts, it is never changed and never withdrawn.                        *)
(***************************************************************************)
CONSTANTS Evaluator, Customer, Day, Outcome

VARIABLE granted    \* the outcomes granted

Grant(e, c, d, v) ==
  /\ \A g \in granted : <<g.evaluator, g.customer, g.day>> # <<e, c, d>>
  /\ granted' = granted \cup
       {[evaluator |-> e, customer |-> c, day |-> d, value |-> v]}

Init == granted = {}

Next ==
  \E e \in Evaluator, c \in Customer, d \in Day, v \in Outcome : Grant(e, c, d, v)

Spec == Init /\ [][Next]_granted
=============================================================================
