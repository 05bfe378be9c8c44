---------------------------- MODULE MCScheduler ----------------------------
(* Model-checking instance of Scheduler: two evaluators, one with two rules. *)
EXTENDS Scheduler

MCOwner == [r \in {1, 2, 3} |-> IF r = 3 THEN 12 ELSE 7]

Row(active, deleted, from, until) ==
  [active |-> active, deleted |-> deleted, from |-> from, until |-> until]

Valid == Row(TRUE, FALSE, Null, Null)

MCRows ==
  {Valid, Row(FALSE, FALSE, Null, Null), Row(TRUE, TRUE, 0, Null),
   Row(TRUE, FALSE, 1, Null), Row(TRUE, FALSE, Null, 0)}

Array(items) == [kind |-> "array", items |-> items]
Object(fields) == [kind |-> "object", fields |-> fields]

\* One value; an array with a key that is no string and a range under the other
\* name; values that are wrapped; a key next to `inputs` that are no array; none of the
\* shapes.
MCInputs ==
  {Object([key |-> "a", entity |-> "customer", time_range |-> [type |-> "named"]]),
   Array(<<[key |-> NotText,
            timeRange |-> [type |-> "between", start |-> "2026-09-01", end |-> NotText]],
           [key |-> "b"]>>),
   Object([inputs |-> Array(<<[key |-> "c", entity |-> NotText]>>)]),
   Object([key |-> "d", inputs |-> [kind |-> "other"]]),
   [kind |-> "other"]}

Plain == Object([key |-> "d", inputs |-> [kind |-> "other"]])

Rule(active, input) == [active |-> active, input |-> input]

\* Any row with one input, and any input with one row.
MCTables ==
  {[evaluator |-> [e \in {7, 12} |-> IF e = 7 THEN p[1] ELSE Valid],
    rule |-> [r \in {1, 2, 3} |-> CASE r = 1 -> Rule(TRUE, p[2])
                                    [] r = 2 -> Rule(FALSE, [kind |-> "other"])
                                    [] OTHER -> Rule(TRUE, Plain)]] :
     p \in (MCRows \X {Plain}) \cup ({Valid} \X MCInputs)}
=============================================================================
