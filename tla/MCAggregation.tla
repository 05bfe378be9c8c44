--------------------------- MODULE MCAggregation ---------------------------
(* Model-checking instance of Aggregation: numbers of four bits, two customers, *)
(* days 1 to 3 of which 2 is today.                                             *)
EXTENDS Aggregation

MCNumeric ==
  [k \in {"1", "2", "header", "unknown"} |->
     CASE k = "1" -> 1 [] k = "2" -> 2 [] OTHER -> 0]

At(day) == [form |-> "date", day |-> day, shift |-> 0]
Nowhere == [form |-> "empty", day |-> 0, shift |-> 0]
Between(from, to) == [type |-> "between", value |-> "", start |-> from, end |-> to]
Named(value) == [type |-> "named", value |-> value, start |-> Nowhere, end |-> Nowhere]

\* Two days, also the wrong way round and with an offset; a text that is no time;
\* today; yesterday; the customers; an entity without application; none.
MCRequests ==
  {[entity |-> "transaction", range |-> r] :
     r \in {Between(At(1), At(2)),
            Between([form |-> "rfc3339", day |-> 3, shift |-> -1], At(1)),
            Between(At(1), Nowhere), Named("yesterday")}}
  \cup {[entity |-> e, range |-> Named("today")] : e \in {"customer", "merchant", ""}}

Tx(id, ref, amount) == [columns |-> 6, id |-> id, ref |-> ref, amount |-> amount]
Short(id) == [columns |-> 3, id |-> id, ref |-> "", amount |-> -1]
Blank == [columns |-> 0, id |-> "", ref |-> "", amount |-> -1]
File(lines) == [utf8 |-> TRUE, lines |-> lines]

\* A header, a blank line, amounts that overflow with each other or are none.
Contents ==
  {File(<<Tx("header", "header", -1), Tx("1", "2", 3), Tx("2", "1", 7)>>),
   File(<<Tx("1", "", 5), Blank, Tx("2", "1", 7)>>),
   File(<<Short("1"), Tx("1", "1", 99), Tx("1", "2", 15)>>),
   [utf8 |-> FALSE, lines |-> <<Tx("1", "1", 4)>>]}

Customers == File(<<Short("header"), Short("1"), Short("2")>>)

Day(d) == Path("transaction", "transaction", d)
Others == [p \in {Path("customer", "customer", 0), Path("merchant", "merchant", 0)} |->
             IF p.dir = "customer" THEN Customers ELSE File(<<Tx("1", "2", 3), Short("2")>>)]

MCDisks ==
  {Others @@ f : f \in UNION {[{Day(d) : d \in ds} -> Contents] : ds \in SUBSET {1, 2}}}

MCHashes ==
  {[k \in DOMAIN MCNumeric \cup {""} |->
      CASE k = "1" -> a [] k = "2" -> b [] OTHER -> 0] : a \in {0, 1}, b \in {0, 1}}

Nothing == [r \in 0 .. 1 |-> Absent]
Old(key) == Pair(key, Sums(2, 1))

\* Nothing, an output of the job with this id of an earlier run, or an output of
\* an earlier version, as lines.
MCLeftovers ==
  {[primary |-> Nothing, flat |-> Nothing],
   [primary |-> [Nothing EXCEPT ![0] = Binary(Written(<<Old("1"), Old("2")>>))], flat |-> Nothing],
   [primary |-> Nothing, flat |-> [Nothing EXCEPT ![1] = ProcessOutput(<<Old("2")>>)]]}
=============================================================================
