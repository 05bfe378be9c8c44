---------------------------- MODULE Aggregation ----------------------------
(***************************************************************************)
(* The data path of one coordinator job: from the time range of its input  *)
(* over file names, the lines of the files, the map functions, the         *)
(* partitions, the reduce functions and the files mr-out-<t> to what the   *)
(* completion handler sends to the evaluator.  MapReduce has the control   *)
(* of the same tasks and leaves the data out.                              *)
(*                                                                         *)
(* A task is executed once, in any order that has the maps before the      *)
(* reduces; executions of one task compute the same.  What may go wrong is *)
(* in Faults: "map" (a map fails to read its file), "lose" (the worker     *)
(* that holds a map output dies), "create" (the output of a reduce cannot  *)
(* be created), "flush" (only a part of it is in the file when the handler *)
(* reads: write_all of tokio returns before the bytes are written).        *)
(*                                                                         *)
(* Times are days in UTC.  A line is the number of its columns, of which   *)
(* splitn(6) makes six at most, its first two and its amount; an amount    *)
(* that is no number is -1.  Sums wrap at Modulus, as additions of a       *)
(* release build do.  The counts of debit and credit are left out: the     *)
(* handler does not look at them.                                          *)
(***************************************************************************)
EXTENDS Integers, FiniteSets, SequencesExt

CONSTANTS
  Modulus,       \* of the unsigned numbers, 2^64 in the code
  NReduce,       \* reduce tasks of a job
  Numeric,       \* what each key reads as an i64, 0 if it is no number
  TextAsNumber,  \* what eight characters of a line read as a number
  Today,
  Requests,      \* the inputs a job may have: an entity and a time range
  Disks,         \* the directories the workers may find
  Hashes,        \* what ihash(key) % n_reduce may be
  Leftovers,     \* what earlier runs may have left in the output directory
  Faults

Keys == DOMAIN Numeric
Number == 0 .. Modulus - 1
Reduces == 0 .. NReduce - 1

\* The first, the second and the fourth column of a line.
Line == [columns : 0 .. 6, id : Keys \cup {""}, ref : Keys \cup {""}, amount : Int]

Path(dir, base, day) == [dir |-> dir, base |-> base, day |-> day]

\* What is in a file of data/, and its name in the directory of its entity.
IsContent(c) == c.utf8 \in BOOLEAN /\ c.lines \in Seq(Line)
IsPath(p) == p = Path(p.base, p.base, p.day)

\* A line of customer.txt is an id, a name and an account number.
IsCustomers(c) == \A i \in DOMAIN c.lines : c.lines[i].columns < 6

\* A key and its value, on the wire and in a file of outputs.
Value == [wide : BOOLEAN, sum : Number, count : Number]
Pairs == [key : Keys \cup {""}, value : Value]
Chunk == [text : Keys \cup {""}, value : Value]
Absent == [exists |-> FALSE, chunks |-> <<>>, text |-> <<>>]
OutputFile == {Absent} \cup [exists : {TRUE}, chunks : Seq(Chunk), text : Seq(Pairs)]

ASSUME AggregationAssumption ==
  /\ Modulus \in Nat \ {0} /\ Modulus % 2 = 0 /\ NReduce \in Nat \ {0}
  /\ Numeric \in [Keys -> Int] /\ "" \notin Keys
  /\ "unknown" \in Keys /\ Numeric["unknown"] = 0
  /\ TextAsNumber \in Number /\ Today \in Int
  /\ Hashes \subseteq [Keys \cup {""} -> Reduces]
  /\ \A q \in Requests : \A text \in {q.range.start, q.range.end} :
       text.day \in Int /\ text.shift \in Int
  /\ \A d \in Disks : \A p \in DOMAIN d :
       IsPath(p) /\ IsContent(d[p]) /\ (p.base = "customer" => IsCustomers(d[p]))
  /\ Leftovers \subseteq [primary : [Reduces -> OutputFile], flat : [Reduces -> OutputFile]]
  /\ Faults \subseteq {"map", "lose", "create", "flush"}

VARIABLES
  request,    \* the entity and the time range of the job
  disk,       \* the input files, by path
  hash,       \* the reduce task of every key
  held,       \* what each map task has produced at its worker
  primary,    \* <output_dir>/<job_id>/mr-out-<t>
  flat,       \* <output_dir>/mr-out-<t>
  reduced,    \* what became of each reduce task
  evaluated   \* what the evaluator's rules are given, by the key of the customer

vars == <<request, disk, hash, held, primary, flat, reduced, evaluated>>

-----------------------------------------------------------------------------
(* Numbers *)

\* u64 additions of a release build.
Unsigned(n) == n % Modulus

\* Mutation: the sums are sent as they are.
SignedNot(n) == n

\* `as i64`
Signed(n) == IF n < Modulus \div 2 THEN n ELSE n - Modulus

\* `parse::<u64>().unwrap_or(0)`
ParseAmount(n) == IF n \in Number THEN n ELSE 0

-----------------------------------------------------------------------------
(* File names *)

\* A text of a time has a day and, with an offset, a shift of it to UTC; a set
\* stands for an option.
ParseDatetime(text) ==
  CASE text.form = "rfc3339" -> {text.day + text.shift}
    [] text.form \in {"naive", "date"} -> {text.day}
    [] OTHER -> {}

\* The days from the first to the second component, which are in order.
ResolveTimeRange(r) ==
  LET ends == {ParseDatetime(r.start), ParseDatetime(r.end)}
      days == UNION ends
  IN CASE r.type = "between" /\ {} \notin ends -> <<Min(days), Max(days)>>
       [] r.type = "named" /\ r.value = "yesterday" -> <<Today - 1, Today - 1>>
       [] OTHER -> <<Today, Today>>

\* Mutation: the last day is left out.
FilenamesForEntityExclusive(entity, first, last) ==
  IF entity = "transaction"
    THEN [i \in 1 .. last - first |-> <<"transaction", first + i - 1>>]
    ELSE <<<<IF entity = "" THEN "customer" ELSE entity, 0>>>>

\* One file a day, the last day included; one file for any other entity.
FilenamesForEntity(entity, first, last) ==
  IF entity = "transaction"
    THEN [i \in 1 .. last - first + 1 |-> <<"transaction", first + i - 1>>]
    ELSE <<<<IF entity = "" THEN "customer" ELSE entity, 0>>>>

\* The files of the SubmitJob, "data/<entity>/<name>".
Files(q) ==
  LET days  == ResolveTimeRange(q.range)
      names == FilenamesForEntity(q.entity, days[1], days[2])
  IN [i \in DOMAIN names |-> Path(q.entity, names[i][1], names[i][2])]

\* The first of these paths that exists, as a set of at most one.
Find(d, paths) ==
  LET found == {i \in DOMAIN paths : paths[i] \in DOMAIN d}
  IN IF found = {} THEN {} ELSE {d[paths[Min(found)]]}

\* `map` looks in data/transaction and data/customer too,
FoundByWorker(d, path) ==
  Find(d, <<path, [path EXCEPT !.dir = "transaction"], [path EXCEPT !.dir = "customer"]>>)

\* read_transaction_file_fallback in data/transaction, for what is UTF-8.
FoundByHandler(d, path) ==
  {c \in Find(d, <<path, [path EXCEPT !.dir = "transaction"]>>) : c.utf8}

-----------------------------------------------------------------------------
(* Keys, values and the wire format *)

\* The elements of a sequence with these indices, in their order.
Keep(s, indices) ==
  LET kept[n \in 0 .. Len(s)] ==
        IF n = 0 THEN <<>>
        ELSE IF n \in indices THEN Append(kept[n - 1], s[n]) ELSE kept[n - 1]
  IN kept[Len(s)]

Pair(key, value) == [key |-> key, value |-> value]

\* A value of 32 bytes.
Sums(sum, count) == [wide |-> TRUE, sum |-> sum, count |-> count]

\* A line as a value.  A transaction has more than 32 bytes, a malformed line and
\* what a few of them join to has less.
TextValue(line) ==
  [wide |-> line.columns = 6, sum |-> TextAsNumber, count |-> TextAsNumber]

\* Trimmed lines that are not empty.
Text(content) ==
  Keep(content.lines, {i \in DOMAIN content.lines : content.lines[i].columns > 0})

\* parse_transaction_line
IsTransaction(line) == line.columns = 6

Customer(line) == IF line.ref # "" THEN line.ref ELSE line.id

LineKey(line) == IF IsTransaction(line) THEN Customer(line) ELSE "unknown"

KeyChunk(key) == [text |-> key, value |-> Sums(0, 0)]
ValueChunk(value) == [text |-> "", value |-> value]

\* LengthDelimitedWriter: a chunk is sent with its length before it.
Written(pairs) ==
  [i \in 1 .. 2 * Len(pairs) |->
     IF i % 2 = 1 THEN KeyChunk(pairs[(i + 1) \div 2].key) ELSE ValueChunk(pairs[i \div 2].value)]

\* LengthDelimitedReader, two chunks at a time, and the loop of
\* decode_reduce_bytes: what is cut off is dropped.
ReadPairs(chunks) ==
  [i \in 1 .. Len(chunks) \div 2 |-> Pair(chunks[2 * i - 1].text, chunks[2 * i].value)]

\* Values of less than 32 bytes are skipped.
Wide(pairs) == Keep(pairs, {i \in DOMAIN pairs : pairs[i].value.wide})

DecodeReduceBytes(chunks) == Wide(ReadPairs(chunks))

-----------------------------------------------------------------------------
(* Applications: map and reduce functions *)

\* transaction_summary::map
SummaryMap(content) ==
  [i \in DOMAIN Text(content) |->
     LET l == Text(content)[i]
     IN Pair(LineKey(l), Sums(IF IsTransaction(l) THEN ParseAmount(l.amount) ELSE 0, 1))]

\* customer_map_fn: the first column, which is not empty.
CustomerMap(content) ==
  LET lines == Keep(Text(content), {i \in DOMAIN Text(content) : Text(content)[i].id # ""})
  IN [i \in DOMAIN lines |-> Pair(lines[i].id, Sums(0, 1))]

\* transaction_map_fn: the line itself.
LineMap(content) ==
  [i \in DOMAIN Text(content) |->
     Pair(LineKey(Text(content)[i]), TextValue(Text(content)[i]))]

\* transaction_summary::reduce, of the values with these indices.  A value of less
\* than 32 bytes counts as one.
SummaryReduce(pairs, group) ==
  LET part(short, field) ==
        [i \in group |-> IF pairs[i].value.wide THEN pairs[i].value[field] ELSE short]
  IN Sums(Unsigned(SumFunction(part(0, "sum"))), Unsigned(SumFunction(part(1, "count"))))

\* dummy_reduce joins the values.
DummyReduce(pairs, group) ==
  [pairs[Min(group)].value EXCEPT !.wide = \E i \in group : pairs[i].value.wide]

\* handle_task: a task without an entity is one of transactions.
App(q) == IF q.entity = "" THEN "transaction" ELSE q.entity

\* get_app, with what handle_task takes when there is none.
MapFn(app, content) ==
  CASE app = "transaction" -> SummaryMap(content)
    [] app = "customer" -> CustomerMap(content)
    [] OTHER -> LineMap(content)

ReduceFn(app, pairs, group) ==
  IF app \in {"transaction", "customer"} THEN SummaryReduce(pairs, group)
  ELSE DummyReduce(pairs, group)

\* String::from_utf8 against from_utf8_lossy.
Accepts(app, content) == app = "transaction" => content.utf8

-----------------------------------------------------------------------------
(* Tasks *)

\* A map task without an output, and one that was not executed.
NoOutput == [ok |-> FALSE, parts |-> <<>>]
ToDo == [ok |-> FALSE, parts |-> <<"todo">>]

\* One writer for every reduce task, `ihash(&key) % n_reduce`.
Partitions(h, pairs) ==
  [r \in Reduces |-> Written(Keep(pairs, {i \in DOMAIN pairs : h[pairs[i].key] = r}))]

\* What a map task stores: nothing when its file is not found or not accepted.
MapOutput(q, d, h, path) ==
  LET usable == {c \in FoundByWorker(d, path) : Accepts(App(q), c)}
  IN IF usable = {} THEN NoOutput
     ELSE [ok |-> TRUE, parts |-> Partitions(h, MapFn(App(q), CHOOSE c \in usable : TRUE))]

\* What a reduce task reads from the workers, in the order of the map tasks.
Intermediate(outputs, r) ==
  FlattenSeq([t \in DOMAIN outputs |-> ReadPairs(outputs[t].parts[r])])

\* Sorted by key, grouped, each group reduced.
Groups(app, pairs) ==
  LET keys     == SetToSeq({pairs[i].key : i \in DOMAIN pairs})
      group(k) == {i \in DOMAIN pairs : pairs[i].key = k}
  IN [j \in DOMAIN keys |-> Pair(keys[j], ReduceFn(app, pairs, group(keys[j])))]

ReduceOutput(q, outputs, r) == Written(Groups(App(q), Intermediate(outputs, r)))

-----------------------------------------------------------------------------
(* The completion handler: read_reduced_for_job *)

Binary(chunks) == [exists |-> TRUE, chunks |-> chunks, text |-> <<>>]

\* What process_output wrote: a line for every value of 32 bytes.
ProcessOutput(pairs) == [exists |-> TRUE, chunks |-> <<>>, text |-> Wide(pairs)]

\* Mutation: the candidates the other way round.
ReadFlatFirst(r) == IF flat[r].exists THEN flat[r] ELSE primary[r]

\* The first of the two paths that can be read.
ReadOutput(r) == IF primary[r].exists THEN primary[r] ELSE flat[r]

\* Binary, or else lines of text; an absent or empty file has nothing.
Rows(file) ==
  LET decoded == DecodeReduceBytes(file.chunks)
  IN IF decoded # <<>> THEN decoded ELSE file.text

ReducedRows == FlattenSeq([r \in 1 .. NReduce |-> Rows(ReadOutput(r - 1))])

\* parse_transaction_line_for_coord, for every line.
ParsedForCoord(content) ==
  LET lines == Keep(Text(content), {i \in DOMAIN Text(content) : IsTransaction(Text(content)[i])})
  IN [i \in DOMAIN lines |-> Pair(Customer(lines[i]), Sums(ParseAmount(lines[i].amount), 1))]

\* The transactions of the source files that can be read.
SourceRows(q, d) ==
  LET of(path) ==
        IF FoundByHandler(d, path) = {} THEN <<>>
        ELSE ParsedForCoord(CHOOSE c \in FoundByHandler(d, path) : TRUE)
  IN FlattenSeq([t \in DOMAIN Files(q) |-> of(Files(q)[t])])

\* Mutation: the fallback fills in for every missing file.
AllRowsFillingIn ==
  IF \E r \in Reduces : Rows(ReadOutput(r)) = <<>>
    THEN ReducedRows \o SourceRows(request, disk) ELSE ReducedRows

\* The fallback is taken when nothing at all was read.
AllRows == IF ReducedRows = <<>> THEN SourceRows(request, disk) ELSE ReducedRows

PerCustomer(rows) ==
  LET total(k, field) ==
        Unsigned(SumFunction([i \in {i \in DOMAIN rows : rows[i].key = k} |-> rows[i].value[field]]))
  IN [k \in {rows[i].key : i \in DOMAIN rows} |->
        [sum |-> total(k, "sum"), count |-> total(k, "count")]]

IsNumeric(key) == key \in Keys /\ (Numeric[key] # 0 \/ key = "0")

\* Customer and Transaction of one request; the sum is divided before it is cast.
EvaluateRequest(key, c) ==
  [customer_id |-> Numeric[key],
   sum |-> Signed(c.sum),
   avg |-> IF c.count > 0 THEN Signed(c.sum \div c.count) ELSE 0,
   count |-> Signed(c.count)]

\* build_zen_input: what the rules of the evaluator see of a request.
ZenInput(req) ==
  [customer |-> [customer_id |-> req.customer_id],
   transaction |-> [transaction_today |->
     [sum |-> req.sum, avg |-> req.avg, count |-> req.count]]]

ReadReducedForJob(rows) ==
  LET per == PerCustomer(rows)
  IN [k \in {k \in DOMAIN per : IsNumeric(k)} |-> EvaluateRequest(k, per[k])]

\* The calls of the evaluator, one for each customer.
Calls(rows) ==
  [k \in DOMAIN ReadReducedForJob(rows) |-> ZenInput(ReadReducedForJob(rows)[k])]

-----------------------------------------------------------------------------
Maps == DOMAIN Files(request)

Init ==
  /\ request \in Requests
  /\ disk \in Disks
  /\ hash \in Hashes
  /\ held = [t \in Maps |-> ToDo]
  /\ \E old \in Leftovers : primary = old.primary /\ flat = old.flat
  /\ reduced = [r \in Reduces |-> "todo"]
  /\ evaluated = [done |-> FALSE, calls |-> <<>>]

ToMap(t) == held[t] = ToDo

\* `map` with a file it finds or does not find.
Map(t) ==
  /\ ToMap(t)
  /\ held' = [held EXCEPT ![t] = MapOutput(request, disk, hash, Files(request)[t])]
  /\ UNCHANGED <<request, disk, hash, primary, flat, reduced, evaluated>>

\* `map` whose file cannot be read at this moment, or whose worker dies later.
MapLost(t) ==
  /\ \/ "map" \in Faults /\ ToMap(t)
     \/ "lose" \in Faults /\ held[t].ok
  /\ held' = [held EXCEPT ![t] = NoOutput]
  /\ UNCHANGED <<request, disk, hash, primary, flat, reduced, evaluated>>

\* The reduces begin when the maps are over, whatever their outcome.
ToReduce(r) == reduced[r] = "todo" /\ \A t \in Maps : ~ToMap(t)

Reduced(r, outcome) ==
  /\ reduced' = [reduced EXCEPT ![r] = outcome]
  /\ UNCHANGED <<request, disk, hash, held, flat, evaluated>>

\* read_map is refused by the worker named for a map task.
ReduceRefused(r) ==
  /\ ToReduce(r)
  /\ \E t \in Maps : ~held[t].ok
  /\ Reduced(r, "none") /\ UNCHANGED primary

CreateFails(r) ==
  /\ "create" \in Faults /\ ToReduce(r)
  /\ \A t \in Maps : held[t].ok
  /\ Reduced(r, "none") /\ UNCHANGED primary

\* The file is there, with the first n chunks of the output in it.
Reduce(r) ==
  /\ ToReduce(r)
  /\ \A t \in Maps : held[t].ok
  /\ LET out == ReduceOutput(request, held, r) IN
     \E n \in 0 .. Len(out) :
       /\ n < Len(out) => "flush" \in Faults
       /\ primary' = [primary EXCEPT ![r] = Binary(SubSeq(out, 1, n))]
       /\ Reduced(r, IF n < Len(out) THEN "part" ELSE "whole")

\* The handler reads the outputs and calls the evaluator for each customer.
Evaluate ==
  /\ ~evaluated.done
  /\ \A r \in Reduces : reduced[r] # "todo"
  /\ evaluated' = [done |-> TRUE, calls |-> Calls(AllRows)]
  /\ UNCHANGED <<request, disk, hash, held, primary, flat, reduced>>

Next ==
  \/ \E t \in Maps : Map(t) \/ MapLost(t)
  \/ \E r \in Reduces : Reduce(r) \/ ReduceRefused(r) \/ CreateFails(r)
  \/ Evaluate

Spec == Init /\ [][Next]_vars

-----------------------------------------------------------------------------
(* Properties.  What the files say is counted from the files, line by line. *)

SignedNumber == -(Modulus \div 2) .. Modulus \div 2 - 1

\* The type invariant: what reaches the evaluator fits into an i64.
TypeOK ==
  /\ request \in Requests /\ disk \in Disks /\ hash \in Hashes
  /\ \A t \in Maps : held[t].ok => DOMAIN held[t].parts = Reduces
  /\ \A r \in Reduces : reduced[r] \in {"todo", "none", "part", "whole"}
  /\ \A k \in DOMAIN evaluated.calls :
       LET call == evaluated.calls[k].transaction.transaction_today IN
       /\ IsNumeric(k) /\ evaluated.calls[k].customer.customer_id = Numeric[k]
       /\ call.sum \in SignedNumber /\ call.count \in SignedNumber /\ call.avg \in SignedNumber

\* The entities there is an application for.
Known == request.entity \in {"transaction", "customer"}

\* The files the time range asks for.
Wanted ==
  LET days == ResolveTimeRange(request.range) IN
  IF request.entity = "transaction"
    THEN {Path("transaction", "transaction", d) : d \in days[1] .. days[2]}
    ELSE {Path("customer", "customer", 0)}

\* The lines about a customer in the files that can be read.
Records(key) ==
  {x \in UNION {{p} \X DOMAIN disk[p].lines : p \in Wanted \cap DOMAIN disk} :
     LET l == disk[x[1]].lines[x[2]] IN
     IF request.entity = "customer" THEN l.columns > 0 /\ l.id = key
     ELSE /\ disk[x[1]].utf8 /\ l.columns = 6
          /\ l.ref = key \/ (l.ref = "" /\ l.id = key)}

Amount(record) ==
  IF request.entity = "customer" THEN 0 ELSE ParseAmount(disk[record[1]].lines[record[2]].amount)

Total(key) == SumFunction([x \in Records(key) |-> Amount(x)])

\* A task of this job wrote nothing, and the handler found an old file instead.
OldOutputRead(r) == reduced[r] = "none" /\ (primary[r].exists \/ flat[r].exists)

\* Whatever was lost, cut off or fell back to the source files: a customer is
\* evaluated on all of his lines in the files that can be read, each counted
\* once, or not at all.  The numbers are exact unless they exceed an i64.
WholeOrAbsent ==
  evaluated.done /\ Known /\ ~(\E r \in Reduces : OldOutputRead(r)) =>
    \A k \in DOMAIN evaluated.calls :
      LET call == evaluated.calls[k].transaction.transaction_today
          n    == Cardinality(Records(k))
      IN /\ Unsigned(call.count) = Unsigned(n) /\ Unsigned(call.sum) = Unsigned(Total(k))
         /\ n < Modulus \div 2 => call.count = n
         /\ n < Modulus \div 2 /\ Total(k) < Modulus \div 2 =>
              call.sum = Total(k) /\ call.avg = Total(k) \div n

\* When every output was written, or for transactions when none was, no customer
\* with a line in the files is left out, however the keys are partitioned.
NobodyLeftOut ==
  evaluated.done /\ Known /\ ~(\E r \in Reduces : OldOutputRead(r)) =>
    \/ {k \in Keys : IsNumeric(k) /\ Records(k) # {}} = DOMAIN evaluated.calls
    \/ \E r \in Reduces : reduced[r] = "part"
    \/ (\E r \in Reduces : reduced[r] = "none") /\ (\E r \in Reduces : reduced[r] = "whole")
    \/ request.entity = "customer" /\ \A r \in Reduces : reduced[r] = "none"

KeysOf(file) == {Rows(file)[i].key : i \in DOMAIN Rows(file)}

\* The output directory outlives the coordinator, whose job ids begin anew, and an
\* earlier version wrote to it directly.  What a customer without a line in the
\* files of this job is evaluated on comes from such an old output, and then from
\* the place of one that this job did not write.
StrangersComeFromGaps ==
  evaluated.done /\ Known =>
    \A k \in DOMAIN evaluated.calls :
      Records(k) = {} => \E r \in Reduces : OldOutputRead(r) /\ k \in KeysOf(ReadOutput(r))
=============================================================================
