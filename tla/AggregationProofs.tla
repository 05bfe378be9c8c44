-------------------------- MODULE AggregationProofs --------------------------
(***************************************************************************)
(* Theorems about Aggregation, for any numbers, any keys and what they     *)
(* read, every number of reduce tasks, any input files, any partition and  *)
(* any outputs of earlier runs.                                            *)
(***************************************************************************)
EXTENDS Aggregation, WellFoundedInduction, FiniteSetTheorems, TLAPS

(* The inductive invariant.  What a task stores is what its inputs          *)
(* determine, whoever executes it and whatever is lost afterwards.          *)

\* What the map tasks of a job store when no fault hits them.
Ideal(q, d, h) == [t \in DOMAIN Files(q) |-> MapOutput(q, d, h, Files(q)[t])]

\* What a reduce task writes when every map task stored its output.
Expected(q, d, h, r) == ReduceOutput(q, Ideal(q, d, h), r)

Complete(outputs) == \A t \in DOMAIN outputs : outputs[t].ok

\* The first chunks of what the task has to write.
WrittenBy(file, out, outcome) ==
  \E n \in 0 .. Len(out) :
    file = Binary(SubSeq(out, 1, n)) /\ (outcome = "whole" => n = Len(out))

MapsGood ==
  /\ held = [t \in Maps |-> held[t]]
  /\ \A t \in Maps : held[t] \in {ToDo, NoOutput, Ideal(request, disk, hash)[t]}

ReducesGood ==
  /\ DOMAIN reduced = Reduces /\ DOMAIN primary = Reduces
  /\ flat \in [Reduces -> OutputFile]
  /\ \A r \in Reduces :
       \/ reduced[r] \in {"todo", "none"} /\ primary[r] \in OutputFile
       \/ /\ reduced[r] \in {"part", "whole"} /\ Complete(Ideal(request, disk, hash))
          /\ WrittenBy(primary[r], Expected(request, disk, hash, r), reduced[r])

CallsGood ==
  IF evaluated.done
    THEN evaluated.calls = Calls(AllRows) /\ \A r \in Reduces : reduced[r] # "todo"
    ELSE evaluated.calls = <<>>

Inv ==
  /\ request \in Requests /\ disk \in Disks /\ hash \in Hashes
  /\ MapsGood /\ ReducesGood /\ CallsGood

-----------------------------------------------------------------------------
(* Induction *)

\* The order of the natural numbers, as the set of its pairs.
Lt == {p \in Nat \X Nat : p[1] < p[2]}

\* No set of natural numbers goes down for ever.
LEMMA LtWF == IsWellFoundedOn(Lt, Nat)
  BY NatLessThanWellFounded DEF OpToRel, Lt

\* Induction, for a set of numbers in place of a property.
LEMMA Induction ==
  ASSUME NEW S, 0 \in S, \A n \in Nat : n \in S => n + 1 \in S
  PROVE  Nat \subseteq S
  <1> DEFINE T == Nat \ S
  <1> SUFFICES ASSUME T # {} PROVE FALSE
    OBVIOUS
  <1>1. T \subseteq Nat
    OBVIOUS
  <1> HIDE DEF T
  <1>2. PICK x \in T : \A y \in T : ~ (<<y, x>> \in Lt)
    BY <1>1, LtWF, WFMin
  <1>3. x \in Nat /\ x \notin S /\ x # 0
    BY DEF T
  <1>4. x - 1 \in Nat /\ <<x - 1, x>> \in Lt
    BY <1>3 DEF Lt
  <1>5. x - 1 \notin T
    BY <1>2, <1>4
  <1>6. QED
    BY <1>3, <1>4, <1>5 DEF T

\* What FlattenSeq defines by recursion, on the first n sequences.
Flattens(g, seqs, n) ==
  g = [i \in 1 .. n |-> IF i = 1 THEN seqs[i] ELSE g[i - 1] \o seqs[i]]

\* The recursion has a solution, for any number of sequences.
LEMMA FlattensExists ==
  ASSUME NEW seqs, NEW n \in Nat
  PROVE  \E g : Flattens(g, seqs, n)
  <1> DEFINE S == {m \in Nat : \E g : Flattens(g, seqs, m)}
  <1>1. 0 \in S
    <2>1. Flattens([i \in 1 .. 0 |-> 0], seqs, 0)
      BY DEF Flattens
    <2>2. QED
      BY <2>1
  <1>2. ASSUME NEW m \in Nat, m \in S PROVE m + 1 \in S
    <2>1. PICK g : Flattens(g, seqs, m)
      BY <1>2
    <2> DEFINE h == [i \in 1 .. m + 1 |->
                       IF i = m + 1 THEN IF i = 1 THEN seqs[i] ELSE g[i - 1] \o seqs[i]
                       ELSE g[i]]
    <2>2. ASSUME NEW i \in 1 .. m + 1
          PROVE  h[i] = IF i = 1 THEN seqs[i] ELSE h[i - 1] \o seqs[i]
      <3>1. i # 1 => i - 1 \in 1 .. m /\ h[i - 1] = g[i - 1]
        OBVIOUS
      <3>2. CASE i = m + 1
        BY <3>1, <3>2
      <3>3. CASE i # m + 1
        <4>1. i \in 1 .. m /\ h[i] = g[i]
          BY <3>3
        <4>2. g[i] = IF i = 1 THEN seqs[i] ELSE g[i - 1] \o seqs[i]
          BY <2>1, <4>1 DEF Flattens
        <4>3. QED
          BY <3>1, <4>1, <4>2
      <3>4. QED
        BY <3>2, <3>3
    <2>3. h = [i \in 1 .. m + 1 |-> h[i]]
      OBVIOUS
    <2> HIDE DEF h
    <2>4. Flattens(h, seqs, m + 1)
      BY <2>2, <2>3 DEF Flattens
    <2>5. QED
      BY <2>4
  <1>3. Nat \subseteq S
    <2> HIDE DEF S
    <2>1. QED
      BY <1>1, <1>2, Induction
  <1>4. QED
    BY <1>3

\* FlattenSeq is the last value of the recursion.
LEMMA FlattenSeqIs ==
  ASSUME NEW seqs, Len(seqs) \in Nat \ {0}
  PROVE  \E g : Flattens(g, seqs, Len(seqs)) /\ FlattenSeq(seqs) = g[Len(seqs)]
  <1> DEFINE G == CHOOSE g : Flattens(g, seqs, Len(seqs))
  <1>1. Flattens(G, seqs, Len(seqs))
    BY FlattensExists
  <1>2. FlattenSeq(seqs) = G[Len(seqs)]
    BY DEF FlattenSeq, Flattens
  <1>3. QED
    BY <1>1, <1>2

\* A finite set without one of its elements is smaller by one.
LEMMA Smaller ==
  ASSUME NEW T, IsFiniteSet(T), NEW x \in T
  PROVE  /\ IsFiniteSet(T \ {x}) /\ Cardinality(T \ {x}) \in Nat
         /\ Cardinality(T) = Cardinality(T \ {x}) + 1
  <1>1. PICK n : n = Cardinality(T)
    OBVIOUS
  <1>2. PICK m : m = Cardinality(T \ {x})
    OBVIOUS
  <1>3. IsFiniteSet(T \ {x}) /\ m = n - 1
    BY <1>1, <1>2, FS_RemoveElement
  <1>4. n \in Nat /\ m \in Nat
    BY <1>1, <1>2, <1>3, FS_CardinalityType
  <1>5. QED
    BY <1>1, <1>2, <1>3, <1>4

\* Induction over the subsets of a finite set, for a set of sets in place of a property.
LEMMA SubsetInduction ==
  ASSUME NEW S, IsFiniteSet(S), NEW Q, {} \in Q,
         \A T \in SUBSET S : \A x \in S \ T : T \in Q => T \cup {x} \in Q
  PROVE  S \in Q
  <1> DEFINE N == {n \in Nat : \A T \in SUBSET S : Cardinality(T) = n => T \in Q}
  <1>1. 0 \in N
    BY FS_Subset, FS_EmptySet
  <1>2. ASSUME NEW n \in Nat, n \in N PROVE n + 1 \in N
    <2>1. SUFFICES ASSUME NEW T \in SUBSET S, Cardinality(T) = n + 1 PROVE T \in Q
      OBVIOUS
    <2>2. IsFiniteSet(T) /\ T # {}
      BY <2>1, FS_Subset, FS_EmptySet
    <2>3. PICK x : x \in T
      BY <2>2
    <2>4. Cardinality(T \ {x}) = n
      <3>1. Cardinality(T \ {x}) \in Nat /\ Cardinality(T) = Cardinality(T \ {x}) + 1
        BY <2>2, <2>3, Smaller
      <3>2. QED
        BY <2>1, <3>1
    <2>5. T \ {x} \in Q
      BY <1>2, <2>4
    <2>6. T = (T \ {x}) \cup {x} /\ x \in S \ (T \ {x}) /\ T \ {x} \in SUBSET S
      BY <2>3
    <2>7. QED
      BY <2>5, <2>6
  <1>3. Nat \subseteq N
    <2> HIDE DEF N
    <2>1. QED
      BY <1>1, <1>2, Induction
  <1>4. QED
    BY <1>3, FS_CardinalityType

-----------------------------------------------------------------------------
(* Sums *)

\* What SumFunctionOnSet defines by recursion, on the subsets of a set.
Adds(g, f, S) ==
  g = [T \in SUBSET S |->
         IF T = {} THEN 0 ELSE f[CHOOSE x \in T : TRUE] + g[T \ {CHOOSE x \in T : TRUE}]]

\* The recursion has a solution on a finite set.
LEMMA AddsExists ==
  ASSUME NEW f, NEW S, IsFiniteSet(S)
  PROVE  \E g : Adds(g, f, S)
  <1> DEFINE Rec(g, T) ==
        g[T] = IF T = {} THEN 0
               ELSE f[CHOOSE x \in T : TRUE] + g[T \ {CHOOSE x \in T : TRUE}]
  <1> DEFINE N == {n \in Nat : \E g : \A T \in SUBSET S : Cardinality(T) <= n => Rec(g, T)}
  <1>1. 0 \in N
    <2> DEFINE g == [T \in SUBSET S |-> 0]
    <2>1. \A T \in SUBSET S : Cardinality(T) <= 0 => Rec(g, T)
      BY FS_Subset, FS_EmptySet, FS_CardinalityType
    <2> HIDE DEF g, Rec
    <2>2. QED
      BY <2>1
  <1>2. ASSUME NEW n \in Nat, n \in N PROVE n + 1 \in N
    <2>1. PICK g : \A T \in SUBSET S : Cardinality(T) <= n => Rec(g, T)
      BY <1>2
    <2> DEFINE c(T) == CHOOSE x \in T : TRUE
    <2> DEFINE h == [T \in SUBSET S |->
                       IF Cardinality(T) <= n THEN g[T] ELSE f[c(T)] + g[T \ {c(T)}]]
    <2>2. ASSUME NEW T \in SUBSET S, Cardinality(T) <= n + 1 PROVE Rec(h, T)
      <3>1. PICK x : x = c(T)
        OBVIOUS
      <3>2. CASE T = {}
        <4>1. Cardinality(T) = 0 /\ h[T] = g[T]
          BY <3>2, FS_EmptySet
        <4>2. QED
          BY <2>1, <3>2, <4>1
      <3>3. CASE T # {}
        <4>1. x \in T
          BY <3>1, <3>3
        <4>2. IsFiniteSet(T) /\ T \ {x} \in SUBSET S
          BY FS_Subset
        <4>3. Cardinality(T) \in Nat /\ Cardinality(T \ {x}) = Cardinality(T) - 1
          BY <4>1, <4>2, FS_RemoveElement, FS_CardinalityType
        <4>4. Cardinality(T \ {x}) <= n
          BY <2>2, <4>3
        <4>5. h[T \ {x}] = g[T \ {x}]
          BY <4>2, <4>4
        <4>6. h[T] = f[x] + g[T \ {x}]
          <5>1. CASE Cardinality(T) <= n
            BY <2>1, <3>1, <3>3, <5>1
          <5>2. CASE ~ (Cardinality(T) <= n)
            BY <3>1, <5>2
          <5>3. QED
            BY <5>1, <5>2
        <4>7. QED
          BY <3>1, <3>3, <4>5, <4>6
      <3>4. QED
        BY <3>2, <3>3
    <2> HIDE DEF h, Rec
    <2>3. QED
      BY <2>2
  <1>3. Nat \subseteq N
    <2> HIDE DEF N
    <2>1. QED
      BY <1>1, <1>2, Induction
  <1>4. PICK g : \A T \in SUBSET S : Cardinality(T) <= Cardinality(S) => Rec(g, T)
    BY <1>3, FS_CardinalityType
  <1>5. \A T \in SUBSET S : Rec(g, T)
    BY <1>4, FS_Subset
  <1> DEFINE h == [T \in SUBSET S |-> g[T]]
  <1>6. \A T \in SUBSET S : h[T] = IF T = {} THEN 0
               ELSE f[CHOOSE x \in T : TRUE] + h[T \ {CHOOSE x \in T : TRUE}]
    BY <1>5
  <1>7. h = [T \in SUBSET S |-> h[T]]
    OBVIOUS
  <1> HIDE DEF h
  <1>8. Adds(h, f, S)
    BY <1>6, <1>7 DEF Adds
  <1>9. QED
    BY <1>8

\* SumFunctionOnSet is the value of a solution.
LEMMA SumIs ==
  ASSUME NEW f, NEW S, IsFiniteSet(S)
  PROVE  \E g : Adds(g, f, S) /\ SumFunctionOnSet(f, S) = g[S]
  <1> DEFINE G == CHOOSE g : Adds(g, f, S)
  <1>1. Adds(G, f, S)
    BY AddsExists
  <1>2. SumFunctionOnSet(f, S) = G[S]
    BY DEF SumFunctionOnSet, FoldFunctionOnSet, MapThenFoldSet, Adds
  <1>3. QED
    BY <1>1, <1>2

\* A solution for a set has the sums over its subsets too.
LEMMA SumOfSubset ==
  ASSUME NEW f, NEW S, IsFiniteSet(S), NEW g, Adds(g, f, S), NEW T \in SUBSET S
  PROVE  SumFunctionOnSet(f, T) = g[T]
  <1>1. IsFiniteSet(T)
    BY FS_Subset
  <1>2. PICK k : Adds(k, f, T) /\ SumFunctionOnSet(f, T) = k[T]
    BY <1>1, SumIs
  <1> DEFINE N == {n \in Nat : \A U \in SUBSET T : Cardinality(U) = n => k[U] = g[U]}
  <1>3. 0 \in N
    <2>1. k[{}] = 0 /\ g[{}] = 0
      BY <1>2 DEF Adds
    <2>2. QED
      BY <1>1, <2>1, FS_Subset, FS_EmptySet
  <1>4. ASSUME NEW n \in Nat, n \in N PROVE n + 1 \in N
    <2>1. SUFFICES ASSUME NEW U \in SUBSET T, Cardinality(U) = n + 1 PROVE k[U] = g[U]
      OBVIOUS
    <2>2. IsFiniteSet(U) /\ U # {}
      BY <1>1, <2>1, FS_Subset, FS_EmptySet
    <2>3. PICK x : x = CHOOSE y \in U : TRUE
      OBVIOUS
    <2>4. x \in U /\ U \ {x} \in SUBSET T
      BY <2>2, <2>3
    <2>5. Cardinality(U \ {x}) = n
      <3>1. Cardinality(U \ {x}) \in Nat /\ Cardinality(U) = Cardinality(U \ {x}) + 1
        BY <2>2, <2>4, Smaller
      <3>2. QED
        BY <2>1, <3>1
    <2>6. k[U \ {x}] = g[U \ {x}]
      BY <1>4, <2>4, <2>5
    <2>7. k[U] = f[x] + k[U \ {x}] /\ g[U] = f[x] + g[U \ {x}]
      BY <1>2, <2>2, <2>3 DEF Adds
    <2>8. QED
      BY <2>6, <2>7
  <1>5. Nat \subseteq N
    <2> HIDE DEF N
    <2>1. QED
      BY <1>3, <1>4, Induction
  <1>6. QED
    BY <1>1, <1>2, <1>5, FS_CardinalityType

\* The sum over a set is one of its values and the sum over the others.
LEMMA SumChosen ==
  ASSUME NEW f, NEW S, IsFiniteSet(S), S # {}
  PROVE  \E x \in S : SumFunctionOnSet(f, S) = f[x] + SumFunctionOnSet(f, S \ {x})
  <1>1. PICK g : Adds(g, f, S) /\ SumFunctionOnSet(f, S) = g[S]
    BY SumIs
  <1>2. PICK x : x = CHOOSE y \in S : TRUE
    OBVIOUS
  <1>3. x \in S /\ S \ {x} \in SUBSET S
    BY <1>2
  <1>4. g[S] = f[x] + g[S \ {x}]
    BY <1>1, <1>2 DEF Adds
  <1>5. SumFunctionOnSet(f, S \ {x}) = g[S \ {x}]
    BY <1>1, <1>3, SumOfSubset
  <1>6. QED
    BY <1>1, <1>3, <1>4, <1>5

\* The sum over nothing.
LEMMA SumOfNone == ASSUME NEW f PROVE SumFunctionOnSet(f, {}) = 0
  <1>1. PICK g : Adds(g, f, {}) /\ SumFunctionOnSet(f, {}) = g[{}]
    BY SumIs, FS_EmptySet
  <1>2. QED
    BY <1>1 DEF Adds

\* The order of the additions does not matter.
LEMMA SumRemove ==
  ASSUME NEW f, NEW S, IsFiniteSet(S), \A x \in S : f[x] \in Int
  PROVE  /\ SumFunctionOnSet(f, S) \in Int
         /\ \A x \in S : SumFunctionOnSet(f, S) = f[x] + SumFunctionOnSet(f, S \ {x})
  <1> DEFINE Same(T) ==
        /\ SumFunctionOnSet(f, T) \in Int
        /\ \A x \in T : SumFunctionOnSet(f, T) = f[x] + SumFunctionOnSet(f, T \ {x})
  <1> DEFINE N == {n \in Nat : \A T \in SUBSET S : Cardinality(T) <= n => Same(T)}
  <1>1. 0 \in N
    <2>1. ASSUME NEW T \in SUBSET S, Cardinality(T) <= 0 PROVE Same(T)
      <3>1. T = {}
        BY <2>1, FS_Subset, FS_EmptySet, FS_CardinalityType
      <3>2. QED
        BY <3>1, SumOfNone
    <2>2. QED
      BY <2>1
  <1>2. ASSUME NEW n \in Nat, n \in N PROVE n + 1 \in N
    <2>1. SUFFICES ASSUME NEW T \in SUBSET S, Cardinality(T) <= n + 1, T # {} PROVE Same(T)
      BY SumOfNone
    <2>2. IsFiniteSet(T)
      BY FS_Subset
    <2>3. ASSUME NEW x \in T PROVE Same(T \ {x})
      <3>1. T \ {x} \in SUBSET S /\ Cardinality(T \ {x}) <= n
        BY <2>1, <2>2, <2>3, Smaller
      <3> HIDE DEF Same
      <3>2. QED
        BY <1>2, <3>1
    <2>4. PICK c \in T : SumFunctionOnSet(f, T) = f[c] + SumFunctionOnSet(f, T \ {c})
      BY <2>1, <2>2, SumChosen
    <2>5. SumFunctionOnSet(f, T \ {c}) \in Int /\ f[c] \in Int
      BY <2>3, <2>4
    <2>6. ASSUME NEW x \in T, x # c
          PROVE  SumFunctionOnSet(f, T) = f[x] + SumFunctionOnSet(f, T \ {x})
      <3>1. PICK U : U = (T \ {c}) \ {x}
        OBVIOUS
      <3>2. U = (T \ {x}) \ {c} /\ x \in T \ {c} /\ c \in T \ {x}
        BY <2>4, <2>6, <3>1
      <3>3. /\ SumFunctionOnSet(f, T \ {c}) = f[x] + SumFunctionOnSet(f, U)
            /\ SumFunctionOnSet(f, T \ {x}) = f[c] + SumFunctionOnSet(f, U)
        BY <2>3, <2>4, <3>1, <3>2
      <3>4. SumFunctionOnSet(f, U) \in Int
        <4>1. U \in SUBSET S /\ Cardinality(U) <= n
          <5>1. Cardinality(T) \in Nat /\ Cardinality(T \ {c}) = Cardinality(T) - 1
            <6>1. /\ Cardinality(T \ {c}) \in Nat
                  /\ Cardinality(T) = Cardinality(T \ {c}) + 1
              BY <2>2, <2>4, Smaller
            <6>2. QED
              BY <6>1
          <5>2. Cardinality(U) \in Nat /\ Cardinality(T \ {c}) = Cardinality(U) + 1
            <6>1. IsFiniteSet(T \ {c})
              BY <2>2, <2>4, Smaller
            <6>2. QED
              BY <3>1, <3>2, <6>1, Smaller
          <5>3. QED
            BY <2>1, <3>1, <5>1, <5>2
        <4> HIDE DEF Same
        <4>2. Same(U)
          BY <1>2, <4>1
        <4>3. QED
          BY <4>2 DEF Same
      <3>5. QED
        BY <2>4, <2>5, <3>3, <3>4
    <2>7. SumFunctionOnSet(f, T) \in Int
      BY <2>4, <2>5
    <2>8. \A x \in T : SumFunctionOnSet(f, T) = f[x] + SumFunctionOnSet(f, T \ {x})
      BY <2>4, <2>6
    <2>9. QED
      BY <2>7, <2>8
  <1>3. Nat \subseteq N
    <2> HIDE DEF N
    <2>1. QED
      BY <1>1, <1>2, Induction
  <1>4. Cardinality(S) \in N /\ S \in SUBSET S
    BY <1>3, FS_CardinalityType
  <1>5. QED
    BY <1>4, FS_CardinalityType

\* A value more is added to the sum.
LEMMA SumAdd ==
  ASSUME NEW f, NEW S, IsFiniteSet(S), NEW y, y \notin S, \A x \in S \cup {y} : f[x] \in Int
  PROVE  SumFunctionOnSet(f, S \cup {y}) = f[y] + SumFunctionOnSet(f, S)
  <1>1. PICK T : T = S \cup {y}
    OBVIOUS
  <1>2. IsFiniteSet(T) /\ y \in T /\ T \ {y} = S /\ \A x \in T : f[x] \in Int
    BY <1>1, FS_AddElement
  <1>3. SumFunctionOnSet(f, T) = f[y] + SumFunctionOnSet(f, T \ {y})
    BY <1>2, SumRemove
  <1>4. QED
    BY <1>1, <1>2, <1>3

\* The same values, by other names, have the same sum.
LEMMA SumMoved ==
  ASSUME NEW S, IsFiniteSet(S), NEW T, NEW b \in [S -> T], NEW f, NEW g,
         \A x, y \in S : b[x] = b[y] => x = y,
         \A y \in T : \E x \in S : b[x] = y,
         \A x \in S : f[x] \in Int /\ g[b[x]] = f[x]
  PROVE  IsFiniteSet(T) /\ SumFunctionOnSet(f, S) = SumFunctionOnSet(g, T)
  <1> DEFINE image(U) == {b[x] : x \in U}
  <1> DEFINE Q == {U \in SUBSET S : /\ IsFiniteSet(U) /\ IsFiniteSet(image(U))
                                    /\ SumFunctionOnSet(f, U) = SumFunctionOnSet(g, image(U))}
  <1>1. {} \in Q
    <2>1. image({}) = {}
      OBVIOUS
    <2>2. QED
      BY <2>1, SumOfNone, FS_EmptySet
  <1>2. ASSUME NEW U \in SUBSET S, NEW x \in S \ U, U \in Q PROVE U \cup {x} \in Q
    <2>1. PICK I : I = image(U)
      OBVIOUS
    <2>2. image(U \cup {x}) = I \cup {b[x]} /\ b[x] \notin I
      BY <2>1
    <2>3. /\ IsFiniteSet(U) /\ IsFiniteSet(I) /\ IsFiniteSet(U \cup {x})
          /\ IsFiniteSet(I \cup {b[x]})
      BY <1>2, <2>1, FS_AddElement
    <2>4. \A y \in I \cup {b[x]} : g[y] \in Int
      BY <2>1
    <2> HIDE DEF image
    <2>5. SumFunctionOnSet(f, U \cup {x}) = f[x] + SumFunctionOnSet(f, U)
      BY <1>2, <2>3, SumAdd
    <2>6. SumFunctionOnSet(g, I \cup {b[x]}) = g[b[x]] + SumFunctionOnSet(g, I)
      BY <2>2, <2>3, <2>4, SumAdd
    <2>7. SumFunctionOnSet(f, U) = SumFunctionOnSet(g, I)
      BY <1>2, <2>1
    <2>8. SumFunctionOnSet(f, U \cup {x}) = SumFunctionOnSet(g, image(U \cup {x}))
      BY <1>2, <2>2, <2>5, <2>6, <2>7
    <2>9. QED
      BY <1>2, <2>2, <2>3, <2>8
  <1>3. S \in Q
    <2> HIDE DEF Q
    <2>1. QED
      BY <1>1, <1>2, SubsetInduction
  <1>4. image(S) = T
    OBVIOUS
  <1>5. QED
    BY <1>3, <1>4

\* The sum of a one for every element is their number.
LEMMA SumOfOnes ==
  ASSUME NEW f, NEW S, IsFiniteSet(S), \A x \in S : f[x] = 1
  PROVE  SumFunctionOnSet(f, S) = Cardinality(S)
  <1> DEFINE Q == {U \in SUBSET S : /\ IsFiniteSet(U) 
                                    /\ SumFunctionOnSet(f, U) = Cardinality(U)}
  <1>1. {} \in Q
    BY SumOfNone, FS_EmptySet
  <1>2. ASSUME NEW U \in SUBSET S, NEW x \in S \ U, U \in Q PROVE U \cup {x} \in Q
    <2>1. IsFiniteSet(U) /\ IsFiniteSet(U \cup {x}) /\ Cardinality(U) \in Nat
      BY <1>2, FS_AddElement, FS_CardinalityType
    <2>2. Cardinality(U \cup {x}) = Cardinality(U) + 1
      BY <1>2, <2>1, FS_AddElement
    <2>3. SumFunctionOnSet(f, U \cup {x}) = f[x] + SumFunctionOnSet(f, U)
      BY <1>2, <2>1, SumAdd
    <2>4. SumFunctionOnSet(f, U \cup {x}) = Cardinality(U \cup {x})
      BY <1>2, <2>1, <2>2, <2>3
    <2>5. QED
      BY <2>1, <2>4
  <1>3. S \in Q
    <2> HIDE DEF Q
    <2>1. QED
      BY <1>1, <1>2, SubsetInduction
  <1>4. QED
    BY <1>3

\* The sum of one value.
LEMMA SumOfOne ==
  ASSUME NEW f, NEW x, f[x] \in Int
  PROVE  SumFunctionOnSet(f, {x}) = f[x]
  <1>1. SumFunctionOnSet(f, {} \cup {x}) = f[x] + SumFunctionOnSet(f, {})
    BY SumAdd, FS_EmptySet
  <1>2. QED
    BY <1>1, SumOfNone

-----------------------------------------------------------------------------
(* Sequences that list the values of a function *)

\* The sequence has the value of each r of R once; b says which one is where.
Lists(s, R, V, b) ==
  /\ b \in [DOMAIN s -> R]
  /\ \A i, j \in DOMAIN s : b[i] = b[j] => i = j
  /\ \A r \in R : \E i \in DOMAIN s : b[i] = r
  /\ \A i \in DOMAIN s : s[i] = V[b[i]]

Listed(s, R, V) == \E b : Lists(s, R, V, b)

\* Two sequences, one after the other, list what both list.
LEMMA ConcatLists ==
  ASSUME NEW U, NEW first \in Seq(U), NEW last \in Seq(U), NEW V, NEW R, NEW Q,
         R \cap Q = {}, Listed(first, R, V), Listed(last, Q, V)
  PROVE  first \o last \in Seq(U) /\ Listed(first \o last, R \cup Q, V)
  <1>1. PICK s : s = first \o last
    OBVIOUS
  <1>2. PICK n \in Nat, m \in Nat : n = Len(first) /\ m = Len(last)
    OBVIOUS
  <1>3. /\ s \in Seq(U) /\ DOMAIN s = 1 .. n + m
        /\ DOMAIN first = 1 .. n /\ DOMAIN last = 1 .. m
        /\ \A i \in 1 .. n : s[i] = first[i]
        /\ \A i \in 1 .. m : s[n + i] = last[i]
    BY <1>1, <1>2
  <1>4. PICK b : Lists(first, R, V, b)
    BY DEF Listed
  <1>5. PICK c : Lists(last, Q, V, c)
    BY DEF Listed
  <1>6. /\ b \in [1 .. n -> R] /\ c \in [1 .. m -> Q]
        /\ \A i, j \in 1 .. n : b[i] = b[j] => i = j
        /\ \A i, j \in 1 .. m : c[i] = c[j] => i = j
        /\ \A r \in R : \E i \in 1 .. n : b[i] = r
        /\ \A r \in Q : \E i \in 1 .. m : c[i] = r
        /\ \A i \in 1 .. n : first[i] = V[b[i]]
        /\ \A i \in 1 .. m : last[i] = V[c[i]]
    BY <1>3, <1>4, <1>5 DEF Lists
  <1> DEFINE d == [i \in 1 .. n + m |-> IF i <= n THEN b[i] ELSE c[i - n]]
  <1>7. /\ \A i \in 1 .. n : i \in 1 .. n + m /\ d[i] = b[i] /\ b[i] \in R
        /\ \A i \in 1 .. m : n + i \in 1 .. n + m /\ d[n + i] = c[i] /\ c[i] \in Q
    <2>1. \A i \in 1 .. m : n + i \in 1 .. n + m /\ ~ (n + i <= n) /\ (n + i) - n = i
      BY <1>2
    <2>2. \A i \in 1 .. n : i \in 1 .. n + m /\ i <= n
      BY <1>2
    <2>3. QED
      BY <1>6, <2>1, <2>2
  <1>8. \A i \in 1 .. n + m : i \in 1 .. n \/ \E j \in 1 .. m : i = n + j
    <2>1. \A i \in 1 .. n + m : i \in 1 .. n \/ (i - n \in 1 .. m /\ i = n + (i - n))
      BY <1>2
    <2>2. QED
      BY <2>1
  <1>9. d \in [1 .. n + m -> R \cup Q]
    <2>1. \A i \in 1 .. n + m : d[i] \in R \cup Q
      <3> HIDE DEF d
      <3>1. QED
        BY <1>7, <1>8
    <2>2. d = [i \in 1 .. n + m |-> d[i]]
      OBVIOUS
    <2> HIDE DEF d
    <2>3. QED
      BY <2>1, <2>2
  <1> HIDE DEF d
  <1>10. ASSUME NEW i \in 1 .. n + m, NEW j \in 1 .. n + m, d[i] = d[j] PROVE i = j
    <2>1. CASE i \in 1 .. n /\ j \in 1 .. n
      BY <1>6, <1>7, <1>10, <2>1
    <2>2. ASSUME NEW k \in 1 .. m, NEW l \in 1 .. m, i = n + k, j = n + l PROVE i = j
      <3>1. d[i] = c[k] /\ d[j] = c[l]
        BY <1>7, <2>2
      <3>2. k = l
        <4>1. c[k] = c[l]
          BY <1>10, <3>1
        <4>2. \A x, y \in 1 .. m : c[x] = c[y] => x = y
          BY <1>6
        <4>3. QED
          BY <4>1, <4>2, <2>2
      <3>3. QED
        BY <2>2, <3>2
    <2>3. CASE i \in 1 .. n /\ \E l \in 1 .. m : j = n + l
      BY <1>7, <1>10, <2>3
    <2>4. CASE j \in 1 .. n /\ \E k \in 1 .. m : i = n + k
      BY <1>7, <1>10, <2>4
    <2>5. QED
      BY <1>8, <2>1, <2>2, <2>3, <2>4
  <1>11. \A r \in R \cup Q : \E i \in 1 .. n + m : d[i] = r
    <2>1. ASSUME NEW r \in R PROVE \E i \in 1 .. n + m : d[i] = r
      <3>1. PICK i \in 1 .. n : b[i] = r
        BY <1>6
      <3>2. i \in 1 .. n + m /\ d[i] = r
        BY <1>7, <3>1
      <3>3. QED
        BY <3>2
    <2>2. ASSUME NEW r \in Q PROVE \E i \in 1 .. n + m : d[i] = r
      <3>1. PICK i \in 1 .. m : c[i] = r
        BY <1>6
      <3>2. n + i \in 1 .. n + m /\ d[n + i] = r
        BY <1>7, <3>1
      <3>3. QED
        BY <3>2
    <2>3. QED
      BY <2>1, <2>2
  <1>12. ASSUME NEW i \in 1 .. n + m PROVE s[i] = V[d[i]]
    <2>1. CASE i \in 1 .. n
      BY <1>3, <1>6, <1>7, <2>1
    <2>2. ASSUME NEW j \in 1 .. m, i = n + j PROVE s[i] = V[d[i]]
      <3>1. s[i] = last[j] /\ d[i] = c[j]
        BY <1>3, <1>7, <2>2
      <3>2. QED
        BY <1>6, <3>1
    <2>3. QED
      BY <1>8, <2>1, <2>2
  <1>13. Lists(s, R \cup Q, V, d)
    BY <1>3, <1>9, <1>10, <1>11, <1>12 DEF Lists
  <1>14. QED
    BY <1>1, <1>3, <1>13 DEF Listed

\* What the elements of one list determine is a list again.
LEMMA MapLists ==
  ASSUME NEW s, NEW R, NEW V, Listed(s, R, V), NEW u, NEW W, DOMAIN u = DOMAIN s,
         \A i \in DOMAIN s : \A r \in R : s[i] = V[r] => u[i] = W[r]
  PROVE  Listed(u, R, W)
  <1>1. PICK b : Lists(s, R, V, b)
    BY DEF Listed
  <1>2. Lists(u, R, W, b)
    BY <1>1 DEF Lists
  <1>3. QED
    BY <1>2 DEF Listed

\* Nothing is listed by the empty sequence, one thing by a sequence of one.
LEMMA FewListed ==
  ASSUME NEW V
  PROVE  /\ Listed(<<>>, {}, V)
         /\ \A x : Listed(<<V[x]>>, {x}, V)
  <1>1. Lists(<<>>, {}, V, <<>>)
    BY DEF Lists
  <1>2. ASSUME NEW x PROVE Listed(<<V[x]>>, {x}, V)
    <2>1. Lists(<<V[x]>>, {x}, V, <<x>>)
      BY DEF Lists
    <2>2. QED
      BY <2>1 DEF Listed
  <1>3. QED
    BY <1>1, <1>2 DEF Listed

\* Sequences, one after the other, list what each of them lists.
LEMMA FlattenLists ==
  ASSUME NEW U, NEW seqs \in Seq(Seq(U)), NEW R, NEW V,
         \A i, j \in DOMAIN seqs : i # j => R[i] \cap R[j] = {},
         \A i \in DOMAIN seqs : Listed(seqs[i], R[i], V)
  PROVE  /\ FlattenSeq(seqs) \in Seq(U)
         /\ Listed(FlattenSeq(seqs), UNION {R[i] : i \in DOMAIN seqs}, V)
  <1>1. CASE Len(seqs) = 0
    <2>1. seqs = <<>> /\ FlattenSeq(seqs) = seqs
      BY <1>1 DEF FlattenSeq
    <2>2. UNION {R[i] : i \in DOMAIN seqs} = {} /\ seqs \in Seq(U)
      BY <2>1
    <2>3. QED
      BY <2>1, <2>2, FewListed
  <1>2. CASE Len(seqs) # 0
    <2>1. PICK N \in Nat : N = Len(seqs) /\ N # 0 /\ DOMAIN seqs = 1 .. N
      BY <1>2
    <2>2. PICK g : Flattens(g, seqs, N) /\ FlattenSeq(seqs) = g[N]
      BY <2>1, FlattenSeqIs
    <2> DEFINE S == {n \in Nat : n \in 1 .. N =>
                       /\ g[n] \in Seq(U)
                       /\ Listed(g[n], UNION {R[i] : i \in 1 .. n}, V)}
    <2>3. 0 \in S
      OBVIOUS
    <2>4. ASSUME NEW n \in Nat, n \in S PROVE n + 1 \in S
      <3>1. SUFFICES ASSUME n + 1 \in 1 .. N
            PROVE  /\ g[n + 1] \in Seq(U)
                   /\ Listed(g[n + 1], UNION {R[i] : i \in 1 .. n + 1}, V)
        OBVIOUS
      <3>2. g[n + 1] = IF n = 0 THEN seqs[n + 1] ELSE g[n] \o seqs[n + 1]
        <4>1. PICK m : m = n + 1
          OBVIOUS
        <4>2. m \in 1 .. N /\ m - 1 = n
          BY <3>1, <4>1
        <4>3. g[m] = IF m = 1 THEN seqs[m] ELSE g[m - 1] \o seqs[m]
          BY <2>2, <4>2 DEF Flattens
        <4>4. m = 1 <=> n = 0
          BY <4>1
        <4>5. QED
          BY <4>1, <4>2, <4>3, <4>4
      <3>3. PICK last : last = seqs[n + 1]
        OBVIOUS
      <3>4. last \in Seq(U) /\ Listed(last, R[n + 1], V)
        BY <2>1, <3>1, <3>3
      <3>5. CASE n = 0
        <4>1. g[n + 1] = last /\ 1 .. n + 1 = {n + 1}
          BY <3>2, <3>3, <3>5
        <4>2. UNION {R[i] : i \in 1 .. n + 1} = R[n + 1]
          BY <4>1
        <4>3. QED
          BY <3>4, <4>1, <4>2
      <3>6. CASE n # 0
        <4>1. PICK first : first = g[n]
          OBVIOUS
        <4>2. PICK before : before = UNION {R[i] : i \in 1 .. n}
          OBVIOUS
        <4>3. first \in Seq(U) /\ Listed(first, before, V)
          BY <2>4, <3>1, <3>6, <4>1, <4>2
        <4>4. before \cap R[n + 1] = {}
          <5>1. ASSUME NEW i \in 1 .. n PROVE R[i] \cap R[n + 1] = {}
            <6>1. i \in 1 .. N /\ i # n + 1
              BY <3>1
            <6>2. QED
              BY <2>1, <3>1, <6>1
          <5>2. QED
            BY <4>2, <5>1
        <4>5. UNION {R[i] : i \in 1 .. n + 1} = before \cup R[n + 1]
          <5>1. 1 .. n + 1 = (1 .. n) \cup {n + 1}
            OBVIOUS
          <5>2. QED
            BY <4>2, <5>1
        <4>6. g[n + 1] = first \o last
          BY <3>2, <3>3, <3>6, <4>1
        <4>7. first \o last \in Seq(U) /\ Listed(first \o last, before \cup R[n + 1], V)
          BY <3>4, <4>3, <4>4, ConcatLists
        <4>8. QED
          BY <4>5, <4>6, <4>7
      <3>7. QED
        BY <3>5, <3>6
    <2>5. Nat \subseteq S
      <3> HIDE DEF S
      <3>1. QED
        BY <2>3, <2>4, Induction
    <2>6. N \in S /\ N \in 1 .. N
      <3> HIDE DEF S
      <3>1. QED
        BY <2>1, <2>5
    <2>7. QED
      BY <2>1, <2>2, <2>6
  <1>3. QED
    BY <1>1, <1>2

\* What Keep defines by recursion, on the first n elements.
Keeps(g, s, indices, n) ==
  g = [i \in 0 .. n |->
         IF i = 0 THEN <<>>
         ELSE IF i \in indices THEN Append(g[i - 1], s[i]) ELSE g[i - 1]]

\* The recursion has a solution, for any number of elements.
LEMMA KeepsExists ==
  ASSUME NEW s, NEW indices, NEW n \in Nat
  PROVE  \E g : Keeps(g, s, indices, n)
  <1> DEFINE S == {m \in Nat : \E g : Keeps(g, s, indices, m)}
  <1>1. 0 \in S
    <2>1. Keeps([i \in 0 .. 0 |-> <<>>], s, indices, 0)
      BY DEF Keeps
    <2>2. QED
      BY <2>1
  <1>2. ASSUME NEW m \in Nat, m \in S PROVE m + 1 \in S
    <2>1. PICK g : Keeps(g, s, indices, m)
      BY <1>2
    <2> DEFINE next(k, i) == IF i \in indices THEN Append(k, s[i]) ELSE k
    <2> DEFINE h == [i \in 0 .. m + 1 |-> IF i = m + 1 THEN next(g[m], i) ELSE g[i]]
    <2>2. ASSUME NEW i \in 0 .. m + 1
          PROVE  h[i] = IF i = 0 THEN <<>> ELSE next(h[i - 1], i)
      <3>1. i # 0 => i - 1 \in 0 .. m /\ h[i - 1] = g[i - 1]
        OBVIOUS
      <3>2. CASE i = m + 1
        BY <3>1, <3>2
      <3>3. CASE i # m + 1
        <4>1. i \in 0 .. m /\ h[i] = g[i]
          BY <3>3
        <4>2. g[i] = IF i = 0 THEN <<>> ELSE next(g[i - 1], i)
          BY <2>1, <4>1 DEF Keeps
        <4>3. QED
          BY <3>1, <4>1, <4>2
      <3>4. QED
        BY <3>2, <3>3
    <2>3. h = [i \in 0 .. m + 1 |-> h[i]]
      OBVIOUS
    <2> HIDE DEF h
    <2>4. Keeps(h, s, indices, m + 1)
      BY <2>2, <2>3 DEF Keeps
    <2>5. QED
      BY <2>4
  <1>3. Nat \subseteq S
    <2> HIDE DEF S
    <2>1. QED
      BY <1>1, <1>2, Induction
  <1>4. QED
    BY <1>3

\* Keep is the last value of the recursion.
LEMMA KeepIs ==
  ASSUME NEW s, NEW indices, Len(s) \in Nat
  PROVE  \E g : Keeps(g, s, indices, Len(s)) /\ Keep(s, indices) = g[Len(s)]
  <1> DEFINE G == CHOOSE g : Keeps(g, s, indices, Len(s))
  <1>1. Keeps(G, s, indices, Len(s))
    BY KeepsExists
  <1>2. Keep(s, indices) = G[Len(s)]
    BY DEF Keep, Keeps
  <1>3. QED
    BY <1>1, <1>2

\* Keep lists the elements with these indices.
LEMMA KeepLists ==
  ASSUME NEW U, NEW s \in Seq(U), NEW indices
  PROVE  Keep(s, indices) \in Seq(U) /\ Listed(Keep(s, indices), indices \cap DOMAIN s, s)
  <1>1. PICK N \in Nat : N = Len(s) /\ DOMAIN s = 1 .. N
    OBVIOUS
  <1>2. PICK g : Keeps(g, s, indices, N) /\ Keep(s, indices) = g[N]
    BY <1>1, KeepIs
  <1> DEFINE S == {n \in Nat : n \in 0 .. N =>
                     g[n] \in Seq(U) /\ Listed(g[n], indices \cap (1 .. n), s)}
  <1>3. 0 \in S
    <2>1. g[0] = <<>> /\ indices \cap (1 .. 0) = {}
      BY <1>2 DEF Keeps
    <2>2. <<>> \in Seq(U)
      OBVIOUS
    <2>3. QED
      BY <2>1, <2>2, FewListed
  <1>4. ASSUME NEW n \in Nat, n \in S PROVE n + 1 \in S
    <2>1. SUFFICES ASSUME n + 1 \in 0 .. N
          PROVE  g[n + 1] \in Seq(U) /\ Listed(g[n + 1], indices \cap (1 .. n + 1), s)
      OBVIOUS
    <2>2. PICK k : k = g[n]
      OBVIOUS
    <2>3. PICK m : m = n + 1
      OBVIOUS
    <2>4. m \in 0 .. N /\ m # 0 /\ m - 1 = n /\ m \in 1 .. N /\ n \in 0 .. N
      BY <2>1, <2>3
    <2>5. g[m] = IF m \in indices THEN Append(k, s[m]) ELSE k
      BY <1>2, <2>2, <2>4 DEF Keeps
    <2>6. k \in Seq(U) /\ Listed(k, indices \cap (1 .. n), s)
      BY <1>4, <2>2, <2>4
    <2>7. 1 .. m = (1 .. n) \cup {m} /\ m \notin 1 .. n
      BY <2>3
    <2>8. CASE m \notin indices
      BY <2>3, <2>5, <2>6, <2>7, <2>8
    <2>9. CASE m \in indices
      <3>1. s[m] \in U
        BY <1>1, <2>4
      <3>2. g[m] = k \o <<s[m]>> /\ <<s[m]>> \in Seq(U)
        BY <2>5, <2>6, <2>9, <3>1
      <3>3. Listed(<<s[m]>>, {m}, s)
        BY FewListed
      <3>4. /\ k \o <<s[m]>> \in Seq(U)
            /\ Listed(k \o <<s[m]>>, (indices \cap (1 .. n)) \cup {m}, s)
        BY <2>6, <2>7, <3>2, <3>3, ConcatLists
      <3>5. indices \cap (1 .. m) = (indices \cap (1 .. n)) \cup {m}
        BY <2>7, <2>9
      <3>6. QED
        BY <2>3, <3>2, <3>4, <3>5
    <2>10. QED
      BY <2>8, <2>9
  <1>5. Nat \subseteq S
    <2> HIDE DEF S
    <2>1. QED
      BY <1>3, <1>4, Induction
  <1>6. N \in S /\ N \in 0 .. N
    <2> HIDE DEF S
    <2>1. QED
      BY <1>5
  <1>7. QED
    BY <1>1, <1>2, <1>6

\* To keep those elements of a list that are in P is a list again.
LEMMA FilterLists ==
  ASSUME NEW U, NEW s \in Seq(U), NEW R, NEW V, Listed(s, R, V), NEW P,
         NEW indices, \A i \in DOMAIN s : i \in indices <=> s[i] \in P
  PROVE  /\ Keep(s, indices) \in Seq(U)
         /\ Listed(Keep(s, indices), {r \in R : V[r] \in P}, V)
  <1>1. PICK k : k = Keep(s, indices)
    OBVIOUS
  <1>2. k \in Seq(U) /\ Listed(k, indices \cap DOMAIN s, s)
    BY <1>1, KeepLists
  <1>3. PICK b : Lists(s, R, V, b)
    BY DEF Listed
  <1>4. PICK c : Lists(k, indices \cap DOMAIN s, s, c)
    BY <1>2 DEF Listed
  <1>5. PICK Q : Q = {r \in R : V[r] \in P}
    OBVIOUS
  <1> DEFINE d == [i \in DOMAIN k |-> b[c[i]]]
  <1>6. \A i \in DOMAIN k : c[i] \in DOMAIN s /\ c[i] \in indices
    BY <1>4 DEF Lists
  <1>7. \A i \in DOMAIN s : b[i] \in Q <=> i \in indices
    BY <1>3, <1>5 DEF Lists
  <1>8. d \in [DOMAIN k -> Q]
    BY <1>6, <1>7
  <1>9. \A i, j \in DOMAIN k : d[i] = d[j] => i = j
    BY <1>3, <1>4, <1>6 DEF Lists
  <1>10. ASSUME NEW r \in Q PROVE \E i \in DOMAIN k : d[i] = r
    <2>1. PICK j \in DOMAIN s : b[j] = r
      BY <1>3, <1>5 DEF Lists
    <2>2. PICK i \in DOMAIN k : c[i] = j
      BY <1>4, <1>7, <2>1 DEF Lists
    <2>3. QED
      BY <2>1, <2>2
  <1>11. \A i \in DOMAIN k : k[i] = V[d[i]]
    BY <1>3, <1>4, <1>6 DEF Lists
  <1> HIDE DEF d
  <1>12. Lists(k, Q, V, d)
    BY <1>8, <1>9, <1>10, <1>11 DEF Lists
  <1>13. QED
    BY <1>1, <1>2, <1>5, <1>12 DEF Listed

-----------------------------------------------------------------------------
(* The invariant is inductive *)

\* It holds at first.
LEMMA InvInit == Init => Inv
  <1> SUFFICES ASSUME Init PROVE Inv
    OBVIOUS
  <1>1. request \in Requests /\ disk \in Disks /\ hash \in Hashes
    BY DEF Init
  <1>2. MapsGood
    BY DEF Init, MapsGood
  <1>3. ReducesGood
    <2>1. PICK old \in Leftovers : primary = old.primary /\ flat = old.flat
      BY DEF Init
    <2>2. old.primary \in [Reduces -> OutputFile] /\ old.flat \in [Reduces -> OutputFile]
      BY <2>1, AggregationAssumption
    <2>3. DOMAIN reduced = Reduces /\ \A r \in Reduces : reduced[r] = "todo"
      BY DEF Init
    <2>4. QED
      BY <2>1, <2>2, <2>3 DEF ReducesGood
  <1>4. CallsGood
    BY DEF Init, CallsGood
  <1>5. QED
    BY <1>1, <1>2, <1>3, <1>4 DEF Inv

\* The inputs of a job do not change, nor does what they determine.
LEMMA InputsStay ==
  ASSUME UNCHANGED <<request, disk, hash>>
  PROVE  /\ Maps' = Maps
         /\ Ideal(request, disk, hash)' = Ideal(request, disk, hash)
         /\ \A r : Expected(request, disk, hash, r)' = Expected(request, disk, hash, r)
  BY DEF Maps

\* A map task stores what its inputs determine, or nothing.
LEMMA MapsStay ==
  ASSUME MapsGood, UNCHANGED <<request, disk, hash>>,
         NEW t \in Maps,
         held' = [held EXCEPT ![t] = NoOutput] \/ held' = [held EXCEPT ![t] = Ideal(request, disk, hash)[t]]
  PROVE  MapsGood'
  <1>1. Maps' = Maps /\ Ideal(request, disk, hash)' = Ideal(request, disk, hash)
    BY InputsStay
  <1>2. PICK I : I = Ideal(request, disk, hash)
    OBVIOUS
  <1>3. DOMAIN held = Maps /\ \A u \in Maps : held[u] \in {ToDo, NoOutput, I[u]}
    BY <1>2 DEF MapsGood
  <1>4. held' = [u \in Maps |-> held'[u]] /\ \A u \in Maps : held'[u] \in {ToDo, NoOutput, I[u]}
    BY <1>2, <1>3
  <1>5. QED
    BY <1>1, <1>2, <1>4 DEF MapsGood

\* The rows the handler reads depend on the files only.
LEMMA RowsStay ==
  ASSUME UNCHANGED <<request, disk, primary, flat>>
  PROVE  AllRows' = AllRows
  <1>1. ReducedRows' = ReducedRows
    BY DEF ReducedRows, ReadOutput
  <1>2. QED
    BY <1>1 DEF AllRows

\* A step of the maps changes nothing else.
LEMMA MapSteps ==
  ASSUME Inv, NEW t \in Maps, Map(t) \/ MapLost(t)
  PROVE  Inv'
  <1>1. UNCHANGED <<request, disk, hash, primary, flat, reduced, evaluated>>
    BY DEF Map, MapLost
  <1>2. \/ held' = [held EXCEPT ![t] = NoOutput]
        \/ held' = [held EXCEPT ![t] = Ideal(request, disk, hash)[t]]
    BY DEF Map, MapLost, Ideal, Maps
  <1>3. MapsGood'
    BY <1>1, <1>2, MapsStay DEF Inv
  <1>4. ReducesGood'
    BY <1>1 DEF Inv, ReducesGood
  <1>5. CallsGood'
    BY <1>1, RowsStay DEF Inv, CallsGood
  <1>6. QED
    BY <1>1, <1>3, <1>4, <1>5 DEF Inv

\* When every map output is there, it is what the inputs determine.
LEMMA HeldComplete ==
  ASSUME MapsGood, \A t \in Maps : held[t].ok
  PROVE  held = Ideal(request, disk, hash) /\ Complete(held)
  <1>1. PICK I : I = Ideal(request, disk, hash)
    OBVIOUS
  <1>2. I = [t \in Maps |-> I[t]]
    BY <1>1 DEF Ideal, Maps
  <1>3. held = [t \in Maps |-> held[t]] /\ \A t \in Maps : held[t] \in {ToDo, NoOutput, I[t]}
    BY <1>1 DEF MapsGood
  <1>4. ~ ToDo.ok /\ ~ NoOutput.ok
    BY DEF ToDo, NoOutput
  <1>5. \A t \in Maps : held[t] = I[t]
    BY <1>3, <1>4
  <1>6. held = I /\ DOMAIN held = Maps
    BY <1>2, <1>3, <1>5
  <1>7. QED
    BY <1>1, <1>6 DEF Complete

\* A step of the reduces before the handler runs, and what it leaves alone.
LEMMA ReduceSteps ==
  ASSUME Inv, NEW r \in Reduces, Reduce(r) \/ ReduceRefused(r) \/ CreateFails(r)
  PROVE  Inv'
  <1>1. /\ UNCHANGED <<request, disk, hash, held, flat, evaluated>>
        /\ ToReduce(r)
        /\ \E outcome : reduced' = [reduced EXCEPT ![r] = outcome]
    BY DEF Reduce, ReduceRefused, CreateFails, Reduced
  <1>2. reduced[r] = "todo" /\ ~ evaluated.done
    BY <1>1 DEF ToReduce, Inv, CallsGood
  <1>3. MapsGood'
    BY <1>1, InputsStay DEF Inv, MapsGood
  <1>4. CallsGood'
    BY <1>1, <1>2 DEF Inv, CallsGood
  <1>5. ReducesGood'
    <2>1. PICK I : I = Ideal(request, disk, hash)
      OBVIOUS
    <2>2. PICK E : E = [u \in Reduces |-> Expected(request, disk, hash, u)]
      OBVIOUS
    <2>3. \A u \in Reduces : Expected(request, disk, hash, u)' = E[u]
      BY <1>1, <2>2, InputsStay
    <2>4. Ideal(request, disk, hash)' = I
      BY <1>1, <2>1, InputsStay
    <2> DEFINE Good(file, outcome, u) ==
          \/ outcome \in {"todo", "none"} /\ file \in OutputFile
          \/ outcome \in {"part", "whole"} /\ Complete(I) /\ WrittenBy(file, E[u], outcome)
    <2>5. /\ DOMAIN reduced = Reduces /\ DOMAIN primary = Reduces
          /\ flat \in [Reduces -> OutputFile]
          /\ \A u \in Reduces : Good(primary[u], reduced[u], u)
      BY <2>1, <2>2 DEF Inv, ReducesGood
    <2>6. /\ DOMAIN reduced' = Reduces /\ DOMAIN primary' = Reduces
          /\ \A u \in Reduces : Good(primary'[u], reduced'[u], u)
      <3>1. CASE ReduceRefused(r) \/ CreateFails(r)
        <4>1. reduced' = [reduced EXCEPT ![r] = "none"] /\ primary' = primary
          BY <3>1 DEF ReduceRefused, CreateFails, Reduced
        <4>2. primary[r] \in OutputFile
          BY <1>2, <2>5
        <4>3. Good(primary'[r], reduced'[r], r)
          BY <2>5, <4>1, <4>2
        <4> HIDE DEF Good
        <4>4. QED
          BY <2>5, <4>1, <4>3
      <3>2. CASE Reduce(r)
        <4>1. held = I /\ Complete(I)
          BY <2>1, <3>2, HeldComplete DEF Reduce, Inv
        <4>2. PICK n, outcome :
                /\ n \in 0 .. Len(E[r])
                /\ outcome = IF n < Len(E[r]) THEN "part" ELSE "whole"
                /\ primary' = [primary EXCEPT ![r] = Binary(SubSeq(E[r], 1, n))]
                /\ reduced' = [reduced EXCEPT ![r] = outcome]
          <5>1. ReduceOutput(request, held, r) = E[r]
            BY <2>1, <2>2, <4>1 DEF Expected
          <5>2. QED
            BY <3>2, <5>1 DEF Reduce, Reduced
        <4>3. WrittenBy(Binary(SubSeq(E[r], 1, n)), E[r], outcome)
          <5>1. outcome = "whole" => n = Len(E[r])
            <6>1. n \in Int /\ n <= Len(E[r]) /\ (n < Len(E[r]) => outcome = "part")
              BY <4>2
            <6>2. QED
              BY <4>2, <6>1
          <5>2. QED
            BY <4>2, <5>1 DEF WrittenBy
        <4>4. Good(primary'[r], reduced'[r], r)
          BY <2>5, <4>1, <4>2, <4>3
        <4> HIDE DEF Good
        <4>5. QED
          BY <2>5, <4>2, <4>4
      <3>3. QED
        BY <3>1, <3>2
    <2>7. QED
      BY <1>1, <2>3, <2>4, <2>5, <2>6 DEF ReducesGood
  <1>6. QED
    BY <1>1, <1>3, <1>4, <1>5 DEF Inv

\* The handler reads the files when every reduce task is over.
LEMMA EvaluateStep == ASSUME Inv, Evaluate PROVE Inv'
  <1>1. UNCHANGED <<request, disk, hash, held, primary, flat, reduced>>
    BY DEF Evaluate
  <1>2. MapsGood' /\ ReducesGood'
    BY <1>1, InputsStay DEF Inv, MapsGood, ReducesGood
  <1>3. AllRows' = AllRows
    BY <1>1, RowsStay
  <1>4. CallsGood'
    BY <1>1, <1>3 DEF Evaluate, CallsGood
  <1>5. QED
    BY <1>1, <1>2, <1>4 DEF Inv

\* Every step keeps it.
LEMMA InvNext == ASSUME Inv, [Next]_vars PROVE Inv'
  <1>1. CASE UNCHANGED vars
    <2>1. UNCHANGED <<request, disk, hash, held, primary, flat, reduced, evaluated>>
      BY <1>1 DEF vars
    <2>2. MapsGood' /\ ReducesGood'
      BY <2>1, InputsStay DEF Inv, MapsGood, ReducesGood
    <2>3. CallsGood'
      BY <2>1, RowsStay DEF Inv, CallsGood
    <2>4. QED
      BY <2>1, <2>2, <2>3 DEF Inv
  <1>2. ASSUME NEW t \in Maps, Map(t) \/ MapLost(t) PROVE Inv'
    BY <1>2, MapSteps
  <1>3. ASSUME NEW r \in Reduces, Reduce(r) \/ ReduceRefused(r) \/ CreateFails(r) PROVE Inv'
    BY <1>3, ReduceSteps
  <1>4. CASE Evaluate
    BY <1>4, EvaluateStep
  <1>5. QED
    BY <1>1, <1>2, <1>3, <1>4 DEF Next

\* The invariant holds in every state.
LEMMA InvCorrect == Spec => []Inv
  <1>1. Inv /\ [Next]_vars => Inv'
    BY InvNext
  <1>2. QED
    BY <1>1, InvInit, PTL DEF Spec

-----------------------------------------------------------------------------
(* The wire format *)

\* There is a 0 and a 1, and half of the numbers are negative as an i64.
LEMMA ModulusIs ==
  Modulus \in Nat /\ Modulus >= 2 /\ Modulus = 2 * (Modulus \div 2) /\ Modulus \div 2 \in Nat
  <1>1. Modulus \in Nat \ {0} /\ Modulus % 2 = 0
    BY AggregationAssumption, Zenon
  <1>2. QED
    BY <1>1

\* The numbers of a value.
LEMMA Numbers ==
  /\ 0 \in Number /\ 1 \in Number /\ Number \subseteq Int
  /\ \A n \in Int : ParseAmount(n) \in Number /\ Unsigned(n) \in Number
  /\ \A n \in Number : Unsigned(n) = n
  <1>1. 0 \in Number /\ 1 \in Number /\ Number \subseteq Int
    BY ModulusIs DEF Number
  <1>2. ASSUME NEW n \in Int PROVE n % Modulus \in Number
    BY ModulusIs DEF Number
  <1>3. ASSUME NEW n \in Number PROVE n % Modulus = n
    BY ModulusIs DEF Number
  <1>4. QED
    BY <1>1, <1>2, <1>3 DEF ParseAmount, Unsigned

\* A key and a value are a pair, and a pair has both.
LEMMA PairIs ==
  /\ \A k \in Keys \cup {""}, v \in Value : Pair(k, v) \in Pairs
  /\ \A p \in Pairs : p = Pair(p.key, p.value) /\ p.key \in Keys \cup {""} /\ p.value \in Value
  /\ \A s \in Number, n \in Number : Sums(s, n) \in Value /\ Sums(s, n).wide
  <1>1. \A k \in Keys \cup {""}, v \in Value : Pair(k, v) \in Pairs
    BY DEF Pair, Pairs
  <1>2. ASSUME NEW p \in Pairs
        PROVE  p = Pair(p.key, p.value) /\ p.key \in Keys \cup {""} /\ p.value \in Value
    <2>1. p.key \in Keys \cup {""} /\ p.value \in Value
      BY DEF Pairs
    <2>2. p = [key |-> p.key, value |-> p.value]
      BY DEF Pairs
    <2>3. QED
      BY <2>1, <2>2 DEF Pair
  <1>3. \A s \in Number, n \in Number : Sums(s, n) \in Value /\ Sums(s, n).wide
    BY DEF Sums, Value
  <1>4. QED
    BY <1>1, <1>2, <1>3

\* The chunks of a pair.
LEMMA ChunksOfPair ==
  ASSUME NEW p \in Pairs
  PROVE  /\ KeyChunk(p.key) \in Chunk /\ ValueChunk(p.value) \in Chunk
         /\ Pair(KeyChunk(p.key).text, ValueChunk(p.value).value) = p
  <1>1. p = Pair(p.key, p.value) /\ p.key \in Keys \cup {""} /\ p.value \in Value
    BY PairIs
  <1>2. PICK zero : zero = Sums(0, 0) /\ zero \in Value
    BY PairIs, Numbers
  <1>3. KeyChunk(p.key) \in Chunk
    BY <1>1, <1>2 DEF KeyChunk, Chunk
  <1>4. ValueChunk(p.value) \in Chunk
    BY <1>1 DEF ValueChunk, Chunk
  <1>5. QED
    BY <1>1, <1>3, <1>4 DEF KeyChunk, ValueChunk

\* What was written can be read, and of what was cut off what is whole.
LEMMA ReadWritten ==
  ASSUME NEW pairs \in Seq(Pairs), NEW n \in 0 .. Len(Written(pairs))
  PROVE  /\ Written(pairs) \in Seq(Chunk) /\ Len(Written(pairs)) = 2 * Len(pairs)
         /\ SubSeq(Written(pairs), 1, n) \in Seq(Chunk)
         /\ ReadPairs(SubSeq(Written(pairs), 1, n)) = [i \in 1 .. n \div 2 |-> pairs[i]]
  <1>1. PICK N \in Nat : N = Len(pairs) /\ DOMAIN pairs = 1 .. N
    OBVIOUS
  <1>2. PICK w : w = Written(pairs)
    OBVIOUS
  <1>3. \A i \in 1 .. N : pairs[i] \in Pairs
    BY <1>1
  <1>4. w \in Seq(Chunk) /\ Len(w) = 2 * N /\ DOMAIN w = 1 .. 2 * N
    <2>1. w = [i \in 1 .. 2 * N |-> w[i]]
      BY <1>1, <1>2 DEF Written
    <2>2. ASSUME NEW i \in 1 .. 2 * N PROVE w[i] \in Chunk
      <3>2. CASE i % 2 = 1
        <4>1. (i + 1) \div 2 \in 1 .. N
          BY <3>2
        <4>2. w[i] = KeyChunk(pairs[(i + 1) \div 2].key)
          BY <1>1, <1>2, <3>2 DEF Written
        <4>3. QED
          BY <1>3, <4>1, <4>2, ChunksOfPair
      <3>3. CASE i % 2 # 1
        <4>1. i \div 2 \in 1 .. N
          BY <3>3
        <4>2. w[i] = ValueChunk(pairs[i \div 2].value)
          BY <1>1, <1>2, <3>3 DEF Written
        <4>3. QED
          BY <1>3, <4>1, <4>2, ChunksOfPair
      <3>4. QED
        BY <3>2, <3>3
    <2>3. 2 * N \in Nat
      OBVIOUS
    <2>4. QED
      BY <2>1, <2>2, <2>3
  <1>5. PICK c : c = SubSeq(w, 1, n)
    OBVIOUS
  <1>6. n \in Nat /\ n <= 2 * N
    BY <1>2, <1>4
  <1>7. c \in Seq(Chunk) /\ Len(c) = n /\ \A i \in 1 .. n : c[i] = w[i]
    BY <1>4, <1>5, <1>6
  <1>8. ASSUME NEW i \in 1 .. n \div 2
        PROVE  Pair(c[2 * i - 1].text, c[2 * i].value) = pairs[i]
    <2>1. /\ i \in 1 .. N /\ 2 * i - 1 \in 1 .. n /\ 2 * i \in 1 .. n
          /\ 2 * i - 1 \in 1 .. 2 * N /\ 2 * i \in 1 .. 2 * N
          /\ (2 * i - 1) % 2 = 1 /\ (2 * i) % 2 # 1
          /\ ((2 * i - 1) + 1) \div 2 = i /\ (2 * i) \div 2 = i
      BY <1>6
    <2>2. c[2 * i - 1] = w[2 * i - 1] /\ c[2 * i] = w[2 * i]
      BY <1>7, <2>1
    <2>3. w[2 * i - 1] = KeyChunk(pairs[i].key) /\ w[2 * i] = ValueChunk(pairs[i].value)
      BY <1>1, <1>2, <2>1 DEF Written
    <2>4. QED
      BY <1>3, <2>1, <2>2, <2>3, ChunksOfPair
  <1>9. ReadPairs(c) = [i \in 1 .. n \div 2 |-> pairs[i]]
    BY <1>7, <1>8 DEF ReadPairs
  <1>10. QED
    BY <1>1, <1>2, <1>4, <1>5, <1>7, <1>9

\* All of it, when nothing was cut off.
LEMMA ReadAllWritten ==
  ASSUME NEW pairs \in Seq(Pairs)
  PROVE  ReadPairs(Written(pairs)) = pairs
  <1>1. PICK N \in Nat : N = Len(pairs)
    OBVIOUS
  <1>2. PICK w : w = Written(pairs)
    OBVIOUS
  <1>3. Len(w) = 2 * N /\ w \in Seq(Chunk)
    <2>1. Len(w) = 2 * N
      BY <1>1, <1>2 DEF Written
    <2>2. 0 \in 0 .. Len(w)
      BY <2>1
    <2>3. QED
      BY <1>2, <2>1, <2>2, ReadWritten
  <1>4. Len(w) \in 0 .. Len(w) /\ SubSeq(w, 1, Len(w)) = w /\ Len(w) \div 2 = N
    BY <1>3
  <1>5. ReadPairs(SubSeq(w, 1, Len(w))) = [i \in 1 .. Len(w) \div 2 |-> pairs[i]]
    BY <1>2, <1>4, ReadWritten
  <1>6. pairs = [i \in 1 .. N |-> pairs[i]]
    BY <1>1
  <1>7. QED
    BY <1>2, <1>4, <1>5, <1>6

\* Whatever is read are pairs.
LEMMA ReadType ==
  ASSUME NEW chunks \in Seq(Chunk)
  PROVE  ReadPairs(chunks) \in Seq(Pairs)
  <1>1. PICK n \in Nat : n = Len(chunks) /\ \A i \in 1 .. n : chunks[i] \in Chunk
    OBVIOUS
  <1>2. ASSUME NEW i \in 1 .. n \div 2
        PROVE  Pair(chunks[2 * i - 1].text, chunks[2 * i].value) \in Pairs
    <2>1. 2 * i - 1 \in 1 .. n /\ 2 * i \in 1 .. n
      OBVIOUS
    <2>2. chunks[2 * i - 1] \in Chunk /\ chunks[2 * i] \in Chunk
      BY <1>1, <2>1
    <2>3. QED
      BY <2>2 DEF Pair, Pairs, Chunk
  <1>3. n \div 2 \in Nat
    OBVIOUS
  <1>4. QED
    BY <1>1, <1>2, <1>3 DEF ReadPairs

-----------------------------------------------------------------------------
(* The lines of the files and what is made of them *)

\* The lines of a file, and of all files, by the path and the index.
Of(d, p) == {p} \X DOMAIN d[p].lines
LinesOf(d) == UNION {Of(d, p) : p \in DOMAIN d}
LineAt(d) == [x \in LinesOf(d) |-> d[x[1]].lines[x[2]]]

\* The lines an application counts, and what its map function makes of them.
Emits(app, l) == l.columns > 0 /\ (app = "customer" => l.id # "")
Emission(app, l) ==
  IF app = "transaction"
    THEN Pair(LineKey(l), Sums(IF IsTransaction(l) THEN ParseAmount(l.amount) ELSE 0, 1))
    ELSE Pair(l.id, Sums(0, 1))
Emitted(app, d) == [x \in LinesOf(d) |-> Emission(app, LineAt(d)[x])]

\* The lines of a file are listed by its content.
LEMMA FileLists ==
  ASSUME NEW d \in Disks, NEW p \in DOMAIN d
  PROVE  /\ d[p].lines \in Seq(Line) /\ d[p].utf8 \in BOOLEAN /\ Of(d, p) \subseteq LinesOf(d)
         /\ Listed(d[p].lines, Of(d, p), LineAt(d))
         /\ \A x \in Of(d, p) : LineAt(d)[x] \in Line
  <1>1. IsContent(d[p])
    BY AggregationAssumption, Zenon
  <1>2. d[p].lines \in Seq(Line) /\ d[p].utf8 \in BOOLEAN
    BY <1>1 DEF IsContent
  <1>3. Of(d, p) \subseteq LinesOf(d)
    BY DEF LinesOf
  <1>4. PICK s : s = d[p].lines
    OBVIOUS
  <1>5. \A i \in DOMAIN s : <<p, i>> \in Of(d, p) /\ LineAt(d)[<<p, i>>] = s[i]
    BY <1>3, <1>4 DEF Of, LineAt
  <1> DEFINE b == [i \in DOMAIN s |-> <<p, i>>]
  <1>6. \A x \in Of(d, p) : \E i \in DOMAIN s : x = <<p, i>>
    BY <1>4 DEF Of
  <1>7. Lists(s, Of(d, p), LineAt(d), b)
    BY <1>5, <1>6 DEF Lists
  <1>8. \A i \in DOMAIN s : s[i] \in Line
    BY <1>2, <1>4
  <1>9. \A x \in Of(d, p) : LineAt(d)[x] \in Line
    BY <1>5, <1>6, <1>8
  <1>10. QED
    BY <1>2, <1>3, <1>4, <1>7, <1>9 DEF Listed

\* Its lines that are not empty.
LEMMA TextLists ==
  ASSUME NEW d \in Disks, NEW p \in DOMAIN d
  PROVE  /\ Text(d[p]) \in Seq(Line)
         /\ Listed(Text(d[p]), {x \in Of(d, p) : LineAt(d)[x].columns > 0}, LineAt(d))
  <1>1. PICK s : s = d[p].lines
    OBVIOUS
  <1>2. PICK V : V = LineAt(d)
    OBVIOUS
  <1>3. s \in Seq(Line) /\ Listed(s, Of(d, p), V) /\ \A x \in Of(d, p) : V[x] \in Line
    BY <1>1, <1>2, FileLists
  <1>4. PICK P : P = {l \in Line : l.columns > 0}
    OBVIOUS
  <1>5. PICK I : I = {i \in DOMAIN s : s[i].columns > 0}
    OBVIOUS
  <1>6. \A i \in DOMAIN s : i \in I <=> s[i] \in P
    BY <1>3, <1>4, <1>5
  <1>7. Keep(s, I) \in Seq(Line) /\ Listed(Keep(s, I), {x \in Of(d, p) : V[x] \in P}, V)
    BY <1>3, <1>6, FilterLists
  <1>8. {x \in Of(d, p) : V[x] \in P} = {x \in Of(d, p) : V[x].columns > 0}
    BY <1>3, <1>4
  <1>9. QED
    BY <1>1, <1>2, <1>5, <1>7, <1>8 DEF Text

\* The parts of a line.
LEMMA LineIs ==
  ASSUME NEW l \in Line
  PROVE  /\ l.columns \in 0 .. 6 /\ l.amount \in Int
         /\ l.id \in Keys \cup {""} /\ l.ref \in Keys \cup {""}
         /\ Customer(l) \in Keys \cup {""} /\ LineKey(l) \in Keys \cup {""}
         /\ Emission("transaction", l) \in Pairs
         /\ Emission("transaction", l).value.wide /\ Emission("transaction", l).value.count = 1
         /\ Emission("customer", l) \in Pairs
         /\ Emission("customer", l).value.wide /\ Emission("customer", l).value.count = 1
  <1>1. /\ l.columns \in 0 .. 6 /\ l.amount \in Int
        /\ l.id \in Keys \cup {""} /\ l.ref \in Keys \cup {""}
    BY DEF Line
  <1>2. "unknown" \in Keys
    BY AggregationAssumption, Zenon
  <1>3. Customer(l) \in Keys \cup {""} /\ LineKey(l) \in Keys \cup {""}
    BY <1>1, <1>2 DEF Customer, LineKey
  <1>4. ASSUME NEW k \in Keys \cup {""}, NEW n \in Number, NEW e, e = Pair(k, Sums(n, 1))
        PROVE  e \in Pairs /\ e.value.wide /\ e.value.count = 1
    <2>1. e \in Pairs
      BY <1>4, PairIs, Numbers
    <2>2. e.value = Sums(n, 1)
      BY <1>4 DEF Pair
    <2>3. Sums(n, 1).wide /\ Sums(n, 1).count = 1
      BY DEF Sums
    <2>4. QED
      BY <2>1, <2>2, <2>3, Zenon
  <1>5. PICK n \in Number : n = IF IsTransaction(l) THEN ParseAmount(l.amount) ELSE 0
    BY <1>1, Numbers
  <1>6. PICK k \in Keys \cup {""} : k = LineKey(l)
    BY <1>3
  <1>7. Emission("transaction", l) = Pair(k, Sums(n, 1))
    BY <1>5, <1>6 DEF Emission
  <1>8. Emission("customer", l) = Pair(l.id, Sums(0, 1))
    BY DEF Emission
  <1>9. 0 \in Number
    BY Numbers
  <1>10. QED
    BY <1>1, <1>3, <1>4, <1>7, <1>8, <1>9

\* The map function of transactions emits each line that is not empty.
LEMMA SummaryLists ==
  ASSUME NEW d \in Disks, NEW p \in DOMAIN d
  PROVE  /\ SummaryMap(d[p]) \in Seq(Pairs)
         /\ Listed(SummaryMap(d[p]), {x \in Of(d, p) : Emits("transaction", LineAt(d)[x])},
                   Emitted("transaction", d))
  <1>1. PICK s : s = Text(d[p])
    OBVIOUS
  <1>2. PICK V : V = LineAt(d)
    OBVIOUS
  <1>3. PICK R : R = {x \in Of(d, p) : V[x].columns > 0}
    OBVIOUS
  <1>4. PICK W : W = Emitted("transaction", d)
    OBVIOUS
  <1>5. PICK u : u = SummaryMap(d[p])
    OBVIOUS
  <1>6. s \in Seq(Line) /\ Listed(s, R, V)
    BY <1>1, <1>2, <1>3, TextLists
  <1>7. u = [i \in DOMAIN s |-> Emission("transaction", s[i])]
    BY <1>1, <1>5 DEF SummaryMap, Emission
  <1>8. PICK n \in Nat : DOMAIN s = 1 .. n /\ \A i \in 1 .. n : s[i] \in Line
    BY <1>6
  <1>9. \A i \in 1 .. n : u[i] \in Pairs
    BY <1>7, <1>8, LineIs
  <1>10. u \in Seq(Pairs)
    BY <1>7, <1>8, <1>9
  <1>11. \A x \in R : W[x] = Emission("transaction", V[x])
    BY <1>2, <1>3, <1>4, FileLists DEF Emitted
  <1>12. Listed(u, R, W)
    <2>1. \A i \in DOMAIN s : \A x \in R : s[i] = V[x] => u[i] = W[x]
      BY <1>7, <1>11
    <2>2. DOMAIN u = DOMAIN s
      BY <1>7
    <2>3. QED
      BY <1>6, <2>1, <2>2, MapLists
  <1>13. R = {x \in Of(d, p) : Emits("transaction", V[x])}
    BY <1>3 DEF Emits
  <1>14. QED
    BY <1>2, <1>4, <1>5, <1>10, <1>12, <1>13

\* The map function of customers emits each line with an id.
LEMMA CustomerLists ==
  ASSUME NEW d \in Disks, NEW p \in DOMAIN d
  PROVE  /\ CustomerMap(d[p]) \in Seq(Pairs)
         /\ Listed(CustomerMap(d[p]), {x \in Of(d, p) : Emits("customer", LineAt(d)[x])},
                   Emitted("customer", d))
  <1>1. PICK s : s = Text(d[p])
    OBVIOUS
  <1>2. PICK V : V = LineAt(d)
    OBVIOUS
  <1>3. PICK R : R = {x \in Of(d, p) : V[x].columns > 0}
    OBVIOUS
  <1>4. PICK W : W = Emitted("customer", d)
    OBVIOUS
  <1>5. PICK u : u = CustomerMap(d[p])
    OBVIOUS
  <1>6. s \in Seq(Line) /\ Listed(s, R, V)
    BY <1>1, <1>2, <1>3, TextLists
  <1>7. \A x \in R : V[x] \in Line
    BY <1>2, <1>3, FileLists
  <1>8. PICK P : P = {l \in Line : l.id # ""}
    OBVIOUS
  <1>9. PICK I : I = {i \in DOMAIN s : s[i].id # ""}
    OBVIOUS
  <1>10. PICK Q : Q = {x \in R : V[x] \in P}
    OBVIOUS
  <1>11. PICK k : k = Keep(s, I)
    OBVIOUS
  <1>12. k \in Seq(Line) /\ Listed(k, Q, V)
    <2>1. \A i \in DOMAIN s : i \in I <=> s[i] \in P
      <3>1. \A i \in DOMAIN s : s[i] \in Line
        BY <1>6
      <3>2. QED
        BY <1>8, <1>9, <3>1
    <2>2. QED
      BY <1>6, <1>10, <1>11, <2>1, FilterLists
  <1>13. u = [i \in DOMAIN k |-> Emission("customer", k[i])]
    BY <1>1, <1>5, <1>9, <1>11 DEF CustomerMap, Emission
  <1>14. PICK n \in Nat : DOMAIN k = 1 .. n /\ \A i \in 1 .. n : k[i] \in Line
    BY <1>12
  <1>15. \A i \in 1 .. n : u[i] \in Pairs
    BY <1>13, <1>14, LineIs
  <1>16. u \in Seq(Pairs)
    BY <1>13, <1>14, <1>15
  <1>17. \A x \in Q : W[x] = Emission("customer", V[x])
    BY <1>2, <1>3, <1>4, <1>10, FileLists DEF Emitted
  <1>18. Listed(u, Q, W)
    <2>1. \A i \in DOMAIN k : \A x \in Q : k[i] = V[x] => u[i] = W[x]
      BY <1>13, <1>17
    <2>2. DOMAIN u = DOMAIN k
      BY <1>13
    <2>3. QED
      BY <1>12, <2>1, <2>2, MapLists
  <1>19. Q = {x \in Of(d, p) : Emits("customer", V[x])}
    <2>1. \A x \in Of(d, p) : x \in R => (V[x] \in P <=> V[x].id # "")
      BY <1>7, <1>8
    <2>2. QED
      BY <1>3, <1>10, <2>1 DEF Emits
  <1>20. QED
    BY <1>2, <1>4, <1>5, <1>16, <1>18, <1>19

\* The handler's own parser finds the transactions.
LEMMA ParsedLists ==
  ASSUME NEW d \in Disks, NEW p \in DOMAIN d
  PROVE  /\ ParsedForCoord(d[p]) \in Seq(Pairs)
         /\ Listed(ParsedForCoord(d[p]), {x \in Of(d, p) : IsTransaction(LineAt(d)[x])},
                   Emitted("transaction", d))
  <1>1. PICK s : s = Text(d[p])
    OBVIOUS
  <1>2. PICK V : V = LineAt(d)
    OBVIOUS
  <1>3. PICK R : R = {x \in Of(d, p) : V[x].columns > 0}
    OBVIOUS
  <1>4. PICK W : W = Emitted("transaction", d)
    OBVIOUS
  <1>5. PICK u : u = ParsedForCoord(d[p])
    OBVIOUS
  <1>6. s \in Seq(Line) /\ Listed(s, R, V)
    BY <1>1, <1>2, <1>3, TextLists
  <1>7. \A x \in Of(d, p) : V[x] \in Line
    BY <1>2, FileLists
  <1>8. PICK P : P = {l \in Line : IsTransaction(l)}
    OBVIOUS
  <1>9. PICK I : I = {i \in DOMAIN s : IsTransaction(s[i])}
    OBVIOUS
  <1>10. PICK Q : Q = {x \in R : V[x] \in P}
    OBVIOUS
  <1>11. PICK k : k = Keep(s, I)
    OBVIOUS
  <1>12. k \in Seq(Line) /\ Listed(k, Q, V)
    <2>1. \A i \in DOMAIN s : i \in I <=> s[i] \in P
      <3>1. \A i \in DOMAIN s : s[i] \in Line
        BY <1>6
      <3>2. QED
        BY <1>8, <1>9, <3>1
    <2>2. QED
      BY <1>6, <1>10, <1>11, <2>1, FilterLists
  <1>13. u = [i \in DOMAIN k |-> Pair(Customer(k[i]), Sums(ParseAmount(k[i].amount), 1))]
    BY <1>1, <1>5, <1>9, <1>11 DEF ParsedForCoord
  <1>14. PICK n \in Nat : DOMAIN k = 1 .. n /\ \A i \in 1 .. n : k[i] \in Line
    BY <1>12
  <1>15. \A l \in P : Emission("transaction", l) = Pair(Customer(l), Sums(ParseAmount(l.amount), 1))
    BY <1>8 DEF Emission, LineKey
  <1>16. ASSUME NEW i \in DOMAIN k PROVE k[i] \in P
    BY <1>10, <1>12 DEF Listed, Lists
  <1>17. \A i \in DOMAIN k : u[i] = Emission("transaction", k[i])
    BY <1>13, <1>15, <1>16
  <1>18. \A i \in 1 .. n : u[i] \in Pairs
    BY <1>14, <1>17, LineIs
  <1>19. u \in Seq(Pairs)
    BY <1>13, <1>14, <1>18
  <1>20. \A x \in Q : W[x] = Emission("transaction", V[x])
    BY <1>2, <1>3, <1>4, <1>10, FileLists DEF Emitted
  <1>21. Listed(u, Q, W)
    <2>1. \A i \in DOMAIN k : \A x \in Q : k[i] = V[x] => u[i] = W[x]
      BY <1>17, <1>20
    <2>2. DOMAIN u = DOMAIN k
      BY <1>13
    <2>3. QED
      BY <1>12, <2>1, <2>2, MapLists
  <1>22. Q = {x \in Of(d, p) : IsTransaction(V[x])}
    <2>1. \A x \in Of(d, p) : IsTransaction(V[x]) => V[x].columns > 0
      BY DEF IsTransaction
    <2>2. QED
      BY <1>3, <1>7, <1>8, <1>10, <2>1
  <1>23. QED
    BY <1>2, <1>4, <1>5, <1>19, <1>21, <1>22

\* Lines as values are pairs too.
LEMMA LineMapType ==
  ASSUME NEW d \in Disks, NEW p \in DOMAIN d
  PROVE  LineMap(d[p]) \in Seq(Pairs)
  <1>1. PICK s : s = Text(d[p])
    OBVIOUS
  <1>2. s \in Seq(Line)
    BY <1>1, TextLists
  <1>3. PICK n \in Nat : DOMAIN s = 1 .. n /\ \A i \in 1 .. n : s[i] \in Line
    BY <1>2
  <1>4. TextAsNumber \in Number
    BY AggregationAssumption, Zenon
  <1>5. ASSUME NEW l \in Line PROVE Pair(LineKey(l), TextValue(l)) \in Pairs
    <2>1. LineKey(l) \in Keys \cup {""}
      BY LineIs
    <2>2. TextValue(l) \in Value
      BY <1>4 DEF TextValue, Value
    <2>3. QED
      BY <2>1, <2>2, PairIs
  <1>6. LineMap(d[p]) = [i \in 1 .. n |-> Pair(LineKey(s[i]), TextValue(s[i]))]
    BY <1>1, <1>3 DEF LineMap
  <1>7. QED
    BY <1>3, <1>5, <1>6

\* The map function of a job.
LEMMA MapFnLists ==
  ASSUME NEW d \in Disks, NEW p \in DOMAIN d, NEW app
  PROVE  /\ MapFn(app, d[p]) \in Seq(Pairs)
         /\ app \in {"transaction", "customer"} =>
              Listed(MapFn(app, d[p]), {x \in Of(d, p) : Emits(app, LineAt(d)[x])}, Emitted(app, d))
  <1>1. CASE app = "transaction"
    BY <1>1, SummaryLists DEF MapFn
  <1>2. CASE app = "customer"
    <2>1. MapFn(app, d[p]) = CustomerMap(d[p])
      BY <1>2 DEF MapFn
    <2>2. QED
      BY <1>2, <2>1, CustomerLists
  <1>3. CASE app \notin {"transaction", "customer"}
    <2>1. MapFn(app, d[p]) = LineMap(d[p])
      BY <1>3 DEF MapFn
    <2>2. QED
      BY <1>3, <2>1, LineMapType
  <1>4. QED
    BY <1>1, <1>2, <1>3

\* What a reduce task reads of a map output is what was partitioned to it.
LEMMA PartitionLists ==
  ASSUME NEW h, NEW r \in Reduces, NEW pairs \in Seq(Pairs),
         NEW read, read = ReadPairs(Partitions(h, pairs)[r])
  PROVE  /\ read \in Seq(Pairs)
         /\ \A R, W : Listed(pairs, R, W) /\ (\A x \in R : W[x] \in Pairs) =>
              Listed(read, {x \in R : h[W[x].key] = r}, W)
  <1>1. PICK I : I = {i \in DOMAIN pairs : h[pairs[i].key] = r}
    OBVIOUS
  <1>2. PICK k : k = Keep(pairs, I)
    OBVIOUS
  <1>3. k \in Seq(Pairs)
    BY <1>2, KeepLists
  <1>4. Partitions(h, pairs)[r] = Written(k)
    BY <1>1, <1>2 DEF Partitions
  <1>5. ReadPairs(Written(k)) = k
    BY <1>3, ReadAllWritten
  <1>6. PICK P : P = {p \in Pairs : h[p.key] = r}
    OBVIOUS
  <1>7. ASSUME NEW R, NEW W, Listed(pairs, R, W), \A x \in R : W[x] \in Pairs
        PROVE  Listed(k, {x \in R : h[W[x].key] = r}, W)
    <2>1. \A i \in DOMAIN pairs : i \in I <=> pairs[i] \in P
      <3>1. \A i \in DOMAIN pairs : pairs[i] \in Pairs
        OBVIOUS
      <3>2. QED
        BY <1>1, <1>6, <3>1
    <2>2. Listed(k, {x \in R : W[x] \in P}, W)
      BY <1>2, <1>7, <2>1, FilterLists
    <2>3. {x \in R : W[x] \in P} = {x \in R : h[W[x].key] = r}
      BY <1>6, <1>7
    <2>4. QED
      BY <2>2, <2>3
  <1>8. QED
    BY <1>3, <1>4, <1>5, <1>7

\* Sequences, one after the other, have no other elements than theirs.
LEMMA FlattenType ==
  ASSUME NEW U, NEW seqs \in Seq(Seq(U))
  PROVE  FlattenSeq(seqs) \in Seq(U)
  <1> DEFINE R == [i \in DOMAIN seqs |-> {i} \X DOMAIN seqs[i]]
  <1> DEFINE V == [x \in UNION {R[i] : i \in DOMAIN seqs} |-> seqs[x[1]][x[2]]]
  <1>1. \A i, j \in DOMAIN seqs : i # j => R[i] \cap R[j] = {}
    OBVIOUS
  <1>2. ASSUME NEW i \in DOMAIN seqs PROVE Listed(seqs[i], R[i], V)
    <2>1. PICK s : s = seqs[i]
      OBVIOUS
    <2>2. \A j \in DOMAIN s : <<i, j>> \in R[i] /\ V[<<i, j>>] = s[j]
      BY <2>1
    <2>3. \A x \in R[i] : \E j \in DOMAIN s : x = <<i, j>>
      BY <2>1
    <2> DEFINE b == [j \in DOMAIN s |-> <<i, j>>]
    <2> HIDE DEF R, V
    <2>4. Lists(s, R[i], V, b)
      BY <2>2, <2>3 DEF Lists
    <2>5. QED
      BY <2>1, <2>4 DEF Listed
  <1> HIDE DEF R, V
  <1>3. QED
    BY <1>1, <1>2, FlattenLists

-----------------------------------------------------------------------------
(* Groups and their sums *)

\* A sequence and what it lists have the same sums.
LEMMA SumLists ==
  ASSUME NEW s, NEW R, NEW V, Listed(s, R, V), IsFiniteSet(DOMAIN s),
         NEW I \in SUBSET DOMAIN s, NEW Q \in SUBSET R, NEW f, NEW g,
         \A i \in DOMAIN s : \A x \in R : s[i] = V[x] => (i \in I <=> x \in Q),
         \A i \in I : f[i] \in Int,
         \A i \in I : \A x \in R : s[i] = V[x] => g[x] = f[i]
  PROVE  /\ IsFiniteSet(Q) /\ SumFunctionOnSet(f, I) = SumFunctionOnSet(g, Q)
  <1>1. PICK b : Lists(s, R, V, b)
    BY DEF Listed
  <1>2. IsFiniteSet(I)
    BY FS_Subset
  <1> DEFINE c == [i \in I |-> b[i]]
  <1>3. \A i \in DOMAIN s : b[i] \in R /\ s[i] = V[b[i]]
    BY <1>1 DEF Lists
  <1>4. \A i \in I : b[i] \in Q /\ f[i] \in Int /\ g[b[i]] = f[i]
    BY <1>3
  <1>5. c \in [I -> Q]
    BY <1>4
  <1>6. \A i, j \in I : c[i] = c[j] => i = j
    BY <1>1 DEF Lists
  <1>7. ASSUME NEW x \in Q PROVE \E i \in I : c[i] = x
    <2>1. PICK i \in DOMAIN s : b[i] = x
      BY <1>1 DEF Lists
    <2>2. i \in I
      BY <1>3, <2>1
    <2>3. QED
      BY <2>1, <2>2
  <1>8. \A i \in I : f[i] \in Int /\ g[c[i]] = f[i]
    BY <1>4
  <1> HIDE DEF c
  <1>9. QED
    BY <1>2, <1>5, <1>6, <1>7, <1>8, SumMoved

\* The indices of a sequence are finitely many, and so are its keys.
LEMMA KeysFinite ==
  ASSUME NEW pairs \in Seq(Pairs)
  PROVE  IsFiniteSet(DOMAIN pairs) /\ IsFiniteSet({pairs[i].key : i \in DOMAIN pairs})
  <1>1. PICK n \in Nat : DOMAIN pairs = 1 .. n
    OBVIOUS
  <1>2. IsFiniteSet(DOMAIN pairs)
    BY <1>1, FS_Interval
  <1>3. PICK D : D = DOMAIN pairs
    OBVIOUS
  <1>4. PICK K : K = {pairs[i].key : i \in D}
    OBVIOUS
  <1>5. [i \in D |-> pairs[i].key] \in Surjection(D, K)
    BY <1>4 DEF Surjection
  <1>6. IsFiniteSet(K)
    BY <1>2, <1>3, <1>5, FS_Surjection
  <1>7. QED
    BY <1>2, <1>3, <1>4, <1>6

\* A finite set as a sequence has each element once.
LEMMA SetToSeqLists ==
  ASSUME NEW K, IsFiniteSet(K)
  PROVE  SetToSeq(K) \in Seq(K) /\ Listed(SetToSeq(K), K, [k \in K |-> k])
  <1>1. PICK n \in Nat : n = Cardinality(K) /\ ExistsBijection(1 .. n, K)
    BY FS_CardinalityType
  <1>2. PICK s : s = SetToSeq(K)
    OBVIOUS
  <1>3. \E f \in [1 .. n -> K] : IsInjective(f)
    <2>1. PICK f : f \in Bijection(1 .. n, K)
      BY <1>1 DEF ExistsBijection
    <2>2. f \in [1 .. n -> K] /\ \A i, j \in 1 .. n : f[i] = f[j] => i = j
      BY <2>1 DEF Bijection, Injection, IsInjective
    <2>3. QED
      BY <2>2 DEF IsInjective
  <1>4. s \in [1 .. n -> K] /\ IsInjective(s)
    BY <1>1, <1>2, <1>3 DEF SetToSeq
  <1>5. \A i, j \in 1 .. n : s[i] = s[j] => i = j
    BY <1>4 DEF IsInjective
  <1>6. s \in Injection(1 .. n, K)
    BY <1>4, <1>5 DEF Injection
  <1>7. IsFiniteSet(1 .. n) /\ Cardinality(1 .. n) = n
    BY FS_Interval
  <1>8. s \in Surjection(1 .. n, K)
    BY <1>1, <1>6, <1>7, FS_Injection
  <1>9. \A k \in K : \E i \in 1 .. n : s[i] = k
    BY <1>8 DEF Surjection
  <1>10. s \in Seq(K) /\ DOMAIN s = 1 .. n
    BY <1>4
  <1>11. Lists(s, K, [k \in K |-> k], s)
    BY <1>4, <1>5, <1>9, <1>10 DEF Lists
  <1>12. QED
    BY <1>2, <1>10, <1>11 DEF Listed

\* The reduce functions of the two applications sum what is in a group.
LEMMA SummaryIs ==
  ASSUME NEW pairs \in Seq(Pairs), NEW group \in SUBSET DOMAIN pairs
  PROVE  /\ SummaryReduce(pairs, group) \in Value
         /\ (\A i \in group : pairs[i].value.wide) =>
              SummaryReduce(pairs, group) =
                Sums(Unsigned(SumFunctionOnSet([i \in group |-> pairs[i].value.sum], group)),
                     Unsigned(SumFunctionOnSet([i \in group |-> pairs[i].value.count], group)))
  <1>1. PICK f : f = [i \in group |-> IF pairs[i].value.wide THEN pairs[i].value.sum ELSE 0]
    OBVIOUS
  <1>2. PICK g : g = [i \in group |-> IF pairs[i].value.wide THEN pairs[i].value.count ELSE 1]
    OBVIOUS
  <1>3. DOMAIN f = group /\ DOMAIN g = group
    BY <1>1, <1>2
  <1>4. SummaryReduce(pairs, group) =
          Sums(Unsigned(SumFunctionOnSet(f, group)), Unsigned(SumFunctionOnSet(g, group)))
    <2>1. SummaryReduce(pairs, group) = Sums(Unsigned(SumFunction(f)), Unsigned(SumFunction(g)))
      BY <1>1, <1>2 DEF SummaryReduce
    <2>2. QED
      BY <1>3, <2>1 DEF SumFunction
  <1>5. IsFiniteSet(group)
    BY KeysFinite, FS_Subset
  <1>6. ASSUME NEW i \in group PROVE f[i] \in Int /\ g[i] \in Int
    <2>1. pairs[i] \in Pairs
      OBVIOUS
    <2>2. pairs[i].value.sum \in Number /\ pairs[i].value.count \in Number
      BY <2>1 DEF Pairs, Value
    <2>3. QED
      BY <1>1, <1>2, <2>2, Numbers
  <1>7. SumFunctionOnSet(f, group) \in Int /\ SumFunctionOnSet(g, group) \in Int
    BY <1>5, <1>6, SumRemove
  <1>8. SummaryReduce(pairs, group) \in Value
    BY <1>4, <1>7, Numbers, PairIs
  <1>9. ASSUME \A i \in group : pairs[i].value.wide
        PROVE  /\ f = [i \in group |-> pairs[i].value.sum]
               /\ g = [i \in group |-> pairs[i].value.count]
    BY <1>1, <1>2, <1>9
  <1>10. QED
    BY <1>4, <1>8, <1>9

\* A set of natural numbers has a least one.
LEMMA MinIs ==
  ASSUME NEW S, S \subseteq Nat, S # {}
  PROVE  Min(S) \in S
  <1>1. PICK m \in S : \A i \in S : ~ (<<i, m>> \in Lt)
    BY LtWF, WFMin
  <1>2. ASSUME NEW i \in S PROVE m <= i
    <2>1. i \in Nat /\ m \in Nat
      OBVIOUS
    <2>2. ~ (i < m)
      BY <1>1, <2>1 DEF Lt
    <2>3. QED
      BY <2>1, <2>2
  <1>3. QED
    BY <1>2 DEF Min

\* Joined values are a value.
LEMMA DummyIs ==
  ASSUME NEW pairs \in Seq(Pairs), NEW group \in SUBSET DOMAIN pairs, group # {}
  PROVE  DummyReduce(pairs, group) \in Value
  <1>1. Min(group) \in group
    <2>1. group \subseteq Nat
      OBVIOUS
    <2>2. QED
      BY <2>1, MinIs
  <1>2. pairs[Min(group)] \in Pairs
    BY <1>1
  <1>3. PICK v : v = pairs[Min(group)].value
    OBVIOUS
  <1>4. v \in Value
    BY <1>2, <1>3 DEF Pairs
  <1>5. PICK w \in BOOLEAN : w = \E i \in group : pairs[i].value.wide
    OBVIOUS
  <1>6. [v EXCEPT !.wide = w] \in Value
    BY <1>4 DEF Value
  <1>7. QED
    BY <1>3, <1>5, <1>6 DEF DummyReduce

\* What is said of a key by the lines in A, as W has them.
About(A, W, k) == {x \in A : W[x].key = k}
Summed(A, W, k) ==
  Sums(Unsigned(SumFunctionOnSet([x \in DOMAIN W |-> W[x].value.sum], About(A, W, k))),
       Unsigned(Cardinality(About(A, W, k))))
KeysSaid(A, W) == {W[x].key : x \in A}
Told(A, W) == [k \in KeysSaid(A, W) |-> Pair(k, Summed(A, W, k))]

\* The output of a reduce task has a pair for every key that it read.
LEMMA GroupsType ==
  ASSUME NEW app, NEW pairs \in Seq(Pairs)
  PROVE  Groups(app, pairs) \in Seq(Pairs)
  <1>1. PICK K : K = {pairs[i].key : i \in DOMAIN pairs}
    OBVIOUS
  <1>2. PICK s : s = SetToSeq(K)
    OBVIOUS
  <1>3. s \in Seq(K)
    BY <1>1, <1>2, KeysFinite, SetToSeqLists
  <1>4. PICK n \in Nat : DOMAIN s = 1 .. n /\ \A j \in 1 .. n : s[j] \in K
    BY <1>3
  <1>5. ASSUME NEW k \in K
        PROVE  Pair(k, ReduceFn(app, pairs, {i \in DOMAIN pairs : pairs[i].key = k})) \in Pairs
    <2>1. PICK group \in SUBSET DOMAIN pairs : group = {i \in DOMAIN pairs : pairs[i].key = k}
      OBVIOUS
    <2>2. PICK i \in DOMAIN pairs : pairs[i].key = k
      BY <1>1
    <2>3. group # {}
      BY <2>1, <2>2
    <2>4. ReduceFn(app, pairs, group) \in Value
      BY <2>3, SummaryIs, DummyIs DEF ReduceFn
    <2>5. k \in Keys \cup {""}
      <3>1. pairs[i] \in Pairs
        OBVIOUS
      <3>2. QED
        BY <2>2, <3>1, PairIs
    <2>6. QED
      BY <2>1, <2>4, <2>5, PairIs
  <1>6. Groups(app, pairs) =
          [j \in 1 .. n |-> Pair(s[j], ReduceFn(app, pairs, {i \in DOMAIN pairs : pairs[i].key = s[j]}))]
    BY <1>1, <1>2, <1>4 DEF Groups
  <1>7. QED
    BY <1>4, <1>5, <1>6

\* For the two applications it is what the lines it read say of each key.
LEMMA GroupsLists ==
  ASSUME NEW app \in {"transaction", "customer"}, NEW pairs \in Seq(Pairs),
         NEW A, NEW W, A \subseteq DOMAIN W, Listed(pairs, A, W),
         \A x \in A : W[x].value.wide /\ W[x].value.count = 1
  PROVE  Listed(Groups(app, pairs), KeysSaid(A, W), Told(A, W))
  <1>1. PICK K : K = {pairs[i].key : i \in DOMAIN pairs}
    OBVIOUS
  <1>2. PICK b : Lists(pairs, A, W, b)
    BY DEF Listed
  <1>3. \A i \in DOMAIN pairs : b[i] \in A /\ pairs[i] = W[b[i]]
    BY <1>2 DEF Lists
  <1>4. K = KeysSaid(A, W)
    <2>1. K \subseteq KeysSaid(A, W)
      BY <1>1, <1>3 DEF KeysSaid
    <2>2. ASSUME NEW x \in A PROVE W[x].key \in K
      <3>1. PICK i \in DOMAIN pairs : b[i] = x
        BY <1>2 DEF Lists
      <3>2. QED
        BY <1>1, <1>3, <3>1
    <2>3. QED
      BY <2>1, <2>2 DEF KeysSaid
  <1>5. PICK s : s = SetToSeq(K)
    OBVIOUS
  <1>6. s \in Seq(K) /\ Listed(s, K, [k \in K |-> k])
    BY <1>1, <1>5, KeysFinite, SetToSeqLists
  <1>7. PICK u : u = Groups(app, pairs)
    OBVIOUS
  <1>8. ASSUME NEW k \in K
        PROVE  ReduceFn(app, pairs, {i \in DOMAIN pairs : pairs[i].key = k}) = Summed(A, W, k)
    <2>1. PICK group \in SUBSET DOMAIN pairs : group = {i \in DOMAIN pairs : pairs[i].key = k}
      OBVIOUS
    <2>2. PICK Q \in SUBSET A : Q = About(A, W, k)
      BY DEF About
    <2>3. \A i \in DOMAIN pairs : \A x \in A : pairs[i] = W[x] => (i \in group <=> x \in Q)
      BY <2>1, <2>2 DEF About
    <2>4. PICK f : f = [i \in group |-> pairs[i].value.sum]
      OBVIOUS
    <2>5. PICK c : c = [i \in group |-> pairs[i].value.count]
      OBVIOUS
    <2>6. PICK g : g = [x \in DOMAIN W |-> W[x].value.sum]
      OBVIOUS
    <2>7. PICK e : e = [x \in DOMAIN W |-> W[x].value.count]
      OBVIOUS
    <2>8. ASSUME NEW i \in group
          PROVE  f[i] \in Int /\ c[i] \in Int /\ pairs[i].value.wide
      <3>1. pairs[i] \in Pairs
        OBVIOUS
      <3>2. pairs[i].value.sum \in Number /\ pairs[i].value.count \in Number
        BY <3>1 DEF Pairs, Value
      <3>3. pairs[i].value.wide
        BY <1>3
      <3>4. f[i] \in Int /\ c[i] \in Int
        BY <2>4, <2>5, <3>2, Numbers
      <3>5. QED
        BY <3>3, <3>4
    <2>9. \A i \in group : \A x \in A : pairs[i] = W[x] => g[x] = f[i] /\ e[x] = c[i]
      BY <2>4, <2>5, <2>6, <2>7
    <2>10. IsFiniteSet(DOMAIN pairs)
      BY KeysFinite
    <2>11. IsFiniteSet(Q) /\ SumFunctionOnSet(f, group) = SumFunctionOnSet(g, Q)
      BY <2>3, <2>8, <2>9, <2>10, SumLists
    <2>12. SumFunctionOnSet(c, group) = SumFunctionOnSet(e, Q)
      BY <2>3, <2>8, <2>9, <2>10, SumLists
    <2>13. SumFunctionOnSet(e, Q) = Cardinality(Q)
      <3>1. \A x \in Q : e[x] = 1
        BY <2>7
      <3>2. QED
        BY <2>11, <3>1, SumOfOnes
    <2>14. ReduceFn(app, pairs, group) =
             Sums(Unsigned(SumFunctionOnSet(f, group)), Unsigned(SumFunctionOnSet(c, group)))
      BY <2>4, <2>5, <2>8, SummaryIs DEF ReduceFn
    <2>15. QED
      BY <2>1, <2>2, <2>6, <2>11, <2>12, <2>13, <2>14 DEF Summed
  <1>9. u = [j \in DOMAIN s |->
               Pair(s[j], ReduceFn(app, pairs, {i \in DOMAIN pairs : pairs[i].key = s[j]}))]
    BY <1>1, <1>5, <1>7 DEF Groups
  <1>10. PICK T : T = Told(A, W)
    OBVIOUS
  <1>11. ASSUME NEW j \in DOMAIN s, NEW k \in K, s[j] = [l \in K |-> l][k]
         PROVE  u[j] = T[k]
    <2>1. s[j] = k
      BY <1>11
    <2>2. T[k] = Pair(k, Summed(A, W, k))
      BY <1>4, <1>10 DEF Told
    <2>3. QED
      BY <1>8, <1>9, <2>1, <2>2
  <1>12. DOMAIN u = DOMAIN s
    BY <1>9
  <1>13. Listed(u, K, T)
    BY <1>6, <1>11, <1>12, MapLists
  <1>14. QED
    BY <1>4, <1>7, <1>10, <1>13

-----------------------------------------------------------------------------
(* The files of a job *)

\* The time range of a job is a first and a last day.
LEMMA TimeRangeIs ==
  ASSUME NEW q \in Requests
  PROVE  \E a, b \in Int : a <= b /\ ResolveTimeRange(q.range) = <<a, b>>
  <1>1. PICK start, end : start = q.range.start /\ end = q.range.end
    OBVIOUS
  <1>2. start.day \in Int /\ start.shift \in Int /\ end.day \in Int /\ end.shift \in Int
    BY <1>1, AggregationAssumption, Zenon
  <1>3. Today \in Int
    BY AggregationAssumption, Zenon
  <1>4. /\ ParseDatetime(start) = {} \/ \E a \in Int : ParseDatetime(start) = {a}
        /\ ParseDatetime(end) = {} \/ \E b \in Int : ParseDatetime(end) = {b}
    BY <1>2 DEF ParseDatetime
  <1>5. PICK P, Q : P = ParseDatetime(start) /\ Q = ParseDatetime(end)
    OBVIOUS
  <1>6. PICK res : res = ResolveTimeRange(q.range)
    OBVIOUS
  <1>7. CASE q.range.type = "between" /\ P # {} /\ Q # {}
    <2>1. PICK a, b \in Int : P = {a} /\ Q = {b}
      BY <1>4, <1>5, <1>7
    <2>2. UNION {P, Q} = {a, b}
      BY <2>1
    <2>3. res = <<Min(UNION {P, Q}), Max(UNION {P, Q})>>
      BY <1>1, <1>5, <1>6, <1>7 DEF ResolveTimeRange
    <2>4. /\ Min({a, b}) \in {a, b} /\ \A y \in {a, b} : Min({a, b}) <= y
          /\ Max({a, b}) \in {a, b}
      <3>1. /\ \E x \in {a, b} : \A y \in {a, b} : x <= y
            /\ \E x \in {a, b} : \A y \in {a, b} : x >= y
        BY SMT
      <3>2. QED
        BY <3>1 DEF Min, Max
    <2>5. QED
      BY <1>6, <2>2, <2>3, <2>4
  <1>8. CASE ~ (q.range.type = "between" /\ P # {} /\ Q # {})
    <2>1. res = <<Today - 1, Today - 1>> \/ res = <<Today, Today>>
      BY <1>1, <1>5, <1>6, <1>8 DEF ResolveTimeRange
    <2>2. Today - 1 \in Int /\ Today - 1 <= Today - 1 /\ Today <= Today
      BY <1>3
    <2>3. QED
      BY <1>3, <1>6, <2>1, <2>2
  <1>9. QED
    BY <1>7, <1>8

\* The files that the time range of the request asks for.
WantedBy(q) ==
  LET days == ResolveTimeRange(q.range) IN
  IF q.entity = "transaction"
    THEN {Path("transaction", "transaction", x) : x \in days[1] .. days[2]}
    ELSE {Path("customer", "customer", 0)}

\* A file for every day, or the one of the entity.
LEMMA FilesAre ==
  ASSUME NEW q \in Requests
  PROVE  /\ \E n \in Nat : DOMAIN Files(q) = 1 .. n
         /\ q.entity \in {"transaction", "customer"} =>
              /\ \A t, u \in DOMAIN Files(q) : Files(q)[t] = Files(q)[u] => t = u
              /\ {Files(q)[t] : t \in DOMAIN Files(q)} = WantedBy(q)
              /\ \A t \in DOMAIN Files(q) : \E x \in Int : Files(q)[t] = Path(q.entity, q.entity, x)
  <1>1. PICK a, b \in Int : a <= b /\ ResolveTimeRange(q.range) = <<a, b>>
    BY TimeRangeIs
  <1>2. PICK names : names = FilenamesForEntity(q.entity, a, b)
    OBVIOUS
  <1>3. PICK F : F = Files(q)
    OBVIOUS
  <1>4. F = [i \in DOMAIN names |-> Path(q.entity, names[i][1], names[i][2])]
    BY <1>1, <1>2, <1>3 DEF Files
  <1>5. CASE q.entity = "transaction"
    <2>1. names = [i \in 1 .. b - a + 1 |-> <<"transaction", a + i - 1>>]
      BY <1>2, <1>5 DEF FilenamesForEntity
    <2>2. F = [i \in 1 .. b - a + 1 |-> Path("transaction", "transaction", a + i - 1)]
      BY <1>4, <1>5, <2>1
    <2>3. b - a + 1 \in Nat /\ DOMAIN F = 1 .. b - a + 1
      BY <1>1, <2>2
    <2>4. ASSUME NEW t \in DOMAIN F, NEW u \in DOMAIN F, F[t] = F[u] PROVE t = u
      <3>1. F[t].day = a + t - 1 /\ F[u].day = a + u - 1
        BY <2>2, <2>3 DEF Path
      <3>2. a + t - 1 = a + u - 1 /\ t \in Int /\ u \in Int
        BY <2>3, <2>4, <3>1
      <3>3. QED
        BY <3>2
    <2>5. \A t \in DOMAIN F : \E x \in a .. b : F[t] = Path("transaction", "transaction", x)
      <3>1. \A t \in 1 .. b - a + 1 : a + t - 1 \in a .. b
        OBVIOUS
      <3>2. QED
        BY <2>2, <2>3, <3>1
    <2>6. \A x \in a .. b : \E t \in DOMAIN F : F[t] = Path("transaction", "transaction", x)
      <3>1. \A x \in a .. b : x - a + 1 \in 1 .. b - a + 1 /\ a + (x - a + 1) - 1 = x
        OBVIOUS
      <3>2. QED
        BY <2>2, <2>3, <3>1
    <2>7. WantedBy(q) = {Path("transaction", "transaction", x) : x \in a .. b}
      BY <1>1, <1>5 DEF WantedBy
    <2>8. {F[t] : t \in DOMAIN F} = WantedBy(q)
      BY <2>5, <2>6, <2>7
    <2>9. \A t \in DOMAIN F : \E x \in Int : F[t] = Path(q.entity, q.entity, x)
      BY <1>5, <2>5
    <2>10. \E n \in Nat : DOMAIN F = 1 .. n
      BY <2>3
    <2>11. \A t, u \in DOMAIN F : F[t] = F[u] => t = u
      BY <2>4
    <2>12. {Files(q)[t] : t \in DOMAIN Files(q)} = WantedBy(q)
      BY <1>3, <2>8
    <2>13. \A t \in DOMAIN Files(q) : \E x \in Int : Files(q)[t] = Path(q.entity, q.entity, x)
      BY <1>3, <2>9
    <2>14. \E n \in Nat : DOMAIN Files(q) = 1 .. n
      BY <1>3, <2>10
    <2>15. \A t, u \in DOMAIN Files(q) : Files(q)[t] = Files(q)[u] => t = u
      BY <1>3, <2>11
    <2>16. QED
      BY <2>12, <2>13, <2>14, <2>15, Zenon
  <1>6. CASE q.entity # "transaction"
    <2>1. PICK base : base = IF q.entity = "" THEN "customer" ELSE q.entity
      OBVIOUS
    <2>2. names = <<<<base, 0>>>>
      BY <1>2, <1>6, <2>1 DEF FilenamesForEntity
    <2>3. F = [i \in 1 .. 1 |-> Path(q.entity, base, 0)]
      BY <1>4, <2>2
    <2>4. 1 .. 1 = {1} /\ DOMAIN F = {1} /\ F[1] = Path(q.entity, base, 0)
      BY <2>3
    <2>5. q.entity = "customer" => base = "customer" /\ WantedBy(q) = {Path("customer", "customer", 0)}
      BY <2>1 DEF WantedBy
    <2>6. QED
      BY <1>3, <1>6, <2>4, <2>5
  <1>7. QED
    BY <1>5, <1>6

\* What is found is in the directories.
LEMMA FoundAre ==
  ASSUME NEW d \in Disks, NEW path
  PROVE  /\ \A c \in FoundByWorker(d, path) : \E p \in DOMAIN d : c = d[p]
         /\ \A c \in FoundByHandler(d, path) : \E p \in DOMAIN d : c = d[p]
  <1>1. ASSUME NEW S, NEW paths \in Seq(S), NEW c \in Find(d, paths)
        PROVE  \E p \in DOMAIN d : c = d[p]
    <2>1. PICK found : found = {i \in DOMAIN paths : paths[i] \in DOMAIN d}
      OBVIOUS
    <2>2. found # {} /\ c = d[paths[Min(found)]]
      BY <2>1 DEF Find
    <2>3. found \subseteq Nat
      BY <2>1
    <2>4. Min(found) \in found
      BY <2>2, <2>3, MinIs
    <2>5. QED
      BY <2>1, <2>2, <2>4
  <1>2. ASSUME NEW x, NEW y, NEW z PROVE <<x, y>> \in Seq({x, y, z}) /\ <<x, y, z>> \in Seq({x, y, z})
    OBVIOUS
  <1>3. PICK y, z : y = [path EXCEPT !.dir = "transaction"] /\ z = [path EXCEPT !.dir = "customer"]
    OBVIOUS
  <1>4. <<path, y>> \in Seq({path, y, z}) /\ <<path, y, z>> \in Seq({path, y, z})
    BY <1>2
  <1>5. FoundByWorker(d, path) = Find(d, <<path, y, z>>)
    BY <1>3 DEF FoundByWorker
  <1>6. FoundByHandler(d, path) \subseteq Find(d, <<path, y>>)
    BY <1>3 DEF FoundByHandler
  <1>7. QED
    BY <1>1, <1>4, <1>5, <1>6

\* A file of one of the two entities is found where it belongs or not at all.
LEMMA FoundOwn ==
  ASSUME NEW d \in Disks, NEW e \in {"transaction", "customer"}, NEW x, NEW path, path = Path(e, e, x)
  PROVE  /\ FoundByWorker(d, path) = IF path \in DOMAIN d THEN {d[path]} ELSE {}
         /\ FoundByHandler(d, path) =
              IF path \in DOMAIN d /\ d[path].utf8 THEN {d[path]} ELSE {}
  <1>1. PICK y, z : y = [path EXCEPT !.dir = "transaction"] /\ z = [path EXCEPT !.dir = "customer"]
    OBVIOUS
  <1>2. y = Path("transaction", e, x) /\ z = Path("customer", e, x)
    BY <1>1 DEF Path
  <1>3. ASSUME NEW p \in DOMAIN d, NEW dir, p = Path(dir, e, x) PROVE p = path
    <2>1. IsPath(p)
      BY AggregationAssumption, Zenon
    <2>2. p = Path(p.base, p.base, p.day)
      BY <2>1 DEF IsPath
    <2>3. p.base = e /\ p.day = x
      BY <1>3 DEF Path
    <2>4. QED
      BY <2>2, <2>3
  <1>4. (y \in DOMAIN d => y = path) /\ (z \in DOMAIN d => z = path)
    BY <1>2, <1>3
  <1>5. ASSUME NEW S, NEW paths \in Seq(S), 1 \in DOMAIN paths, paths[1] = path,
               \A i \in DOMAIN paths : paths[i] \in DOMAIN d => paths[i] = path
        PROVE  Find(d, paths) = IF path \in DOMAIN d THEN {d[path]} ELSE {}
    <2>1. PICK found : found = {i \in DOMAIN paths : paths[i] \in DOMAIN d}
      OBVIOUS
    <2>2. Find(d, paths) = IF found = {} THEN {} ELSE {d[paths[Min(found)]]}
      BY <2>1 DEF Find
    <2>3. CASE path \in DOMAIN d
      <3>1. found # {} /\ found \subseteq Nat
        BY <1>5, <2>1, <2>3
      <3>2. Min(found) \in found
        BY <3>1, MinIs
      <3>3. paths[Min(found)] = path
        BY <1>5, <2>1, <3>2
      <3>4. QED
        BY <2>2, <2>3, <3>1, <3>3
    <2>4. CASE path \notin DOMAIN d
      <3>1. found = {}
        BY <1>5, <2>1, <2>4
      <3>2. QED
        BY <2>2, <2>4, <3>1
    <2>5. QED
      BY <2>3, <2>4
  <1>6. PICK two, three : two = <<path, y>> /\ three = <<path, y, z>>
    OBVIOUS
  <1>7. /\ two \in Seq({path, y, z}) /\ DOMAIN two = {1, 2} /\ two[1] = path /\ two[2] = y
        /\ three \in Seq({path, y, z}) /\ DOMAIN three = {1, 2, 3}
        /\ three[1] = path /\ three[2] = y /\ three[3] = z
    BY <1>6
  <1>8. Find(d, two) = IF path \in DOMAIN d THEN {d[path]} ELSE {}
    BY <1>4, <1>5, <1>7
  <1>9. Find(d, three) = IF path \in DOMAIN d THEN {d[path]} ELSE {}
    BY <1>4, <1>5, <1>7
  <1>10. FoundByWorker(d, path) = Find(d, three)
    BY <1>1, <1>6 DEF FoundByWorker
  <1>11. FoundByHandler(d, path) = {c \in Find(d, two) : c.utf8}
    BY <1>1, <1>6 DEF FoundByHandler
  <1>12. QED
    BY <1>8, <1>9, <1>10, <1>11

\* A map output is made of a file of the directories.
LEMMA MapOutputIs ==
  ASSUME NEW q, NEW d \in Disks, NEW h, NEW path, MapOutput(q, d, h, path).ok
  PROVE  \E p \in DOMAIN d : /\ d[p] \in FoundByWorker(d, path) /\ Accepts(App(q), d[p])
                             /\ MapOutput(q, d, h, path).parts = Partitions(h, MapFn(App(q), d[p]))
  <1>1. PICK usable : usable = {c \in FoundByWorker(d, path) : Accepts(App(q), c)}
    OBVIOUS
  <1>2. PICK c : c = CHOOSE e \in usable : TRUE
    OBVIOUS
  <1>3. usable # {}
    BY <1>1 DEF MapOutput, NoOutput
  <1>4. c \in usable
    BY <1>2, <1>3
  <1>5. MapOutput(q, d, h, path).parts = Partitions(h, MapFn(App(q), c))
    BY <1>1, <1>2, <1>3 DEF MapOutput
  <1>6. PICK p \in DOMAIN d : c = d[p]
    BY <1>1, <1>4, FoundAre
  <1>7. QED
    BY <1>1, <1>4, <1>5, <1>6

\* What every reduce task reads are pairs.
LEMMA IntermediateType ==
  ASSUME NEW q \in Requests, NEW d \in Disks, NEW h \in Hashes, NEW r \in Reduces,
         Complete(Ideal(q, d, h))
  PROVE  Intermediate(Ideal(q, d, h), r) \in Seq(Pairs)
  <1>1. PICK I : I = Ideal(q, d, h)
    OBVIOUS
  <1>2. PICK n \in Nat : DOMAIN Files(q) = 1 .. n
    BY FilesAre
  <1>3. PICK seqs : seqs = [t \in 1 .. n |-> ReadPairs(I[t].parts[r])]
    OBVIOUS
  <1>4. DOMAIN I = 1 .. n /\ \A t \in 1 .. n : I[t] = MapOutput(q, d, h, Files(q)[t])
    BY <1>1, <1>2 DEF Ideal
  <1>5. ASSUME NEW t \in 1 .. n PROVE seqs[t] \in Seq(Pairs)
    <2>1. MapOutput(q, d, h, Files(q)[t]).ok
      BY <1>1, <1>4 DEF Complete
    <2>2. PICK p \in DOMAIN d :
            MapOutput(q, d, h, Files(q)[t]).parts = Partitions(h, MapFn(App(q), d[p]))
      <3>1. PICK path : path = Files(q)[t]
        OBVIOUS
      <3>2. MapOutput(q, d, h, path).ok
        BY <2>1, <3>1
      <3>3. QED
        BY <3>1, <3>2, MapOutputIs
    <2>3. MapFn(App(q), d[p]) \in Seq(Pairs)
      BY MapFnLists
    <2>4. seqs[t] = ReadPairs(Partitions(h, MapFn(App(q), d[p]))[r])
      BY <1>3, <1>4, <2>2
    <2>5. QED
      BY <2>3, <2>4, PartitionLists
  <1>6. seqs \in Seq(Seq(Pairs))
    BY <1>3, <1>5
  <1>7. Intermediate(I, r) = FlattenSeq(seqs)
    BY <1>3, <1>4 DEF Intermediate
  <1>8. QED
    BY <1>1, <1>6, <1>7, FlattenType

\* The lines that the map tasks count.
Counted(q, d) ==
  {x \in UNION {Of(d, p) : p \in WantedBy(q) \cap DOMAIN d} : Emits(q.entity, LineAt(d)[x])}

\* Those of them that are partitioned to a reduce task.
HashedTo(A, W, h, r) == {x \in A : h[W[x].key] = r}

\* A map task that stores an output has found its own file.
LEMMA OutputOfOwn ==
  ASSUME NEW q \in Requests, q.entity \in {"transaction", "customer"}, NEW d \in Disks,
         NEW h, NEW t \in DOMAIN Files(q), NEW path, path = Files(q)[t],
         MapOutput(q, d, h, path).ok
  PROVE  /\ path \in DOMAIN d /\ (q.entity = "transaction" => d[path].utf8)
         /\ MapOutput(q, d, h, path).parts = Partitions(h, MapFn(q.entity, d[path]))
  <1>1. PICK x : path = Path(q.entity, q.entity, x)
    BY FilesAre
  <1>2. App(q) = q.entity
    BY DEF App
  <1>3. PICK p \in DOMAIN d : /\ d[p] \in FoundByWorker(d, path) /\ Accepts(q.entity, d[p])
                              /\ MapOutput(q, d, h, path).parts = Partitions(h, MapFn(q.entity, d[p]))
    BY <1>2, MapOutputIs
  <1>4. FoundByWorker(d, path) = IF path \in DOMAIN d THEN {d[path]} ELSE {}
    BY <1>1, FoundOwn
  <1>5. path \in DOMAIN d /\ d[p] = d[path]
    BY <1>3, <1>4
  <1>6. QED
    BY <1>3, <1>5 DEF Accepts

\* For the two applications, what a reduce task reads is what the lines partitioned
\* to it say, and then every file that the job asks for was read.
LEMMA IntermediateLists ==
  ASSUME NEW q \in Requests, q.entity \in {"transaction", "customer"}, NEW d \in Disks,
         NEW h \in Hashes, NEW r \in Reduces, Complete(Ideal(q, d, h)), NEW W, W = Emitted(q.entity, d)
  PROVE  /\ Listed(Intermediate(Ideal(q, d, h), r), HashedTo(Counted(q, d), W, h, r), W)
         /\ \A p \in WantedBy(q) : p \in DOMAIN d /\ (q.entity = "transaction" => d[p].utf8)
  <1>1. PICK I : I = Ideal(q, d, h)
    OBVIOUS
  <1>2. PICK F : F = Files(q)
    OBVIOUS
  <1>3. PICK n \in Nat : DOMAIN F = 1 .. n
    BY <1>2, FilesAre
  <1>4. /\ \A t, u \in 1 .. n : F[t] = F[u] => t = u
        /\ {F[t] : t \in 1 .. n} = WantedBy(q)
    BY <1>2, <1>3, FilesAre
  <1>5. DOMAIN I = 1 .. n /\ \A t \in 1 .. n : I[t] = MapOutput(q, d, h, F[t]) /\ I[t].ok
    BY <1>1, <1>2, <1>3 DEF Ideal, Complete
  <1>6. ASSUME NEW t \in 1 .. n
        PROVE  /\ F[t] \in DOMAIN d /\ (q.entity = "transaction" => d[F[t]].utf8)
               /\ I[t].parts = Partitions(h, MapFn(q.entity, d[F[t]]))
    <2>1. PICK path : path = F[t]
      OBVIOUS
    <2>2. t \in DOMAIN Files(q) /\ path = Files(q)[t] /\ MapOutput(q, d, h, path).ok
      BY <1>2, <1>3, <1>5, <2>1
    <2>3. /\ path \in DOMAIN d /\ (q.entity = "transaction" => d[path].utf8)
          /\ MapOutput(q, d, h, path).parts = Partitions(h, MapFn(q.entity, d[path]))
      BY <2>2, OutputOfOwn
    <2>4. QED
      BY <1>5, <2>1, <2>3
  <1>7. PICK E : E = [p \in DOMAIN d |-> {x \in Of(d, p) : Emits(q.entity, LineAt(d)[x])}]
    OBVIOUS
  <1>8. PICK seqs : seqs = [t \in 1 .. n |-> ReadPairs(I[t].parts[r])]
    OBVIOUS
  <1>9. PICK R : R = [t \in 1 .. n |-> HashedTo(E[F[t]], W, h, r)]
    OBVIOUS
  <1>10. ASSUME NEW t \in 1 .. n PROVE seqs[t] \in Seq(Pairs) /\ Listed(seqs[t], R[t], W)
    <2>1. PICK p \in DOMAIN d : p = F[t]
      BY <1>6
    <2>2. PICK pairs : pairs = MapFn(q.entity, d[p])
      OBVIOUS
    <2>3. pairs \in Seq(Pairs) /\ Listed(pairs, E[p], W)
      BY <1>7, <2>2, MapFnLists
    <2>4. seqs[t] = ReadPairs(Partitions(h, pairs)[r])
      BY <1>6, <1>8, <2>1, <2>2
    <2>5. ASSUME NEW x \in E[p] PROVE W[x] \in Pairs
      <3>1. x \in Of(d, p)
        BY <1>7
      <3>2. x \in LinesOf(d) /\ LineAt(d)[x] \in Line
        BY <3>1, FileLists
      <3>3. W[x] = Emission(q.entity, LineAt(d)[x])
        BY <3>2 DEF Emitted
      <3>4. QED
        BY <3>2, <3>3, LineIs
    <2>6. seqs[t] \in Seq(Pairs) /\ Listed(seqs[t], {x \in E[p] : h[W[x].key] = r}, W)
      <3>1. /\ seqs[t] \in Seq(Pairs)
            /\ \A Q, V : Listed(pairs, Q, V) /\ (\A x \in Q : V[x] \in Pairs) =>
                 Listed(seqs[t], {x \in Q : h[V[x].key] = r}, V)
        BY <2>3, <2>4, PartitionLists
      <3>2. Listed(pairs, E[p], W) /\ (\A x \in E[p] : W[x] \in Pairs)
        BY <2>3, <2>5
      <3>3. QED
        BY <3>1, <3>2, Zenon
    <2>7. QED
      BY <1>9, <2>1, <2>6 DEF HashedTo
  <1>11. seqs \in Seq(Seq(Pairs)) /\ DOMAIN seqs = 1 .. n
    BY <1>8, <1>10
  <1>12. ASSUME NEW t \in 1 .. n, NEW u \in 1 .. n, t # u PROVE R[t] \cap R[u] = {}
    <2>1. F[t] # F[u] /\ F[t] \in DOMAIN d /\ F[u] \in DOMAIN d
      BY <1>4, <1>6, <1>12
    <2>2. R[t] \subseteq Of(d, F[t]) /\ R[u] \subseteq Of(d, F[u])
      BY <1>7, <1>9, <2>1 DEF HashedTo
    <2>3. Of(d, F[t]) \cap Of(d, F[u]) = {}
      BY <2>1 DEF Of
    <2>4. QED
      BY <2>2, <2>3
  <1>13. Listed(FlattenSeq(seqs), UNION {R[t] : t \in 1 .. n}, W)
    <2>1. \A t \in 1 .. n : Listed(seqs[t], R[t], W)
      BY <1>10
    <2>2. QED
      BY <1>11, <1>12, <2>1, FlattenLists
  <1>14. UNION {R[t] : t \in 1 .. n} = HashedTo(Counted(q, d), W, h, r)
    <2>1. \A x : x \in UNION {R[t] : t \in 1 .. n} <=>
                   \E t \in 1 .. n : x \in E[F[t]] /\ h[W[x].key] = r
      BY <1>9 DEF HashedTo
    <2>2. \A x : x \in Counted(q, d) <=> \E p \in WantedBy(q) \cap DOMAIN d : x \in E[p]
      BY <1>7 DEF Counted
    <2>3. \A x : x \in Counted(q, d) <=> \E t \in 1 .. n : x \in E[F[t]]
      BY <1>4, <1>6, <2>2
    <2>4. QED
      BY <2>1, <2>3 DEF HashedTo
  <1>15. Intermediate(I, r) = FlattenSeq(seqs)
    BY <1>5, <1>8 DEF Intermediate
  <1>16. QED
    BY <1>1, <1>4, <1>6, <1>13, <1>14, <1>15

\* What the lines say of a key are numbers, and every pair of it is wide.
LEMMA ToldIs ==
  ASSUME NEW A, NEW W, IsFiniteSet(A), A \subseteq DOMAIN W, \A x \in A : W[x] \in Pairs,
         NEW k \in KeysSaid(A, W)
  PROVE  /\ Told(A, W)[k] \in Pairs /\ Told(A, W)[k].value.wide
         /\ Told(A, W)[k] = Pair(k, Summed(A, W, k))
         /\ SumFunctionOnSet([x \in DOMAIN W |-> W[x].value.sum], About(A, W, k)) \in Int
         /\ Cardinality(About(A, W, k)) \in Nat
  <1>1. PICK x \in A : k = W[x].key
    BY DEF KeysSaid
  <1>2. k \in Keys \cup {""}
    BY <1>1, PairIs
  <1>3. PICK Q \in SUBSET A : Q = About(A, W, k)
    BY DEF About
  <1>4. PICK f : f = [y \in DOMAIN W |-> W[y].value.sum]
    OBVIOUS
  <1>5. IsFiniteSet(Q) /\ Cardinality(Q) \in Nat
    BY FS_Subset, FS_CardinalityType
  <1>6. ASSUME NEW y \in Q PROVE f[y] \in Int
    <2>1. W[y] \in Pairs /\ f[y] = W[y].value.sum
      BY <1>4
    <2>2. W[y].value.sum \in Number
      BY <2>1 DEF Pairs, Value
    <2>3. QED
      BY <2>1, <2>2, Numbers
  <1>7. SumFunctionOnSet(f, Q) \in Int
    BY <1>5, <1>6, SumRemove
  <1>8. PICK v : v = Summed(A, W, k)
    OBVIOUS
  <1>9. v \in Value /\ v.wide
    <2>1. v = Sums(Unsigned(SumFunctionOnSet(f, Q)), Unsigned(Cardinality(Q)))
      BY <1>3, <1>4, <1>8 DEF Summed
    <2>2. Unsigned(SumFunctionOnSet(f, Q)) \in Number /\ Unsigned(Cardinality(Q)) \in Number
      BY <1>5, <1>7, Numbers
    <2>3. QED
      BY <2>1, <2>2, PairIs
  <1>10. PICK p : p = Told(A, W)[k]
    OBVIOUS
  <1>11. p = Pair(k, v)
    BY <1>8, <1>10 DEF Told
  <1>12. p \in Pairs /\ p.value = v
    BY <1>2, <1>9, <1>11, PairIs DEF Pair
  <1>13. QED
    BY <1>3, <1>4, <1>5, <1>7, <1>8, <1>9, <1>10, <1>11, <1>12, Zenon

\* The lines that are counted are finitely many, and each has its pair.
LEMMA CountedIs ==
  ASSUME NEW q, q.entity \in {"transaction", "customer"}, NEW d \in Disks,
         NEW W, W = Emitted(q.entity, d)
  PROVE  /\ Counted(q, d) \subseteq DOMAIN W
         /\ \A x \in Counted(q, d) : /\ W[x] = Emission(q.entity, LineAt(d)[x])
                                     /\ LineAt(d)[x] \in Line
                                     /\ W[x] \in Pairs /\ W[x].value.wide /\ W[x].value.count = 1
  <1>1. DOMAIN W = LinesOf(d)
    BY DEF Emitted
  <1>2. ASSUME NEW x \in Counted(q, d)
        PROVE  x \in LinesOf(d) /\ LineAt(d)[x] \in Line
    <2>1. PICK p \in DOMAIN d : x \in Of(d, p)
      BY DEF Counted
    <2>2. QED
      BY <2>1, FileLists
  <1>3. ASSUME NEW x \in Counted(q, d)
        PROVE  /\ W[x] = Emission(q.entity, LineAt(d)[x])
               /\ W[x] \in Pairs /\ W[x].value.wide /\ W[x].value.count = 1
    <2>1. PICK l \in Line : l = LineAt(d)[x]
      BY <1>2
    <2>2. W[x] = Emission(q.entity, l)
      BY <1>2, <2>1 DEF Emitted
    <2>3. CASE q.entity = "transaction"
      BY <2>1, <2>2, <2>3, LineIs
    <2>4. CASE q.entity = "customer"
      BY <2>1, <2>2, <2>4, LineIs
    <2>5. QED
      BY <2>3, <2>4
  <1>4. QED
    BY <1>1, <1>2, <1>3

\* The lines that are counted are finitely many.
LEMMA CountedFinite ==
  ASSUME NEW q \in Requests, q.entity \in {"transaction", "customer"}, NEW d \in Disks
  PROVE  IsFiniteSet(Counted(q, d))
  <1>1. PICK F : F = Files(q)
    OBVIOUS
  <1>2. PICK n \in Nat : DOMAIN F = 1 .. n
    BY <1>1, FilesAre
  <1>3. {F[t] : t \in 1 .. n} = WantedBy(q)
    BY <1>1, <1>2, FilesAre
  <1>4. PICK O : O = [t \in 1 .. n |-> IF F[t] \in DOMAIN d THEN Of(d, F[t]) ELSE {}]
    OBVIOUS
  <1>5. PICK S : S = {O[t] : t \in 1 .. n}
    OBVIOUS
  <1>6. O \in Surjection(1 .. n, S)
    BY <1>4, <1>5 DEF Surjection
  <1>7. IsFiniteSet(S)
    BY <1>2, <1>6, FS_Interval, FS_Surjection
  <1>8. ASSUME NEW p \in DOMAIN d PROVE IsFiniteSet(Of(d, p))
    <2>1. PICK s : s = d[p].lines
      OBVIOUS
    <2>2. s \in Seq(Line)
      BY <2>1, FileLists
    <2>3. PICK m \in Nat : DOMAIN s = 1 .. m
      BY <2>2
    <2>4. [i \in 1 .. m |-> <<p, i>>] \in Surjection(1 .. m, Of(d, p))
      BY <2>1, <2>3 DEF Of, Surjection
    <2>5. QED
      BY <2>4, FS_Interval, FS_Surjection
  <1>9. \A T \in S : IsFiniteSet(T)
    BY <1>4, <1>5, <1>8, FS_EmptySet
  <1>10. IsFiniteSet(UNION S)
    BY <1>7, <1>9, FS_UNION
  <1>11. Counted(q, d) \subseteq UNION S
    <2>1. ASSUME NEW x \in Counted(q, d) PROVE \E t \in 1 .. n : x \in O[t]
      <3>1. PICK p \in WantedBy(q) \cap DOMAIN d : x \in Of(d, p)
        BY DEF Counted
      <3>2. PICK t \in 1 .. n : p = F[t]
        BY <1>3, <3>1
      <3>3. QED
        BY <1>4, <3>1, <3>2
    <2>2. QED
      BY <1>5, <2>1
  <1>12. QED
    BY <1>10, <1>11, FS_Subset

\* The keys told about that are partitioned to a reduce task.
SaidTo(A, W, h, r) == {k \in KeysSaid(A, W) : h[k] = r}

\* What a reduce task has to write says of each key that is partitioned to it what
\* all the lines say of it, since all of them are partitioned to it.
LEMMA ExpectedLists ==
  ASSUME NEW q \in Requests, NEW d \in Disks, NEW h \in Hashes, NEW r \in Reduces,
         Complete(Ideal(q, d, h)), NEW C, C = Counted(q, d), NEW W, W = Emitted(q.entity, d)
  PROVE  \E group \in Seq(Pairs) :
           /\ Expected(q, d, h, r) = Written(group)
           /\ q.entity \in {"transaction", "customer"} =>
                Listed(group, SaidTo(C, W, h, r), Told(C, W))
  <1>1. PICK pairs : pairs = Intermediate(Ideal(q, d, h), r)
    OBVIOUS
  <1>2. pairs \in Seq(Pairs)
    BY <1>1, IntermediateType
  <1>3. PICK group : group = Groups(App(q), pairs)
    OBVIOUS
  <1>4. group \in Seq(Pairs) /\ Expected(q, d, h, r) = Written(group)
    BY <1>1, <1>2, <1>3, GroupsType DEF Expected, ReduceOutput
  <1>5. ASSUME q.entity \in {"transaction", "customer"}
        PROVE  Listed(group, SaidTo(C, W, h, r), Told(C, W))
    <2>1. PICK A : A = HashedTo(C, W, h, r)
      OBVIOUS
    <2>2. Listed(pairs, A, W)
      BY <1>1, <1>5, <2>1, IntermediateLists
    <2>3. C \subseteq DOMAIN W /\ \A x \in C : W[x].value.wide /\ W[x].value.count = 1
      BY <1>5, CountedIs
    <2>4. A \subseteq C
      BY <2>1 DEF HashedTo
    <2>5. App(q) = q.entity
      BY <1>5 DEF App
    <2>6. Listed(group, KeysSaid(A, W), Told(A, W))
      <3>1. A \subseteq DOMAIN W /\ \A x \in A : W[x].value.wide /\ W[x].value.count = 1
        BY <2>3, <2>4
      <3>2. Listed(Groups(q.entity, pairs), KeysSaid(A, W), Told(A, W))
        BY <1>2, <1>5, <2>2, <3>1, GroupsLists
      <3>3. QED
        BY <1>3, <2>5, <3>2
    <2>7. KeysSaid(A, W) = SaidTo(C, W, h, r)
      BY <2>1 DEF KeysSaid, HashedTo, SaidTo
    <2>8. ASSUME NEW k \in KeysSaid(A, W) PROVE Told(A, W)[k] = Told(C, W)[k]
      <3>1. h[k] = r /\ k \in KeysSaid(C, W)
        BY <2>7 DEF SaidTo
      <3>2. About(A, W, k) = About(C, W, k)
        BY <2>1, <3>1 DEF About, HashedTo
      <3>3. Summed(A, W, k) = Summed(C, W, k)
        BY <3>2 DEF Summed
      <3>4. QED
        BY <3>1, <3>3 DEF Told
    <2>9. PICK T, V : T = Told(A, W) /\ V = Told(C, W)
      OBVIOUS
    <2>10. \A i \in DOMAIN group : \A k \in KeysSaid(A, W) : group[i] = T[k] => group[i] = V[k]
      BY <2>8, <2>9
    <2>11. Listed(group, KeysSaid(A, W), V)
      BY <2>6, <2>9, <2>10, MapLists
    <2>12. QED
      BY <2>7, <2>9, <2>11
  <1>6. QED
    BY <1>4, <1>5

-----------------------------------------------------------------------------
(* What the handler reads *)

\* The first elements of a list are a list of some of it, all are one of all of it.
LEMMA PrefixLists ==
  ASSUME NEW s, NEW R, NEW V, Listed(s, R, V),
         NEW u, DOMAIN u \subseteq DOMAIN s, \A i \in DOMAIN u : u[i] = s[i]
  PROVE  \E Q \in SUBSET R : Listed(u, Q, V) /\ (DOMAIN u = DOMAIN s => Q = R)
  <1>1. PICK b : Lists(s, R, V, b)
    BY DEF Listed
  <1>2. PICK Q : Q = {b[i] : i \in DOMAIN u}
    OBVIOUS
  <1>3. PICK c : c = [i \in DOMAIN u |-> b[i]]
    OBVIOUS
  <1>4. Q \in SUBSET R
    BY <1>1, <1>2 DEF Lists
  <1>5. Lists(u, Q, V, c)
    <2>1. c \in [DOMAIN u -> Q]
      BY <1>2, <1>3
    <2>2. \A i, j \in DOMAIN u : c[i] = c[j] => i = j
      BY <1>1, <1>3 DEF Lists
    <2>3. \A r \in Q : \E i \in DOMAIN u : c[i] = r
      BY <1>2, <1>3
    <2>4. \A i \in DOMAIN u : u[i] = V[c[i]]
      BY <1>1, <1>3 DEF Lists
    <2>5. QED
      BY <2>1, <2>2, <2>3, <2>4 DEF Lists
  <1>6. DOMAIN u = DOMAIN s => Q = R
    BY <1>1, <1>2 DEF Lists
  <1>7. QED
    BY <1>4, <1>5, <1>6 DEF Listed

\* A list of nothing is empty, and an empty list is one of nothing.
LEMMA NothingListed ==
  ASSUME NEW U, NEW s \in Seq(U), NEW R, NEW V, Listed(s, R, V)
  PROVE  s = <<>> <=> R = {}
  <1>1. PICK b : Lists(s, R, V, b)
    BY DEF Listed
  <1>2. PICK n \in Nat : DOMAIN s = 1 .. n /\ n = Len(s)
    OBVIOUS
  <1>3. CASE R = {}
    <2>1. \A i \in 1 .. n : b[i] \in R
      BY <1>1, <1>2 DEF Lists
    <2>2. n = 0
      BY <1>2, <1>3, <2>1
    <2>3. QED
      BY <1>2, <1>3, <2>2
  <1>4. CASE R # {}
    <2>1. PICK r \in R : TRUE
      BY <1>4
    <2>2. PICK i \in DOMAIN s : b[i] = r
      BY <1>1 DEF Lists
    <2>3. QED
      BY <1>4, <2>2
  <1>5. QED
    BY <1>3, <1>4

\* Of the pairs of an output those that are wide are read.
LEMMA WideLists ==
  ASSUME NEW pairs \in Seq(Pairs)
  PROVE  /\ Wide(pairs) \in Seq(Pairs)
         /\ \A R, V : Listed(pairs, R, V) /\ (\A k \in R : V[k] \in Pairs /\ V[k].value.wide) =>
              Listed(Wide(pairs), R, V)
  <1>1. PICK I : I = {i \in DOMAIN pairs : pairs[i].value.wide}
    OBVIOUS
  <1>2. PICK k : k = Wide(pairs)
    OBVIOUS
  <1>3. k = Keep(pairs, I)
    BY <1>1, <1>2 DEF Wide
  <1>4. k \in Seq(Pairs)
    BY <1>3, KeepLists
  <1>5. PICK P : P = {p \in Pairs : p.value.wide}
    OBVIOUS
  <1>6. ASSUME NEW R, NEW V, Listed(pairs, R, V), \A x \in R : V[x] \in Pairs /\ V[x].value.wide
        PROVE  Listed(k, R, V)
    <2>1. \A i \in DOMAIN pairs : i \in I <=> pairs[i] \in P
      <3>1. \A i \in DOMAIN pairs : pairs[i] \in Pairs
        OBVIOUS
      <3>2. QED
        BY <1>1, <1>5, <3>1
    <2>2. Listed(k, {x \in R : V[x] \in P}, V)
      BY <1>3, <1>6, <2>1, FilterLists
    <2>3. {x \in R : V[x] \in P} = R
      BY <1>5, <1>6
    <2>4. QED
      BY <2>2, <2>3
  <1>7. QED
    BY <1>2, <1>4, <1>6

\* Whatever file is read, its rows are pairs, and an absent one has none.
LEMMA RowsType ==
  /\ \A file \in OutputFile : Rows(file) \in Seq(Pairs)
  /\ \A file \in OutputFile : ~ file.exists => Rows(file) = <<>>
  <1>1. ASSUME NEW chunks \in Seq(Chunk) PROVE DecodeReduceBytes(chunks) \in Seq(Pairs)
    BY <1>1, ReadType, WideLists DEF DecodeReduceBytes
  <1>2. ASSUME NEW file, file.chunks \in Seq(Chunk), file.text \in Seq(Pairs)
        PROVE  Rows(file) \in Seq(Pairs)
    BY <1>1, <1>2 DEF Rows
  <1>3. Absent.chunks = <<>> /\ Absent.text = <<>>
    BY DEF Absent
  <1>4. Rows(Absent) = <<>>
    <2>1. PICK p : p = ReadPairs(<<>>)
      OBVIOUS
    <2>2. p = <<>>
      <3>1. Len(<<>>) \div 2 = 0 /\ 1 .. 0 = {}
        OBVIOUS
      <3>2. p = [i \in {} |-> p[i]]
        BY <2>1, <3>1 DEF ReadPairs
      <3>3. QED
        BY <3>2
    <2>3. <<>> \in Seq(Pairs) /\ Listed(<<>>, {}, <<>>)
      BY FewListed
    <2>4. Wide(<<>>) \in Seq(Pairs) /\ Listed(Wide(<<>>), {}, <<>>)
      BY <2>3, WideLists
    <2>5. Wide(<<>>) = <<>>
      BY <2>4, NothingListed
    <2>6. DecodeReduceBytes(Absent.chunks) = <<>>
      BY <1>3, <2>1, <2>2, <2>5 DEF DecodeReduceBytes
    <2>7. QED
      BY <1>3, <2>6 DEF Rows
  <1>5. ASSUME NEW file \in OutputFile
        PROVE  \/ file = Absent
               \/ file.exists /\ file.chunks \in Seq(Chunk) /\ file.text \in Seq(Pairs)
    BY DEF OutputFile
  <1>6. <<>> \in Seq(Pairs)
    OBVIOUS
  <1>7. QED
    BY <1>2, <1>4, <1>5, <1>6

\* Of an output that was written the handler reads what the task said, as far as it
\* was written.
LEMMA RowsWritten ==
  ASSUME NEW group \in Seq(Pairs), NEW file, NEW outcome, WrittenBy(file, Written(group), outcome)
  PROVE  /\ Rows(file) \in Seq(Pairs)
         /\ \A R, V : Listed(group, R, V) /\ (\A k \in R : V[k] \in Pairs /\ V[k].value.wide) =>
              \E Q \in SUBSET R : Listed(Rows(file), Q, V) /\ (outcome = "whole" => Q = R)
  <1>1. PICK w : w = Written(group)
    OBVIOUS
  <1>2. PICK n \in 0 .. Len(w) :
          file = Binary(SubSeq(w, 1, n)) /\ (outcome = "whole" => n = Len(w))
    BY <1>1 DEF WrittenBy
  <1>3. PICK N \in Nat : N = Len(group) /\ DOMAIN group = 1 .. N
    OBVIOUS
  <1>4. Len(w) = 2 * N /\ ReadPairs(SubSeq(w, 1, n)) = [i \in 1 .. n \div 2 |-> group[i]]
    BY <1>1, <1>2, <1>3, ReadWritten
  <1>5. PICK m \in 0 .. N : m = n \div 2 /\ (outcome = "whole" => m = N)
    BY <1>2, <1>3, <1>4
  <1>6. PICK u : u = [i \in 1 .. m |-> group[i]]
    OBVIOUS
  <1>7. u \in Seq(Pairs)
    BY <1>3, <1>5, <1>6
  <1>8. Rows(file) = Wide(u)
    <2>1. file.chunks = SubSeq(w, 1, n) /\ file.text = <<>>
      BY <1>2 DEF Binary
    <2>2. DecodeReduceBytes(file.chunks) = Wide(u)
      BY <1>4, <1>5, <1>6, <2>1 DEF DecodeReduceBytes
    <2>3. QED
      BY <2>1, <2>2 DEF Rows
  <1>9. Rows(file) \in Seq(Pairs)
    BY <1>7, <1>8, WideLists
  <1>10. ASSUME NEW R, NEW V, Listed(group, R, V), \A k \in R : V[k] \in Pairs /\ V[k].value.wide
         PROVE  \E Q \in SUBSET R : Listed(Rows(file), Q, V) /\ (outcome = "whole" => Q = R)
    <2>1. PICK Q \in SUBSET R : Listed(u, Q, V) /\ (m = N => Q = R)
      <3>1. DOMAIN u = 1 .. m /\ 1 .. m \subseteq DOMAIN group /\ (m = N => 1 .. m = DOMAIN group)
        BY <1>3, <1>5, <1>6
      <3>2. \A i \in DOMAIN u : u[i] = group[i]
        BY <1>6
      <3>3. \E Q \in SUBSET R : Listed(u, Q, V) /\ (DOMAIN u = DOMAIN group => Q = R)
        BY <1>10, <3>1, <3>2, PrefixLists
      <3>4. QED
        BY <3>1, <3>3
    <2>2. \A k \in Q : V[k] \in Pairs /\ V[k].value.wide
      BY <1>10
    <2>3. Listed(Wide(u), Q, V)
      BY <1>7, <2>1, <2>2, WideLists
    <2>4. QED
      BY <1>5, <1>8, <2>1, <2>3
  <1>11. QED
    BY <1>9, <1>10

\* The transactions of the files that the handler falls back to.
SourceLines(q, d) ==
  {x \in UNION {Of(d, p) : p \in {p \in WantedBy(q) \cap DOMAIN d : d[p].utf8}} :
     IsTransaction(LineAt(d)[x])}

\* The rows of the fallback are those of the source files, each line once.
LEMMA SourceLists ==
  ASSUME NEW q \in Requests, NEW d \in Disks, NEW W, W = Emitted("transaction", d)
  PROVE  /\ SourceRows(q, d) \in Seq(Pairs)
         /\ q.entity \in {"transaction", "customer"} => Listed(SourceRows(q, d), SourceLines(q, d), W)
  <1>1. PICK F : F = Files(q)
    OBVIOUS
  <1>2. PICK n \in Nat : DOMAIN F = 1 .. n
    BY <1>1, FilesAre
  <1>3. PICK found : found = [t \in 1 .. n |-> FoundByHandler(d, F[t])]
    OBVIOUS
  <1>4. PICK seqs : seqs = [t \in 1 .. n |-> IF found[t] = {} THEN <<>>
                                             ELSE ParsedForCoord(CHOOSE c \in found[t] : TRUE)]
    OBVIOUS
  <1>5. SourceRows(q, d) = FlattenSeq(seqs)
    <2>1. SourceRows(q, d) =
            FlattenSeq([t \in DOMAIN F |->
              IF FoundByHandler(d, F[t]) = {} THEN <<>>
              ELSE ParsedForCoord(CHOOSE c \in FoundByHandler(d, F[t]) : TRUE)])
      BY <1>1 DEF SourceRows
    <2>2. ASSUME NEW t \in 1 .. n
          PROVE  seqs[t] = IF FoundByHandler(d, F[t]) = {} THEN <<>>
                           ELSE ParsedForCoord(CHOOSE c \in FoundByHandler(d, F[t]) : TRUE)
      <3>1. found[t] = FoundByHandler(d, F[t])
        BY <1>3
      <3>2. seqs[t] = IF found[t] = {} THEN <<>> ELSE ParsedForCoord(CHOOSE c \in found[t] : TRUE)
        BY <1>4
      <3>3. QED
        BY <3>1, <3>2, Zenon
    <2>3. QED
      BY <1>2, <1>4, <2>1, <2>2
  <1>6. ASSUME NEW t \in 1 .. n PROVE seqs[t] \in Seq(Pairs)
    <2>1. CASE found[t] = {}
      BY <1>4, <2>1
    <2>2. CASE found[t] # {}
      <3>1. PICK c : c = CHOOSE e \in found[t] : TRUE
        OBVIOUS
      <3>2. c \in found[t]
        BY <2>2, <3>1
      <3>3. PICK p \in DOMAIN d : c = d[p]
        BY <1>3, <3>2, FoundAre
      <3>4. seqs[t] = ParsedForCoord(d[p])
        BY <1>4, <2>2, <3>1, <3>3
      <3>5. QED
        BY <3>4, ParsedLists
    <2>3. QED
      BY <2>1, <2>2
  <1>7. seqs \in Seq(Seq(Pairs)) /\ DOMAIN seqs = 1 .. n
    BY <1>4, <1>6
  <1>8. SourceRows(q, d) \in Seq(Pairs)
    BY <1>5, <1>7, FlattenType
  <1>9. ASSUME q.entity \in {"transaction", "customer"}
        PROVE  Listed(SourceRows(q, d), SourceLines(q, d), W)
    <2>1. /\ \A t, u \in 1 .. n : F[t] = F[u] => t = u
          /\ {F[t] : t \in 1 .. n} = WantedBy(q)
          /\ \A t \in 1 .. n : \E x \in Int : F[t] = Path(q.entity, q.entity, x)
      BY <1>1, <1>2, <1>9, FilesAre
    <2>2. PICK P : P = {p \in DOMAIN d : d[p].utf8}
      OBVIOUS
    <2>3. PICK E : E = [p \in DOMAIN d |-> {x \in Of(d, p) : IsTransaction(LineAt(d)[x])}]
      OBVIOUS
    <2>4. ASSUME NEW t \in 1 .. n
          PROVE  found[t] = IF F[t] \in P THEN {d[F[t]]} ELSE {}
      <3>1. PICK path : path = F[t]
        OBVIOUS
      <3>2. PICK x \in Int : path = Path(q.entity, q.entity, x)
        BY <2>1, <3>1
      <3>3. FoundByHandler(d, path) = IF path \in DOMAIN d /\ d[path].utf8 THEN {d[path]} ELSE {}
        BY <1>9, <3>2, FoundOwn
      <3>4. QED
        BY <1>3, <2>2, <3>1, <3>3
    <2>5. PICK R : R = [t \in 1 .. n |-> IF F[t] \in P THEN E[F[t]] ELSE {}]
      OBVIOUS
    <2>6. ASSUME NEW t \in 1 .. n PROVE Listed(seqs[t], R[t], W)
      <3>1. CASE F[t] \in P
        <4>1. PICK p \in DOMAIN d : p = F[t]
          BY <2>2, <3>1
        <4>2. seqs[t] = ParsedForCoord(d[p])
          BY <1>4, <2>4, <3>1, <4>1
        <4>3. Listed(ParsedForCoord(d[p]), E[p], W)
          BY <2>3, ParsedLists
        <4>4. QED
          BY <2>5, <3>1, <4>1, <4>2, <4>3
      <3>2. CASE F[t] \notin P
        <4>1. seqs[t] = <<>> /\ R[t] = {}
          BY <1>4, <2>4, <2>5, <3>2
        <4>2. QED
          BY <4>1, FewListed
      <3>3. QED
        BY <3>1, <3>2
    <2>7. ASSUME NEW t \in 1 .. n, NEW u \in 1 .. n, t # u PROVE R[t] \cap R[u] = {}
      <3>1. F[t] # F[u]
        BY <2>1, <2>7
      <3>2. CASE F[t] \in P /\ F[u] \in P
        <4>1. R[t] \subseteq Of(d, F[t]) /\ R[u] \subseteq Of(d, F[u])
          BY <2>2, <2>3, <2>5, <3>2
        <4>2. Of(d, F[t]) \cap Of(d, F[u]) = {}
          BY <3>1 DEF Of
        <4>3. QED
          BY <4>1, <4>2
      <3>3. CASE ~ (F[t] \in P /\ F[u] \in P)
        BY <2>5, <3>3
      <3>4. QED
        BY <3>2, <3>3
    <2>8. Listed(FlattenSeq(seqs), UNION {R[t] : t \in 1 .. n}, W)
      <3>1. \A t \in 1 .. n : Listed(seqs[t], R[t], W)
        BY <2>6
      <3>2. QED
        BY <1>7, <2>7, <3>1, FlattenLists
    <2>9. UNION {R[t] : t \in 1 .. n} = SourceLines(q, d)
      <3>1. \A x : x \in UNION {R[t] : t \in 1 .. n} <=>
                     \E t \in 1 .. n : F[t] \in P /\ x \in E[F[t]]
        BY <2>5
      <3>2. \A x : x \in SourceLines(q, d) <=>
                     \E p \in WantedBy(q) \cap DOMAIN d : d[p].utf8 /\ x \in E[p]
        BY <2>3 DEF SourceLines
      <3>3. \A x : x \in SourceLines(q, d) <=> \E p \in WantedBy(q) : p \in P /\ x \in E[p]
        BY <2>2, <3>2
      <3>4. \A p : p \in WantedBy(q) <=> \E t \in 1 .. n : p = F[t]
        BY <2>1
      <3>5. \A x : x \in UNION {R[t] : t \in 1 .. n} <=> x \in SourceLines(q, d)
        <4>1. ASSUME NEW x, x \in SourceLines(q, d) PROVE x \in UNION {R[t] : t \in 1 .. n}
          <5>1. PICK p \in WantedBy(q) : p \in P /\ x \in E[p]
            BY <3>3, <4>1
          <5>2. PICK t \in 1 .. n : p = F[t]
            BY <3>4, <5>1
          <5>3. QED
            BY <3>1, <5>1, <5>2
        <4>2. ASSUME NEW x, x \in UNION {R[t] : t \in 1 .. n} PROVE x \in SourceLines(q, d)
          <5>1. PICK t \in 1 .. n : F[t] \in P /\ x \in E[F[t]]
            BY <3>1, <4>2
          <5>2. PICK p : p = F[t]
            OBVIOUS
          <5>3. p \in WantedBy(q) /\ p \in P /\ x \in E[p]
            BY <3>4, <5>1, <5>2
          <5>4. QED
            BY <3>3, <5>3
        <4>3. QED
          BY <4>1, <4>2
      <3>6. QED
        BY <3>5
    <2>10. QED
      BY <1>5, <2>8, <2>9
  <1>10. QED
    BY <1>8, <1>9

\* There are no transactions in a file of customers.
LEMMA NoCustomerSource ==
  ASSUME NEW q, q.entity = "customer", NEW d \in Disks
  PROVE  SourceLines(q, d) = {}
  <1>1. SUFFICES ASSUME NEW x \in SourceLines(q, d) PROVE FALSE
    OBVIOUS
  <1>2. PICK p \in WantedBy(q) \cap DOMAIN d : x \in Of(d, p) /\ IsTransaction(LineAt(d)[x])
    BY DEF SourceLines
  <1>3. p = Path("customer", "customer", 0)
    BY <1>2 DEF WantedBy
  <1>4. p.base = "customer"
    BY <1>3 DEF Path
  <1>5. IsCustomers(d[p])
    BY <1>4, AggregationAssumption, Zenon
  <1>6. PICK i \in DOMAIN d[p].lines : x = <<p, i>>
    BY <1>2 DEF Of
  <1>7. x \in LinesOf(d)
    BY <1>2, FileLists
  <1>8. LineAt(d)[x] = d[p].lines[i]
    BY <1>6, <1>7 DEF LineAt
  <1>9. d[p].lines[i].columns < 6 /\ d[p].lines[i].columns = 6
    BY <1>2, <1>5, <1>8 DEF IsCustomers, IsTransaction
  <1>10. QED
    BY <1>9

\* What the lines of a job say, by the state of it.
Said == KeysSaid(Counted(request, disk), Emitted(request.entity, disk))
Saying == Told(Counted(request, disk), Emitted(request.entity, disk))

\* The rows of one output: of one of this job, what the lines partitioned to the
\* task say, as far as it was written.
LEMMA RowsOfOutput ==
  ASSUME Inv, NEW r \in Reduces
  PROVE  /\ Rows(ReadOutput(r)) \in Seq(Pairs)
         /\ Known /\ reduced[r] # "todo" /\ ~ OldOutputRead(r) =>
              \E Q \in SUBSET {k \in Said : hash[k] = r} :
                /\ Listed(Rows(ReadOutput(r)), Q, Saying)
                /\ reduced[r] = "whole" => Q = {k \in Said : hash[k] = r}
                /\ reduced[r] = "none" => Q = {}
  <1>1. PICK file : file = ReadOutput(r)
    OBVIOUS
  <1>2. PICK K : K = {k \in Said : hash[k] = r}
    OBVIOUS
  <1>3. /\ request \in Requests /\ disk \in Disks /\ hash \in Hashes
        /\ flat[r] \in OutputFile
        /\ \/ reduced[r] \in {"todo", "none"} /\ primary[r] \in OutputFile
           \/ /\ reduced[r] \in {"part", "whole"} /\ Complete(Ideal(request, disk, hash))
              /\ WrittenBy(primary[r], Expected(request, disk, hash, r), reduced[r])
    BY DEF Inv, ReducesGood
  <1>4. CASE reduced[r] \in {"todo", "none"}
    <2>1. file \in OutputFile
      BY <1>1, <1>3, <1>4 DEF ReadOutput
    <2>2. Rows(file) \in Seq(Pairs)
      BY <2>1, RowsType
    <2>3. ASSUME ~ OldOutputRead(r), reduced[r] # "todo" PROVE Rows(file) = <<>>
      <3>1. ~ primary[r].exists /\ ~ flat[r].exists
        BY <1>4, <2>3 DEF OldOutputRead
      <3>2. file = flat[r]
        BY <1>1, <3>1 DEF ReadOutput
      <3>3. QED
        BY <1>3, <3>1, <3>2, RowsType
    <2>4. Listed(<<>>, {}, Saying) /\ {} \in SUBSET K
      BY FewListed
    <2>5. QED
      BY <1>1, <1>2, <1>4, <2>2, <2>3, <2>4
  <1>5. CASE reduced[r] \in {"part", "whole"}
    <2>1. file = primary[r]
      <3>1. primary[r].exists
        <4>1. PICK out, n : primary[r] = Binary(SubSeq(out, 1, n))
          BY <1>3, <1>5, Zenon DEF WrittenBy
        <4>2. \A chunks : Binary(chunks).exists
          BY DEF Binary
        <4>3. QED
          BY <4>1, <4>2
      <3>2. QED
        BY <1>1, <3>1 DEF ReadOutput
    <2>2. PICK C : C = Counted(request, disk)
      OBVIOUS
    <2>3. PICK W : W = Emitted(request.entity, disk)
      OBVIOUS
    <2>4. PICK group \in Seq(Pairs) :
            /\ Expected(request, disk, hash, r) = Written(group)
            /\ request.entity \in {"transaction", "customer"} =>
                 Listed(group, SaidTo(C, W, hash, r), Told(C, W))
      <3>1. /\ request \in Requests /\ disk \in Disks /\ hash \in Hashes
            /\ Complete(Ideal(request, disk, hash))
        BY <1>3, <1>5
      <3>2. QED
        BY <2>2, <2>3, <3>1, ExpectedLists
    <2>5. PICK outcome : outcome = reduced[r]
      OBVIOUS
    <2>6. WrittenBy(file, Written(group), outcome)
      BY <1>3, <1>5, <2>1, <2>4, <2>5
    <2>7. Rows(file) \in Seq(Pairs)
      BY <2>6, RowsWritten
    <2>8. ASSUME Known
          PROVE  \E Q \in SUBSET K : Listed(Rows(file), Q, Saying) /\ (outcome = "whole" => Q = K)
      <3>1. request.entity \in {"transaction", "customer"}
        BY <2>8 DEF Known
      <3>2. PICK V : V = Saying
        OBVIOUS
      <3>3. Listed(group, K, V)
        BY <1>2, <2>2, <2>3, <2>4, <3>1, <3>2 DEF Said, Saying, SaidTo
      <3>4. ASSUME NEW k \in K PROVE V[k] \in Pairs /\ V[k].value.wide
        <4>1. C \subseteq DOMAIN W /\ \A x \in C : W[x] \in Pairs
          BY <1>3, <2>2, <2>3, <3>1, CountedIs
        <4>2. IsFiniteSet(C)
          BY <1>3, <2>2, <3>1, CountedFinite
        <4>3. k \in KeysSaid(C, W) /\ V = Told(C, W)
          BY <1>2, <2>2, <2>3, <3>2 DEF Said, Saying
        <4>4. Told(C, W)[k] \in Pairs /\ Told(C, W)[k].value.wide
          BY <4>1, <4>2, <4>3, ToldIs
        <4>5. QED
          BY <4>3, <4>4
      <3>5. \E Q \in SUBSET K : Listed(Rows(file), Q, V) /\ (outcome = "whole" => Q = K)
        BY <2>6, <3>3, <3>4, RowsWritten
      <3>6. QED
        BY <3>2, <3>5
    <2>9. QED
      BY <1>1, <1>2, <1>5, <2>5, <2>7, <2>8
  <1>6. QED
    BY <1>3, <1>4, <1>5

\* Every key that is told about has its reduce task.
LEMMA SaidHashed ==
  ASSUME Inv, Known, NEW k \in Said
  PROVE  k \in Keys \cup {""} /\ hash[k] \in Reduces
  <1>1. request \in Requests /\ disk \in Disks /\ hash \in Hashes
    BY DEF Inv
  <1>2. PICK C : C = Counted(request, disk)
    OBVIOUS
  <1>3. PICK W : W = Emitted(request.entity, disk)
    OBVIOUS
  <1>4. request.entity \in {"transaction", "customer"}
    BY DEF Known
  <1>5. \A x \in C : W[x] \in Pairs
    BY <1>1, <1>2, <1>3, <1>4, CountedIs
  <1>6. PICK x \in C : k = W[x].key
    BY <1>2, <1>3 DEF Said, KeysSaid
  <1>7. k \in Keys \cup {""}
    BY <1>5, <1>6, PairIs
  <1>8. Hashes \subseteq [Keys \cup {""} -> Reduces]
    BY AggregationAssumption, Zenon
  <1>9. QED
    BY <1>1, <1>7, <1>8

\* The rows of all outputs: for each key that they tell about what the lines say.
LEMMA ReducedLists ==
  ASSUME Inv
  PROVE  /\ ReducedRows \in Seq(Pairs)
         /\ Known /\ (\A r \in Reduces : reduced[r] # "todo" /\ ~ OldOutputRead(r)) =>
              \E Q \in SUBSET Said :
                /\ Listed(ReducedRows, Q, Saying)
                /\ (\A r \in Reduces : reduced[r] = "whole") => Q = Said
                /\ (\A r \in Reduces : reduced[r] = "none") => Q = {}
  <1>1. PICK n \in Nat \ {0} : n = NReduce
    BY AggregationAssumption, Zenon
  <1>2. PICK rows : rows = [r \in 1 .. n |-> Rows(ReadOutput(r - 1))]
    OBVIOUS
  <1>3. ReducedRows = FlattenSeq(rows)
    BY <1>1, <1>2 DEF ReducedRows
  <1>4. \A r \in 1 .. n : r - 1 \in Reduces
    BY <1>1 DEF Reduces
  <1>5. \A r \in Reduces : r + 1 \in 1 .. n /\ (r + 1) - 1 = r
    BY <1>1 DEF Reduces
  <1>6. \A r \in 1 .. n : rows[r] \in Seq(Pairs)
    BY <1>2, <1>4, RowsOfOutput
  <1>7. rows \in Seq(Seq(Pairs)) /\ DOMAIN rows = 1 .. n
    BY <1>2, <1>6
  <1>8. ReducedRows \in Seq(Pairs)
    BY <1>3, <1>7, FlattenType
  <1>9. ASSUME Known, \A r \in Reduces : reduced[r] # "todo" /\ ~ OldOutputRead(r)
        PROVE  \E Q \in SUBSET Said :
                 /\ Listed(ReducedRows, Q, Saying)
                 /\ (\A r \in Reduces : reduced[r] = "whole") => Q = Said
                 /\ (\A r \in Reduces : reduced[r] = "none") => Q = {}
    <2>1. PICK V : V = Saying
      OBVIOUS
    <2> DEFINE Fits(r, Q) ==
          /\ Q \subseteq {k \in Said : hash[k] = r}
          /\ Listed(Rows(ReadOutput(r)), Q, V)
          /\ reduced[r] = "whole" => Q = {k \in Said : hash[k] = r}
          /\ reduced[r] = "none" => Q = {}
    <2>2. ASSUME NEW r \in Reduces PROVE \E Q : Fits(r, Q)
      BY <1>9, <2>1, RowsOfOutput
    <2>3. PICK R : R = [r \in 1 .. n |-> CHOOSE Q : Fits(r - 1, Q)]
      OBVIOUS
    <2>4. ASSUME NEW r \in 1 .. n PROVE Fits(r - 1, R[r])
      <3>1. PICK i \in Reduces : i = r - 1
        BY <1>4
      <3>2. R[r] = CHOOSE Q : Fits(i, Q)
        BY <2>3, <3>1
      <3>3. Fits(i, R[r])
        <4> HIDE DEF Fits
        <4>1. QED
          BY <2>2, <3>2
      <3>4. QED
        BY <3>1, <3>3
    <2>5. ASSUME NEW r \in 1 .. n
          PROVE  /\ R[r] \subseteq Said /\ \A k \in R[r] : hash[k] = r - 1
                 /\ Listed(rows[r], R[r], V)
                 /\ reduced[r - 1] = "whole" => \A k \in Said : hash[k] = r - 1 => k \in R[r]
                 /\ reduced[r - 1] = "none" => R[r] = {}
      <3>1. rows[r] = Rows(ReadOutput(r - 1))
        BY <1>2
      <3>2. QED
        BY <2>4, <3>1
    <2> HIDE DEF Fits
    <2>6. ASSUME NEW r \in 1 .. n, NEW u \in 1 .. n, r # u PROVE R[r] \cap R[u] = {}
      <3>1. r - 1 # u - 1
        BY <2>6
      <3>2. QED
        BY <2>5, <3>1
    <2>7. PICK Q : Q = UNION {R[r] : r \in 1 .. n}
      OBVIOUS
    <2>8. Listed(FlattenSeq(rows), Q, V)
      <3>1. \A r \in 1 .. n : Listed(rows[r], R[r], V)
        BY <2>5
      <3>2. QED
        BY <1>7, <2>6, <2>7, <3>1, FlattenLists
    <2>9. Q \in SUBSET Said
      BY <2>5, <2>7
    <2>10. ASSUME \A r \in Reduces : reduced[r] = "whole" PROVE Said \subseteq Q
      <3>1. ASSUME NEW k \in Said PROVE \E r \in 1 .. n : k \in R[r]
        <4>1. hash[k] \in Reduces
          BY <1>9, SaidHashed
        <4>2. PICK r \in 1 .. n : r - 1 = hash[k]
          BY <1>5, <4>1
        <4>3. reduced[r - 1] = "whole"
          BY <2>10, <4>1, <4>2
        <4>4. QED
          BY <2>5, <4>2, <4>3
      <3>2. QED
        BY <2>7, <3>1
    <2>11. ASSUME \A r \in Reduces : reduced[r] = "none" PROVE Q = {}
      <3>1. \A r \in 1 .. n : R[r] = {}
        BY <1>4, <2>5, <2>11
      <3>2. QED
        BY <2>7, <3>1
    <2>12. QED
      BY <1>3, <2>1, <2>8, <2>9, <2>10, <2>11
  <1>10. QED
    BY <1>8, <1>9

-----------------------------------------------------------------------------
(* What the evaluator is called with *)

\* The sum of what the lines say of a key.
SumSaid(A, W, k) == SumFunctionOnSet([x \in DOMAIN W |-> W[x].value.sum], About(A, W, k))

\* The sums of a customer are those over his rows.
LEMMA PerCustomerIs ==
  ASSUME NEW rows \in Seq(Pairs)
  PROVE  /\ DOMAIN PerCustomer(rows) = {rows[i].key : i \in DOMAIN rows}
         /\ \A k \in DOMAIN PerCustomer(rows) :
              /\ PerCustomer(rows)[k].sum \in Number /\ PerCustomer(rows)[k].count \in Number
              /\ \A I : I = {i \in DOMAIN rows : rows[i].key = k} =>
                   /\ PerCustomer(rows)[k].sum =
                        Unsigned(SumFunctionOnSet([i \in I |-> rows[i].value.sum], I))
                   /\ PerCustomer(rows)[k].count =
                        Unsigned(SumFunctionOnSet([i \in I |-> rows[i].value.count], I))
  <1>1. DOMAIN PerCustomer(rows) = {rows[i].key : i \in DOMAIN rows}
    BY DEF PerCustomer
  <1>2. ASSUME NEW k \in DOMAIN PerCustomer(rows), NEW I, I = {i \in DOMAIN rows : rows[i].key = k}
        PROVE  /\ PerCustomer(rows)[k].sum \in Number /\ PerCustomer(rows)[k].count \in Number
               /\ PerCustomer(rows)[k].sum =
                    Unsigned(SumFunctionOnSet([i \in I |-> rows[i].value.sum], I))
               /\ PerCustomer(rows)[k].count =
                    Unsigned(SumFunctionOnSet([i \in I |-> rows[i].value.count], I))
    <2>1. PICK f : f = [i \in I |-> rows[i].value.sum]
      OBVIOUS
    <2>2. PICK g : g = [i \in I |-> rows[i].value.count]
      OBVIOUS
    <2>3. PerCustomer(rows)[k] = [sum |-> Unsigned(SumFunction(f)), count |-> Unsigned(SumFunction(g))]
      BY <1>1, <1>2, <2>1, <2>2 DEF PerCustomer
    <2>4. SumFunction(f) = SumFunctionOnSet(f, I) /\ SumFunction(g) = SumFunctionOnSet(g, I)
      BY <2>1, <2>2 DEF SumFunction
    <2>5. IsFiniteSet(I)
      BY <1>2, KeysFinite, FS_Subset
    <2>6. ASSUME NEW i \in I PROVE f[i] \in Int /\ g[i] \in Int
      <3>1. rows[i] \in Pairs
        BY <1>2
      <3>2. rows[i].value.sum \in Number /\ rows[i].value.count \in Number
        BY <3>1 DEF Pairs, Value
      <3>3. QED
        BY <2>1, <2>2, <3>2, Numbers
    <2>7. SumFunctionOnSet(f, I) \in Int /\ SumFunctionOnSet(g, I) \in Int
      BY <2>5, <2>6, SumRemove
    <2>8. /\ PerCustomer(rows)[k].sum = Unsigned(SumFunctionOnSet(f, I))
          /\ PerCustomer(rows)[k].count = Unsigned(SumFunctionOnSet(g, I))
      BY <2>3, <2>4
    <2>9. QED
      BY <2>1, <2>2, <2>7, <2>8, Numbers
  <1>3. QED
    BY <1>1, <1>2

\* Of the rows of the outputs there is one for a customer, with his sums.
LEMMA PerTold ==
  ASSUME NEW A, NEW W, IsFiniteSet(A), A \subseteq DOMAIN W, \A x \in A : W[x] \in Pairs,
         NEW Q, Q \subseteq KeysSaid(A, W),
         NEW rows \in Seq(Pairs), Listed(rows, Q, Told(A, W))
  PROVE  /\ DOMAIN PerCustomer(rows) = Q
         /\ \A k \in Q : /\ PerCustomer(rows)[k].sum = Unsigned(SumSaid(A, W, k))
                         /\ PerCustomer(rows)[k].count = Unsigned(Cardinality(About(A, W, k)))
  <1>1. PICK V : V = Told(A, W)
    OBVIOUS
  <1>2. PICK b : Lists(rows, Q, V, b)
    BY <1>1 DEF Listed
  <1>3. \A i \in DOMAIN rows : b[i] \in Q /\ rows[i] = V[b[i]]
    BY <1>2 DEF Lists
  <1>4. ASSUME NEW k \in Q
        PROVE  /\ V[k] = Pair(k, Summed(A, W, k)) /\ V[k].key = k
               /\ SumSaid(A, W, k) \in Int /\ Cardinality(About(A, W, k)) \in Nat
    <2>1. k \in KeysSaid(A, W)
      OBVIOUS
    <2>2. V[k] = Pair(k, Summed(A, W, k))
      BY <1>1, <2>1, ToldIs
    <2>3. SumSaid(A, W, k) \in Int /\ Cardinality(About(A, W, k)) \in Nat
      BY <2>1, ToldIs DEF SumSaid
    <2>4. QED
      BY <2>2, <2>3 DEF Pair
  <1>5. \A i \in DOMAIN rows : rows[i].key = b[i]
    BY <1>3, <1>4
  <1>6. DOMAIN PerCustomer(rows) = Q
    <2>1. \A k \in Q : \E i \in DOMAIN rows : rows[i].key = k
      BY <1>2, <1>5 DEF Lists
    <2>2. QED
      <3>1. {rows[i].key : i \in DOMAIN rows} = Q
        BY <1>3, <1>5, <2>1
      <3>2. QED
        BY <3>1, PerCustomerIs
  <1>7. ASSUME NEW k \in Q
        PROVE  /\ PerCustomer(rows)[k].sum = Unsigned(SumSaid(A, W, k))
               /\ PerCustomer(rows)[k].count = Unsigned(Cardinality(About(A, W, k)))
    <2>1. PICK i \in DOMAIN rows : b[i] = k
      BY <1>2 DEF Lists
    <2>2. PICK I : I = {j \in DOMAIN rows : rows[j].key = k}
      OBVIOUS
    <2>3. I = {i}
      BY <1>2, <1>5, <2>1, <2>2 DEF Lists
    <2>4. PICK s, n : s = Unsigned(SumSaid(A, W, k)) /\ n = Unsigned(Cardinality(About(A, W, k)))
      OBVIOUS
    <2>5. s \in Number /\ n \in Number
      BY <1>4, <2>4, Numbers
    <2>6. rows[i].value = Sums(s, n)
      <3>1. rows[i] = Pair(k, Summed(A, W, k))
        BY <1>3, <1>4, <2>1
      <3>2. Summed(A, W, k) = Sums(s, n)
        BY <2>4 DEF Summed, SumSaid
      <3>3. QED
        BY <3>1, <3>2 DEF Pair
    <2>7. rows[i].value.sum = s /\ rows[i].value.count = n
      BY <2>6 DEF Sums
    <2>8. PICK f : f = [j \in I |-> rows[j].value.sum]
      OBVIOUS
    <2>9. PICK g : g = [j \in I |-> rows[j].value.count]
      OBVIOUS
    <2>10. f[i] = s /\ g[i] = n
      BY <2>3, <2>7, <2>8, <2>9
    <2>11. f[i] \in Int /\ g[i] \in Int
      BY <2>5, <2>10, Numbers
    <2>12. SumFunctionOnSet(f, I) = s /\ SumFunctionOnSet(g, I) = n
      BY <2>3, <2>10, <2>11, SumOfOne
    <2>13. PerCustomer(rows)[k].sum = Unsigned(s) /\ PerCustomer(rows)[k].count = Unsigned(n)
      BY <1>6, <2>2, <2>8, <2>9, <2>12, PerCustomerIs
    <2>14. QED
      BY <2>4, <2>5, <2>13, Numbers
  <1>8. QED
    BY <1>6, <1>7

\* Of the rows of the fallback there is one for each line of a customer.
LEMMA PerSource ==
  ASSUME NEW A, NEW W, A \subseteq DOMAIN W, \A x \in A : W[x].value.count = 1,
         NEW rows \in Seq(Pairs), Listed(rows, A, W)
  PROVE  /\ DOMAIN PerCustomer(rows) = KeysSaid(A, W)
         /\ \A k \in KeysSaid(A, W) :
              /\ PerCustomer(rows)[k].sum = Unsigned(SumSaid(A, W, k))
              /\ PerCustomer(rows)[k].count = Unsigned(Cardinality(About(A, W, k)))
  <1>1. PICK b : Lists(rows, A, W, b)
    BY DEF Listed
  <1>2. \A i \in DOMAIN rows : b[i] \in A /\ rows[i] = W[b[i]]
    BY <1>1 DEF Lists
  <1>3. DOMAIN PerCustomer(rows) = KeysSaid(A, W)
    <2>1. \A x \in A : \E i \in DOMAIN rows : rows[i].key = W[x].key
      BY <1>1, <1>2 DEF Lists
    <2>2. \A k : k \in {rows[i].key : i \in DOMAIN rows} <=> k \in KeysSaid(A, W)
      BY <1>2, <2>1 DEF KeysSaid
    <2>3. QED
      BY <2>2, PerCustomerIs
  <1>4. ASSUME NEW k \in KeysSaid(A, W)
        PROVE  /\ PerCustomer(rows)[k].sum = Unsigned(SumSaid(A, W, k))
               /\ PerCustomer(rows)[k].count = Unsigned(Cardinality(About(A, W, k)))
    <2>1. PICK I \in SUBSET DOMAIN rows : I = {i \in DOMAIN rows : rows[i].key = k}
      OBVIOUS
    <2>2. PICK Q \in SUBSET A : Q = About(A, W, k)
      BY DEF About
    <2>3. \A i \in DOMAIN rows : \A x \in A : rows[i] = W[x] => (i \in I <=> x \in Q)
      BY <2>1, <2>2 DEF About
    <2>4. PICK f : f = [i \in I |-> rows[i].value.sum]
      OBVIOUS
    <2>5. PICK c : c = [i \in I |-> rows[i].value.count]
      OBVIOUS
    <2>6. PICK g : g = [x \in DOMAIN W |-> W[x].value.sum]
      OBVIOUS
    <2>7. PICK e : e = [x \in DOMAIN W |-> W[x].value.count]
      OBVIOUS
    <2>8. ASSUME NEW i \in I PROVE f[i] \in Int /\ c[i] \in Int
      <3>1. rows[i] \in Pairs
        OBVIOUS
      <3>2. rows[i].value.sum \in Number /\ rows[i].value.count \in Number
        BY <3>1 DEF Pairs, Value
      <3>3. QED
        BY <2>4, <2>5, <3>2, Numbers
    <2>9. \A i \in I : \A x \in A : rows[i] = W[x] => g[x] = f[i] /\ e[x] = c[i]
      BY <2>4, <2>5, <2>6, <2>7
    <2>10. IsFiniteSet(DOMAIN rows)
      BY KeysFinite
    <2>11. IsFiniteSet(Q) /\ SumFunctionOnSet(f, I) = SumFunctionOnSet(g, Q)
      BY <2>3, <2>8, <2>9, <2>10, SumLists
    <2>12. SumFunctionOnSet(c, I) = SumFunctionOnSet(e, Q)
      BY <2>3, <2>8, <2>9, <2>10, SumLists
    <2>13. SumFunctionOnSet(e, Q) = Cardinality(Q)
      <3>1. \A x \in Q : e[x] = 1
        BY <2>7
      <3>2. QED
        BY <2>11, <3>1, SumOfOnes
    <2>14. /\ PerCustomer(rows)[k].sum = Unsigned(SumFunctionOnSet(f, I))
           /\ PerCustomer(rows)[k].count = Unsigned(SumFunctionOnSet(c, I))
      BY <1>3, <2>1, <2>4, <2>5, PerCustomerIs
    <2>15. QED
      BY <2>2, <2>6, <2>11, <2>12, <2>13, <2>14 DEF SumSaid
  <1>5. QED
    BY <1>3, <1>4

\* Below zero the remainders begin anew.
LEMMA Wraps ==
  ASSUME NEW M \in Nat \ {0}, NEW n \in 0 .. M - 1, NEW a \in Int, a = n - M
  PROVE  a % M = n
  OBVIOUS

\* A number as an i64, and back.
LEMMA SignedIs ==
  \A n \in Number : /\ Signed(n) \in SignedNumber
                    /\ Unsigned(Signed(n)) = n
                    /\ n < Modulus \div 2 => Signed(n) = n
  <1>1. SUFFICES ASSUME NEW n \in Number
                 PROVE  /\ Signed(n) \in SignedNumber /\ Unsigned(Signed(n)) = n
                        /\ n < Modulus \div 2 => Signed(n) = n
    OBVIOUS
  <1>2. PICK H : H = Modulus \div 2
    OBVIOUS
  <1>3. PICK M : M = Modulus
    OBVIOUS
  <1>4. M \in Nat /\ H \in Nat /\ M = 2 * H /\ M >= 2
    BY <1>2, <1>3, ModulusIs
  <1>5. n \in Nat /\ n <= M - 1
    BY <1>3, <1>4 DEF Number
  <1>6. Signed(n) = IF n < H THEN n ELSE n - M
    BY <1>2, <1>3 DEF Signed
  <1>7. Signed(n) \in -H .. H - 1
    BY <1>4, <1>5, <1>6
  <1>8. Signed(n) % M = n
    <2>1. n % M = n
      BY <1>4, <1>5
    <2>2. (n - M) % M = n
      <3>1. M \in Nat \ {0} /\ n \in 0 .. M - 1 /\ n - M \in Int
        BY <1>4, <1>5
      <3>2. QED
        BY <3>1, Wraps
    <2>3. QED
      BY <1>6, <2>1, <2>2
  <1>9. QED
    BY <1>2, <1>3, <1>6, <1>7, <1>8 DEF SignedNumber, Unsigned

\* The calls are made of the sums of the customers whose key is a number.
LEMMA CallsAre ==
  ASSUME NEW rows, NEW per, per = PerCustomer(rows)
  PROVE  /\ DOMAIN Calls(rows) = {k \in DOMAIN per : IsNumeric(k)}
         /\ \A k \in DOMAIN Calls(rows) :
              /\ Calls(rows)[k].customer.customer_id = Numeric[k]
              /\ Calls(rows)[k].transaction.transaction_today.sum = Signed(per[k].sum)
              /\ Calls(rows)[k].transaction.transaction_today.count = Signed(per[k].count)
              /\ Calls(rows)[k].transaction.transaction_today.avg =
                   IF per[k].count > 0 THEN Signed(per[k].sum \div per[k].count) ELSE 0
  <1>1. PICK D : D = {k \in DOMAIN per : IsNumeric(k)}
    OBVIOUS
  <1>2. PICK asked : asked = ReadReducedForJob(rows)
    OBVIOUS
  <1>3. asked = [k \in D |-> EvaluateRequest(k, per[k])]
    BY <1>1, <1>2 DEF ReadReducedForJob
  <1>4. Calls(rows) = [k \in D |-> ZenInput(asked[k])]
    BY <1>2, <1>3 DEF Calls
  <1>5. ASSUME NEW k \in D
        PROVE  /\ Calls(rows)[k].customer.customer_id = Numeric[k]
               /\ Calls(rows)[k].transaction.transaction_today.sum = Signed(per[k].sum)
               /\ Calls(rows)[k].transaction.transaction_today.count = Signed(per[k].count)
               /\ Calls(rows)[k].transaction.transaction_today.avg =
                    IF per[k].count > 0 THEN Signed(per[k].sum \div per[k].count) ELSE 0
    <2>1. PICK q : q = EvaluateRequest(k, per[k])
      OBVIOUS
    <2>2. /\ q.customer_id = Numeric[k] /\ q.sum = Signed(per[k].sum)
          /\ q.count = Signed(per[k].count)
          /\ q.avg = IF per[k].count > 0 THEN Signed(per[k].sum \div per[k].count) ELSE 0
      BY <2>1 DEF EvaluateRequest
    <2>3. Calls(rows)[k] = ZenInput(q)
      BY <1>3, <1>4, <2>1
    <2>4. /\ ZenInput(q).customer.customer_id = q.customer_id
          /\ ZenInput(q).transaction.transaction_today.sum = q.sum
          /\ ZenInput(q).transaction.transaction_today.count = q.count
          /\ ZenInput(q).transaction.transaction_today.avg = q.avg
      BY DEF ZenInput
    <2>5. QED
      BY <2>2, <2>3, <2>4
  <1>6. QED
    BY <1>1, <1>4, <1>5

\* The rows the handler goes by.
LEMMA AllRowsType == ASSUME Inv PROVE AllRows \in Seq(Pairs)
  <1>1. request \in Requests /\ disk \in Disks
    BY DEF Inv
  <1>2. SourceRows(request, disk) \in Seq(Pairs)
    BY <1>1, SourceLists
  <1>3. QED
    BY <1>2, ReducedLists DEF AllRows

\* The invariant implies the type invariant.
LEMMA InvTypeOK == Inv => TypeOK
  <1>1. SUFFICES ASSUME Inv PROVE TypeOK
    OBVIOUS
  <1>2. request \in Requests /\ disk \in Disks /\ hash \in Hashes
    BY <1>1 DEF Inv
  <1>3. ASSUME NEW t \in Maps, held[t].ok PROVE DOMAIN held[t].parts = Reduces
    <2>1. ~ ToDo.ok /\ ~ NoOutput.ok
      BY DEF ToDo, NoOutput
    <2>2. held[t] = Ideal(request, disk, hash)[t]
      BY <1>1, <1>3, <2>1 DEF Inv, MapsGood
    <2>3. PICK path : path = Files(request)[t]
      OBVIOUS
    <2>4. held[t] = MapOutput(request, disk, hash, path)
      BY <2>2, <2>3 DEF Ideal, Maps
    <2>5. PICK p \in DOMAIN disk :
            held[t].parts = Partitions(hash, MapFn(App(request), disk[p]))
      BY <1>2, <1>3, <2>4, MapOutputIs
    <2>6. QED
      BY <2>5 DEF Partitions
  <1>4. ASSUME NEW r \in Reduces PROVE reduced[r] \in {"todo", "none", "part", "whole"}
    BY <1>1 DEF Inv, ReducesGood
  <1>5. ASSUME NEW k \in DOMAIN evaluated.calls
        PROVE  /\ IsNumeric(k) /\ evaluated.calls[k].customer.customer_id = Numeric[k]
               /\ evaluated.calls[k].transaction.transaction_today.sum \in SignedNumber
               /\ evaluated.calls[k].transaction.transaction_today.count \in SignedNumber
               /\ evaluated.calls[k].transaction.transaction_today.avg \in SignedNumber
    <2>1. evaluated.done /\ evaluated.calls = Calls(AllRows)
      BY <1>1 DEF Inv, CallsGood
    <2>2. PICK rows : rows = AllRows
      OBVIOUS
    <2>3. PICK per : per = PerCustomer(rows)
      OBVIOUS
    <2>4. evaluated.calls = Calls(rows)
      BY <2>1, <2>2
    <2>5. k \in DOMAIN Calls(rows)
      BY <2>4
    <2>6. k \in DOMAIN per /\ IsNumeric(k)
      BY <2>3, <2>5, CallsAre
    <2>7. rows \in Seq(Pairs)
      BY <1>1, <2>2, AllRowsType
    <2>8. PICK s \in Number, n \in Number : s = per[k].sum /\ n = per[k].count
      BY <2>3, <2>6, <2>7, PerCustomerIs
    <2>9. PICK avg : avg = IF n > 0 THEN Signed(s \div n) ELSE 0
      OBVIOUS
    <2>10. Signed(s) \in SignedNumber /\ Signed(n) \in SignedNumber
      BY SignedIs
    <2>11. avg \in SignedNumber
      <3>1. CASE n > 0
        <4>1. s \in Nat /\ n \in Nat /\ s <= Modulus - 1 /\ Modulus \in Nat
          BY ModulusIs DEF Number
        <4>2. s \div n \in Nat /\ s \div n <= s
          BY <3>1, <4>1
        <4>3. s \div n \in Number
          BY <4>1, <4>2 DEF Number
        <4>4. QED
          BY <2>9, <3>1, <4>3, SignedIs
      <3>2. CASE ~ (n > 0)
        <4>1. 0 \in SignedNumber
          BY ModulusIs DEF SignedNumber
        <4>2. QED
          BY <2>9, <3>2, <4>1
      <3>3. QED
        BY <3>1, <3>2
    <2>12. /\ evaluated.calls[k].customer.customer_id = Numeric[k]
           /\ evaluated.calls[k].transaction.transaction_today.sum = Signed(s)
           /\ evaluated.calls[k].transaction.transaction_today.count = Signed(n)
           /\ evaluated.calls[k].transaction.transaction_today.avg = avg
      <3>1. PICK c : c = Calls(rows)[k]
        OBVIOUS
      <3>2. /\ c.customer.customer_id = Numeric[k]
            /\ c.transaction.transaction_today.sum = Signed(per[k].sum)
            /\ c.transaction.transaction_today.count = Signed(per[k].count)
            /\ c.transaction.transaction_today.avg =
                 IF per[k].count > 0 THEN Signed(per[k].sum \div per[k].count) ELSE 0
        BY <2>3, <2>5, <3>1, CallsAre
      <3>3. evaluated.calls[k] = c
        BY <2>4, <3>1
      <3>4. QED
        BY <2>8, <2>9, <3>2, <3>3
    <2>13. QED
      BY <2>6, <2>10, <2>11, <2>12
  <1>6. QED
    BY <1>2, <1>3, <1>4, <1>5 DEF TypeOK

\* What reaches the evaluator are numbers of 64 bits with a sign, for customers
\* whose key is a number, whatever the files, the outputs and the hashes are.
THEOREM TypeCorrect == Spec => []TypeOK
  BY InvCorrect, InvTypeOK, PTL

-----------------------------------------------------------------------------
(* The lines about a customer *)

\* The same values have the same sum.
LEMMA SumSame ==
  ASSUME NEW S, IsFiniteSet(S), NEW f, NEW g, \A x \in S : f[x] \in Int /\ g[x] = f[x]
  PROVE  SumFunctionOnSet(f, S) = SumFunctionOnSet(g, S)
  <1>1. PICK b : b = [x \in S |-> x]
    OBVIOUS
  <1>2. /\ b \in [S -> S] /\ \A x, y \in S : b[x] = b[y] => x = y
        /\ \A y \in S : \E x \in S : b[x] = y
        /\ \A x \in S : f[x] \in Int /\ g[b[x]] = f[x]
    BY <1>1
  <1>3. QED
    BY <1>2, SumMoved

\* A sum of natural numbers is one.
LEMMA SumOfNats ==
  ASSUME NEW f, NEW S, IsFiniteSet(S), \A x \in S : f[x] \in Nat
  PROVE  SumFunctionOnSet(f, S) \in Nat
  <1> DEFINE Q == {U \in SUBSET S : IsFiniteSet(U) /\ SumFunctionOnSet(f, U) \in Nat}
  <1>1. {} \in Q
    BY SumOfNone, FS_EmptySet
  <1>2. ASSUME NEW U \in SUBSET S, NEW x \in S \ U, U \in Q PROVE U \cup {x} \in Q
    <2>1. IsFiniteSet(U) /\ IsFiniteSet(U \cup {x})
      BY <1>2, FS_AddElement
    <2>2. SumFunctionOnSet(f, U \cup {x}) = f[x] + SumFunctionOnSet(f, U)
      BY <1>2, <2>1, SumAdd
    <2>3. SumFunctionOnSet(f, U \cup {x}) \in Nat
      BY <1>2, <2>2
    <2>4. QED
      BY <2>1, <2>3
  <1>3. S \in Q
    <2> HIDE DEF Q
    <2>1. QED
      BY <1>1, <1>2, SubsetInduction
  <1>4. QED
    BY <1>3

\* A key that reads as a number is not the one of malformed lines.
LEMMA NumericIs ==
  ASSUME NEW k, IsNumeric(k)
  PROVE  k \in Keys /\ k # "unknown" /\ k # ""
  <1>1. "" \notin Keys /\ Numeric["unknown"] = 0
    BY AggregationAssumption, Zenon
  <1>2. "unknown" # "0"
    OBVIOUS
  <1>3. QED
    BY <1>1, <1>2 DEF IsNumeric

\* The lines that are about customers.
RecordLines(q, d) == IF q.entity = "customer" THEN Counted(q, d) ELSE SourceLines(q, d)

\* A record is a line that says so, with its amount.
LEMMA RecordsAre ==
  ASSUME request \in Requests, disk \in Disks, Known, NEW k \in Keys,
         NEW A, A = RecordLines(request, disk), NEW W, W = Emitted(request.entity, disk)
  PROVE  /\ Records(k) = About(A, W, k)
         /\ \A x \in Records(k) : Amount(x) = W[x].value.sum /\ Amount(x) \in Nat
  <1>1. PICK P : P = WantedBy(request) \cap DOMAIN disk
    OBVIOUS
  <1>2. Wanted \cap DOMAIN disk = P
    BY <1>1 DEF Wanted, WantedBy
  <1>3. PICK U : U = UNION {Of(disk, p) : p \in P}
    OBVIOUS
  <1>4. k # "" /\ "" \notin Keys
    BY AggregationAssumption, Zenon
  <1>5. PICK V : V = LineAt(disk)
    OBVIOUS
  <1>6. ASSUME NEW x \in U
        PROVE  /\ x[1] \in P /\ x \in Of(disk, x[1])
               /\ V[x] = disk[x[1]].lines[x[2]] /\ V[x] \in Line
               /\ W[x] = Emission(request.entity, V[x])
    <2>1. PICK p \in P : x \in Of(disk, p)
      BY <1>3
    <2>2. x \in LinesOf(disk) /\ V[x] \in Line
      BY <1>1, <1>5, <2>1, FileLists
    <2>3. x[1] = p
      BY <2>1 DEF Of
    <2>4. V[x] = disk[x[1]].lines[x[2]]
      BY <1>5, <2>2 DEF LineAt
    <2>5. W[x] = Emission(request.entity, V[x])
      BY <1>5, <2>2 DEF Emitted
    <2>6. QED
      BY <2>1, <2>2, <2>3, <2>4, <2>5
  <1>7. \A l : /\ Emission("customer", l).key = l.id /\ Emission("customer", l).value.sum = 0
               /\ IsTransaction(l) =>
                    /\ Emission("transaction", l).key = Customer(l)
                    /\ Emission("transaction", l).value.sum = ParseAmount(l.amount)
    BY DEF Emission, Pair, Sums, LineKey
  <1>8. CASE request.entity = "customer"
    <2>1. Records(k) = {x \in U : disk[x[1]].lines[x[2]].columns > 0 /\ disk[x[1]].lines[x[2]].id = k}
      BY <1>2, <1>3, <1>8 DEF Records, Of
    <2>2. A = {x \in U : Emits("customer", V[x])}
      BY <1>1, <1>3, <1>5, <1>8 DEF RecordLines, Counted
    <2>3. ASSUME NEW x \in U PROVE x \in Records(k) <=> x \in About(A, W, k)
      <3>1. W[x].key = V[x].id
        BY <1>6, <1>7, <1>8
      <3>2. x \in Records(k) <=> V[x].columns > 0 /\ V[x].id = k
        BY <1>6, <2>1
      <3>3. x \in A <=> V[x].columns > 0 /\ V[x].id # ""
        BY <2>2 DEF Emits
      <3>4. QED
        BY <1>4, <3>1, <3>2, <3>3 DEF About
    <2>4. Records(k) \subseteq U /\ About(A, W, k) \subseteq U
      BY <2>1, <2>2 DEF About
    <2>5. ASSUME NEW x \in Records(k) PROVE Amount(x) = W[x].value.sum /\ Amount(x) \in Nat
      <3>1. W[x].value.sum = 0
        BY <1>6, <1>7, <1>8, <2>4
      <3>2. QED
        BY <1>8, <3>1 DEF Amount
    <2>6. QED
      BY <2>3, <2>4, <2>5
  <1>9. CASE request.entity = "transaction"
    <2>1. Records(k) = {x \in U : /\ disk[x[1]].utf8 /\ disk[x[1]].lines[x[2]].columns = 6
                                  /\ \/ disk[x[1]].lines[x[2]].ref = k
                                     \/ /\ disk[x[1]].lines[x[2]].ref = ""
                                        /\ disk[x[1]].lines[x[2]].id = k}
      BY <1>2, <1>3, <1>9 DEF Records, Of
    <2>2. A = SourceLines(request, disk)
      BY <1>9 DEF RecordLines
    <2>3. A \subseteq U /\ \A x \in A : IsTransaction(V[x])
      BY <1>1, <1>3, <1>5, <2>2 DEF SourceLines
    <2>4. ASSUME NEW x \in U PROVE x \in A <=> disk[x[1]].utf8 /\ IsTransaction(V[x])
      <3>1. x \in A <=> /\ \E p \in P : disk[p].utf8 /\ x \in Of(disk, p)
                        /\ IsTransaction(V[x])
        BY <1>1, <1>5, <2>2 DEF SourceLines
      <3>2. \A p \in P : x \in Of(disk, p) => p = x[1]
        BY DEF Of
      <3>3. QED
        BY <1>6, <3>1, <3>2
    <2>5. ASSUME NEW x \in U PROVE x \in Records(k) <=> x \in About(A, W, k)
      <3>1. PICK l : l = V[x]
        OBVIOUS
      <3>2. x \in Records(k) <=> disk[x[1]].utf8 /\ IsTransaction(l) /\ (l.ref = k \/ (l.ref = "" /\ l.id = k))
        BY <1>6, <2>1, <3>1 DEF IsTransaction
      <3>3. Customer(l) = k <=> (l.ref = k \/ (l.ref = "" /\ l.id = k))
        BY <1>4 DEF Customer
      <3>4. IsTransaction(l) => W[x].key = Customer(l)
        BY <1>6, <1>7, <1>9, <3>1
      <3>5. QED
        BY <2>4, <3>1, <3>2, <3>3, <3>4 DEF About
    <2>6. Records(k) \subseteq U /\ About(A, W, k) \subseteq U
      BY <2>1, <2>3 DEF About
    <2>7. ASSUME NEW x \in Records(k) PROVE Amount(x) = W[x].value.sum /\ Amount(x) \in Nat
      <3>1. x \in U /\ IsTransaction(V[x])
        BY <2>3, <2>5, <2>6 DEF About
      <3>2. W[x].value.sum = ParseAmount(V[x].amount) /\ V[x].amount \in Int
        <4>1. PICK l \in Line : l = V[x]
          BY <1>6, <3>1
        <4>2. W[x] = Emission("transaction", l) /\ IsTransaction(l)
          BY <1>6, <1>9, <3>1, <4>1
        <4>3. W[x].value.sum = ParseAmount(l.amount)
          BY <1>7, <4>2
        <4>4. l.amount \in Int
          BY LineIs
        <4>5. QED
          BY <4>1, <4>3, <4>4
      <3>3. Amount(x) = ParseAmount(V[x].amount)
        BY <1>6, <1>9, <3>1 DEF Amount
      <3>4. ParseAmount(V[x].amount) \in Number /\ Number \subseteq Nat
        BY <3>2, Numbers, ModulusIs DEF Number
      <3>5. QED
        BY <3>2, <3>3, <3>4
    <2>8. QED
      BY <2>5, <2>6, <2>7
  <1>10. QED
    BY <1>8, <1>9 DEF Known

\* When every file can be read, what the map tasks count of a customer are his
\* records: a malformed line has a key that is no number.
LEMMA AboutCounted ==
  ASSUME request \in Requests, disk \in Disks, Known, NEW k, IsNumeric(k),
         \A p \in WantedBy(request) : p \in DOMAIN disk /\ (request.entity = "transaction" => disk[p].utf8)
  PROVE  About(Counted(request, disk), Emitted(request.entity, disk), k) = Records(k)
  <1>1. k \in Keys /\ k # "unknown" /\ k # ""
    BY NumericIs
  <1>2. PICK W : W = Emitted(request.entity, disk)
    OBVIOUS
  <1>3. PICK A : A = RecordLines(request, disk)
    OBVIOUS
  <1>4. PICK C : C = Counted(request, disk)
    OBVIOUS
  <1>5. Records(k) = About(A, W, k)
    BY <1>1, <1>2, <1>3, RecordsAre
  <1>6. CASE request.entity = "customer"
    <2>1. A = C
      BY <1>3, <1>4, <1>6 DEF RecordLines
    <2>2. QED
      BY <1>2, <1>4, <1>5, <2>1
  <1>7. CASE request.entity = "transaction"
    <2>1. PICK V : V = LineAt(disk)
      OBVIOUS
    <2>2. \A x \in C : W[x] = Emission("transaction", V[x])
      BY <1>2, <1>4, <1>7, <2>1, CountedIs
    <2>3. \A x : x \in C <=> /\ \E p \in WantedBy(request) \cap DOMAIN disk : x \in Of(disk, p)
                             /\ V[x].columns > 0
      BY <1>4, <1>7, <2>1 DEF Counted, Emits
    <2>4. \A x : x \in A <=> /\ \E p \in WantedBy(request) \cap DOMAIN disk :
                                  disk[p].utf8 /\ x \in Of(disk, p)
                             /\ V[x].columns = 6
      BY <1>3, <1>7, <2>1 DEF RecordLines, SourceLines, IsTransaction
    <2>5. \A l : Emission("transaction", l).key = k => l.columns = 6
      BY <1>1 DEF Emission, Pair, LineKey, IsTransaction
    <2>6. ASSUME NEW x PROVE x \in About(C, W, k) <=> x \in About(A, W, k)
      <3>1. x \in A => x \in C
        BY <2>3, <2>4
      <3>2. x \in C /\ W[x].key = k => x \in A
        <4>1. SUFFICES ASSUME x \in C, W[x].key = k PROVE x \in A
          OBVIOUS
        <4>2. V[x].columns = 6
          BY <2>2, <2>5, <4>1
        <4>3. PICK p \in WantedBy(request) \cap DOMAIN disk : x \in Of(disk, p)
          BY <2>3, <4>1
        <4>4. disk[p].utf8
          BY <1>7, <4>3
        <4>5. QED
          BY <2>4, <4>2, <4>3, <4>4
      <3>3. QED
        BY <3>1, <3>2 DEF About
    <2>7. About(C, W, k) = About(A, W, k)
      BY <2>6
    <2>8. QED
      BY <1>2, <1>4, <1>5, <2>7
  <1>8. QED
    BY <1>6, <1>7 DEF Known

\* The lines about customers are among those that are counted.
LEMMA RecordLinesCounted ==
  ASSUME NEW q \in Requests, q.entity \in {"transaction", "customer"}, NEW d \in Disks
  PROVE  RecordLines(q, d) \subseteq Counted(q, d) /\ IsFiniteSet(RecordLines(q, d))
  <1>1. CASE q.entity = "customer"
    <2>1. RecordLines(q, d) = Counted(q, d)
      BY <1>1 DEF RecordLines
    <2>2. QED
      BY <2>1, CountedFinite
  <1>2. CASE q.entity = "transaction"
    <2>1. PICK V : V = LineAt(d)
      OBVIOUS
    <2>2. ASSUME NEW x \in RecordLines(q, d) PROVE x \in Counted(q, d)
      <3>1. x \in SourceLines(q, d)
        BY <1>2 DEF RecordLines
      <3>2. PICK p \in WantedBy(q) \cap DOMAIN d : x \in Of(d, p) /\ V[x].columns = 6
        BY <2>1, <3>1 DEF SourceLines, IsTransaction
      <3>3. Emits(q.entity, V[x])
        BY <1>2, <3>2 DEF Emits
      <3>4. QED
        BY <2>1, <3>2, <3>3 DEF Counted
    <2>3. RecordLines(q, d) \subseteq Counted(q, d)
      BY <2>2
    <2>4. QED
      BY <2>3, CountedFinite, FS_Subset
  <1>3. QED
    BY <1>1, <1>2

\* The total of a customer is a number, the sum of what is emitted for his records.
LEMMA TotalIs ==
  ASSUME request \in Requests, disk \in Disks, Known, NEW k \in Keys,
         NEW W, W = Emitted(request.entity, disk)
  PROVE  /\ IsFiniteSet(Records(k)) /\ Total(k) \in Nat
         /\ SumFunctionOnSet([x \in DOMAIN W |-> W[x].value.sum], Records(k)) = Total(k)
  <1>1. PICK A : A = RecordLines(request, disk)
    OBVIOUS
  <1>2. request.entity \in {"transaction", "customer"}
    BY DEF Known
  <1>3. A \subseteq Counted(request, disk) /\ IsFiniteSet(A)
    BY <1>1, <1>2, RecordLinesCounted
  <1>4. A \subseteq DOMAIN W
    BY <1>2, <1>3, CountedIs
  <1>5. PICK R : R = Records(k)
    OBVIOUS
  <1>6. R = About(A, W, k) /\ \A x \in R : Amount(x) = W[x].value.sum /\ Amount(x) \in Nat
    BY <1>1, <1>5, RecordsAre
  <1>7. R \subseteq A
    BY <1>6 DEF About
  <1>8. IsFiniteSet(R)
    BY <1>3, <1>7, FS_Subset
  <1>9. PICK f : f = [x \in R |-> Amount(x)]
    OBVIOUS
  <1>10. PICK g : g = [x \in DOMAIN W |-> W[x].value.sum]
    OBVIOUS
  <1>11. \A x \in R : f[x] \in Nat /\ f[x] \in Int /\ g[x] = f[x]
    BY <1>4, <1>6, <1>7, <1>9, <1>10
  <1>12. Total(k) = SumFunctionOnSet(f, R)
    BY <1>5, <1>9 DEF Total, SumFunction
  <1>13. SumFunctionOnSet(f, R) \in Nat /\ SumFunctionOnSet(f, R) = SumFunctionOnSet(g, R)
    BY <1>8, <1>11, SumSame, SumOfNats
  <1>14. QED
    BY <1>5, <1>8, <1>10, <1>12, <1>13

-----------------------------------------------------------------------------
(* What the customers are evaluated on *)

\* Every output is one of this job, or there is none of the task.
NoOldOutput == ~ (\E r \in Reduces : OldOutputRead(r))

\* The handler goes by the outputs, which say of some keys what all lines say, or,
\* when they say nothing, by the source files.
LEMMA RowsAre ==
  ASSUME Inv, Known, evaluated.done, NoOldOutput
  PROVE  \/ \E Q \in SUBSET Said :
              /\ Q # {} /\ Listed(AllRows, Q, Saying)
              /\ ~ (\A r \in Reduces : reduced[r] = "none")
              /\ (\A r \in Reduces : reduced[r] = "whole") => Q = Said
         \/ /\ AllRows = SourceRows(request, disk)
            /\ (\A r \in Reduces : reduced[r] = "whole") => Said = {}
  <1>1. \A r \in Reduces : reduced[r] # "todo" /\ ~ OldOutputRead(r)
    BY DEF Inv, CallsGood, NoOldOutput
  <1>2. PICK Q \in SUBSET Said :
          /\ Listed(ReducedRows, Q, Saying)
          /\ (\A r \in Reduces : reduced[r] = "whole") => Q = Said
          /\ (\A r \in Reduces : reduced[r] = "none") => Q = {}
    BY <1>1, ReducedLists
  <1>3. PICK rows : rows = ReducedRows
    OBVIOUS
  <1>4. rows \in Seq(Pairs)
    BY <1>3, ReducedLists
  <1>5. rows = <<>> <=> Q = {}
    BY <1>2, <1>3, <1>4, NothingListed
  <1>6. AllRows = IF rows = <<>> THEN SourceRows(request, disk) ELSE rows
    BY <1>3 DEF AllRows
  <1>7. CASE Q = {}
    <2>1. AllRows = SourceRows(request, disk)
      BY <1>5, <1>6, <1>7
    <2>2. QED
      BY <1>2, <1>7, <2>1
  <1>8. CASE Q # {}
    <2>1. AllRows = ReducedRows
      BY <1>3, <1>5, <1>6, <1>8
    <2>2. QED
      BY <1>2, <1>8, <2>1
  <1>9. QED
    BY <1>7, <1>8

\* When an output was written every file that the job asks for can be read.
LEMMA FilesRead ==
  ASSUME Inv, Known, NEW r \in Reduces, reduced[r] \in {"part", "whole"}
  PROVE  \A p \in WantedBy(request) :
           p \in DOMAIN disk /\ (request.entity = "transaction" => disk[p].utf8)
  <1>1. /\ request \in Requests /\ disk \in Disks /\ hash \in Hashes
        /\ Complete(Ideal(request, disk, hash))
    BY DEF Inv, ReducesGood
  <1>2. request.entity \in {"transaction", "customer"}
    BY DEF Known
  <1>3. QED
    BY <1>1, <1>2, IntermediateLists

\* A key is told about when there is a line about it.
LEMMA SaidIs ==
  ASSUME NEW A, NEW W, NEW k
  PROVE  k \in KeysSaid(A, W) <=> About(A, W, k) # {}
  BY DEF KeysSaid, About

\* Whoever is evaluated is evaluated on all of his records, and nobody is left out
\* when all outputs were written or no output of transactions was.
LEMMA PerRows ==
  ASSUME Inv, Known, evaluated.done, NoOldOutput, NEW per, per = PerCustomer(AllRows)
  PROVE  /\ \A k \in DOMAIN per : IsNumeric(k) =>
              /\ Records(k) # {}
              /\ per[k].sum = Unsigned(Total(k))
              /\ per[k].count = Unsigned(Cardinality(Records(k)))
         /\ (\/ \A r \in Reduces : reduced[r] = "whole"
             \/ request.entity = "transaction" /\ \A r \in Reduces : reduced[r] = "none") =>
              \A k : IsNumeric(k) /\ Records(k) # {} => k \in DOMAIN per
  <1>1. request \in Requests /\ disk \in Disks /\ request.entity \in {"transaction", "customer"}
    BY DEF Inv, Known
  <1>2. PICK C : C = Counted(request, disk)
    OBVIOUS
  <1>3. PICK W : W = Emitted(request.entity, disk)
    OBVIOUS
  <1>4. PICK rows : rows = AllRows
    OBVIOUS
  <1>5. rows \in Seq(Pairs) /\ per = PerCustomer(rows)
    BY <1>4, AllRowsType
  <1>6. /\ C \subseteq DOMAIN W /\ IsFiniteSet(C)
        /\ \A x \in C : W[x] \in Pairs /\ W[x].value.count = 1
    BY <1>1, <1>2, <1>3, CountedIs, CountedFinite
  <1>7. Said = KeysSaid(C, W) /\ Saying = Told(C, W)
    BY <1>2, <1>3 DEF Said, Saying
  <1>8. ASSUME NEW r \in Reduces, reduced[r] \in {"part", "whole"}, NEW k, IsNumeric(k)
        PROVE  About(C, W, k) = Records(k)
    <2>1. \A p \in WantedBy(request) :
            p \in DOMAIN disk /\ (request.entity = "transaction" => disk[p].utf8)
      BY <1>8, FilesRead
    <2>2. About(Counted(request, disk), Emitted(request.entity, disk), k) = Records(k)
      BY <1>1, <1>8, <2>1, AboutCounted
    <2>3. QED
      BY <1>2, <1>3, <2>2
  <1>9. ASSUME NEW A, NEW k, IsNumeric(k), About(A, W, k) = Records(k)
        PROVE  SumSaid(A, W, k) = Total(k)
    <2>1. k \in Keys
      BY <1>9, NumericIs
    <2>2. SumFunctionOnSet([x \in DOMAIN W |-> W[x].value.sum], Records(k)) = Total(k)
      BY <1>1, <1>3, <2>1, TotalIs
    <2>3. QED
      BY <1>9, <2>2 DEF SumSaid
  <1>10. ASSUME NEW Q \in SUBSET Said, Listed(rows, Q, Saying),
                NEW r \in Reduces, reduced[r] \in {"part", "whole"},
                (\A u \in Reduces : reduced[u] = "whole") => Q = Said
         PROVE  /\ \A k \in DOMAIN per : IsNumeric(k) =>
                     /\ Records(k) # {}
                     /\ per[k].sum = Unsigned(Total(k))
                     /\ per[k].count = Unsigned(Cardinality(Records(k)))
                /\ (\A u \in Reduces : reduced[u] = "whole") =>
                     \A k : IsNumeric(k) /\ Records(k) # {} => k \in DOMAIN per
    <2>1. Q \in SUBSET KeysSaid(C, W) /\ Listed(rows, Q, Told(C, W))
      BY <1>7, <1>10
    <2>2. /\ DOMAIN per = Q
          /\ \A k \in Q : /\ per[k].sum = Unsigned(SumSaid(C, W, k))
                          /\ per[k].count = Unsigned(Cardinality(About(C, W, k)))
      <3>1. \A x \in C : W[x] \in Pairs
        BY <1>6
      <3>2. /\ DOMAIN PerCustomer(rows) = Q
            /\ \A k \in Q : /\ PerCustomer(rows)[k].sum = Unsigned(SumSaid(C, W, k))
                            /\ PerCustomer(rows)[k].count = Unsigned(Cardinality(About(C, W, k)))
        <4>1. C \subseteq DOMAIN W /\ IsFiniteSet(C) /\ rows \in Seq(Pairs) /\ Q \subseteq KeysSaid(C, W)
          BY <1>5, <1>6, <2>1
        <4>2. QED
          BY <2>1, <3>1, <4>1, PerTold
      <3>3. QED
        BY <1>5, <3>2
    <2>3. ASSUME NEW k \in DOMAIN per, IsNumeric(k)
          PROVE  /\ Records(k) # {}
                 /\ per[k].sum = Unsigned(Total(k))
                 /\ per[k].count = Unsigned(Cardinality(Records(k)))
      <3>1. About(C, W, k) = Records(k)
        BY <1>8, <1>10, <2>3
      <3>2. SumSaid(C, W, k) = Total(k)
        BY <1>9, <2>3, <3>1
      <3>3. k \in Q /\ k \in KeysSaid(C, W)
        BY <2>1, <2>2
      <3>4. About(C, W, k) # {}
        BY <3>3, SaidIs
      <3>5. QED
        BY <2>2, <3>1, <3>2, <3>3, <3>4
    <2>4. ASSUME \A u \in Reduces : reduced[u] = "whole", NEW k, IsNumeric(k), Records(k) # {}
          PROVE  k \in DOMAIN per
      <3>1. About(C, W, k) # {}
        BY <1>8, <1>10, <2>4
      <3>2. k \in KeysSaid(C, W)
        BY <3>1, SaidIs
      <3>3. QED
        BY <1>7, <1>10, <2>2, <2>4, <3>2
    <2>5. QED
      BY <2>3, <2>4
  <1>11. ASSUME request.entity = "transaction", rows = SourceRows(request, disk)
         PROVE  /\ \A k \in DOMAIN per : IsNumeric(k) =>
                     /\ Records(k) # {}
                     /\ per[k].sum = Unsigned(Total(k))
                     /\ per[k].count = Unsigned(Cardinality(Records(k)))
                /\ \A k : IsNumeric(k) /\ Records(k) # {} => k \in DOMAIN per
    <2>1. PICK A : A = RecordLines(request, disk)
      OBVIOUS
    <2>2. A = SourceLines(request, disk)
      BY <1>11, <2>1 DEF RecordLines
    <2>3. Listed(rows, A, W)
      BY <1>1, <1>3, <1>11, <2>2, SourceLists
    <2>4. A \subseteq DOMAIN W /\ \A x \in A : W[x].value.count = 1
      <3>1. A \subseteq C
        BY <1>1, <1>2, <2>1, RecordLinesCounted
      <3>2. QED
        BY <1>6, <3>1
    <2>5. /\ DOMAIN per = KeysSaid(A, W)
          /\ \A k \in KeysSaid(A, W) : /\ per[k].sum = Unsigned(SumSaid(A, W, k))
                                       /\ per[k].count = Unsigned(Cardinality(About(A, W, k)))
      BY <1>5, <2>3, <2>4, PerSource
    <2>6. ASSUME NEW k, IsNumeric(k) PROVE About(A, W, k) = Records(k) /\ SumSaid(A, W, k) = Total(k)
      <3>1. k \in Keys
        BY <2>6, NumericIs
      <3>2. About(A, W, k) = Records(k)
        BY <1>1, <1>3, <2>1, <3>1, RecordsAre
      <3>3. QED
        BY <1>9, <2>6, <3>2
    <2>7. QED
      BY <2>5, <2>6, SaidIs
  <1>12. ASSUME request.entity = "customer", rows = SourceRows(request, disk),
                (\A u \in Reduces : reduced[u] = "whole") => Said = {}
         PROVE  /\ DOMAIN per = {}
                /\ (\A u \in Reduces : reduced[u] = "whole") =>
                     \A k : IsNumeric(k) => Records(k) = {}
    <2>1. PICK V : V = Emitted("transaction", disk)
      OBVIOUS
    <2>2. Listed(rows, SourceLines(request, disk), V)
      BY <1>1, <1>12, <2>1, SourceLists
    <2>3. SourceLines(request, disk) = {}
      BY <1>1, <1>12, NoCustomerSource
    <2>4. rows = <<>>
      BY <1>5, <2>2, <2>3, NothingListed
    <2>5. DOMAIN per = {}
      <3>1. DOMAIN per = {rows[i].key : i \in DOMAIN rows}
        BY <1>5, PerCustomerIs
      <3>2. QED
        BY <2>4, <3>1
    <2>6. ASSUME \A u \in Reduces : reduced[u] = "whole", NEW k, IsNumeric(k)
          PROVE  Records(k) = {}
      <3>1. PICK r \in Reduces : TRUE
        <4>1. NReduce \in Nat \ {0}
          BY AggregationAssumption, Zenon
        <4>2. 0 \in Reduces
          BY <4>1 DEF Reduces
        <4>3. QED
          BY <4>2
      <3>2. About(C, W, k) = Records(k)
        BY <1>8, <2>6
      <3>3. k \notin KeysSaid(C, W)
        BY <1>7, <1>12, <2>6
      <3>4. QED
        BY <3>2, <3>3, SaidIs
    <2>7. QED
      BY <2>5, <2>6
  <1>13. CASE \E Q \in SUBSET Said :
                /\ Q # {} /\ Listed(AllRows, Q, Saying)
                /\ ~ (\A r \in Reduces : reduced[r] = "none")
                /\ (\A r \in Reduces : reduced[r] = "whole") => Q = Said
    <2>1. PICK Q \in SUBSET Said :
            /\ Listed(rows, Q, Saying)
            /\ ~ (\A r \in Reduces : reduced[r] = "none")
            /\ (\A r \in Reduces : reduced[r] = "whole") => Q = Said
      BY <1>4, <1>13
    <2>2. PICK r \in Reduces : reduced[r] # "none"
      BY <2>1
    <2>3. reduced[r] \in {"part", "whole"}
      BY <2>2 DEF Inv, ReducesGood, CallsGood
    <2>4. QED
      BY <1>10, <2>1, <2>3
  <1>14. CASE /\ AllRows = SourceRows(request, disk)
              /\ (\A r \in Reduces : reduced[r] = "whole") => Said = {}
    <2>1. rows = SourceRows(request, disk)
      BY <1>4, <1>14
    <2>2. CASE request.entity = "transaction"
      BY <1>11, <2>1, <2>2
    <2>3. CASE request.entity = "customer"
      BY <1>12, <1>14, <2>1, <2>3
    <2>4. QED
      BY <1>1, <2>2, <2>3
  <1>15. QED
    BY <1>13, <1>14, RowsAre

\* Numbers that do not exceed an i64 reach the evaluator as they are, others as what
\* is left of them in 64 bits.
LEMMA ExactOrWrapped ==
  ASSUME NEW t \in Nat, NEW n \in Nat \ {0}
  PROVE  /\ Unsigned(Signed(Unsigned(t))) = Unsigned(t)
         /\ t < Modulus \div 2 => Signed(Unsigned(t)) = t
         /\ t < Modulus \div 2 /\ n < Modulus \div 2 =>
              /\ Unsigned(n) > 0
              /\ Signed(Unsigned(t) \div Unsigned(n)) = t \div n
  <1>1. PICK H \in Nat : H = Modulus \div 2 /\ Modulus = 2 * H
    BY ModulusIs
  <1>2. ASSUME NEW m \in Nat, m < H PROVE m \in Number /\ Unsigned(m) = m /\ Signed(m) = m
    <2>1. m \in Number
      BY <1>1, <1>2 DEF Number
    <2>2. QED
      BY <1>1, <1>2, <2>1, Numbers, SignedIs
  <1>3. Unsigned(t) \in Number
    BY Numbers
  <1>4. Unsigned(Signed(Unsigned(t))) = Unsigned(t)
    BY <1>3, SignedIs
  <1>5. ASSUME t < H PROVE Signed(Unsigned(t)) = t
    BY <1>2, <1>5
  <1>6. ASSUME t < H, n < H PROVE Unsigned(n) > 0 /\ Signed(Unsigned(t) \div Unsigned(n)) = t \div n
    <2>1. Unsigned(t) = t /\ Unsigned(n) = n
      BY <1>2, <1>6
    <2>2. t \div n \in Nat /\ t \div n <= t
      OBVIOUS
    <2>3. PICK a \in Nat : a = t \div n /\ a < H
      BY <1>6, <2>2
    <2>4. Signed(a) = a
      BY <1>2, <2>3
    <2>5. QED
      BY <2>1, <2>3, <2>4
  <1>7. QED
    BY <1>1, <1>4, <1>5, <1>6

\* What a customer is evaluated on.
LEMMA InvWholeOrAbsent == Inv => WholeOrAbsent
  <1>1. SUFFICES ASSUME Inv, evaluated.done, Known, NoOldOutput, NEW k \in DOMAIN evaluated.calls,
                        NEW call, call = evaluated.calls[k].transaction.transaction_today,
                        NEW n, n = Cardinality(Records(k)), NEW t, t = Total(k)
                 PROVE  /\ Unsigned(call.count) = Unsigned(n) /\ Unsigned(call.sum) = Unsigned(t)
                        /\ n < Modulus \div 2 => call.count = n
                        /\ n < Modulus \div 2 /\ t < Modulus \div 2 =>
                             call.sum = t /\ call.avg = t \div n
    BY DEF WholeOrAbsent, NoOldOutput
  <1>2. PICK rows : rows = AllRows
    OBVIOUS
  <1>3. PICK per : per = PerCustomer(rows)
    OBVIOUS
  <1>4. evaluated.calls = Calls(rows)
    BY <1>1, <1>2 DEF Inv, CallsGood
  <1>5. k \in DOMAIN Calls(rows)
    BY <1>1, <1>4
  <1>6. k \in DOMAIN per /\ IsNumeric(k)
    BY <1>3, <1>5, CallsAre
  <1>7. Records(k) # {} /\ per[k].sum = Unsigned(t) /\ per[k].count = Unsigned(n)
    BY <1>1, <1>2, <1>3, <1>6, PerRows
  <1>8. /\ call.sum = Signed(per[k].sum) /\ call.count = Signed(per[k].count)
        /\ call.avg = IF per[k].count > 0 THEN Signed(per[k].sum \div per[k].count) ELSE 0
    <2>1. PICK c : c = Calls(rows)[k]
      OBVIOUS
    <2>2. /\ c.transaction.transaction_today.sum = Signed(per[k].sum)
          /\ c.transaction.transaction_today.count = Signed(per[k].count)
          /\ c.transaction.transaction_today.avg =
               IF per[k].count > 0 THEN Signed(per[k].sum \div per[k].count) ELSE 0
      BY <1>3, <1>5, <2>1, CallsAre
    <2>3. call = c.transaction.transaction_today
      BY <1>1, <1>4, <2>1
    <2>4. QED
      BY <2>2, <2>3
  <1>9. t \in Nat /\ n \in Nat \ {0}
    <2>1. k \in Keys
      BY <1>6, NumericIs
    <2>2. request \in Requests /\ disk \in Disks
      BY <1>1 DEF Inv
    <2>3. IsFiniteSet(Records(k)) /\ t \in Nat
      BY <1>1, <2>1, <2>2, TotalIs
    <2>4. n \in Nat /\ n # 0
      BY <1>1, <1>7, <2>3, FS_CardinalityType, FS_EmptySet
    <2>5. QED
      BY <2>3, <2>4
  <1>10. /\ Unsigned(call.sum) = Unsigned(t) /\ Unsigned(call.count) = Unsigned(n)
         /\ n < Modulus \div 2 => call.count = n
    BY <1>7, <1>8, <1>9, ExactOrWrapped
  <1>11. n < Modulus \div 2 /\ t < Modulus \div 2 => call.sum = t /\ call.avg = t \div n
    BY <1>7, <1>8, <1>9, ExactOrWrapped
  <1>12. QED
    BY <1>10, <1>11

\* Who is evaluated.
LEMMA InvNobodyLeftOut == Inv => NobodyLeftOut
  <1>1. SUFFICES ASSUME Inv, evaluated.done, Known, NoOldOutput,
                        ~ (\E r \in Reduces : reduced[r] = "part"),
                        ~ ((\E r \in Reduces : reduced[r] = "none") /\ (\E r \in Reduces : reduced[r] = "whole")),
                        ~ (request.entity = "customer" /\ \A r \in Reduces : reduced[r] = "none")
                 PROVE  {k \in Keys : IsNumeric(k) /\ Records(k) # {}} = DOMAIN evaluated.calls
    BY DEF NobodyLeftOut, NoOldOutput
  <1>2. PICK rows : rows = AllRows
    OBVIOUS
  <1>3. PICK per : per = PerCustomer(rows)
    OBVIOUS
  <1>4. evaluated.calls = Calls(rows)
    BY <1>1, <1>2 DEF Inv, CallsGood
  <1>5. DOMAIN evaluated.calls = {k \in DOMAIN per : IsNumeric(k)}
    BY <1>3, <1>4, CallsAre
  <1>6. \A r \in Reduces : reduced[r] \in {"none", "part", "whole"}
    BY <1>1 DEF Inv, ReducesGood, CallsGood
  <1>7. \/ \A r \in Reduces : reduced[r] = "whole"
        \/ request.entity = "transaction" /\ \A r \in Reduces : reduced[r] = "none"
    BY <1>1, <1>6 DEF Known
  <1>8. \A k : IsNumeric(k) /\ Records(k) # {} => k \in DOMAIN per
    BY <1>1, <1>2, <1>3, <1>7, PerRows
  <1>9. \A k \in DOMAIN per : IsNumeric(k) => Records(k) # {}
    BY <1>1, <1>2, <1>3, PerRows
  <1>10. \A k : IsNumeric(k) => k \in Keys
    BY NumericIs
  <1>11. QED
    BY <1>5, <1>8, <1>9, <1>10

\* Where a customer without records comes from.
LEMMA InvStrangers == Inv => StrangersComeFromGaps
  <1>1. SUFFICES ASSUME Inv, evaluated.done, Known, NEW k \in DOMAIN evaluated.calls, Records(k) = {}
                 PROVE  \E r \in Reduces : OldOutputRead(r) /\ k \in KeysOf(ReadOutput(r))
    BY DEF StrangersComeFromGaps
  <1>2. PICK rows : rows = AllRows
    OBVIOUS
  <1>3. PICK per : per = PerCustomer(rows)
    OBVIOUS
  <1>4. evaluated.calls = Calls(rows)
    BY <1>1, <1>2 DEF Inv, CallsGood
  <1>5. k \in DOMAIN Calls(rows)
    BY <1>1, <1>4
  <1>6. k \in DOMAIN per /\ IsNumeric(k)
    BY <1>3, <1>5, CallsAre
  <1>7. rows \in Seq(Pairs)
    BY <1>1, <1>2, AllRowsType
  <1>8. PICK i \in DOMAIN rows : rows[i].key = k
    <2>1. DOMAIN per = {rows[i].key : i \in DOMAIN rows}
      BY <1>3, <1>7, PerCustomerIs
    <2>2. QED
      BY <1>6, <2>1
  <1>9. request \in Requests /\ disk \in Disks /\ request.entity \in {"transaction", "customer"}
    BY <1>1 DEF Inv, Known
  <1>10. k \in Keys
    BY <1>6, NumericIs
  <1>11. CASE ReducedRows = <<>>
    <2>1. rows = SourceRows(request, disk)
      BY <1>2, <1>11 DEF AllRows
    <2>2. PICK V : V = Emitted("transaction", disk)
      OBVIOUS
    <2>3. Listed(rows, SourceLines(request, disk), V)
      BY <1>9, <2>1, <2>2, SourceLists
    <2>4. PICK x \in SourceLines(request, disk) : rows[i] = V[x]
      BY <1>8, <2>3 DEF Listed, Lists
    <2>5. request.entity = "transaction"
      BY <1>9, <2>4, NoCustomerSource
    <2>6. Records(k) = About(SourceLines(request, disk), V, k)
      <3>1. RecordLines(request, disk) = SourceLines(request, disk)
        BY <2>5 DEF RecordLines
      <3>2. V = Emitted(request.entity, disk)
        BY <2>2, <2>5
      <3>3. QED
        BY <1>1, <1>9, <1>10, <3>1, <3>2, RecordsAre
    <2>7. x \in Records(k)
      BY <1>8, <2>4, <2>6 DEF About
    <2>8. QED
      BY <1>1, <2>7
  <1>12. CASE ReducedRows # <<>>
    <2>1. rows = ReducedRows
      BY <1>2, <1>12 DEF AllRows
    <2>2. PICK U : U = {p \in Pairs : \E r \in Reduces : p.key \in KeysOf(ReadOutput(r))}
      OBVIOUS
    <2>3. ReducedRows \in Seq(U)
      <3>1. PICK n \in Nat \ {0} : n = NReduce
        BY AggregationAssumption, Zenon
      <3>2. PICK seqs : seqs = [r \in 1 .. n |-> Rows(ReadOutput(r - 1))]
        OBVIOUS
      <3>3. ReducedRows = FlattenSeq(seqs)
        BY <3>1, <3>2 DEF ReducedRows
      <3>4. ASSUME NEW r \in 1 .. n PROVE seqs[r] \in Seq(U)
        <4>1. PICK j \in Reduces : j = r - 1
          BY <3>1 DEF Reduces
        <4>2. PICK s : s = Rows(ReadOutput(j))
          OBVIOUS
        <4>3. s \in Seq(Pairs)
          BY <1>1, <4>2, RowsOfOutput
        <4>4. \A m \in DOMAIN s : s[m] \in Pairs /\ s[m].key \in KeysOf(ReadOutput(j))
          BY <4>2, <4>3 DEF KeysOf
        <4>5. \A m \in DOMAIN s : s[m] \in U
          BY <2>2, <4>4
        <4>6. s \in Seq(U)
          BY <4>3, <4>5
        <4>7. QED
          BY <3>2, <4>1, <4>2, <4>6
      <3>5. seqs \in Seq(Seq(U))
        BY <3>2, <3>4
      <3>6. QED
        BY <3>3, <3>5, FlattenType
    <2>4. rows[i] \in U
      BY <1>8, <2>1, <2>3
    <2>5. PICK r \in Reduces : k \in KeysOf(ReadOutput(r))
      BY <1>8, <2>2, <2>4
    <2>6. ASSUME ~ OldOutputRead(r) PROVE FALSE
      <3>1. reduced[r] # "todo" /\ reduced[r] \in {"none", "part", "whole"}
        BY <1>1 DEF Inv, ReducesGood, CallsGood
      <3>2. PICK Q \in SUBSET {l \in Said : hash[l] = r} :
              Listed(Rows(ReadOutput(r)), Q, Saying) /\ (reduced[r] = "none" => Q = {})
        BY <1>1, <2>6, <3>1, RowsOfOutput
      <3>3. PICK C : C = Counted(request, disk)
        OBVIOUS
      <3>4. PICK W : W = Emitted(request.entity, disk)
        OBVIOUS
      <3>5. Said = KeysSaid(C, W) /\ Saying = Told(C, W)
        BY <3>3, <3>4 DEF Said, Saying
      <3>6. PICK s : s = Rows(ReadOutput(r))
        OBVIOUS
      <3>7. PICK m \in DOMAIN s : s[m].key = k
        BY <2>5, <3>6 DEF KeysOf
      <3>8. PICK l \in Q : s[m] = Told(C, W)[l]
        BY <3>2, <3>5, <3>6 DEF Listed, Lists
      <3>9. l \in KeysSaid(C, W)
        BY <3>5
      <3>10. Told(C, W)[l].key = l
        BY <3>9 DEF Told, Pair
      <3>11. k \in KeysSaid(C, W) /\ Q # {}
        BY <3>7, <3>8, <3>9, <3>10
      <3>12. reduced[r] \in {"part", "whole"}
        BY <3>1, <3>2, <3>11
      <3>13. \A p \in WantedBy(request) :
               p \in DOMAIN disk /\ (request.entity = "transaction" => disk[p].utf8)
        BY <1>1, <3>12, FilesRead
      <3>14. About(C, W, k) = Records(k)
        BY <1>1, <1>6, <1>9, <3>3, <3>4, <3>13, AboutCounted
      <3>15. QED
        BY <1>1, <3>11, <3>14, SaidIs
    <2>7. QED
      BY <2>5, <2>6
  <1>13. QED
    BY <1>11, <1>12

-----------------------------------------------------------------------------
(* What the runs check, for every value of the constants *)

\* Whatever is lost, cut off or falls back to the source files, a customer is
\* evaluated on all of his lines, each once, or not at all.
THEOREM WholeOrAbsentCorrect == Spec => []WholeOrAbsent
  BY InvCorrect, InvWholeOrAbsent, PTL

\* No partition of the keys leaves a customer out when every output was written, nor
\* does the fallback for transactions when none was.
THEOREM NobodyLeftOutCorrect == Spec => []NobodyLeftOut
  BY InvCorrect, InvNobodyLeftOut, PTL

\* A customer whom no file of the job knows comes from an old output, at a place that
\* this job did not write.
THEOREM StrangersCorrect == Spec => []StrangersComeFromGaps
  BY InvCorrect, InvStrangers, PTL
=============================================================================
