---------------------------- MODULE MCMapReduce ----------------------------
(* Model-checking instances of MapReduce: the shapes of the jobs. *)
EXTENDS MapReduce

Shape(maps, reduces) == [k \in {"map", "reduce"} |-> IF k = "map" THEN maps ELSE reduces]

\* Two inputs, so that one reducer depends on two map workers.
TwoMaps == {Shape(2, 1)}

\* One input and the two outputs the ingestion service asks for.
TwoReduces == {Shape(1, 2)}

\* Both.
Mixed == TwoMaps \cup TwoReduces

Small == {Shape(1, 1)}
=============================================================================
