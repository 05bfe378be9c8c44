--------------------------- MODULE MCCoordinator ---------------------------
(* Model-checking instance of Coordinator: the shapes of the jobs. *)
EXTENDS Coordinator

Shape(maps, reduces) == [k \in Kind |-> IF k = "map" THEN maps ELSE reduces]

\* One task of each kind, and two inputs for one reducer.
MCShapes == {Shape(1, 1), Shape(2, 1)}
=============================================================================
