-------------------------- MODULE MCHarvestRefresh --------------------------
(* Instances of HarvestRefresh: two thumbnails, and two titles for one of them. *)
EXTENDS HarvestRefresh, TLC

CONSTANTS r1, r2, e1, e2, map, photo, mapRetitled

Thumbnails == (map :> 1) @@ (photo :> 2)
TitlesToo == (map :> 1) @@ (mapRetitled :> 1)

\* Only whether thumbnails are the same matters, so that two different ones may change places.
Symmetry == Permutations(Resources) \cup Permutations(Executions) \cup Permutations(Values)
=============================================================================
