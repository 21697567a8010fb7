-------------------------- MODULE MCResponseCache --------------------------
(* Instances of ResponseCache: the TTL of a search page and of a detail page. *)
EXTENDS ResponseCache, TLC

CONSTANTS search, detail, t1, t2

ShortAndLong == (search :> 2) @@ (detail :> 3)
Short == (search :> 2)
Long == (detail :> 3)

Symmetry == Permutations(Tasks)
=============================================================================
