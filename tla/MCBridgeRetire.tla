--------------------------- MODULE MCBridgeRetire ---------------------------
(* Symmetry for BridgeRetire: neither records nor executions differ; and a *)
(* view without what no step and no property reads any more: the locals of *)
(* an execution that has ended, and what a sync passed over that was not   *)
(* the only one.                                                           *)
EXTENDS BridgeRetire, TLC

Symmetry == Permutations(Records) \cup Permutations(Syncs)

Passed(e) == IF kind[e] = "full" /\ alone[e] THEN {skipped[e]} ELSE {}
Locals(e) ==
  IF Active(e) THEN <<kind[e], start[e], todo[e], held[e], gone[e], changed[e], read[e], Passed(e)>>
  ELSE <<IF pc[e] = "success" THEN Passed(e) ELSE {}>>

View == <<served, state, shown, clock, pc, broken, split, dropped, excused, [e \in Syncs |-> Locals(e)]>>
=============================================================================
