----------------------------- MODULE BridgeRun -----------------------------
(***************************************************************************)
(* What the row of a batched bridge sync promises: every batch reports     *)
(* once, and the last report closes the run with the verdict on all of     *)
(* them.  BridgeBatches implements it as long as no message comes twice.   *)
(***************************************************************************)
CONSTANT Batches

VARIABLES outcome,  \* the row's status
          left,     \* batches that have not reported
          clean     \* no report had errors

vars == <<outcome, left, clean>>

Init ==
  /\ outcome = "none"
  /\ left = Batches
  /\ clean = TRUE

Open ==
  /\ outcome = "none"
  /\ outcome' = "running"
  /\ UNCHANGED <<left, clean>>

\* The resources are listed before any batch reports.
Size(S) ==
  /\ left = Batches
  /\ left' = S
  /\ UNCHANGED <<outcome, clean>>

Verdict(c) == IF c THEN "success" ELSE "failed"

Report(b, ok) ==
  /\ outcome = "running"
  /\ b \in left
  /\ left' = left \ {b}
  /\ clean' = (clean /\ ok)
  /\ outcome' = IF left' = {} THEN Verdict(clean') ELSE "running"

CloseEmpty ==
  /\ left = {}
  /\ clean
  /\ outcome' = "success"
  /\ UNCHANGED <<left, clean>>

Cancel ==
  /\ outcome = "running"
  /\ outcome' = "cancelled"
  /\ UNCHANGED <<left, clean>>

\* The batches could not all be queued.
GiveUp ==
  /\ outcome # "none"
  /\ outcome' = "failed"
  /\ UNCHANGED <<left, clean>>

Next ==
  \/ Open \/ CloseEmpty \/ Cancel \/ GiveUp
  \/ \E S \in SUBSET Batches : Size(S)
  \/ \E b \in Batches, ok \in BOOLEAN : Report(b, ok)

Spec == Init /\ [][Next]_vars
=============================================================================
