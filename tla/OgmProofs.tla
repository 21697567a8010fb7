---------------------------- MODULE OgmProofs -------------------------------
(***************************************************************************)
(* Proofs about OgmHarvest, for any runs, records and pushes, about        *)
(* OgmCatalog, for any scanners and bounds, and about HarvestRefresh, for  *)
(* any records, contents, signatures and executions.                       *)
(***************************************************************************)
EXTENDS OgmHarvest, OgmCatalog, HarvestRefresh, TLAPS

(* OgmHarvest.                                                             *)

-----------------------------------------------------------------------------
(* Type correctness.                                                       *)

LEMMA TypeInit == Init => TypeOK
<1> SUFFICES ASSUME Init PROVE TypeOK
  OBVIOUS
<1>1. upstream \in [sha : Commits, files : SUBSET Records] /\ begun \in 0 .. MaxRuns
  BY RunsAssumption, PushesAssumption DEF Init, Commits
<1>2. git \in [sha : Commits \cup {NoSha}, files : SUBSET Records]
  BY <1>1 DEF Init, NoGit
<1>3. checkout \in SUBSET Records
  BY <1>2 DEF Init
<1> QED
  BY <1>1, <1>2, <1>3 DEF Init, TypeOK, Stages, RowStatus

\* Whatever git did, r goes on from the commit HEAD names with a work tree of some files.
LEMMA SyncedSomehow ==
  ASSUME TypeOK, NEW r \in Runs, EnsureRepo(r) \/ Reclone(r)
  PROVE  /\ pc[r] \in {"sync", "clone"} /\ alive[r]
         /\ Synced(r, upstream.sha)
         /\ checkout' \in SUBSET Records
         /\ git' = upstream
         /\ torn' \in BOOLEAN
<1>1. CASE Clone(r)
  BY <1>1 DEF Clone, EnsureRepo, Reclone, At, TypeOK
<1>2. ASSUME NEW R \in SUBSET Records, Pull(r, R), EnsureRepo(r)
      PROVE  /\ pc[r] \in {"sync", "clone"} /\ alive[r]
             /\ Synced(r, upstream.sha)
             /\ checkout' \in SUBSET Records
             /\ git' = upstream
             /\ torn' \in BOOLEAN
  BY <1>2 DEF Pull, EnsureRepo, At, TypeOK
<1> QED
  BY <1>1, <1>2 DEF EnsureRepo, Reclone

LEMMA SyncedType ==
  ASSUME TypeOK, NEW r \in Runs, EnsureRepo(r) \/ Reclone(r)
  PROVE  TypeOK'
<1>1. /\ Synced(r, upstream.sha)
      /\ checkout' \in SUBSET Records
      /\ git' = upstream
      /\ torn' \in BOOLEAN
  BY SyncedSomehow
<1>2. head' \in [Runs -> Commits \cup {NoSha}]
  BY <1>1 DEF Synced, TypeOK
<1> QED
  BY <1>1, <1>2 DEF Synced, TypeOK, Goto, Stages, envVars, rowVars, recVars

\* What a crash leaves of the directory, and of the execution.
LEMMA CrashType ==
  ASSUME TypeOK, NEW r \in Runs, Crash(r)
  PROVE  /\ checkout' \in SUBSET Records
         /\ git' \in [sha : Commits \cup {NoSha}, files : SUBSET Records]
         /\ torn' \in BOOLEAN
         /\ pc' \in {pc, [pc EXCEPT ![r] = "failed"]}
         /\ ~PastCancel(r) => pc' = pc
<1>1. checkout' \in SUBSET Records
  BY DEF Crash, TypeOK, dirVars
<1>2. git' \in [sha : Commits \cup {NoSha}, files : SUBSET Records]
  BY DEF Crash, TypeOK, dirVars, NoGit
<1>3. torn' \in BOOLEAN
  BY DEF Crash, TypeOK, dirVars, CutShort
<1> QED
  BY <1>1, <1>2, <1>3 DEF Crash, Goto

LEMMA TypeStep == TypeOK /\ [Next]_vars => TypeOK'
<1> SUFFICES ASSUME TypeOK, [Next]_vars PROVE TypeOK'
  OBVIOUS
<1> USE DEF TypeOK, envVars, dirVars, runVars, rowVars, recVars, At, Goto, Drop
<1>1. ASSUME NEW F \in SUBSET Records, Push(F) PROVE TypeOK'
  BY <1>1, PushesAssumption DEF Push, Commits
<1>2. CASE Trigger
  BY <1>2 DEF Trigger
<1>3. CASE Nightly
  BY <1>3 DEF Nightly
<1>4. ASSUME NEW r \in Runs, Redeliver(r) PROVE TypeOK'
  BY <1>4 DEF Redeliver
<1>5. ASSUME NEW r \in Runs, Start(r) PROVE TypeOK'
  <2>1. begun' \in 0 .. MaxRuns /\ queued' \in Nat
    BY <1>5, RunsAssumption DEF Start, Runs
  <2>2. contended' \in [Runs -> BOOLEAN] /\ alive' \in [Runs -> BOOLEAN]
    BY <1>5, Zenon DEF Start
  <2> QED
    BY <1>5, <2>1, <2>2 DEF Start, Stages, RowStatus
<1>6. ASSUME NEW r \in Runs, CreateRun(r) PROVE TypeOK'
  BY <1>6 DEF CreateRun, Stages, RowStatus
<1>7. ASSUME NEW r \in Runs, Stamp(r) PROVE TypeOK'
  BY <1>7 DEF Stamp, Stages, RowStatus
<1>8. ASSUME NEW r \in Runs, CancelOtherRunningRuns(r) PROVE TypeOK'
  BY <1>8 DEF CancelOtherRunningRuns, Stages, RowStatus
<1>9. ASSUME NEW r \in Runs, EnsureRepo(r) PROVE TypeOK'
  BY <1>9, SyncedType
<1>10. ASSUME NEW r \in Runs, Reclone(r) PROVE TypeOK'
  BY <1>10, SyncedType
<1>11. ASSUME NEW r \in Runs, RemoveCheckout(r) PROVE TypeOK'
  BY <1>11 DEF RemoveCheckout, NoGit, Stages, RowStatus
<1>12. ASSUME NEW r \in Runs, MarkMissingStale(r) PROVE TypeOK'
  BY <1>12 DEF MarkMissingStale, Stages, RowStatus
<1>13. ASSUME NEW r \in Runs, FinalizeHarvestRun(r) PROVE TypeOK'
  BY <1>13 DEF FinalizeHarvestRun, Stages, RowStatus
<1>14. ASSUME NEW r \in Runs, MarkRepoHarvestCompleted(r) PROVE TypeOK'
  BY <1>14 DEF MarkRepoHarvestCompleted, Stages, RowStatus
<1>15. ASSUME NEW r \in Runs, Raise(r) PROVE TypeOK'
  BY <1>15 DEF Raise, Stages, RowStatus
<1>16. ASSUME NEW r \in Runs, FailHarvestRun(r) PROVE TypeOK'
  BY <1>16 DEF FailHarvestRun, Stages, RowStatus
<1>17. ASSUME NEW r \in Runs, FailRepoHarvest(r) PROVE TypeOK'
  BY <1>17 DEF FailRepoHarvest, Stages, RowStatus
<1>18. ASSUME NEW r \in Runs, Crash(r) PROVE TypeOK'
  <2>1. /\ checkout' \in SUBSET Records
        /\ git' \in [sha : Commits \cup {NoSha}, files : SUBSET Records]
        /\ torn' \in BOOLEAN
    BY <1>18, CrashType
  <2>2. pc' \in [Runs -> Stages]
    BY <1>18, CrashType DEF Stages
  <2> QED
    <3>1. queued' \in Nat
      BY <1>18 DEF Crash
    <3>2. /\ alive' \in [Runs -> BOOLEAN]
          /\ head' \in [Runs -> Commits \cup {NoSha}]
          /\ skipped' \in [Runs -> SUBSET Records]
          /\ todo' \in [Runs -> SUBSET Records] /\ buffer' \in [Runs -> SUBSET Records]
          /\ UNCHANGED <<upstream, begun, contended, startedAt, clock, rowVars, recVars>>
      BY <1>18 DEF Crash
    <3> QED
      BY <2>1, <2>2, <3>1, <3>2
<1>19. ASSUME NEW r \in Runs, NEW S \in SUBSET Records, ReadBatch(r, S) PROVE TypeOK'
  BY <1>19 DEF ReadBatch, Readable
<1>20. ASSUME NEW r \in Runs, NEW S \in SUBSET Records, FlushRows(r, S) PROVE TypeOK'
  BY <1>20 DEF FlushRows
<1>21. ASSUME NEW r \in Runs, NEW rec \in Records, SkipRow(r, rec) PROVE TypeOK'
  BY <1>21 DEF SkipRow
<1>23. ASSUME NEW r \in Runs, RemoveHalf(r) PROVE TypeOK'
  <2>1. /\ checkout' \in SUBSET Records
        /\ git' \in [sha : Commits \cup {NoSha}, files : SUBSET Records]
        /\ torn' \in BOOLEAN
    BY <1>23 DEF RemoveHalf, CutShort, NoGit
  <2> QED
    BY <1>23, <2>1 DEF RemoveHalf, Stages
<1>24. ASSUME NEW r \in Runs, RecloneRefused(r) PROVE TypeOK'
  BY <1>24 DEF RecloneRefused, Stages
<1>22. CASE UNCHANGED vars
  BY <1>22 DEF vars
<1> QED
  BY <1>1, <1>2, <1>3, <1>4, <1>5, <1>6, <1>7, <1>8, <1>9, <1>10, <1>11, <1>12, <1>13, <1>14, <1>15, <1>16, <1>17, <1>18, <1>19, <1>20, <1>21, <1>22, <1>23, <1>24
  DEF Next, Proceed, Disturb

\* Every variable keeps its type, and the rows name only existing statuses and commits.
THEOREM TypeCorrect == Spec => []TypeOK
  BY TypeInit, TypeStep, PTL DEF Spec

-----------------------------------------------------------------------------
(* At most one running row.                                                *)

LEMMA OneRunningStep ==
  TypeOK /\ AtMostOneRunningRow /\ [Next]_vars => AtMostOneRunningRow'
<1> SUFFICES ASSUME TypeOK, AtMostOneRunningRow, [Next]_vars,
                    NEW r \in Runs, NEW q \in Runs,
                    PastCancel(r)', runStatus'[r] = "running",
                    PastCancel(q)', runStatus'[q] = "running"
             PROVE  r = q
  BY DEF AtMostOneRunningRow
<1> USE DEF TypeOK, PastCancel, envVars, dirVars, runVars, rowVars, recVars, At, Goto, Drop
\* Only the cancelling step lets a running row in, and it clears the others.
<1>1. ASSUME NEW p \in Runs, CancelOtherRunningRuns(p) PROVE r = q
  BY <1>1 DEF CancelOtherRunningRuns
\* Every other step keeps the set of such rows or makes it smaller.
<1>2. ASSUME \A p \in Runs : ~CancelOtherRunningRuns(p)
      PROVE  \A p \in Runs : PastCancel(p)' /\ runStatus'[p] = "running"
                             => PastCancel(p) /\ runStatus[p] = "running"
  <2> SUFFICES ASSUME NEW p \in Runs, PastCancel(p)', runStatus'[p] = "running"
               PROVE  PastCancel(p) /\ runStatus[p] = "running"
    OBVIOUS
  <2>1. ASSUME NEW F \in SUBSET Records, Push(F)
        PROVE  PastCancel(p) /\ runStatus[p] = "running"
    BY <2>1 DEF Push
  <2>2. CASE Trigger \/ Nightly \/ UNCHANGED vars
    BY <2>2 DEF Trigger, Nightly, vars
  <2>3. ASSUME NEW x \in Runs, Start(x) \/ Redeliver(x) \/ Crash(x)
        PROVE  PastCancel(p) /\ runStatus[p] = "running"
    BY <2>3 DEF Start, Redeliver, Crash
  <2>4. ASSUME NEW x \in Runs, CreateRun(x) \/ Stamp(x)
        PROVE  PastCancel(p) /\ runStatus[p] = "running"
    BY <2>4 DEF CreateRun, Stamp
  <2>5. ASSUME NEW x \in Runs, EnsureRepo(x) \/ Reclone(x)
        PROVE  PastCancel(p) /\ runStatus[p] = "running"
    <3>1. Synced(x, upstream.sha) /\ pc[x] \in {"sync", "clone"}
      BY <2>5, SyncedSomehow
    <3> QED
      BY <3>1 DEF Synced
  <2>10. ASSUME NEW x \in Runs, RemoveCheckout(x) \/ RemoveHalf(x) \/ RecloneRefused(x)
         PROVE  PastCancel(p) /\ runStatus[p] = "running"
    BY <2>10 DEF RemoveCheckout, RemoveHalf, RecloneRefused
  <2>6. ASSUME NEW x \in Runs, NEW S \in SUBSET Records, ReadBatch(x, S) \/ FlushRows(x, S)
        PROVE  PastCancel(p) /\ runStatus[p] = "running"
    BY <2>6 DEF ReadBatch, Readable, FlushRows
  <2>7. ASSUME NEW x \in Runs, NEW rec \in Records, SkipRow(x, rec)
        PROVE  PastCancel(p) /\ runStatus[p] = "running"
    BY <2>7 DEF SkipRow
  <2>8. ASSUME NEW x \in Runs, MarkMissingStale(x) \/ MarkRepoHarvestCompleted(x)
                               \/ Raise(x) \/ FailRepoHarvest(x)
        PROVE  PastCancel(p) /\ runStatus[p] = "running"
    BY <2>8 DEF MarkMissingStale, MarkRepoHarvestCompleted, Raise, FailRepoHarvest
  <2>9. ASSUME NEW x \in Runs, FinalizeHarvestRun(x) \/ FailHarvestRun(x)
        PROVE  PastCancel(p) /\ runStatus[p] = "running"
    BY <2>9 DEF FinalizeHarvestRun, FailHarvestRun
  <2> QED
    BY <1>2, <2>1, <2>2, <2>3, <2>4, <2>5, <2>6, <2>7, <2>8, <2>9, <2>10
    DEF Next, Proceed, Disturb
<1> QED
  BY <1>1, <1>2 DEF AtMostOneRunningRow

\* However many executions of the repository overlap, crash or are redelivered, at most
\* one run that has cancelled the others still owns a running row.
THEOREM OneRunningRow == Spec => []AtMostOneRunningRow
<1>1. Init => AtMostOneRunningRow
  BY DEF Init, AtMostOneRunningRow, PastCancel
<1> QED
  BY <1>1, OneRunningStep, TypeCorrect, PTL DEF Spec

-----------------------------------------------------------------------------
(* Reconciliation.  UncontendedRunReconciles says nothing before the mark, *)
(* so the invariant follows the latest execution from its time stamp on:   *)
(* every row is older than the stamp, then exactly the rows it has written *)
(* carry it.                                                               *)

Latest(r) == r = begun /\ ~contended[r]

\* No other execution is alive, so the checkout and the rows are r's alone.
Solo == \A r \in Runs : Latest(r) => \A q \in Runs \ {r} : ~alive[q]

\* No stamp lies in the future.
Past ==
  /\ \A rec \in Records : lastSeen[rec] <= clock
  /\ \A r \in Runs : startedAt[r] <= clock

Untouched ==
  \A r \in Runs :
    /\ r > begun => pc[r] = "idle"
    /\ pc[r] \in {"idle", "create", "stamp", "cancel", "sync", "clone"}
       => skipped[r] = {} /\ buffer[r] = {}

\* Between its stamp and its walk, r finds every row older than its stamp.
Fresh ==
  \A r \in Runs :
    Latest(r) /\ pc[r] \in {"cancel", "sync", "clone"}
    => startedAt[r] > 0 /\ \A rec \in Records : lastSeen[rec] < startedAt[r]

Written(r) == checkout \ (todo[r] \cup buffer[r] \cup skipped[r])

\* During the walk the rows r has written carry its stamp, the others are older.
Importing ==
  \A r \in Runs :
    Latest(r) /\ alive[r] /\ pc[r] = "import"
    => /\ startedAt[r] > 0
       /\ todo[r] \cap buffer[r] = {}
       /\ skipped[r] \cap (todo[r] \cup buffer[r]) = {}
       /\ buffer[r] \subseteq checkout
       /\ \A rec \in Records :
            /\ rec \in Written(r) => lastSeen[rec] = startedAt[r] /\ ~missing[rec]
            /\ rec \notin Written(r) => lastSeen[rec] < startedAt[r]

ReconcileInv ==
  TypeOK /\ Solo /\ Past /\ Untouched /\ Fresh /\ Importing /\ UncontendedRunReconciles

LEMMA ReconcileInit == Init => ReconcileInv
  BY TypeInit, SMTT(30)
  DEF Init, ReconcileInv, Solo, Past, Untouched, Fresh, Importing,
      UncontendedRunReconciles, Latest, Runs

LEMMA ReconcileStep == ReconcileInv /\ [Next]_vars => ReconcileInv'
<1> SUFFICES ASSUME ReconcileInv, [Next]_vars PROVE ReconcileInv'
  OBVIOUS
<1>0. TypeOK /\ TypeOK'
  BY TypeStep DEF ReconcileInv
<1> DEFINE Rest == Solo /\ Past /\ Untouched /\ Fresh /\ Importing /\ UncontendedRunReconciles
<1> SUFFICES Rest'
  BY <1>0 DEF ReconcileInv
<1> USE <1>0 DEF ReconcileInv, TypeOK, envVars, dirVars, runVars, rowVars, recVars, At, Goto, Drop, Latest
<1>1. ASSUME NEW F \in SUBSET Records, Push(F) PROVE Rest'
  BY <1>1 DEF Push, Solo, Past, Untouched, Fresh, Importing, UncontendedRunReconciles, Written, Current
<1>2. CASE Trigger \/ Nightly \/ UNCHANGED vars
  BY <1>2 DEF Trigger, Nightly, vars, Solo, Past, Untouched, Fresh, Importing, UncontendedRunReconciles, Written, Current
<1>3. ASSUME NEW r \in Runs, Redeliver(r) PROVE Rest'
  <2>1. Solo'
    BY <1>3 DEF Redeliver, Solo
  <2>2. Past'
    BY <1>3 DEF Redeliver, Past
  <2>3. Untouched'
    BY <1>3 DEF Redeliver, Untouched
  <2>4. Fresh'
    BY <1>3 DEF Redeliver, Fresh, Past, Untouched, Solo
  <2>5. Importing'
    BY <1>3 DEF Redeliver, Importing, Written, Fresh, Past, Untouched, Solo
  <2>6. UncontendedRunReconciles'
    BY <1>3 DEF Redeliver, UncontendedRunReconciles, Current, Importing, Written, Solo, Untouched
  <2> QED
    BY <2>1, <2>2, <2>3, <2>4, <2>5, <2>6
<1>4. ASSUME NEW r \in Runs, Start(r) PROVE Rest'
  <2>1. Solo'
    BY <1>4 DEF Start, Solo
  <2>2. Past'
    BY <1>4 DEF Start, Past
  <2>3. Untouched'
    BY <1>4 DEF Start, Untouched
  <2>4. Fresh'
    BY <1>4 DEF Start, Fresh, Past, Untouched, Solo
  <2>5. Importing'
    BY <1>4 DEF Start, Importing, Written, Fresh, Past, Untouched, Solo
  <2>6. UncontendedRunReconciles'
    BY <1>4 DEF Start, UncontendedRunReconciles, Current, Importing, Written, Solo, Untouched
  <2> QED
    BY <2>1, <2>2, <2>3, <2>4, <2>5, <2>6
<1>5. ASSUME NEW r \in Runs, CreateRun(r) PROVE Rest'
  <2>1. Solo'
    BY <1>5 DEF CreateRun, Solo
  <2>2. Past'
    BY <1>5 DEF CreateRun, Past
  <2>3. Untouched'
    BY <1>5 DEF CreateRun, Untouched
  <2>4. Fresh'
    BY <1>5 DEF CreateRun, Fresh, Past, Untouched, Solo
  <2>5. Importing'
    BY <1>5 DEF CreateRun, Importing, Written, Fresh, Past, Untouched, Solo
  <2>6. UncontendedRunReconciles'
    BY <1>5 DEF CreateRun, UncontendedRunReconciles, Current, Importing, Written, Solo, Untouched
  <2> QED
    BY <2>1, <2>2, <2>3, <2>4, <2>5, <2>6
<1>6. ASSUME NEW r \in Runs, Stamp(r) PROVE Rest'
  <2>1. Solo'
    BY <1>6 DEF Stamp, Solo
  <2>2. Past'
    BY <1>6 DEF Stamp, Past
  <2>3. Untouched'
    BY <1>6 DEF Stamp, Untouched
  <2>4. Fresh'
    BY <1>6 DEF Stamp, Fresh, Past, Untouched, Solo
  <2>5. Importing'
    BY <1>6 DEF Stamp, Importing, Written, Fresh, Past, Untouched, Solo
  <2>6. UncontendedRunReconciles'
    BY <1>6 DEF Stamp, UncontendedRunReconciles, Current, Importing, Written, Solo, Untouched
  <2> QED
    BY <2>1, <2>2, <2>3, <2>4, <2>5, <2>6
<1>7. ASSUME NEW r \in Runs, CancelOtherRunningRuns(r) PROVE Rest'
  <2>1. Solo'
    BY <1>7 DEF CancelOtherRunningRuns, Solo
  <2>2. Past'
    BY <1>7 DEF CancelOtherRunningRuns, Past
  <2>3. Untouched'
    BY <1>7 DEF CancelOtherRunningRuns, Untouched
  <2>4. Fresh'
    BY <1>7 DEF CancelOtherRunningRuns, Fresh, Past, Untouched, Solo
  <2>5. Importing'
    BY <1>7 DEF CancelOtherRunningRuns, Importing, Written, Fresh, Past, Untouched, Solo
  <2>6. UncontendedRunReconciles'
    BY <1>7 DEF CancelOtherRunningRuns, UncontendedRunReconciles, Current, Importing, Written, Solo, Untouched
  <2> QED
    BY <2>1, <2>2, <2>3, <2>4, <2>5, <2>6
<1>8. ASSUME NEW r \in Runs, EnsureRepo(r) \/ Reclone(r) PROVE Rest'
  <2>0. /\ Synced(r, upstream.sha) /\ checkout' \in SUBSET Records
        /\ pc[r] \in {"sync", "clone"} /\ alive[r]
    BY <1>8, SyncedSomehow
  <2>1. Solo'
    BY <2>0 DEF Synced, Solo
  <2>2. Past'
    BY <2>0 DEF Synced, Past
  <2>3. Untouched'
    BY <2>0 DEF Synced, Untouched
  <2>4. Fresh'
    BY <2>0 DEF Synced, Fresh, Past, Untouched, Solo
  <2>5. Importing'
    BY <2>0 DEF Synced, Importing, Written, Fresh, Past, Untouched, Solo
  <2>6. UncontendedRunReconciles'
    BY <2>0 DEF Synced, UncontendedRunReconciles, Current, Importing, Written, Solo, Untouched
  <2> QED
    BY <2>1, <2>2, <2>3, <2>4, <2>5, <2>6
<1>9. ASSUME NEW r \in Runs, RemoveHalf(r) PROVE Rest'
  <2>1. Solo'
    BY <1>9 DEF RemoveHalf, Solo
  <2>2. Past'
    BY <1>9 DEF RemoveHalf, Past
  <2>3. Untouched'
    BY <1>9 DEF RemoveHalf, Untouched
  <2>4. Fresh'
    BY <1>9 DEF RemoveHalf, Fresh, Past, Untouched, Solo
  <2>5. Importing'
    BY <1>9 DEF RemoveHalf, Importing, Written, Fresh, Past, Untouched, Solo
  <2>6. UncontendedRunReconciles'
    BY <1>9 DEF RemoveHalf, UncontendedRunReconciles, Current, Importing, Written, Solo, Untouched
  <2> QED
    BY <2>1, <2>2, <2>3, <2>4, <2>5, <2>6
<1>21. ASSUME NEW r \in Runs, RecloneRefused(r) PROVE Rest'
  <2>1. Solo'
    BY <1>21 DEF RecloneRefused, Solo
  <2>2. Past'
    BY <1>21 DEF RecloneRefused, Past
  <2>3. Untouched'
    BY <1>21 DEF RecloneRefused, Untouched
  <2>4. Fresh'
    BY <1>21 DEF RecloneRefused, Fresh, Past, Untouched, Solo
  <2>5. Importing'
    BY <1>21 DEF RecloneRefused, Importing, Written, Fresh, Past, Untouched, Solo
  <2>6. UncontendedRunReconciles'
    BY <1>21 DEF RecloneRefused, UncontendedRunReconciles, Current, Importing, Written, Solo, Untouched
  <2> QED
    BY <2>1, <2>2, <2>3, <2>4, <2>5, <2>6
<1>10. ASSUME NEW r \in Runs, RemoveCheckout(r) PROVE Rest'
  <2>1. Solo'
    BY <1>10 DEF RemoveCheckout, Solo
  <2>2. Past'
    BY <1>10 DEF RemoveCheckout, Past
  <2>3. Untouched'
    BY <1>10 DEF RemoveCheckout, Untouched
  <2>4. Fresh'
    BY <1>10 DEF RemoveCheckout, Fresh, Past, Untouched, Solo
  <2>5. Importing'
    BY <1>10 DEF RemoveCheckout, Importing, Written, Fresh, Past, Untouched, Solo
  <2>6. UncontendedRunReconciles'
    BY <1>10 DEF RemoveCheckout, UncontendedRunReconciles, Current, Importing, Written, Solo, Untouched
  <2> QED
    BY <2>1, <2>2, <2>3, <2>4, <2>5, <2>6
<1>11. ASSUME NEW r \in Runs, MarkMissingStale(r) PROVE Rest'
  <2>1. Solo'
    BY <1>11 DEF MarkMissingStale, Solo
  <2>2. Past'
    BY <1>11 DEF MarkMissingStale, Past
  <2>3. Untouched'
    BY <1>11 DEF MarkMissingStale, Untouched
  <2>4. Fresh'
    BY <1>11 DEF MarkMissingStale, Fresh, Past, Untouched, Solo
  <2>5. Importing'
    BY <1>11 DEF MarkMissingStale, Importing, Written, Fresh, Past, Untouched, Solo
  <2>6. UncontendedRunReconciles'
    BY <1>11 DEF MarkMissingStale, UncontendedRunReconciles, Current, Importing, Written, Solo, Untouched
  <2> QED
    BY <2>1, <2>2, <2>3, <2>4, <2>5, <2>6
<1>12. ASSUME NEW r \in Runs, FinalizeHarvestRun(r) PROVE Rest'
  <2>1. Solo'
    BY <1>12 DEF FinalizeHarvestRun, Solo
  <2>2. Past'
    BY <1>12 DEF FinalizeHarvestRun, Past
  <2>3. Untouched'
    BY <1>12 DEF FinalizeHarvestRun, Untouched
  <2>4. Fresh'
    BY <1>12 DEF FinalizeHarvestRun, Fresh, Past, Untouched, Solo
  <2>5. Importing'
    BY <1>12 DEF FinalizeHarvestRun, Importing, Written, Fresh, Past, Untouched, Solo
  <2>6. UncontendedRunReconciles'
    BY <1>12 DEF FinalizeHarvestRun, UncontendedRunReconciles, Current, Importing, Written, Solo, Untouched
  <2> QED
    BY <2>1, <2>2, <2>3, <2>4, <2>5, <2>6
<1>13. ASSUME NEW r \in Runs, MarkRepoHarvestCompleted(r) PROVE Rest'
  <2>1. Solo'
    BY <1>13 DEF MarkRepoHarvestCompleted, Solo
  <2>2. Past'
    BY <1>13 DEF MarkRepoHarvestCompleted, Past
  <2>3. Untouched'
    BY <1>13 DEF MarkRepoHarvestCompleted, Untouched
  <2>4. Fresh'
    BY <1>13 DEF MarkRepoHarvestCompleted, Fresh, Past, Untouched, Solo
  <2>5. Importing'
    BY <1>13 DEF MarkRepoHarvestCompleted, Importing, Written, Fresh, Past, Untouched, Solo
  <2>6. UncontendedRunReconciles'
    BY <1>13 DEF MarkRepoHarvestCompleted, UncontendedRunReconciles, Current, Importing, Written, Solo, Untouched
  <2> QED
    BY <2>1, <2>2, <2>3, <2>4, <2>5, <2>6
<1>14. ASSUME NEW r \in Runs, Raise(r) PROVE Rest'
  <2>1. Solo'
    BY <1>14 DEF Raise, Solo
  <2>2. Past'
    BY <1>14 DEF Raise, Past
  <2>3. Untouched'
    BY <1>14 DEF Raise, Untouched
  <2>4. Fresh'
    BY <1>14 DEF Raise, Fresh, Past, Untouched, Solo
  <2>5. Importing'
    BY <1>14 DEF Raise, Importing, Written, Fresh, Past, Untouched, Solo
  <2>6. UncontendedRunReconciles'
    BY <1>14 DEF Raise, UncontendedRunReconciles, Current, Importing, Written, Solo, Untouched
  <2> QED
    BY <2>1, <2>2, <2>3, <2>4, <2>5, <2>6
<1>15. ASSUME NEW r \in Runs, FailHarvestRun(r) PROVE Rest'
  <2>1. Solo'
    BY <1>15 DEF FailHarvestRun, Solo
  <2>2. Past'
    BY <1>15 DEF FailHarvestRun, Past
  <2>3. Untouched'
    BY <1>15 DEF FailHarvestRun, Untouched
  <2>4. Fresh'
    BY <1>15 DEF FailHarvestRun, Fresh, Past, Untouched, Solo
  <2>5. Importing'
    BY <1>15 DEF FailHarvestRun, Importing, Written, Fresh, Past, Untouched, Solo
  <2>6. UncontendedRunReconciles'
    BY <1>15 DEF FailHarvestRun, UncontendedRunReconciles, Current, Importing, Written, Solo, Untouched
  <2> QED
    BY <2>1, <2>2, <2>3, <2>4, <2>5, <2>6
<1>16. ASSUME NEW r \in Runs, FailRepoHarvest(r) PROVE Rest'
  <2>1. Solo'
    BY <1>16 DEF FailRepoHarvest, Solo
  <2>2. Past'
    BY <1>16 DEF FailRepoHarvest, Past
  <2>3. Untouched'
    BY <1>16 DEF FailRepoHarvest, Untouched
  <2>4. Fresh'
    BY <1>16 DEF FailRepoHarvest, Fresh, Past, Untouched, Solo
  <2>5. Importing'
    BY <1>16 DEF FailRepoHarvest, Importing, Written, Fresh, Past, Untouched, Solo
  <2>6. UncontendedRunReconciles'
    BY <1>16 DEF FailRepoHarvest, UncontendedRunReconciles, Current, Importing, Written, Solo, Untouched
  <2> QED
    BY <2>1, <2>2, <2>3, <2>4, <2>5, <2>6
<1>17. ASSUME NEW r \in Runs, Crash(r) PROVE Rest'
  <2>0. /\ pc' \in {pc, [pc EXCEPT ![r] = "failed"]}
        /\ alive[r] /\ alive' = [alive EXCEPT ![r] = FALSE]
        /\ skipped' = [skipped EXCEPT ![r] = {}] /\ buffer' = [buffer EXCEPT ![r] = {}]
        /\ todo' = [todo EXCEPT ![r] = {}]
        /\ pc[r] \in {"idle", "create", "stamp", "cancel", "sync", "clone"} \/ checkout' = checkout
        /\ PastCancel(r) => pc'[r] = "failed"
        /\ UNCHANGED <<begun, contended, startedAt, clock, lastSeen, missing>>
    BY <1>17, CrashType DEF Crash
  <2>1. Solo'
    BY <2>0 DEF Solo, PastCancel
  <2>2. Past'
    BY <2>0 DEF Past, PastCancel
  <2>3. Untouched'
    <3> SUFFICES ASSUME NEW q \in Runs
                 PROVE  /\ q > begun => pc'[q] = "idle"
                        /\ pc'[q] \in {"idle", "create", "stamp", "cancel", "sync", "clone"}
                           => skipped'[q] = {} /\ buffer'[q] = {}
      BY <2>0 DEF Untouched
    <3>1. q > begun => pc[q] = "idle"
      BY DEF Untouched
    <3>2. q > begun => pc'[q] = "idle"
      BY <2>0, <3>1, <1>17, CrashType DEF PastCancel
    <3>3. q # r => pc'[q] = pc[q] /\ skipped'[q] = skipped[q] /\ buffer'[q] = buffer[q]
      BY <2>0
    <3>4. skipped'[r] = {} /\ buffer'[r] = {}
      BY <2>0
    <3> QED
      BY <3>2, <3>3, <3>4 DEF Untouched
  <2>4. Fresh'
    BY <2>0 DEF Fresh, Past, Untouched, Solo, PastCancel
  <2>5. Importing'
    BY <2>0 DEF Importing, Written, Fresh, Past, Untouched, Solo, PastCancel
  <2>6. UncontendedRunReconciles'
    BY <2>0 DEF UncontendedRunReconciles, Current, Importing, Written, Solo, Untouched, PastCancel
  <2> QED
    BY <2>1, <2>2, <2>3, <2>4, <2>5, <2>6
<1>18. ASSUME NEW r \in Runs, NEW S \in SUBSET Records, ReadBatch(r, S) PROVE Rest'
  <2>1. Solo'
    BY <1>18 DEF ReadBatch, Readable, Solo
  <2>2. Past'
    BY <1>18 DEF ReadBatch, Readable, Past
  <2>3. Untouched'
    BY <1>18 DEF ReadBatch, Readable, Untouched
  <2>4. Fresh'
    BY <1>18 DEF ReadBatch, Readable, Fresh, Past, Untouched, Solo
  <2>5. Importing'
    BY <1>18 DEF ReadBatch, Readable, Importing, Written, Fresh, Past, Untouched, Solo
  <2>6. UncontendedRunReconciles'
    BY <1>18 DEF ReadBatch, Readable, UncontendedRunReconciles, Current, Importing, Written, Solo, Untouched
  <2> QED
    BY <2>1, <2>2, <2>3, <2>4, <2>5, <2>6
<1>19. ASSUME NEW r \in Runs, NEW S \in SUBSET Records, FlushRows(r, S) PROVE Rest'
  <2>1. Solo'
    BY <1>19 DEF FlushRows, Solo
  <2>2. Past'
    BY <1>19 DEF FlushRows, Past
  <2>3. Untouched'
    BY <1>19 DEF FlushRows, Untouched
  <2>4. Fresh'
    BY <1>19 DEF FlushRows, Fresh, Past, Untouched, Solo
  <2>5. Importing'
    BY <1>19 DEF FlushRows, Importing, Written, Fresh, Past, Untouched, Solo
  <2>6. UncontendedRunReconciles'
    BY <1>19 DEF FlushRows, UncontendedRunReconciles, Current, Importing, Written, Solo, Untouched
  <2> QED
    BY <2>1, <2>2, <2>3, <2>4, <2>5, <2>6
<1>20. ASSUME NEW r \in Runs, NEW rec \in Records, SkipRow(r, rec) PROVE Rest'
  <2>1. Solo'
    BY <1>20 DEF SkipRow, Solo
  <2>2. Past'
    BY <1>20 DEF SkipRow, Past
  <2>3. Untouched'
    BY <1>20 DEF SkipRow, Untouched
  <2>4. Fresh'
    BY <1>20 DEF SkipRow, Fresh, Past, Untouched, Solo
  <2>5. Importing'
    BY <1>20 DEF SkipRow, Importing, Written, Fresh, Past, Untouched, Solo
  <2>6. UncontendedRunReconciles'
    BY <1>20 DEF SkipRow, UncontendedRunReconciles, Current, Importing, Written, Solo, Untouched
  <2> QED
    BY <2>1, <2>2, <2>3, <2>4, <2>5, <2>6
<1> QED
  BY <1>1, <1>2, <1>3, <1>4, <1>5, <1>6, <1>7, <1>8, <1>9, <1>10, <1>11, <1>12, <1>13, <1>14, <1>15, <1>16, <1>17, <1>18, <1>19, <1>20, <1>21
  DEF Next, Proceed, Disturb

\* A harvest that met no other execution leaves as current exactly the records it could
\* write from the checkout, whatever its predecessors did.
THEOREM Reconciles == Spec => []UncontendedRunReconciles
<1>1. ReconcileInv => UncontendedRunReconciles
  BY DEF ReconcileInv
<1> QED
  BY <1>1, ReconcileInit, ReconcileStep, PTL DEF Spec

-----------------------------------------------------------------------------
(* The work tree.                                                          *)

LEMMA WholeStep == TypeOK /\ WholeUnlessTorn /\ [Next]_vars => WholeUnlessTorn'
<1> SUFFICES ASSUME TypeOK, WholeUnlessTorn, [Next]_vars PROVE WholeUnlessTorn'
  OBVIOUS
<1>1. ASSUME NEW r \in Runs, Clone(r) PROVE WholeUnlessTorn'
  BY <1>1 DEF Clone, WholeUnlessTorn
\* Of what HEAD names, the pull keeps what the head commit names too; the rest it writes.
<1>2. ASSUME NEW r \in Runs, NEW R \in SUBSET Records, Pull(r, R), git # NoGit
      PROVE  WholeUnlessTorn'
  <2>1. CASE torn
    BY <1>2, <2>1 DEF Pull, WholeUnlessTorn
  <2>2. CASE ~torn
    <3>1. checkout = git.files /\ R \subseteq upstream.files
      BY <1>2, <2>2 DEF Pull, WholeUnlessTorn
    <3> QED
      BY <1>2, <3>1 DEF Pull, WholeUnlessTorn
  <2> QED
    BY <2>1, <2>2
<1>3. ASSUME NEW r \in Runs, EnsureRepo(r) \/ Reclone(r) PROVE WholeUnlessTorn'
  BY <1>1, <1>2, <1>3 DEF EnsureRepo, Reclone
<1>4. ASSUME NEW r \in Runs, RemoveCheckout(r) \/ RemoveHalf(r) \/ Crash(r)
      PROVE  WholeUnlessTorn'
  BY <1>4 DEF RemoveCheckout, RemoveHalf, Crash, CutShort, dirVars, WholeUnlessTorn
<1>5. CASE UNCHANGED dirVars
  BY <1>5 DEF dirVars, WholeUnlessTorn
<1>6. ASSUME NEW r \in Runs, NEW S \in SUBSET Records, ReadBatch(r, S) \/ FlushRows(r, S)
      PROVE  UNCHANGED dirVars
  BY <1>6 DEF ReadBatch, FlushRows
<1>9. ASSUME NEW r \in Runs, NEW rec \in Records, SkipRow(r, rec) PROVE UNCHANGED dirVars
  BY <1>9 DEF SkipRow
<1>7. ASSUME NEW F \in SUBSET Records, Push(F) \/ Trigger \/ Nightly PROVE UNCHANGED dirVars
  BY <1>7 DEF Push, Trigger, Nightly
<1>8. ASSUME NEW r \in Runs,
             \/ Start(r) \/ CreateRun(r) \/ Stamp(r) \/ CancelOtherRunningRuns(r)
             \/ RecloneRefused(r) \/ MarkMissingStale(r) \/ FinalizeHarvestRun(r)
             \/ MarkRepoHarvestCompleted(r) \/ FailHarvestRun(r) \/ FailRepoHarvest(r)
             \/ Raise(r) \/ Redeliver(r)
      PROVE  UNCHANGED dirVars
  BY <1>8 DEF Start, CreateRun, Stamp, CancelOtherRunningRuns, RecloneRefused,
     MarkMissingStale, FinalizeHarvestRun, MarkRepoHarvestCompleted, FailHarvestRun,
     FailRepoHarvest, Raise, Redeliver
<1> QED
  BY <1>3, <1>4, <1>5, <1>6, <1>7, <1>8, <1>9 DEF Next, Proceed, Disturb, vars

\* Files are missing from the work tree beside a .git that names them only when git or
\* rmtree was cut short there: pulls, clones and overlapping executions leave none out.
THEOREM PullsLeaveNothingOut == Spec => []WholeUnlessTorn
<1>1. Init => WholeUnlessTorn
  BY DEF Init, WholeUnlessTorn
<1> QED
  BY <1>1, WholeStep, TypeCorrect, PTL DEF Spec

-----------------------------------------------------------------------------
(* OgmCatalog.                                                             *)

LEMMA RepoRowType ==
  ASSUME NEW f \in Findings
  PROVE  RepoRow(f) \in Rows /\ (RepoRow(f).enabled => f.aardvark)
BY DEF RepoRow, Rows, Modes, EditableModes, Findings

LEMMA EnqueuedType ==
  ASSUME harvests \in 0 .. MaxQueued
  PROVE  Enqueued \in 0 .. MaxQueued
BY CatalogAssumption DEF Enqueued

LEMMA CatalogTypeInit == CatalogInit => CatalogTypeOK
<1> SUFFICES ASSUME CatalogInit PROVE CatalogTypeOK
  OBVIOUS
<1>1. repository \in Upstreams
  <2>1. 1 \in 1 .. MaxHead
    BY CatalogAssumption
  <2> QED
    BY <2>1 DEF CatalogInit, Upstreams
<1>2. steady \in BOOLEAN /\ wanted \in BOOLEAN
  BY <1>1 DEF CatalogInit, Upstreams
<1>3. scan \in [Scanners -> Scans]
  BY DEF CatalogInit, Idle, Scans
<1>4. harvests \in 0 .. MaxQueued /\ harvested \in 0 .. MaxHead /\ edits \in 0 .. MaxEdits
  BY CatalogAssumption DEF CatalogInit
<1> QED
  BY <1>1, <1>2, <1>3, <1>4 DEF CatalogInit, CatalogTypeOK

LEMMA ScanStep ==
  ASSUME CatalogTypeOK, NEW s \in Scanners, NightlyScan(s) \/ StopScan(s)
  PROVE  scan' \in [Scanners -> Scans]
<1>1. PICK x \in Scans : scan' = [scan EXCEPT ![s] = x]
  <2>1. CASE List(s)
    <3>1. PICK st \in {"enqueue", "check"} : scan' = [scan EXCEPT ![s].step = st]
      BY <2>1 DEF List
    <3>2. [scan[s] EXCEPT !.step = st] \in Scans
      BY DEF CatalogTypeOK, Scans
    <3> QED
      BY <3>1, <3>2
  <2>2. CASE CheckDirectory(s) \/ CheckFails(s)
    <3>1. \A b \in BOOLEAN : [step |-> "write", aardvark |-> b] \in Scans
      BY DEF Scans
    <3>2. repository.aardvark \in BOOLEAN
      BY DEF CatalogTypeOK, Upstreams
    <3> QED
      BY <2>2, <3>1, <3>2 DEF CheckDirectory, CheckFails
  <2>3. CASE WriteRow(s)
    <3>1. [scan[s] EXCEPT !.step = "enqueue"] \in Scans
      BY DEF CatalogTypeOK, Scans
    <3> QED
      BY <2>3, <3>1 DEF WriteRow
  <2>4. CASE EnqueueAll(s) \/ StopScan(s)
    BY <2>4 DEF EnqueueAll, StopScan, Idle, Scans
  <2> QED
    BY <2>1, <2>2, <2>3, <2>4 DEF NightlyScan
<1> QED
  BY <1>1 DEF CatalogTypeOK

LEMMA CatalogTypeStep == CatalogTypeOK /\ [CatalogNext]_catalogVars => CatalogTypeOK'
<1> SUFFICES ASSUME CatalogTypeOK, [CatalogNext]_catalogVars PROVE CatalogTypeOK'
  OBVIOUS
<1>q. Enqueued \in 0 .. MaxQueued
  BY EnqueuedType DEF CatalogTypeOK
<1>1. ASSUME NEW a \in BOOLEAN, PushDirectory(a) PROVE CatalogTypeOK'
  <2>1. repository' \in Upstreams
    <3>1. repository.head + 1 \in 1 .. MaxHead
      BY <1>1, CatalogAssumption DEF CatalogTypeOK, PushDirectory, Upstreams
    <3> QED
      BY <1>1, <3>1 DEF CatalogTypeOK, PushDirectory, Upstreams
  <2>2. events' \in SUBSET Events
    <3>1. [kind |-> "push", archived |-> FALSE] \in Events
      BY DEF Events
    <3> QED
      BY <1>1, <3>1 DEF CatalogTypeOK, PushDirectory
  <2>3. steady' \in BOOLEAN /\ wanted' \in BOOLEAN
    BY <1>1 DEF PushDirectory
  <2> QED
    BY <1>1, <2>1, <2>2, <2>3 DEF CatalogTypeOK, PushDirectory
<1>2. CASE Archive \/ Unarchive \/ Announce
  <2>1. repository' \in Upstreams
    BY <1>2 DEF CatalogTypeOK, Archive, Unarchive, Announce, Upstreams
  <2>2. events' \in SUBSET Events
    <3>1. \A b \in BOOLEAN : [kind |-> "discovery", archived |-> b] \in Events
      BY DEF Events
    <3>2. repository.archived \in BOOLEAN
      BY DEF CatalogTypeOK, Upstreams
    <3>3. PICK b \in BOOLEAN :
            events' \in {events, events \cup {[kind |-> "discovery", archived |-> b]}}
      BY <1>2, <3>2 DEF Archive, Unarchive, Announce
    <3> QED
      BY <3>1, <3>3 DEF CatalogTypeOK
  <2>3. steady' \in BOOLEAN
    BY <1>2 DEF CatalogTypeOK, Archive, Unarchive, Announce
  <2>4. UNCHANGED <<row, discovered, scan, allQueued, harvests, harvested, edits, wanted>>
    BY <1>2 DEF Archive, Unarchive, Announce
  <2> QED
    BY <2>1, <2>2, <2>3, <2>4 DEF CatalogTypeOK
<1>3. ASSUME NEW e \in events, Lose(e) \/ PushEvent(e) \/ Discover(e) PROVE CatalogTypeOK'
  <2>1. events' \in SUBSET Events
    BY <1>3 DEF CatalogTypeOK, Lose, PushEvent, Discover
  <2>2. discovered' \in SUBSET Findings
    <3>1. [aardvark |-> repository.aardvark, archived |-> e.archived] \in Findings
      BY <1>3 DEF CatalogTypeOK, Upstreams, Events, Findings
    <3> QED
      BY <1>3, <3>1 DEF CatalogTypeOK, Lose, PushEvent, Discover
  <2>3. harvests' \in 0 .. MaxQueued
    BY <1>3, <1>q DEF CatalogTypeOK, Lose, PushEvent, Discover
  <2>4. UNCHANGED <<repository, row, scan, allQueued, harvested, edits, steady, wanted>>
    BY <1>3 DEF Lose, PushEvent, Discover
  <2> QED
    BY <2>1, <2>2, <2>3, <2>4 DEF CatalogTypeOK
<1>4. ASSUME NEW f \in discovered, Enroll(f) PROVE CatalogTypeOK'
  <2>1. row' \in Rows
    BY <1>4, RepoRowType DEF Enroll, CatalogTypeOK
  <2>2. harvests' \in 0 .. MaxQueued /\ discovered' \in SUBSET Findings
    BY <1>4, <1>q DEF Enroll, CatalogTypeOK
  <2> QED
    BY <1>4, <2>1, <2>2 DEF Enroll, CatalogTypeOK
<1>5. ASSUME NEW s \in Scanners, NightlyScan(s) \/ StopScan(s) PROVE CatalogTypeOK'
  <2>1. scan' \in [Scanners -> Scans]
    BY <1>5, ScanStep
  <2>2. row' \in Rows \cup {NoRow}
    <3>1. CASE WriteRow(s)
      <4>1. [aardvark |-> scan[s].aardvark, archived |-> FALSE] \in Findings
        BY DEF Findings, CatalogTypeOK, Scans
      <4> QED
        BY <3>1, <4>1, RepoRowType DEF WriteRow
    <3>2. CASE ~WriteRow(s)
      BY <1>5, <3>2 DEF CatalogTypeOK, NightlyScan, List, CheckDirectory, CheckFails, EnqueueAll, StopScan
    <3> QED
      BY <3>1, <3>2
  <2>3. allQueued' \in SUBSET {"nightly", "manual"}
    BY <1>5 DEF CatalogTypeOK, NightlyScan, List, CheckDirectory, CheckFails, WriteRow, EnqueueAll,
                StopScan
  <2>4. UNCHANGED <<repository, events, discovered, harvests, harvested, edits, steady, wanted>>
    BY <1>5 DEF NightlyScan, List, CheckDirectory, CheckFails, WriteRow, EnqueueAll, StopScan
  <2> QED
    BY <2>1, <2>2, <2>3, <2>4 DEF CatalogTypeOK
<1>6. ASSUME NEW t \in {"nightly", "manual"}, HarvestAll(t) \/ TriggerAll(t) PROVE CatalogTypeOK'
  <2>1. harvests' \in 0 .. MaxQueued /\ edits' \in 0 .. MaxEdits
    BY <1>6, <1>q, CatalogAssumption DEF CatalogTypeOK, HarvestAll, TriggerAll
  <2>2. allQueued' \in SUBSET {"nightly", "manual"}
    BY <1>6 DEF CatalogTypeOK, HarvestAll, TriggerAll
  <2>3. UNCHANGED <<repository, row, events, discovered, scan, harvested, steady, wanted>>
    BY <1>6 DEF HarvestAll, TriggerAll
  <2> QED
    BY <2>1, <2>2, <2>3 DEF CatalogTypeOK
<1>7. CASE HarvestSucceeds \/ HarvestFails
  <2>1. row' \in Rows
    <3>1. [enabled |-> TRUE, mode |-> "nightly"] \in Rows
      BY DEF Rows, Modes
    <3> QED
      BY <1>7, <3>1 DEF HarvestSucceeds, HarvestFails, Harvest
  <2>2. harvests' \in 0 .. MaxQueued /\ harvested' \in 0 .. MaxHead
    BY <1>7, CatalogAssumption DEF CatalogTypeOK, HarvestSucceeds, HarvestFails, Harvest, Upstreams
  <2>3. UNCHANGED <<repository, events, discovered, scan, allQueued, edits, steady, wanted>>
    BY <1>7 DEF HarvestSucceeds, HarvestFails, Harvest
  <2> QED
    BY <2>1, <2>2, <2>3 DEF CatalogTypeOK
<1>8. CASE TriggerOne
  <2>1. harvests' \in 0 .. MaxQueued /\ edits' \in 0 .. MaxEdits /\ wanted' \in BOOLEAN
    BY <1>8, <1>q, CatalogAssumption DEF CatalogTypeOK, TriggerOne
  <2> QED
    BY <1>8, <2>1 DEF CatalogTypeOK, TriggerOne
<1>9. ASSUME NEW enabled \in BOOLEAN, NEW mode \in EditableModes, Edit(enabled, mode)
      PROVE  CatalogTypeOK'
  <2>1. row' \in Rows
    BY <1>9 DEF Edit, Rows, Modes
  <2>2. edits' \in 0 .. MaxEdits
    BY <1>9, CatalogAssumption DEF CatalogTypeOK, Edit
  <2>3. steady' \in BOOLEAN /\ wanted' \in BOOLEAN
    BY <1>9 DEF CatalogTypeOK, Edit
  <2> QED
    BY <1>9, <2>1, <2>2, <2>3 DEF CatalogTypeOK, Edit
<1>10. CASE UNCHANGED catalogVars
  BY <1>10 DEF catalogVars, CatalogTypeOK
<1> QED
  BY <1>1, <1>2, <1>3, <1>4, <1>5, <1>6, <1>7, <1>8, <1>9, <1>10 DEF CatalogNext

\* Every reachable state of the watch list is well typed.
THEOREM CatalogTypeCorrect == CatalogSpec => []CatalogTypeOK
<1>1. CatalogInit => CatalogTypeOK
  BY CatalogTypeInit
<1>2. CatalogTypeOK /\ [CatalogNext]_catalogVars => CatalogTypeOK'
  BY CatalogTypeStep
<1> QED
  BY <1>1, <1>2, PTL DEF CatalogSpec

-----------------------------------------------------------------------------
\* Nothing on its way into the row says that the directory is there before it is.
Unwatched ==
  ~wanted => /\ harvests = 0
             /\ harvested = 0
             /\ ~row.enabled
             /\ ~repository.aardvark
             /\ \A f \in discovered : ~f.aardvark
             /\ \A s \in Scanners : ~scan[s].aardvark

LEMMA UnwatchedStep == CatalogTypeOK /\ Unwatched /\ [CatalogNext]_catalogVars => Unwatched'
<1> SUFFICES ASSUME CatalogTypeOK, Unwatched, [CatalogNext]_catalogVars, ~wanted' PROVE Unwatched'
  BY DEF Unwatched
<1>0. ~wanted
  BY DEF CatalogTypeOK, CatalogNext, catalogVars, NightlyScan, PushDirectory, Archive,
         Unarchive, Announce, Lose, PushEvent, Discover, Enroll, List, CheckDirectory, CheckFails, WriteRow, EnqueueAll, StopScan,
         HarvestAll, TriggerAll, HarvestSucceeds, HarvestFails, Harvest, TriggerOne, Edit
<1> USE <1>0 DEF Unwatched
<1>1. ASSUME NEW a \in BOOLEAN, PushDirectory(a) PROVE Unwatched'
  BY <1>1 DEF PushDirectory, CatalogTypeOK
<1>2. CASE Archive \/ Unarchive \/ Announce
  <2>1. repository'.aardvark = repository.aardvark
    BY <1>2 DEF Archive, Unarchive, Announce, CatalogTypeOK, Upstreams
  <2> QED
    BY <1>2, <2>1 DEF Archive, Unarchive, Announce
<1>3. ASSUME NEW e \in events, Lose(e) \/ PushEvent(e) \/ Discover(e) PROVE Unwatched'
  BY <1>3 DEF Lose, PushEvent, Discover
<1>4. ASSUME NEW f \in discovered, Enroll(f) PROVE Unwatched'
  <2>1. ~RepoRow(f).enabled
    BY RepoRowType DEF CatalogTypeOK
  <2> QED
    BY <1>4, <2>1 DEF Enroll
<1>5. ASSUME NEW s \in Scanners, NightlyScan(s) \/ StopScan(s) PROVE Unwatched'
  <2>1. CASE WriteRow(s)
    <3> DEFINE f == [aardvark |-> scan[s].aardvark, archived |-> FALSE]
    <3>1. f \in Findings /\ ~f.aardvark
      BY DEF Findings, CatalogTypeOK, Scans
    <3>2. ~RepoRow(f).enabled
      BY <3>1, RepoRowType
    <3> QED
      BY <2>1, <3>2 DEF WriteRow, CatalogTypeOK
  <2>2. CASE List(s) \/ CheckDirectory(s) \/ CheckFails(s)
    <3>1. \A r \in Scanners : scan'[r].aardvark \in {FALSE, scan[r].aardvark,
                                                      repository.aardvark}
      <4>1. CASE List(s)
        <5>1. PICK st \in {"enqueue", "check"} : scan' = [scan EXCEPT ![s].step = st]
          BY <4>1 DEF List
        <5> QED
          BY <5>1 DEF CatalogTypeOK, Scans
      <4>2. CASE CheckDirectory(s)
        BY <4>2 DEF CheckDirectory, CatalogTypeOK
      <4>3. CASE CheckFails(s)
        BY <4>3 DEF CheckFails, CatalogTypeOK
      <4> QED
        BY <2>2, <4>1, <4>2, <4>3
    <3>2. UNCHANGED <<repository, row, discovered, harvests, harvested>>
      BY <2>2 DEF List, CheckDirectory, CheckFails
    <3> QED
      BY <3>1, <3>2
  <2>3. CASE EnqueueAll(s) \/ StopScan(s)
    BY <2>3 DEF EnqueueAll, StopScan, Idle, CatalogTypeOK
  <2> QED
    BY <1>5, <2>1, <2>2, <2>3 DEF NightlyScan
<1>6. ASSUME NEW t \in {"nightly", "manual"}, HarvestAll(t) \/ TriggerAll(t) PROVE Unwatched'
  BY <1>6 DEF HarvestAll, TriggerAll
<1>7. CASE HarvestSucceeds \/ HarvestFails
  BY <1>7 DEF HarvestSucceeds, HarvestFails, Harvest
<1>8. CASE TriggerOne
  BY <1>8 DEF TriggerOne
<1>9. ASSUME NEW enabled \in BOOLEAN, NEW mode \in EditableModes, Edit(enabled, mode)
      PROVE  Unwatched'
  BY <1>9 DEF Edit
<1>10. CASE UNCHANGED catalogVars
  BY <1>10 DEF catalogVars
<1> QED
  BY <1>1, <1>2, <1>3, <1>4, <1>5, <1>6, <1>7, <1>8, <1>9, <1>10 DEF CatalogNext

\* A repository that never had the directory is harvested only if the operator asks for
\* it: the enabled flag, wherever it is written, comes from a look at GitHub.
THEOREM HarvestedIfAsked == CatalogSpec => []NeverHarvestedUnasked
<1>1. CatalogInit => Unwatched
  BY DEF CatalogInit, Unwatched, NoRow, Idle
<1>2. CatalogTypeOK /\ Unwatched /\ [CatalogNext]_catalogVars => Unwatched'
  BY UnwatchedStep
<1>3. Unwatched => NeverHarvestedUnasked
  BY DEF Unwatched, NeverHarvestedUnasked
<1> QED
  BY <1>1, <1>2, <1>3, CatalogTypeCorrect, PTL DEF CatalogSpec

-----------------------------------------------------------------------------
(* HarvestRefresh.                                                         *)

LEMMA RefreshTypeInit == RefreshInit => RefreshTypeOK
<1> SUFFICES ASSUME RefreshInit PROVE RefreshTypeOK
  OBVIOUS
<1>1. published \in [Resources -> Values] /\ unread \in [Executions -> [Resources -> Contents]]
  BY DEF RefreshInit, Nothing, Contents
<1>2. failed \in BOOLEAN /\ succeeded \in BOOLEAN
  BY DEF RefreshInit
<1> QED
  BY <1>1, <1>2 DEF RefreshInit, Nothing, RefreshTypeOK, Steps, Contents

LEMMA EndedType ==
  ASSUME RefreshTypeOK, NEW p \in Executions, Ended(p)
  PROVE  /\ step' \in [Executions -> Steps]
         /\ unread' \in [Executions -> [Resources -> Contents]]
         /\ batch' \in [Executions -> SUBSET Resources]
         /\ differ' \in [Executions -> SUBSET Resources]
         /\ crossed' \in [Executions -> SUBSET Resources]
         /\ \A q \in Executions : differ'[q] \subseteq batch'[q]
BY DEF RefreshTypeOK, Ended, Steps, Nothing, Contents

LEMMA DoneType ==
  ASSUME RefreshTypeOK, NEW p \in Executions, Done(p)
  PROVE  /\ step' \in [Executions -> Steps]
         /\ unread' \in [Executions -> [Resources -> Contents]]
         /\ batch' \in [Executions -> SUBSET Resources]
         /\ differ' \in [Executions -> SUBSET Resources]
         /\ \A q \in Executions : differ'[q] \subseteq batch'[q]
BY DEF RefreshTypeOK, Done, Steps, Contents

LEMMA RefreshTypeStep == RefreshTypeOK /\ [RefreshNext]_refreshVars => RefreshTypeOK'
<1> SUFFICES ASSUME RefreshTypeOK, [RefreshNext]_refreshVars PROVE RefreshTypeOK'
  OBVIOUS
<1> USE DEF RefreshTypeOK, Contents, Steps
<1>1. ASSUME NEW p \in Executions, Begin(p) PROVE RefreshTypeOK'
  BY <1>1 DEF Begin, content, history
<1>2. ASSUME NEW p \in Executions, NEW S \in SUBSET Resources, Compare(p, S) PROVE RefreshTypeOK'
  BY <1>2 DEF Compare, content, history
<1>3. ASSUME NEW p \in Executions, Commit(p) PROVE RefreshTypeOK'
  <2>1. crossed' \in [Executions -> SUBSET Resources] /\ raced' \in SUBSET Resources
    BY <1>3 DEF Commit, Cross
  <2>2. changed' \in [Executions -> SUBSET Resources]
    <3>1. differ[p] \subseteq Resources
      OBVIOUS
    <3> QED
      BY <1>3, <3>1 DEF Commit
  <2>3. resource' \in [Resources -> Contents]
    BY <1>3 DEF Commit
  <2>4. UNCHANGED <<published, shown, succeeded, owed, failed>> /\ Done(p)
    BY <1>3 DEF Commit
  <2>5. /\ step' \in [Executions -> Steps]
        /\ unread' \in [Executions -> [Resources -> Contents]]
        /\ batch' \in [Executions -> SUBSET Resources]
        /\ differ' \in [Executions -> SUBSET Resources]
        /\ \A q \in Executions : differ'[q] \subseteq batch'[q]
    BY <2>4, DoneType
  <2> QED
    BY <2>1, <2>2, <2>3, <2>4, <2>5
<1>4. ASSUME NEW p \in Executions, CommitFails(p) PROVE RefreshTypeOK'
  <2>1. CASE Done(p)
    BY <1>4, <2>1, DoneType DEF CommitFails, content, history
  <2>2. CASE ~Done(p)
    BY <1>4, <2>2 DEF CommitFails, content, history
  <2> QED
    BY <2>1, <2>2
<1>5. ASSUME NEW p \in Executions, Imported(p) PROVE RefreshTypeOK'
  BY <1>5 DEF Imported, content, stream, history
<1>6. ASSUME NEW p \in Executions, NEW S \in SUBSET Resources, Refresh(p, S) PROVE RefreshTypeOK'
  BY <1>6 DEF Refresh, stream
<1>7. ASSUME NEW p \in Executions, RefreshFails(p) PROVE RefreshTypeOK'
  BY <1>7 DEF RefreshFails, content, stream
<1>8. ASSUME NEW p \in Executions, Succeed(p) PROVE RefreshTypeOK'
  BY <1>8, EndedType DEF Succeed, content, history
<1>9. ASSUME NEW p \in Executions, Stop(p) PROVE RefreshTypeOK'
  BY <1>9, EndedType DEF Stop, content
<1>10. ASSUME NEW rec \in Resources, NEW v \in Values, PushRecord(rec, v) PROVE RefreshTypeOK'
  BY <1>10 DEF PushRecord, stream, history
<1>11. ASSUME NEW rec \in Resources, Build(rec) PROVE RefreshTypeOK'
  BY <1>11 DEF Build, stream, history
<1>12. CASE Clear
  BY <1>12 DEF Clear, Nothing, stream, history
<1>13. CASE UNCHANGED refreshVars
  BY <1>13 DEF refreshVars, content, stream, history
<1> QED
  BY <1>1, <1>2, <1>3, <1>4, <1>5, <1>6, <1>7, <1>8, <1>9, <1>10, <1>11, <1>12, <1>13
     DEF RefreshNext, Execute

\* Every reachable state of the harvests and the representations is well typed; what
\* differs is always part of the batch at hand.
THEOREM RefreshTypeCorrect == RefreshSpec => []RefreshTypeOK
<1>1. RefreshInit => RefreshTypeOK
  BY RefreshTypeInit
<1>2. RefreshTypeOK /\ [RefreshNext]_refreshVars => RefreshTypeOK'
  BY RefreshTypeStep
<1> QED
  BY <1>1, <1>2, PTL DEF RefreshSpec

-----------------------------------------------------------------------------
(* What is known of old thumbnails.                                        *)

Known(rec) == rec \in owed \cup raced \/ \E p \in Executions : rec \in changed[p]

\* An execution at rest remembers nothing.
RestKnowsNothing == \A p \in Executions : step[p] = "idle" => changed[p] = {}

\* A row that no other execution has written is as it was when it was compared.
Compared ==
  \A p \in Executions : step[p] = "commit" =>
    \A rec \in batch[p] \ crossed[p] : rec \in differ[p] \/ Same(resource[rec], unread[p][rec])

KnownInv == RefreshTypeOK /\ RestKnowsNothing /\ Compared /\ OldThumbnailsAreKnown

LEMMA SameSelf == \A v \in Values : Same(v, v)
BY NoneAssumption DEF Same

LEMMA SameThrough ==
  \A u, v, w : Same(u, v) /\ Same(v, w) => Same(u, w)
BY DEF Same

LEMMA KnownInit == RefreshInit => KnownInv
<1> SUFFICES ASSUME RefreshInit PROVE KnownInv
  OBVIOUS
<1>1. RefreshTypeOK
  BY RefreshTypeInit
<1>2. RestKnowsNothing /\ Compared
  BY DEF RefreshInit, RestKnowsNothing, Compared
<1>3. OldThumbnailsAreKnown
  BY DEF RefreshInit, Nothing, OldThumbnailsAreKnown, OldThumbnail
<1> QED
  BY <1>1, <1>2, <1>3 DEF KnownInv

\* Nothing is forgotten by a step that leaves rows and representations alone.
LEMMA StillKnown ==
  ASSUME OldThumbnailsAreKnown, UNCHANGED <<resource, shown>>,
         \A rec \in Resources : Known(rec) => Known(rec)'
  PROVE  OldThumbnailsAreKnown'
BY DEF OldThumbnailsAreKnown, OldThumbnail, Known

LEMMA KnownStep == KnownInv /\ [RefreshNext]_refreshVars => KnownInv'
<1> SUFFICES ASSUME KnownInv, [RefreshNext]_refreshVars PROVE KnownInv'
  OBVIOUS
<1>0. RefreshTypeOK /\ RestKnowsNothing /\ Compared /\ OldThumbnailsAreKnown /\ RefreshTypeOK'
  BY RefreshTypeStep DEF KnownInv
<1> USE DEF KnownInv
<1>1. ASSUME NEW p \in Executions, Begin(p) PROVE KnownInv'
  <2>1. RestKnowsNothing'
    BY <1>0, <1>1 DEF Begin, RestKnowsNothing, RefreshTypeOK
  <2>2. Compared'
    BY <1>0, <1>1 DEF Begin, Compared, RefreshTypeOK, content
  <2>3. OldThumbnailsAreKnown'
    <3>1. changed' = changed
      BY <1>0, <1>1 DEF Begin, RestKnowsNothing, RefreshTypeOK
    <3> QED
      BY <1>0, <1>1, <3>1 DEF Begin, content, history, OldThumbnailsAreKnown, OldThumbnail
  <2> QED
    BY <1>0, <2>1, <2>2, <2>3
<1>2. ASSUME NEW p \in Executions, NEW S \in SUBSET Resources, Compare(p, S) PROVE KnownInv'
  <2>1. RestKnowsNothing'
    BY <1>0, <1>2 DEF Compare, RestKnowsNothing, RefreshTypeOK
  <2>2. Compared'
    BY <1>0, <1>2 DEF Compare, Compared, RefreshTypeOK, content, history
  <2>3. OldThumbnailsAreKnown'
    BY <1>0, <1>2, StillKnown DEF Compare, content, history, Known
  <2> QED
    BY <1>0, <2>1, <2>2, <2>3
<1>3. ASSUME NEW p \in Executions, Commit(p) PROVE KnownInv'
  <2>0. /\ step'[p] # "idle" /\ step'[p] # "commit"
        /\ \A q \in Executions : q # p =>
             /\ step'[q] = step[q] /\ unread'[q] = unread[q] /\ changed'[q] = changed[q]
             /\ batch'[q] = batch[q] /\ differ'[q] = differ[q]
             /\ crossed'[q] = crossed[q] \cup (batch[p] \cap batch[q])
    BY <1>0, <1>3 DEF Commit, Cross, Done, RefreshTypeOK
  <2>1. RestKnowsNothing'
    BY <1>0, <2>0 DEF RestKnowsNothing
  <2>2. Compared'
    <3>1. \A rec \in Resources : rec \notin batch[p] => resource'[rec] = resource[rec]
      BY <1>3 DEF Commit
    <3>2. \A q \in Executions : batch[q] \subseteq Resources
      BY <1>0 DEF RefreshTypeOK
    <3> QED
      BY <1>0, <2>0, <3>1, <3>2 DEF Compared
  <2>3. OldThumbnailsAreKnown'
    <3> SUFFICES ASSUME NEW rec \in Resources, OldThumbnail(rec)'
                 PROVE  Known(rec)'
      BY DEF OldThumbnailsAreKnown, Known
    <3>1. CASE OldThumbnail(rec)
      <4>1. Known(rec)
        BY <1>0, <3>1 DEF OldThumbnailsAreKnown, Known
      <4>2. /\ owed' = owed /\ raced \subseteq raced'
            /\ \A q \in Executions : changed[q] \subseteq changed'[q]
        BY <1>0, <1>3 DEF Commit, Cross, RefreshTypeOK
      <4> QED
        BY <4>1, <4>2 DEF Known
    <3>2. CASE ~OldThumbnail(rec)
      <4>1. shown[rec] # None /\ Same(shown[rec], resource[rec]) /\ ~Same(shown[rec], resource'[rec])
        BY <1>3, <3>2 DEF Commit, OldThumbnail
      <4>2. rec \in batch[p] /\ resource'[rec] = unread[p][rec]
        BY <1>0, <1>3, <4>1 DEF Commit, RefreshTypeOK
      <4>3. ~Same(resource[rec], unread[p][rec])
        BY <4>1, <4>2, SameThrough
      <4>4. rec \in differ[p] \cup crossed[p]
        BY <1>0, <1>3, <4>2, <4>3 DEF Compared, Commit
      <4>5. rec \in changed'[p] \/ rec \in raced'
        BY <1>0, <1>3, <4>4 DEF Commit, Cross, RefreshTypeOK
      <4> QED
        BY <4>5 DEF Known
    <3> QED
      BY <3>1, <3>2
  <2> QED
    BY <1>0, <2>1, <2>2, <2>3
<1>4. ASSUME NEW p \in Executions, CommitFails(p) PROVE KnownInv'
  <2>0. /\ step'[p] = "import" /\ UNCHANGED <<resource, changed>>
        /\ \A q \in Executions : q # p =>
             /\ step'[q] = step[q] /\ unread'[q] = unread[q] /\ crossed'[q] = crossed[q]
             /\ batch'[q] = batch[q] /\ differ'[q] = differ[q]
    BY <1>0, <1>4 DEF CommitFails, Done, RefreshTypeOK, content
  <2>1. RestKnowsNothing'
    BY <1>0, <2>0 DEF RestKnowsNothing
  <2>2. Compared'
    BY <1>0, <2>0 DEF Compared
  <2>3. OldThumbnailsAreKnown'
    BY <1>0, <1>4, StillKnown DEF CommitFails, content, history, Known
  <2> QED
    BY <1>0, <2>1, <2>2, <2>3
<1>5. ASSUME NEW p \in Executions, Imported(p) PROVE KnownInv'
  <2>1. RestKnowsNothing'
    BY <1>0, <1>5 DEF Imported, RestKnowsNothing, RefreshTypeOK
  <2>2. Compared'
    BY <1>0, <1>5 DEF Imported, Compared, RefreshTypeOK, content, stream, history
  <2>3. OldThumbnailsAreKnown'
    BY <1>0, <1>5, StillKnown DEF Imported, content, history, Known
  <2> QED
    BY <1>0, <2>1, <2>2, <2>3
<1>6. ASSUME NEW p \in Executions, NEW S \in SUBSET Resources, Refresh(p, S) PROVE KnownInv'
  <2>1. RestKnowsNothing'
    BY <1>0, <1>6 DEF Refresh, RestKnowsNothing, RefreshTypeOK
  <2>2. Compared'
    BY <1>0, <1>6 DEF Refresh, Compared, stream
  <2>3. OldThumbnailsAreKnown'
    <3> SUFFICES ASSUME NEW rec \in Resources, OldThumbnail(rec)'
                 PROVE  Known(rec)'
      BY DEF OldThumbnailsAreKnown, Known
    <3>1. rec \notin S /\ OldThumbnail(rec)
      BY <1>6 DEF Refresh, OldThumbnail
    <3>2. Known(rec)
      BY <1>0, <3>1 DEF OldThumbnailsAreKnown, Known
    <3> QED
      BY <1>0, <1>6, <3>1, <3>2 DEF Refresh, Known, RefreshTypeOK
  <2> QED
    BY <1>0, <2>1, <2>2, <2>3
<1>7. ASSUME NEW p \in Executions, RefreshFails(p) PROVE KnownInv'
  <2>1. RestKnowsNothing'
    BY <1>0, <1>7 DEF RefreshFails, RestKnowsNothing, RefreshTypeOK
  <2>2. Compared'
    BY <1>0, <1>7 DEF RefreshFails, Compared, content, stream
  <2>3. \A rec \in Resources : Known(rec) => Known(rec)'
    BY <1>0, <1>7 DEF RefreshFails, Known, RefreshTypeOK
  <2>4. OldThumbnailsAreKnown'
    BY <1>0, <1>7, <2>3, StillKnown DEF RefreshFails, content
  <2> QED
    BY <1>0, <2>1, <2>2, <2>4
<1>8. ASSUME NEW p \in Executions, Succeed(p) \/ Stop(p) PROVE KnownInv'
  <2>1. RestKnowsNothing'
    <3>1. changed'[p] = {}
      BY <1>0, <1>8 DEF Succeed, Stop, RefreshTypeOK
    <3>2. \A q \in Executions : q # p => step'[q] = step[q] /\ changed'[q] = changed[q]
      BY <1>0, <1>8, ZenonT(60) DEF Succeed, Stop, Ended, RefreshTypeOK
    <3> QED
      BY <1>0, <3>1, <3>2 DEF RestKnowsNothing
  <2>2. Compared'
    <3>1. UNCHANGED resource
          /\ \A q \in Executions : /\ (step'[q] # "idle" => step[q] # "idle")
                                   /\ (step'[q] = "commit" =>
                                         /\ step[q] = "commit" /\ unread'[q] = unread[q]
                                         /\ batch'[q] = batch[q] /\ differ'[q] = differ[q]
                                         /\ crossed'[q] = crossed[q])
      BY <1>0, <1>8, ZenonT(60) DEF Succeed, Stop, Ended, RefreshTypeOK, content, history
    <3> QED
      BY <1>0, <3>1 DEF Compared
  <2>3. \A rec \in Resources : Known(rec) => Known(rec)'
    <3>1. CASE Succeed(p)
      BY <3>1 DEF Succeed, history, Known
    <3>2. CASE Stop(p)
      BY <1>0, <3>2 DEF Stop, Known, RefreshTypeOK
    <3> QED
      BY <1>8, <3>1, <3>2
  <2>4. OldThumbnailsAreKnown'
    BY <1>0, <1>8, <2>3, StillKnown DEF Succeed, Stop, content, history
  <2> QED
    BY <1>0, <2>1, <2>2, <2>4
<1>9. ASSUME NEW rec \in Resources, NEW v \in Values, PushRecord(rec, v) PROVE KnownInv'
  <2>1. RestKnowsNothing' /\ Compared'
    BY <1>0, <1>9 DEF PushRecord, stream, history, RestKnowsNothing, Compared
  <2>2. OldThumbnailsAreKnown'
    BY <1>0, <1>9, StillKnown DEF PushRecord, history, Known
  <2> QED
    BY <1>0, <2>1, <2>2
<1>10. ASSUME NEW rec \in Resources, Build(rec) PROVE KnownInv'
  <2>1. RestKnowsNothing' /\ Compared'
    BY <1>0, <1>10 DEF Build, stream, history, RestKnowsNothing, Compared
  <2>2. \A r \in Resources : OldThumbnail(r)' => OldThumbnail(r)
    <3>1. resource[rec] \in Values /\ shown'[rec] = resource[rec] /\ resource' = resource
      BY <1>0, <1>10 DEF Build, RefreshTypeOK, Contents
    <3>2. ~OldThumbnail(rec)'
      BY <3>1, SameSelf DEF OldThumbnail
    <3>3. \A r \in Resources : r # rec => shown'[r] = shown[r]
      BY <1>0, <1>10 DEF Build, RefreshTypeOK
    <3> QED
      BY <3>1, <3>2, <3>3 DEF OldThumbnail
  <2>3. OldThumbnailsAreKnown'
    BY <1>0, <1>10, <2>2 DEF Build, history, OldThumbnailsAreKnown
  <2> QED
    BY <1>0, <2>1, <2>3
<1>11. CASE Clear
  <2>1. RestKnowsNothing' /\ Compared'
    BY <1>0, <1>11 DEF Clear, stream, history, RestKnowsNothing, Compared
  <2>2. OldThumbnailsAreKnown'
    BY <1>0, <1>11 DEF Clear, Nothing, OldThumbnailsAreKnown, OldThumbnail
  <2> QED
    BY <1>0, <2>1, <2>2
<1>12. CASE UNCHANGED refreshVars
  BY <1>0, <1>12 DEF refreshVars, content, stream, history, RestKnowsNothing, Compared,
       OldThumbnailsAreKnown, OldThumbnail
<1> QED
  BY <1>1, <1>2, <1>3, <1>4, <1>5, <1>6, <1>7, <1>8, <1>9, <1>10, <1>11, <1>12
     DEF RefreshNext, Execute

\* However executions overlap, no record with an old thumbnail is forgotten but by the
\* death or failure of the execution that knew it, or by one whose comparison was crossed.
THEOREM NoneForgotten == RefreshSpec => []OldThumbnailsAreKnown
<1>1. RefreshInit => KnownInv
  BY KnownInit
<1>2. KnownInv /\ [RefreshNext]_refreshVars => KnownInv'
  BY KnownStep
<1>3. KnownInv => OldThumbnailsAreKnown
  BY DEF KnownInv
<1> QED
  BY <1>1, <1>2, <1>3, PTL DEF RefreshSpec
=============================================================================
