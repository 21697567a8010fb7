--------------------------- MODULE BridgeBatches ---------------------------
(***************************************************************************)
(* A batched bridge sync (services/bridge_sync/batched.py): one task lists *)
(* the resources, opens a run and queues a task per batch; every batch     *)
(* task fetches its records, imports them and adds its counts to the run's *)
(* row under a row lock; the one that completes the count closes the run.  *)
(* Other syncs cancel the run, messages are delivered again, workers die.  *)
(*                                                                         *)
(* Abstractions: one run; a batch is its number; whether it had errors, or *)
(* records without an id, is a flag of its result; a record the bridge no  *)
(* longer has is marked missing and retired, which is no error, and counts *)
(* as brought over; what only the progress display reads (stage, samples,  *)
(* batches_queued) is left out.                                            *)
(***************************************************************************)
EXTENDS Integers, FiniteSets

CONSTANTS MaxBatches,     \* bound: batches of the run
          MaxDeliveries   \* bound: times the message of a batch is delivered

ASSUME BatchesAssumption == MaxBatches \in Nat /\ MaxDeliveries \in Nat \ {0}

Batches == 1 .. MaxBatches
Copies == Batches \X (1 .. MaxDeliveries)

VARIABLES
  status,  \* bridge_status of the run's row
  total,   \* total_batches (MaxBatches until the resources are listed)
  counts,  \* batches_completed and batches_failed in the row, and whether errors # 0, skipped # 0
  enq,     \* what the enqueuing task is about to do
  next,    \* the batch it is queueing
  reread,    \* the counts it has read back after an error
  copy,    \* copy[<<b, d>>]: state of the d-th delivery of batch b
  done,    \* history: batches whose records have all been imported
  passed   \* history: batches imported except for records that have no id

batchVars == <<status, total, counts, enq, next, reread, copy, done, passed>>

Statuses == {"none", "running", "success", "failed", "cancelled"}
EnqSteps == {"create", "cancelOthers", "list", "close", "enqueue", "note", "readRun", "fail",
             "end", "dead"}
CopyStates == {"none", "queued", "working", "clean", "skips", "errors", "failed",
               "countedClean", "countedBad", "ended", "lost"}
Counts == [completed : 0 .. MaxBatches, failed : 0 .. MaxBatches, errors : BOOLEAN,
           skipped : BOOLEAN]
Zero == [completed |-> 0, failed |-> 0, errors |-> FALSE, skipped |-> FALSE]

BatchTypeOK ==
  /\ status \in Statuses
  /\ total \in 0 .. MaxBatches
  /\ counts \in Counts
  /\ enq \in EnqSteps
  /\ next \in 1 .. MaxBatches + 1
  /\ reread \in Counts
  /\ copy \in [Copies -> CopyStates]
  /\ done \in SUBSET Batches
  /\ passed \in SUBSET Batches

BatchInit ==
  /\ status = "none"
  /\ total = MaxBatches
  /\ counts = Zero
  /\ enq = "create"
  /\ next = 1
  /\ reread = Zero
  /\ copy = [x \in Copies |-> "none"]
  /\ done = {}
  /\ passed = {}

-----------------------------------------------------------------------------
(* The enqueuing task.                                                     *)

CreateSyncRun ==
  /\ enq = "create"
  /\ status' = "running"
  /\ enq' = "cancelOthers"
  /\ UNCHANGED <<total, counts, next, reread, copy, done, passed>>

\* cancel_other_running_runs leaves this run's row alone.
CancelOthers ==
  /\ enq = "cancelOthers"
  /\ enq' = "list"
  /\ UNCHANGED <<status, total, counts, next, reread, copy, done, passed>>

ListResources ==
  /\ enq = "list"
  /\ total' \in 0 .. MaxBatches
  /\ counts' = Zero
  /\ enq' = IF total' = 0 THEN "close" ELSE "enqueue"
  /\ UNCHANGED <<status, next, reread, copy, done, passed>>

\* Nothing to do.
CloseEmpty ==
  /\ enq = "close"
  /\ status' = "success"
  /\ enq' = "end"
  /\ UNCHANGED <<total, counts, next, reread, copy, done, passed>>

EnqueueBatch ==
  /\ enq = "enqueue"
  /\ copy' = [copy EXCEPT ![<<next, 1>>] = "queued"]
  /\ enq' = "note"
  /\ UNCHANGED <<status, total, counts, next, reread, done, passed>>

\* Mutant of NoteQueued: the last batch is forgotten.
NoteQueuedEarly ==
  /\ enq = "note"
  /\ next' = next + 1
  /\ enq' = IF next + 1 < total THEN "enqueue" ELSE "end"
  /\ UNCHANGED <<status, total, counts, reread, copy, done, passed>>

\* record_batched_batches_queued keeps the counts of batches that have reported.
NoteQueued ==
  /\ enq = "note"
  /\ next' = next + 1
  /\ enq' = IF next < total THEN "enqueue" ELSE "end"
  /\ UNCHANGED <<status, total, counts, reread, copy, done, passed>>

EnqueueRaises ==
  /\ enq \in {"enqueue", "note"}
  /\ enq' = "readRun"
  /\ UNCHANGED <<status, total, counts, next, reread, copy, done, passed>>

ReadRun ==
  /\ enq = "readRun"
  /\ reread' = counts
  /\ enq' = "fail"
  /\ UNCHANGED <<status, total, counts, next, copy, done, passed>>

\* Whatever the row says now.
FailRun ==
  /\ enq = "fail"
  /\ status' = "failed"
  /\ counts' = [reread EXCEPT !.errors = TRUE]
  /\ enq' = "end"
  /\ UNCHANGED <<total, next, reread, copy, done, passed>>

\* The worker is killed, or an error comes where the code does not catch it.
EnqueuerDies ==
  /\ enq \notin {"create", "end", "dead"}
  /\ enq' = "dead"
  /\ UNCHANGED <<status, total, counts, next, reread, copy, done, passed>>

Enqueuer ==
  \/ CreateSyncRun \/ CancelOthers \/ ListResources \/ CloseEmpty \/ EnqueueBatch
  \/ NoteQueued \/ ReadRun \/ FailRun

\* Another sync starts, or the operator cancels all running ones.
Supersede ==
  /\ status = "running"
  /\ status' = "cancelled"
  /\ UNCHANGED <<total, counts, enq, next, reread, copy, done, passed>>

-----------------------------------------------------------------------------
(* The batch tasks.                                                        *)

Turn(x, state) == copy' = [copy EXCEPT ![x] = state]

\* A batch of a run that has ended is skipped.
BeginBatch(x) ==
  /\ copy[x] = "queued"
  /\ Turn(x, IF status = "running" THEN "working" ELSE "ended")
  /\ UNCHANGED <<status, total, counts, enq, next, reread, done, passed>>

\* All records are fetched and imported, those without an id are passed over, some end in an
\* error, or the task raises.
ImportBatch(x) ==
  /\ copy[x] = "working"
  /\ \/ Turn(x, "clean") /\ done' = done \cup {x[1]} /\ UNCHANGED passed
     \/ Turn(x, "skips") /\ passed' = passed \cup {x[1]} /\ UNCHANGED done
     \/ Turn(x, "errors") /\ UNCHANGED <<done, passed>>
     \/ Turn(x, "failed") /\ UNCHANGED <<done, passed>>
  /\ UNCHANGED <<status, total, counts, enq, next, reread>>

Add(c, state) ==
  [completed |-> IF state = "failed" THEN c.completed ELSE c.completed + 1,
   failed |-> IF state = "failed" THEN c.failed + 1 ELSE c.failed,
   errors |-> c.errors \/ state \in {"errors", "failed"},
   skipped |-> c.skipped \/ state = "skips"]

\* A record passed over is no error: the batch counts as any other.
Counted(state) == IF state \in {"clean", "skips"} THEN "countedClean" ELSE "countedBad"

Final(c) == IF c.failed # 0 \/ c.errors THEN "failed" ELSE "success"

\* Mutant of RecordBatch: the run's status is not looked at.
RecordAnyway(x) ==
  /\ copy[x] \in {"clean", "skips", "errors", "failed"}
  /\ counts' = Add(counts, copy[x])
  /\ status' = IF counts'.completed + counts'.failed >= total THEN Final(counts') ELSE status
  /\ Turn(x, Counted(copy[x]))
  /\ UNCHANGED <<total, enq, next, reread, done, passed>>

\* Mutant of RecordBatch: a failed batch counts as completed.
RecordAsCompleted(x) ==
  /\ copy[x] \in {"clean", "skips", "errors", "failed"}
  /\ IF status # "running"
     THEN Turn(x, "ended") /\ UNCHANGED <<status, counts>>
     ELSE /\ counts' = Add(counts, "clean")
          /\ status' = IF counts'.completed + counts'.failed >= total THEN Final(counts')
                       ELSE status
          /\ Turn(x, Counted(copy[x]))
  /\ UNCHANGED <<total, enq, next, reread, done, passed>>

\* record_batched_batch_result, in one transaction under the row's lock.
RecordBatch(x) ==
  /\ copy[x] \in {"clean", "skips", "errors", "failed"}
  /\ IF status # "running"
     THEN Turn(x, "ended") /\ UNCHANGED <<status, counts>>
     ELSE /\ counts' = Add(counts, copy[x])
          /\ status' = IF counts'.completed + counts'.failed >= total THEN Final(counts')
                       ELSE status
          /\ Turn(x, Counted(copy[x]))
  /\ UNCHANGED <<total, enq, next, reread, done, passed>>

\* The transaction is rolled back: the task reports a failure instead, once.
RecordRaises(x) ==
  /\ copy[x] \in {"clean", "skips", "errors", "failed"}
  /\ Turn(x, IF copy[x] = "failed" THEN "lost" ELSE "failed")
  /\ UNCHANGED <<status, total, counts, enq, next, reread, done, passed>>

\* The worker process is killed.
Kill(x) ==
  /\ copy[x] \in {"working", "clean", "skips", "errors", "failed"}
  /\ Turn(x, "lost")
  /\ UNCHANGED <<status, total, counts, enq, next, reread, done, passed>>

\* A message that was not acknowledged in time is delivered once more.
Redeliver(x) ==
  /\ x[2] > 1
  /\ copy[x] = "none"
  /\ copy[<<x[1], x[2] - 1>>] # "none"
  /\ Turn(x, "queued")
  /\ UNCHANGED <<status, total, counts, enq, next, reread, done, passed>>

BatchTask(x) == BeginBatch(x) \/ ImportBatch(x) \/ RecordBatch(x)

BatchNext ==
  \/ Enqueuer \/ EnqueueRaises \/ EnqueuerDies \/ Supersede
  \/ \E x \in Copies : BatchTask(x) \/ RecordRaises(x) \/ Kill(x) \/ Redeliver(x)

\* Started tasks go on; nothing says when others cancel, fail, die or are redelivered.
BatchFairness == WF_batchVars(Enqueuer) /\ \A x \in Copies : WF_batchVars(BatchTask(x))

BatchSpec == BatchInit /\ [][BatchNext]_batchVars
FairBatchSpec == BatchSpec /\ BatchFairness

-----------------------------------------------------------------------------
(* Properties.                                                             *)

Size == 1 .. total
OnceEach == \A x \in Copies : x[2] > 1 => copy[x] = "none"
Lossless == enq # "dead" /\ \A x \in Copies : copy[x] # "lost"

\* When no message came twice, a run that says success has imported every record that has an
\* id, and every record without exception unless its row counts records as skipped.
SuccessMeansDone ==
  status = "success" /\ OnceEach
    => IF counts.skipped THEN Size \subseteq done \cup passed ELSE Size \subseteq done

\* A run none of whose tasks is lost is closed in the end.
RunSettles == []Lossless => <>(status \notin {"none", "running"})

\* As long as no message has come twice, the run's row behaves as BridgeRun promises.
Promise == INSTANCE BridgeRun
  WITH outcome <- status,
       left <- {b \in Size : copy[<<b, 1>>] \notin {"countedClean", "countedBad"}},
       clean <- \A b \in Batches : copy[<<b, 1>>] # "countedBad"
KeepsPromise == Promise!Init /\ [][OnceEach' => [Promise!Next]_(Promise!vars)]_batchVars

\* A run that says success, and counts no record as skipped, has imported every record.
SuccessMeansComplete == status = "success" /\ ~counts.skipped => Size \subseteq done
=============================================================================
