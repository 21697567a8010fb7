--------------------------- MODULE BridgeProofs -----------------------------
(***************************************************************************)
(* Proofs about BridgeBatches, for any number of batches and deliveries,   *)
(* and about BridgeRetire, for any records and syncs.                      *)
(***************************************************************************)
EXTENDS BridgeBatches, BridgeRetire, FiniteSetTheorems, TLAPS

(* BridgeBatches.                                                          *)

Counter == {"countedClean", "countedBad"}
Reporting == {"clean", "skips", "errors", "failed"}

NoCopy == \A x \in Copies : copy[x] = "none"
Reported == {b \in Batches : copy[<<b, 1>>] \in Counter}
AllClean == \A b \in Batches : copy[<<b, 1>>] # "countedBad"

\* The enqueuing task: it lists before it queues, and queues what it has listed.
EnqInv ==
  /\ enq = "create" <=> status = "none"
  /\ enq \in {"create", "cancelOthers", "list", "close"} => NoCopy /\ counts = Zero
  /\ enq \in {"create", "cancelOthers", "list"} => total = MaxBatches
  /\ enq \in {"create", "cancelOthers", "list", "close"} => next = 1
  /\ enq \in {"create", "cancelOthers", "list"} => status # "success"
  /\ enq = "close" => total = 0
  /\ enq \in {"enqueue", "note"} => next <= total
  /\ NoCopy => counts.completed = 0 /\ counts.failed = 0
  /\ NoCopy => reread.completed = 0 /\ reread.failed = 0

\* A running run has room for one more report.
Room == status = "running" /\ ~NoCopy => counts.completed + counts.failed < total

\* Batches are those listed and queued so far; one that reports no error has imported its
\* records, but for those without an id, and the row of a run under way counts those as skipped.
BatchInv ==
  /\ \A x \in Copies : copy[x] # "none" => x[1] <= total /\ x[1] <= next
  /\ enq = "enqueue" => \A x \in Copies : copy[x] # "none" => x[1] < next
  /\ \A x \in Copies : copy[x] \in {"clean", "skips", "countedClean"} => x[1] \in done \cup passed
  /\ \A x \in Copies : copy[x] = "clean" => x[1] \in done
  /\ status \in {"running", "success"}
       => \A x \in Copies : copy[x] = "countedClean" => x[1] \in done \/ counts.skipped

LEMMA CopyTurn ==
  ASSUME BatchTypeOK, NEW x \in Copies, NEW s \in CopyStates, Turn(x, s)
  PROVE  /\ copy' \in [Copies -> CopyStates]
         /\ copy'[x] = s
         /\ \A y \in Copies : y # x => copy'[y] = copy[y]
BY DEF BatchTypeOK, Turn

LEMMA First == MaxDeliveries \in Nat \ {0} /\ \A b \in Batches : <<b, 1>> \in Copies
BY BatchesAssumption DEF Copies

LEMMA InitInv == BatchInit => BatchTypeOK /\ EnqInv /\ Room /\ BatchInv
<1> SUFFICES ASSUME BatchInit PROVE BatchTypeOK /\ EnqInv /\ Room /\ BatchInv
  OBVIOUS
<1>1. BatchTypeOK
  BY BatchesAssumption DEF BatchInit, BatchTypeOK, Statuses, EnqSteps, CopyStates, Counts, Zero
<1>2. NoCopy
  BY DEF BatchInit, NoCopy
<1>3. EnqInv
  BY <1>2 DEF BatchInit, EnqInv, Zero
<1> QED
  BY <1>1, <1>2, <1>3 DEF BatchInit, Room, BatchInv

-----------------------------------------------------------------------------
(* The steps of the enqueuing task.                                        *)

LEMMA EnqueueStep ==
  ASSUME BatchTypeOK, EnqInv, EnqueueBatch
  PROVE  /\ <<next, 1>> \in Copies
         /\ copy' \in [Copies -> CopyStates]
         /\ copy'[<<next, 1>>] = "queued"
         /\ \A y \in Copies : y # <<next, 1>> => copy'[y] = copy[y]
         /\ ~NoCopy'
<1>1. next \in Batches
  BY BatchesAssumption DEF EnqInv, EnqueueBatch, BatchTypeOK, Batches
<1>2. <<next, 1>> \in Copies
  BY <1>1, First
<1>3. copy' = [copy EXCEPT ![<<next, 1>>] = "queued"]
  BY DEF EnqueueBatch
<1>4. copy' \in [Copies -> CopyStates] /\ copy'[<<next, 1>>] = "queued"
  BY <1>2, <1>3 DEF BatchTypeOK, CopyStates
<1> QED
  BY <1>2, <1>3, <1>4 DEF BatchTypeOK, NoCopy

LEMMA EnqueuerStep ==
  ASSUME BatchTypeOK, EnqInv, Room, BatchInv, Enqueuer \/ EnqueueRaises \/ EnqueuerDies
  PROVE  BatchTypeOK' /\ EnqInv' /\ Room' /\ BatchInv'
<1> USE BatchesAssumption
<1>1. CASE CreateSyncRun \/ CancelOthers
  <2>1. BatchTypeOK'
    BY <1>1 DEF BatchTypeOK, CreateSyncRun, CancelOthers, Statuses, EnqSteps
  <2>2. NoCopy /\ NoCopy'
    BY <1>1 DEF EnqInv, CreateSyncRun, CancelOthers, NoCopy
  <2>3. BatchInv'
    BY <2>2 DEF NoCopy, BatchInv
  <2> QED
    BY <1>1, <2>1, <2>2, <2>3 DEF EnqInv, Room, CreateSyncRun, CancelOthers
<1>2. CASE ListResources
  <2>1. BatchTypeOK'
    BY <1>2 DEF BatchTypeOK, ListResources, EnqSteps, Counts, Zero
  <2>2. NoCopy /\ NoCopy'
    BY <1>2 DEF EnqInv, ListResources, NoCopy
  <2>3. next = 1 /\ total' \in 0 .. MaxBatches /\ (total' = 0 <=> enq' = "close")
        /\ enq' \in {"close", "enqueue"}
    BY <1>2 DEF ListResources, EnqInv
  <2>4. enq' = "enqueue" => next <= total'
    BY <2>3
  <2>5. status # "success" /\ status # "none"
    BY <1>2 DEF ListResources, EnqInv
  <2>6. EnqInv'
    BY <1>2, <2>1, <2>2, <2>3, <2>4, <2>5 DEF EnqInv, ListResources, Zero
  <2>7. BatchInv'
    BY <2>2 DEF NoCopy, BatchInv
  <2> QED
    BY <2>1, <2>2, <2>6, <2>7 DEF Room
<1>3. CASE CloseEmpty
  <2>1. BatchTypeOK'
    BY <1>3 DEF BatchTypeOK, CloseEmpty, EnqSteps, Statuses
  <2>2. NoCopy /\ NoCopy'
    BY <1>3 DEF EnqInv, CloseEmpty, NoCopy
  <2>3. BatchInv'
    BY <2>2 DEF NoCopy, BatchInv
  <2> QED
    BY <1>3, <2>1, <2>2, <2>3 DEF EnqInv, Room, CloseEmpty
<1>4. CASE EnqueueBatch
  <2>1. BatchTypeOK'
    BY <1>4, EnqueueStep DEF BatchTypeOK, EnqueueBatch, EnqSteps
  <2>2. EnqInv'
    BY <1>4, EnqueueStep DEF EnqInv, EnqueueBatch
  <2>3. Room'
    <3>1. next <= total /\ next \in 1 .. MaxBatches + 1 /\ total \in 0 .. MaxBatches
      BY <1>4 DEF EnqInv, EnqueueBatch, BatchTypeOK
    <3>2. NoCopy => counts.completed + counts.failed < total
      BY <3>1 DEF EnqInv
    <3> QED
      BY <1>4, <3>2 DEF Room, EnqueueBatch
  <2>4. BatchInv'
    <3>1. next <= total /\ next \in Int
      BY <1>4 DEF EnqInv, EnqueueBatch, BatchTypeOK
    <3>2. /\ UNCHANGED <<status, total, counts, next, done, passed>>
          /\ enq' = "note"
      BY <1>4 DEF EnqueueBatch
    <3>3. \A x \in Copies : copy'[x] # "none" => x[1] <= total' /\ x[1] <= next'
      BY <1>4, <3>1, <3>2, EnqueueStep DEF BatchInv
    <3>4. \A x \in Copies : copy'[x] \in {"clean", "skips", "countedClean"} => copy'[x] = copy[x]
      BY <1>4, EnqueueStep
    <3> QED
      BY <3>2, <3>3, <3>4 DEF BatchInv
  <2> QED
    BY <2>1, <2>2, <2>3, <2>4
<1>5. CASE NoteQueued
  <2>1. next + 1 \in 1 .. MaxBatches + 1 /\ (next < total => next + 1 <= total)
    BY <1>5 DEF NoteQueued, EnqInv, BatchTypeOK
  <2>2. BatchTypeOK'
    BY <1>5, <2>1 DEF BatchTypeOK, NoteQueued, EnqSteps
  <2>3. NoCopy' <=> NoCopy
    BY <1>5 DEF NoteQueued, NoCopy
  <2>4. BatchInv'
    <3>1. \A x \in Copies : x[1] \in Int
      BY DEF Copies, Batches
    <3>2. next \in Int /\ total \in Int
      BY DEF BatchTypeOK
    <3>3. \A x \in Copies : x[1] <= next => x[1] < next + 1 /\ x[1] <= next + 1
      BY <3>1, <3>2
    <3> QED
      BY <1>5, <3>3 DEF BatchInv, NoteQueued
  <2> QED
    BY <1>5, <2>1, <2>2, <2>3, <2>4 DEF EnqInv, Room, NoteQueued
<1>6. CASE ReadRun \/ EnqueueRaises \/ EnqueuerDies
  <2>1. BatchTypeOK'
    BY <1>6 DEF BatchTypeOK, ReadRun, EnqueueRaises, EnqueuerDies, EnqSteps
  <2>2. NoCopy' <=> NoCopy
    BY <1>6 DEF ReadRun, EnqueueRaises, EnqueuerDies, NoCopy
  <2> QED
    BY <1>6, <2>1, <2>2 DEF EnqInv, Room, BatchInv, ReadRun, EnqueueRaises, EnqueuerDies
<1>7. CASE FailRun
  <2>1. counts' \in Counts /\ counts'.completed = reread.completed /\ counts'.failed = reread.failed
    BY <1>7 DEF FailRun, BatchTypeOK, Counts
  <2>2. BatchTypeOK'
    BY <1>7, <2>1 DEF BatchTypeOK, FailRun, Statuses, EnqSteps
  <2>3. NoCopy' <=> NoCopy
    BY <1>7 DEF FailRun, NoCopy
  <2> QED
    BY <1>7, <2>1, <2>2, <2>3 DEF EnqInv, Room, BatchInv, FailRun
<1> QED
  BY <1>1, <1>2, <1>3, <1>4, <1>5, <1>6, <1>7 DEF Enqueuer

-----------------------------------------------------------------------------
(* The steps of a batch task.                                              *)

LEMMA AddCounts ==
  ASSUME BatchTypeOK, EnqInv, Room, status = "running", NEW x \in Copies, copy[x] \in Reporting
  PROVE  LET c == Add(counts, copy[x])
         IN /\ c \in Counts
            /\ c.completed + c.failed = counts.completed + counts.failed + 1
            /\ c.completed + c.failed <= total
<1> DEFINE c == Add(counts, copy[x])
<1>1. ~NoCopy
  BY DEF NoCopy, Reporting
<1>2. counts.completed + counts.failed < total
  BY <1>1 DEF Room
<1>3. /\ counts.completed \in 0 .. MaxBatches /\ counts.failed \in 0 .. MaxBatches
      /\ total \in 0 .. MaxBatches /\ counts.errors \in BOOLEAN /\ counts.skipped \in BOOLEAN
  BY DEF BatchTypeOK, Counts
<1>4. c.errors \in BOOLEAN /\ c.skipped \in BOOLEAN
  BY <1>3 DEF Add
<1>5. /\ c.completed \in 0 .. MaxBatches /\ c.failed \in 0 .. MaxBatches
      /\ c.completed + c.failed = counts.completed + counts.failed + 1
  BY <1>2, <1>3, BatchesAssumption DEF Add
<1>6. c = [completed |-> c.completed, failed |-> c.failed, errors |-> c.errors,
           skipped |-> c.skipped]
  BY DEF Add
<1>7. c \in Counts
  BY <1>4, <1>5, <1>6 DEF Counts
<1> QED
  BY <1>2, <1>3, <1>5, <1>7, BatchesAssumption

LEMMA RecordStep ==
  ASSUME BatchTypeOK, EnqInv, Room, BatchInv, NEW x \in Copies, RecordBatch(x)
  PROVE  BatchTypeOK' /\ EnqInv' /\ Room' /\ BatchInv'
<1>0. copy[x] \in Reporting /\ copy[x] # "none"
  BY DEF RecordBatch, Reporting
<1>1. ~NoCopy
  BY <1>0 DEF NoCopy
<1>2. CASE status # "running"
  <2>1. Turn(x, "ended") /\ "ended" \in CopyStates /\ UNCHANGED <<status, counts>>
    BY <1>2 DEF RecordBatch, CopyStates
  <2>2. ~NoCopy'
    BY <2>1, CopyTurn DEF NoCopy
  <2>3. BatchTypeOK'
    BY <2>1, CopyTurn DEF BatchTypeOK, RecordBatch
  <2>4. BatchInv'
    BY <1>0, <2>1, CopyTurn DEF BatchInv, RecordBatch
  <2> QED
    BY <1>1, <2>1, <2>2, <2>3, <2>4 DEF EnqInv, Room, RecordBatch
<1>3. CASE status = "running"
  <2>1. /\ counts' = Add(counts, copy[x])
        /\ status' = IF counts'.completed + counts'.failed >= total THEN Final(counts') ELSE status
        /\ Turn(x, Counted(copy[x]))
        /\ Counted(copy[x]) \in CopyStates
    BY <1>3 DEF RecordBatch, Counted, CopyStates
  <2>2. counts' \in Counts /\ counts'.completed + counts'.failed <= total
    BY <1>0, <1>3, <2>1, AddCounts
  <2>3. status' \in {"running", "success", "failed"}
    BY <1>3, <2>1 DEF Final
  <2>4. copy'[x] \in Counter /\ copy'[x] # "none"
    BY <2>1, CopyTurn DEF Counted, Counter
  <2>5. ~NoCopy'
    BY <2>4 DEF NoCopy
  <2>6. BatchTypeOK'
    BY <2>1, <2>2, <2>3, CopyTurn DEF BatchTypeOK, RecordBatch, Statuses
  <2>7. BatchInv'
    <3>1. UNCHANGED <<total, enq, next, done, passed>>
      BY DEF RecordBatch
    <3>2. copy[x] \in {"clean", "skips"} \/ copy'[x] = "countedBad"
      BY <2>1, CopyTurn DEF Counted
    <3>3. counts'.skipped = (counts.skipped \/ copy[x] = "skips")
      BY <2>1 DEF Add
    <3>4. /\ \A y \in Copies : y # x => copy'[y] = copy[y]
          /\ copy'[x] \in Counter
      BY <2>1, <2>4, CopyTurn
    <3>5. \A y \in Copies : copy'[y] = "countedClean" => y[1] \in done \/ counts'.skipped
      BY <1>3, <3>2, <3>3, <3>4 DEF BatchInv
    <3>6. \A y \in Copies : copy'[y] \in {"clean", "skips", "countedClean"} => y[1] \in done \cup passed
      BY <3>2, <3>4 DEF BatchInv, Counter
    <3>7. \A y \in Copies : copy'[y] = "clean" => y[1] \in done
      BY <3>4 DEF BatchInv, Counter
    <3>8. \A y \in Copies : copy'[y] # "none" => copy[y] # "none"
      BY <1>0, <3>4
    <3> QED
      BY <3>1, <3>5, <3>6, <3>7, <3>8 DEF BatchInv
  <2>8. Room'
    <3>1. counts'.completed \in Int /\ counts'.failed \in Int /\ total \in Int
      BY <2>2 DEF BatchTypeOK, Counts
    <3>2. status' = "running" => ~(counts'.completed + counts'.failed >= total)
      BY <2>1 DEF Final
    <3> QED
      BY <3>1, <3>2 DEF Room, RecordBatch
  <2>9. EnqInv'
    BY <1>1, <1>3, <2>3, <2>5 DEF EnqInv, RecordBatch
  <2> QED
    BY <2>6, <2>7, <2>8, <2>9
<1> QED
  BY <1>2, <1>3

LEMMA TaskStep ==
  ASSUME BatchTypeOK, EnqInv, Room, BatchInv, NEW x \in Copies,
         BeginBatch(x) \/ ImportBatch(x) \/ RecordRaises(x) \/ Kill(x) \/ Redeliver(x)
  PROVE  BatchTypeOK' /\ EnqInv' /\ Room' /\ BatchInv'
<1>1. /\ UNCHANGED <<status, total, counts, enq, next, reread>>
      /\ done \subseteq done' /\ done' \subseteq done \cup {x[1]}
      /\ passed \subseteq passed' /\ passed' \subseteq passed \cup {x[1]}
  BY DEF BeginBatch, ImportBatch, RecordRaises, Kill, Redeliver
<1>2. PICK s \in {"working", "ended", "clean", "skips", "errors", "failed", "lost", "queued"} :
        /\ Turn(x, s)
        /\ s = "clean" => x[1] \in done'
        /\ s = "skips" => x[1] \in passed'
  BY DEF BeginBatch, ImportBatch, RecordRaises, Kill, Redeliver
<1>3. s \in CopyStates /\ s # "none" /\ s # "countedClean"
  BY DEF CopyStates
<1>4. copy[x] # "none" \/ \E y \in Copies : y[1] = x[1] /\ copy[y] # "none"
  <2>1. CASE Redeliver(x)
    <3>1. x = <<x[1], x[2]>> /\ x[1] \in Batches /\ x[2] \in 1 .. MaxDeliveries /\ x[2] > 1
      BY <2>1 DEF Redeliver, Copies
    <3>2. x[2] - 1 \in 1 .. MaxDeliveries
      BY <3>1, BatchesAssumption
    <3>3. <<x[1], x[2] - 1>> \in Copies
      BY <3>1, <3>2 DEF Copies
    <3> QED
      BY <2>1, <3>3 DEF Redeliver
  <2>2. CASE ~Redeliver(x)
    BY <2>2 DEF BeginBatch, ImportBatch, RecordRaises, Kill
  <2> QED
    BY <2>1, <2>2
<1>5. ~NoCopy /\ ~NoCopy'
  BY <1>2, <1>3, <1>4, CopyTurn DEF NoCopy
<1>6. BatchTypeOK'
  <2>1. x[1] \in Batches
    BY DEF Copies
  <2> QED
    BY <1>1, <1>2, <1>3, <2>1, CopyTurn DEF BatchTypeOK
<1>7. BatchInv'
  <2>1. x[1] <= total /\ x[1] <= next /\ (enq = "enqueue" => x[1] < next)
    BY <1>4 DEF BatchInv
  <2> QED
    BY <1>1, <1>2, <1>3, <2>1, CopyTurn DEF BatchInv
<1> QED
  BY <1>1, <1>5, <1>6, <1>7 DEF EnqInv, Room

LEMMA Step ==
  BatchTypeOK /\ EnqInv /\ Room /\ BatchInv /\ [BatchNext]_batchVars
    => BatchTypeOK' /\ EnqInv' /\ Room' /\ BatchInv'
<1> SUFFICES ASSUME BatchTypeOK, EnqInv, Room, BatchInv, [BatchNext]_batchVars
             PROVE  BatchTypeOK' /\ EnqInv' /\ Room' /\ BatchInv'
  OBVIOUS
<1>1. CASE Supersede
  <2>1. NoCopy' <=> NoCopy
    BY <1>1 DEF Supersede, NoCopy
  <2>2. BatchTypeOK'
    BY <1>1 DEF Supersede, BatchTypeOK, Statuses
  <2> QED
    BY <1>1, <2>1, <2>2 DEF Supersede, EnqInv, Room, BatchInv
<1>2. CASE UNCHANGED batchVars
  <2>1. NoCopy' <=> NoCopy
    BY <1>2 DEF batchVars, NoCopy
  <2>2. BatchTypeOK'
    BY <1>2 DEF batchVars, BatchTypeOK
  <2> QED
    BY <1>2, <2>1, <2>2 DEF batchVars, EnqInv, Room, BatchInv
<1> QED
  BY <1>1, <1>2, EnqueuerStep, RecordStep, TaskStep DEF BatchNext, BatchTask

\* Every reachable state of a batched sync is well typed: the counts never exceed the
\* number of batches, however often a message comes.
THEOREM BatchTypeCorrect == BatchSpec => []BatchTypeOK
BY InitInv, Step, PTL DEF BatchSpec

-----------------------------------------------------------------------------
(* When no message comes twice, the counts say what the batches reported.  *)

Tally ==
  OnceEach /\ status = "running"
    => /\ counts.completed + counts.failed = Cardinality(Reported)
       /\ (counts.failed = 0 /\ ~counts.errors) <=> AllClean

Inv == BatchTypeOK /\ EnqInv /\ Room /\ BatchInv

LEMMA ReportedFinite ==
  ASSUME BatchTypeOK
  PROVE  /\ IsFiniteSet(Reported) /\ Cardinality(Reported) \in Nat
         /\ IsFiniteSet(Size) /\ Cardinality(Size) = total
         /\ BatchInv => Reported \subseteq Size
<1>1. IsFiniteSet(Batches) /\ Reported \subseteq Batches
  BY FS_Interval, BatchesAssumption DEF Batches, Reported
<1>2. IsFiniteSet(Reported) /\ Cardinality(Reported) \in Nat
  BY <1>1, FS_Subset, FS_CardinalityType
<1>3. total \in Nat
  BY BatchesAssumption DEF BatchTypeOK
<1>4. IsFiniteSet(Size) /\ Cardinality(Size) = total
  BY <1>3, FS_Interval DEF Size
<1>5. ASSUME BatchInv, NEW b \in Reported PROVE b \in Size
  <2>1. b \in Batches /\ copy[<<b, 1>>] # "none"
    BY DEF Reported, Counter
  <2>2. <<b, 1>> \in Copies /\ <<b, 1>>[1] = b
    BY <2>1, First
  <2>3. b <= total
    BY <1>5, <2>1, <2>2 DEF BatchInv
  <2> QED
    BY <1>3, <2>1, <2>3 DEF Batches, Size
<1> QED
  BY <1>2, <1>4, <1>5

\* The batches a step on one first delivery leaves alone.
LEMMA OneReports ==
  ASSUME BatchTypeOK, NEW x \in Copies, NEW s \in CopyStates, Turn(x, s), x[2] = 1
  PROVE  /\ x[1] \in Batches /\ x = <<x[1], 1>>
         /\ \A b \in Batches : b # x[1] => copy'[<<b, 1>>] = copy[<<b, 1>>]
         /\ s \in Counter => Reported' = Reported \cup {x[1]}
         /\ s \notin Counter /\ copy[x] \notin Counter => Reported' = Reported
         /\ copy[x] \notin Counter => x[1] \notin Reported
<1>1. x[1] \in Batches /\ x = <<x[1], 1>>
  BY DEF Copies
<1>2. copy'[x] = s /\ \A y \in Copies : y # x => copy'[y] = copy[y]
  BY CopyTurn
<1>3. \A b \in Batches : b # x[1] => <<b, 1>> \in Copies /\ <<b, 1>> # x
  BY <1>1, First
<1>4. \A b \in Batches : b # x[1] => copy'[<<b, 1>>] = copy[<<b, 1>>]
  BY <1>2, <1>3
<1>5. copy'[<<x[1], 1>>] = s /\ copy[<<x[1], 1>>] = copy[x]
  BY <1>1, <1>2
<1> QED
  BY <1>1, <1>4, <1>5 DEF Reported

\* What a report does to the counts, the reports and the verdict.
LEMMA ReportStep ==
  ASSUME Inv, Tally, OnceEach, NEW x \in Copies, RecordBatch(x), status = "running"
  PROVE  /\ x[2] = 1 /\ x[1] \in Batches /\ x[1] \notin Reported
         /\ Reported' = Reported \cup {x[1]}
         /\ counts'.completed + counts'.failed = Cardinality(Reported')
         /\ AllClean' <=> AllClean /\ copy[x] \in {"clean", "skips"}
         /\ (counts'.failed = 0 /\ ~counts'.errors) <=> AllClean'
         /\ Reported' \subseteq Size
         /\ Reported' = Size <=> counts'.completed + counts'.failed >= total
<1> USE DEF Inv
<1>1. copy[x] \in Reporting /\ copy[x] # "none" /\ copy[x] \notin Counter
  BY DEF RecordBatch, Reporting, Counter
<1>2. x[2] = 1
  BY <1>1 DEF OnceEach, Copies
<1>3. /\ counts' = Add(counts, copy[x])
      /\ Turn(x, Counted(copy[x]))
      /\ Counted(copy[x]) \in CopyStates /\ Counted(copy[x]) \in Counter
      /\ total' = total
  BY DEF RecordBatch, Counted, CopyStates, Counter
<1>4. /\ x[1] \in Batches /\ x = <<x[1], 1>> /\ x[1] \notin Reported
      /\ Reported' = Reported \cup {x[1]}
      /\ \A b \in Batches : b # x[1] => copy'[<<b, 1>>] = copy[<<b, 1>>]
  BY <1>1, <1>2, <1>3, OneReports
<1>5. Cardinality(Reported') = Cardinality(Reported) + 1 /\ Cardinality(Reported) \in Nat
  BY <1>4, ReportedFinite, FS_AddElement
<1>6. /\ counts'.completed + counts'.failed = counts.completed + counts.failed + 1
  BY <1>1, <1>3, AddCounts
<1>7. counts'.completed + counts'.failed = Cardinality(Reported')
  BY <1>5, <1>6 DEF Tally
<1>8. copy'[<<x[1], 1>>] = Counted(copy[x])
  BY <1>3, <1>4, CopyTurn
<1>9. AllClean' <=> AllClean /\ copy[x] \in {"clean", "skips"}
  <2>1. Counted(copy[x]) # "countedBad" <=> copy[x] \in {"clean", "skips"}
    BY DEF Counted
  <2>2. copy[<<x[1], 1>>] # "countedBad"
    BY <1>1, <1>4 DEF Counter
  <2> QED
    BY <1>4, <1>8, <2>1, <2>2 DEF AllClean
<1>10. (counts'.failed = 0 /\ ~counts'.errors) <=> AllClean'
  <2>1. counts.failed \in Nat /\ counts.errors \in BOOLEAN
    BY DEF BatchTypeOK, Counts
  <2>2. counts'.failed = (IF copy[x] = "failed" THEN counts.failed + 1 ELSE counts.failed)
    BY <1>3 DEF Add
  <2>3. counts'.errors = (counts.errors \/ copy[x] \in {"errors", "failed"})
    BY <1>3 DEF Add
  <2>4. counts'.failed = 0 <=> counts.failed = 0 /\ copy[x] # "failed"
    BY <2>1, <2>2
  <2>5. ~counts'.errors <=> ~counts.errors /\ copy[x] \in {"clean", "skips"}
    BY <1>1, <2>3 DEF Reporting
  <2> QED
    BY <1>9, <2>4, <2>5 DEF Tally
<1>11. Reported' \subseteq Size
       /\ (Reported' = Size <=> counts'.completed + counts'.failed >= total)
  <2>1. BatchTypeOK' /\ BatchInv'
    BY RecordStep
  <2>2. /\ IsFiniteSet(Size) /\ Cardinality(Size) = total /\ total \in Nat
    BY ReportedFinite, BatchesAssumption DEF BatchTypeOK
  <2>3. Size' = Size
    BY <1>3 DEF Size
  <2>4. x[1] <= total
    BY <1>1 DEF BatchInv
  <2>5. Reported' \subseteq Size
    BY <1>4, <2>2, <2>4, ReportedFinite DEF Size, Batches
  <2>6. /\ IsFiniteSet(Reported') /\ Cardinality(Reported') <= Cardinality(Size)
        /\ Cardinality(Reported') = Cardinality(Size) => Reported' = Size
    BY <2>2, <2>5, FS_Subset
  <2>7. Cardinality(Reported') \in Nat
    BY <1>5
  <2> QED
    BY <1>7, <2>2, <2>5, <2>6, <2>7
<1> QED
  BY <1>2, <1>4, <1>7, <1>9, <1>10, <1>11

Reports(x) == RecordBatch(x) /\ status = "running"

\* Other task steps turn one delivery into a state that is no report.
LEMMA TaskTurn ==
  ASSUME NEW x \in Copies, BatchTask(x) \/ RecordRaises(x) \/ Kill(x) \/ Redeliver(x), ~Reports(x)
  PROVE  \E s \in CopyStates \ (Counter \cup {"none"}) : Turn(x, s) /\ copy[x] \notin Counter
<1>1. \A s \in {"working", "ended", "clean", "skips", "errors", "failed", "lost", "queued"} :
         s \in CopyStates \ (Counter \cup {"none"})
  BY DEF CopyStates, Counter
<1>2. CASE BeginBatch(x) \/ RecordBatch(x)
  BY <1>1, <1>2 DEF BeginBatch, RecordBatch, Reports, Counter
<1>3. CASE ImportBatch(x)
  BY <1>1, <1>3 DEF ImportBatch, Counter
<1>4. CASE RecordRaises(x) \/ Kill(x) \/ Redeliver(x)
  BY <1>1, <1>4 DEF RecordRaises, Kill, Redeliver, Counter
<1> QED
  BY <1>2, <1>3, <1>4 DEF BatchTask

\* A step that reports nothing leaves the reports and the verdict alone.
LEMMA QuietStep ==
  ASSUME Inv, [BatchNext]_batchVars, OnceEach', \A x \in Copies : ~Reports(x)
  PROVE  Reported' = Reported /\ (AllClean' <=> AllClean) /\ OnceEach
<1> USE DEF Inv
<1>1. CASE copy' = copy
  BY <1>1 DEF Reported, AllClean, OnceEach
<1>2. CASE EnqueueBatch
  <2>1. next \in Batches /\ <<next, 1>> \in Copies
    BY <1>2, EnqueueStep, BatchesAssumption DEF Copies
  <2>2. copy[<<next, 1>>] = "none"
    <3>1. next \in Int
      BY DEF BatchTypeOK
    <3> QED
      BY <1>2, <2>1, <3>1 DEF BatchInv, EnqueueBatch
  <2>3. \A y \in Copies : y # <<next, 1>> => copy'[y] = copy[y]
    BY <1>2, EnqueueStep
  <2>4. copy'[<<next, 1>>] = "queued"
    BY <1>2, EnqueueStep
  <2>5. \A b \in Batches : b # next => copy'[<<b, 1>>] = copy[<<b, 1>>]
    BY <2>3, First
  <2>6. \A y \in Copies : y[2] > 1 => y # <<next, 1>>
    OBVIOUS
  <2>7. OnceEach
    BY <2>3, <2>6 DEF OnceEach
  <2>8. Reported' = Reported
    BY <2>2, <2>4, <2>5 DEF Reported, Counter
  <2>9. AllClean' <=> AllClean
    BY <2>2, <2>4, <2>5 DEF AllClean
  <2> QED
    BY <2>7, <2>8, <2>9
<1>3. CASE \E x \in Copies : BatchTask(x) \/ RecordRaises(x) \/ Kill(x) \/ Redeliver(x)
  <2>1. PICK x \in Copies : BatchTask(x) \/ RecordRaises(x) \/ Kill(x) \/ Redeliver(x)
    BY <1>3
  <2>2. PICK s \in CopyStates \ (Counter \cup {"none"}) : Turn(x, s) /\ copy[x] \notin Counter
    BY <2>1, TaskTurn
  <2>3. copy'[x] = s /\ \A y \in Copies : y # x => copy'[y] = copy[y]
    BY <2>2, CopyTurn
  <2>4. x[2] = 1
    BY <2>2, <2>3 DEF OnceEach, Copies
  <2>5. \A y \in Copies : y[2] > 1 => copy'[y] = copy[y]
    BY <2>3, <2>4
  <2>6. OnceEach
    BY <2>5 DEF OnceEach
  <2>7. /\ x[1] \in Batches /\ x = <<x[1], 1>>
        /\ \A b \in Batches : b # x[1] => copy'[<<b, 1>>] = copy[<<b, 1>>]
        /\ Reported' = Reported
    BY <2>2, <2>4, OneReports
  <2>8. AllClean' <=> AllClean
    BY <2>2, <2>3, <2>7 DEF AllClean, Counter
  <2> QED
    BY <2>6, <2>7, <2>8
<1>4. CASE BatchNext /\ copy' # copy
  BY <1>2, <1>3, <1>4 DEF BatchNext, Enqueuer, CreateSyncRun, CancelOthers, ListResources, CloseEmpty,
     NoteQueued, ReadRun, FailRun, EnqueueRaises, EnqueuerDies, Supersede
<1> QED
  BY <1>1, <1>4 DEF batchVars

LEMMA NoCopyTally ==
  ASSUME NoCopy, counts = Zero
  PROVE  Reported = {} /\ AllClean /\ Tally
<1>1. Reported = {} /\ AllClean
  BY First DEF NoCopy, Reported, AllClean, Counter
<1>2. counts.completed = 0 /\ counts.failed = 0 /\ counts.errors = FALSE
  BY DEF Zero
<1> QED
  BY <1>1, <1>2, FS_EmptySet DEF Tally

\* What a step that reports nothing can do to the row.
LEMMA QuietRow ==
  ASSUME Inv, [BatchNext]_batchVars, \A x \in Copies : ~Reports(x)
  PROVE  \/ UNCHANGED <<status, total, counts>>
         \/ CreateSyncRun \/ ListResources \/ CloseEmpty \/ FailRun \/ Supersede
<1>1. CASE \E x \in Copies : BatchTask(x) \/ RecordRaises(x) \/ Kill(x) \/ Redeliver(x)
  <2>1. PICK x \in Copies : BatchTask(x) \/ RecordRaises(x) \/ Kill(x) \/ Redeliver(x)
    BY <1>1
  <2>2. CASE RecordBatch(x)
    BY <2>2 DEF RecordBatch, Reports
  <2>3. CASE ~RecordBatch(x)
    BY <2>1, <2>3 DEF BatchTask, BeginBatch, ImportBatch, RecordRaises, Kill, Redeliver
  <2> QED
    BY <2>2, <2>3
<1>2. CASE BatchNext /\ ~(\E x \in Copies : BatchTask(x) \/ RecordRaises(x) \/ Kill(x) \/ Redeliver(x))
  BY <1>2 DEF BatchNext, Enqueuer, CancelOthers, EnqueueBatch, NoteQueued, ReadRun, EnqueueRaises,
     EnqueuerDies
<1>3. CASE UNCHANGED batchVars
  BY <1>3 DEF batchVars
<1> QED
  BY <1>1, <1>2, <1>3

LEMMA InvStep == Inv /\ [BatchNext]_batchVars => Inv'
BY Step DEF Inv

LEMMA TallyStep ==
  ASSUME Inv, Tally, [BatchNext]_batchVars
  PROVE  Tally'
<1>0. SUFFICES ASSUME OnceEach', status' = "running" PROVE Tally'
  BY DEF Tally
<1>1. CASE \E x \in Copies : Reports(x)
  <2>1. PICK x \in Copies : RecordBatch(x) /\ status = "running"
    BY <1>1 DEF Reports
  <2>2. OnceEach
    <3>1. PICK s \in CopyStates : Turn(x, s) /\ s # "none"
      BY <2>1 DEF RecordBatch, Counted, CopyStates
    <3>2. \A y \in Copies : copy'[y] = "none" => copy[y] = "none"
      BY <3>1, CopyTurn DEF Inv
    <3> QED
      BY <1>0, <3>2 DEF OnceEach
  <2> QED
    BY <2>1, <2>2, ReportStep DEF Tally
<1>2. CASE \A x \in Copies : ~Reports(x)
  <2>1. Reported' = Reported /\ (AllClean' <=> AllClean) /\ OnceEach
    BY <1>0, <1>2, QuietStep
  <2>2. CASE UNCHANGED <<status, total, counts>>
    BY <1>0, <2>1, <2>2 DEF Tally
  <2>3. CASE CreateSyncRun \/ ListResources
    <3>1. NoCopy /\ counts = Zero
      BY <2>3 DEF Inv, EnqInv, CreateSyncRun, ListResources
    <3>2. counts' = Zero
      BY <2>3, <3>1 DEF CreateSyncRun, ListResources
    <3>3. counts'.completed = 0 /\ counts'.failed = 0 /\ counts'.errors = FALSE
      BY <3>2 DEF Zero
    <3>4. Reported' = {} /\ AllClean'
      BY <2>1, <3>1, NoCopyTally
    <3> QED
      BY <3>3, <3>4, FS_EmptySet DEF Tally
  <2>4. CASE CloseEmpty \/ FailRun \/ Supersede
    BY <1>0, <2>4 DEF CloseEmpty, FailRun, Supersede
  <2> QED
    BY <1>2, <2>2, <2>3, <2>4, QuietRow
<1> QED
  BY <1>1, <1>2

LEMMA SuccessStep ==
  ASSUME Inv, Tally, SuccessMeansDone, [BatchNext]_batchVars
  PROVE  SuccessMeansDone'
<1> USE DEF Inv
<1>0. SUFFICES ASSUME OnceEach', status' = "success"
               PROVE  /\ Size' \subseteq done' \cup passed'
                      /\ ~counts'.skipped => Size' \subseteq done'
  BY DEF SuccessMeansDone
<1>1. CASE \E x \in Copies : Reports(x)
  <2>1. PICK x \in Copies : RecordBatch(x) /\ status = "running"
    BY <1>1 DEF Reports
  <2>2. OnceEach
    <3>1. PICK s \in CopyStates : Turn(x, s) /\ s # "none"
      BY <2>1 DEF RecordBatch, Counted, CopyStates
    <3>2. \A y \in Copies : copy'[y] = "none" => copy[y] = "none"
      BY <3>1, CopyTurn
    <3> QED
      BY <1>0, <3>2 DEF OnceEach
  <2>3. /\ (counts'.failed = 0 /\ ~counts'.errors) <=> AllClean'
        /\ Reported' = Size <=> counts'.completed + counts'.failed >= total
    BY <2>1, <2>2, ReportStep
  <2>4. counts'.completed + counts'.failed >= total /\ counts'.failed = 0 /\ ~counts'.errors
    BY <1>0, <2>1 DEF RecordBatch, Final
  <2>5. Reported' = Size' /\ AllClean'
    BY <2>1, <2>3, <2>4 DEF RecordBatch, Size
  <2>6. BatchInv'
    BY Step
  <2>7. ASSUME NEW b \in Reported'
        PROVE  b \in done' \cup passed' /\ (b \in done' \/ counts'.skipped)
    <3>1. b \in Batches /\ copy'[<<b, 1>>] = "countedClean"
      BY <2>5, <2>7 DEF Reported, AllClean, Counter
    <3>2. <<b, 1>> \in Copies /\ <<b, 1>>[1] = b
      BY <3>1, First
    <3> QED
      BY <1>0, <2>6, <3>1, <3>2 DEF BatchInv
  <2> QED
    BY <2>5, <2>7
<1>2. CASE \A x \in Copies : ~Reports(x)
  <2>1. OnceEach
    BY <1>0, <1>2, QuietStep
  <2>2. done \subseteq done' /\ passed \subseteq passed'
    BY DEF BatchNext, batchVars, Enqueuer, CreateSyncRun, CancelOthers, ListResources, CloseEmpty,
       EnqueueBatch, NoteQueued, ReadRun, FailRun, EnqueueRaises, EnqueuerDies, Supersede,
       BatchTask, BeginBatch, ImportBatch, RecordBatch, RecordRaises, Kill, Redeliver
  <2>3. CASE UNCHANGED <<status, total, counts>>
    BY <1>0, <2>1, <2>2, <2>3 DEF SuccessMeansDone, Size
  <2>4. CASE CloseEmpty
    BY <2>4 DEF CloseEmpty, EnqInv, Size
  <2>5. CASE CreateSyncRun \/ ListResources \/ FailRun \/ Supersede
    BY <1>0, <2>5 DEF CreateSyncRun, ListResources, EnqInv, FailRun, Supersede
  <2> QED
    BY <1>2, <2>3, <2>4, <2>5, QuietRow
<1> QED
  BY <1>1, <1>2

\* When no message came twice, a run that says success has imported every record that has an
\* id, and every record without exception unless its row counts records as skipped.
THEOREM SuccessIsDone == BatchSpec => []SuccessMeansDone
<1>1. BatchInit => Inv /\ Tally /\ SuccessMeansDone
  BY InitInv DEF Inv, BatchInit, Tally, SuccessMeansDone
<1>2. Inv /\ Tally /\ SuccessMeansDone /\ [BatchNext]_batchVars => Inv' /\ Tally' /\ SuccessMeansDone'
  BY InvStep, TallyStep, SuccessStep
<1> QED
  BY <1>1, <1>2, PTL DEF BatchSpec

-----------------------------------------------------------------------------
(* Until a message comes twice, the run behaves as BridgeRun promises.     *)

Left == {b \in Size : copy[<<b, 1>>] \notin {"countedClean", "countedBad"}}

LEMMA PromiseInit == BatchInit => Promise!Init
<1> SUFFICES ASSUME BatchInit PROVE Promise!Init
  OBVIOUS
<1>1. Size = Batches
  BY DEF BatchInit, Size, Batches
<1>2. \A b \in Batches : copy[<<b, 1>>] = "none"
  BY First DEF BatchInit
<1>3. Left = Batches
  BY <1>1, <1>2 DEF Left
<1>4. AllClean
  BY <1>2 DEF AllClean
<1> QED
  BY <1>3, <1>4 DEF BatchInit, Promise!Init, Left, AllClean

LEMMA LeftSize ==
  ASSUME NEW n \in 0 .. MaxBatches, NEW c
  PROVE  /\ 1 .. n \subseteq Batches
         /\ {b \in 1 .. n : c[<<b, 1>>] \notin Counter}
              = (1 .. n) \ {b \in Batches : c[<<b, 1>>] \in Counter}
<1>1. 1 .. n \subseteq Batches
  BY BatchesAssumption DEF Batches
<1> QED
  BY <1>1

\* The steps of BridgeRun, in terms of the names used here.
LEMMA PromiseNext ==
  ASSUME \/ UNCHANGED <<status, Left, AllClean>>
         \/ /\ status = "none" /\ status' = "running"
            /\ UNCHANGED <<Left, AllClean>>
         \/ /\ Left = Batches /\ Left' \in SUBSET Batches
            /\ UNCHANGED <<status, AllClean>>
         \/ /\ \E b \in Batches, ok \in BOOLEAN :
                 /\ status = "running" /\ b \in Left
                 /\ Left' = Left \ {b}
                 /\ AllClean' = (AllClean /\ ok)
                 /\ status' = IF Left' = {} THEN IF AllClean' THEN "success" ELSE "failed"
                              ELSE "running"
         \/ /\ Left = {} /\ AllClean /\ status' = "success"
            /\ UNCHANGED <<Left, AllClean>>
         \/ /\ status = "running" /\ status' = "cancelled"
            /\ UNCHANGED <<Left, AllClean>>
         \/ /\ status # "none" /\ status' = "failed"
            /\ UNCHANGED <<Left, AllClean>>
  PROVE  [Promise!Next]_(Promise!vars)
<1> USE DEF Promise!Next, Promise!vars, Left, AllClean
<1>1. CASE UNCHANGED <<status, Left, AllClean>>
  BY <1>1
<1>2. CASE status = "none" /\ status' = "running" /\ UNCHANGED <<Left, AllClean>>
  BY <1>2 DEF Promise!Open
<1>3. CASE Left = Batches /\ Left' \in SUBSET Batches /\ UNCHANGED <<status, AllClean>>
  BY <1>3 DEF Promise!Size
<1>4. CASE \E b \in Batches, ok \in BOOLEAN :
             /\ status = "running" /\ b \in Left
             /\ Left' = Left \ {b}
             /\ AllClean' = (AllClean /\ ok)
             /\ status' = IF Left' = {} THEN IF AllClean' THEN "success" ELSE "failed"
                          ELSE "running"
  BY <1>4 DEF Promise!Report, Promise!Verdict
<1>5. CASE Left = {} /\ AllClean /\ status' = "success" /\ UNCHANGED <<Left, AllClean>>
  BY <1>5 DEF Promise!CloseEmpty
<1>6. CASE status = "running" /\ status' = "cancelled" /\ UNCHANGED <<Left, AllClean>>
  BY <1>6 DEF Promise!Cancel
<1>7. CASE status # "none" /\ status' = "failed" /\ UNCHANGED <<Left, AllClean>>
  BY <1>7 DEF Promise!GiveUp
<1> QED
  BY <1>1, <1>2, <1>3, <1>4, <1>5, <1>6, <1>7

LEMMA PromiseStep ==
  ASSUME Inv, Tally, OnceEach', [BatchNext]_batchVars
  PROVE  [Promise!Next]_(Promise!vars)
<1> USE DEF Inv
<1>1. OnceEach
  <2>1. CASE \E x \in Copies : Reports(x)
    <3>1. PICK x \in Copies : RecordBatch(x)
      BY <2>1 DEF Reports
    <3>2. PICK s \in CopyStates : Turn(x, s) /\ s # "none"
      BY <3>1 DEF RecordBatch, Counted, CopyStates
    <3>3. \A y \in Copies : copy'[y] = "none" => copy[y] = "none"
      BY <3>2, CopyTurn
    <3> QED
      BY <3>3 DEF OnceEach
  <2>2. CASE \A x \in Copies : ~Reports(x)
    BY <2>2, QuietStep
  <2> QED
    BY <2>1, <2>2
<1>2. Size \subseteq Batches /\ Left = Size \ Reported
  BY LeftSize DEF BatchTypeOK, Size, Left, Reported, Counter
<1>3. Size' \subseteq Batches /\ Left' = Size' \ Reported'
  <2>1. total' \in 0 .. MaxBatches
    BY Step DEF BatchTypeOK
  <2> QED
    BY <2>1, LeftSize DEF Size, Left, Reported, Counter
<1>4. CASE \E x \in Copies : Reports(x)
  <2>1. PICK x \in Copies : RecordBatch(x) /\ status = "running"
    BY <1>4 DEF Reports
  <2>2. /\ x[1] \in Batches /\ x[1] \notin Reported
        /\ Reported' = Reported \cup {x[1]}
        /\ AllClean' <=> AllClean /\ copy[x] \in {"clean", "skips"}
        /\ (counts'.failed = 0 /\ ~counts'.errors) <=> AllClean'
        /\ Reported' = Size <=> counts'.completed + counts'.failed >= total
    BY <1>1, <2>1, ReportStep
  <2>3. Size' = Size
    BY <2>1 DEF RecordBatch, Size
  <2>4. Reported' \subseteq Size
    BY <1>1, <2>1, ReportStep
  <2>5. x[1] \in Left /\ Left' = Left \ {x[1]}
    BY <1>2, <1>3, <2>2, <2>3, <2>4
  <2>6. Left' = {} <=> Reported' = Size
    BY <1>3, <2>3, <2>4
  <2>7. status' = IF Left' = {} THEN IF AllClean' THEN "success" ELSE "failed" ELSE "running"
    BY <2>1, <2>2, <2>6 DEF RecordBatch, Final
  <2>8. AllClean' = (AllClean /\ copy[x] \in {"clean", "skips"})
    BY <2>2 DEF AllClean
  <2> QED
    BY <2>1, <2>2, <2>5, <2>7, <2>8, PromiseNext
<1>5. CASE \A x \in Copies : ~Reports(x)
  <2>1. Reported' = Reported /\ (AllClean' <=> AllClean)
    BY <1>1, <1>5, QuietStep
  <2>2. AllClean' = AllClean
    BY <2>1 DEF AllClean
  <2>3. total' = total => Left' = Left
    BY <1>2, <1>3, <2>1 DEF Size
  <2>4. CASE UNCHANGED <<status, total, counts>>
    BY <2>2, <2>3, <2>4, PromiseNext
  <2>5. CASE CreateSyncRun
    <3>1. status = "none" /\ status' = "running" /\ total' = total
      BY <2>5 DEF CreateSyncRun, EnqInv
    <3> QED
      BY <2>2, <2>3, <3>1, PromiseNext
  <2>6. CASE ListResources
    <3>1. NoCopy /\ counts = Zero /\ total = MaxBatches /\ status' = status
      BY <2>6 DEF ListResources, EnqInv
    <3>2. Left = Batches
      BY <1>2, <3>1, NoCopyTally DEF Size, Batches
    <3>3. Left' \in SUBSET Batches
      BY <1>3
    <3> QED
      BY <2>2, <3>1, <3>2, <3>3, PromiseNext
  <2>7. CASE CloseEmpty
    <3>1. NoCopy /\ counts = Zero /\ total = 0 /\ status' = "success" /\ total' = total
      BY <2>7 DEF CloseEmpty, EnqInv
    <3>2. Left = {} /\ AllClean
      BY <1>2, <3>1, NoCopyTally DEF Size
    <3> QED
      BY <2>2, <2>3, <3>1, <3>2, PromiseNext
  <2>8. CASE Supersede
    BY <2>2, <2>3, <2>8, PromiseNext DEF Supersede
  <2>9. CASE FailRun
    <3>1. status # "none" /\ status' = "failed" /\ total' = total
      BY <2>9 DEF FailRun, EnqInv
    <3> QED
      BY <2>2, <2>3, <3>1, PromiseNext
  <2> QED
    BY <1>5, <2>4, <2>5, <2>6, <2>7, <2>8, <2>9, QuietRow
<1> QED
  BY <1>4, <1>5

\* As long as no message has come twice, the run's row behaves as BridgeRun says: every batch
\* reports once and the last report closes the run with the verdict on all of them.
THEOREM PromiseKept == BatchSpec => KeepsPromise
<1>1. BatchInit => Inv /\ Tally
  BY InitInv DEF Inv, BatchInit, Tally
<1>2. Inv /\ Tally /\ [BatchNext]_batchVars => Inv' /\ Tally'
  BY InvStep, TallyStep
<1>3. Inv /\ Tally /\ [BatchNext]_batchVars => (OnceEach' => [Promise!Next]_(Promise!vars))
  BY PromiseStep
<1> QED
  BY <1>1, <1>2, <1>3, PromiseInit, PTL DEF BatchSpec, KeepsPromise

-----------------------------------------------------------------------------
(* BridgeRetire.                                                           *)

LEMMA InitType == Init => TypeOK
<1> SUFFICES ASSUME Init PROVE TypeOK
  OBVIOUS
<1>1. row \in [Records -> RowStates] /\ served \in SUBSET Records
  BY DEF Init, RowStates
<1>2. /\ seen \in [Records -> Nat] /\ missing \in [Records -> BOOLEAN]
      /\ retired \in [Records -> BOOLEAN]
  BY DEF Init
<1>3. pc \in [Syncs -> Steps] /\ kind \in [Syncs -> Kinds] /\ start \in [Syncs -> Nat]
  BY DEF Init, Steps, Kinds
<1>4. /\ todo \in [Syncs -> SUBSET Records] /\ held \in [Syncs -> SUBSET Records]
      /\ gone \in [Syncs -> SUBSET Records] /\ skipped \in [Syncs -> SUBSET Records]
      /\ alone \in [Syncs -> BOOLEAN]
  BY DEF Init
<1>5. clock \in Nat /\ broken \in 0 .. Breaks
  BY RetireAssumption DEF Init
<1>6. split \in BOOLEAN /\ dropped \in SUBSET Records /\ excused \in SUBSET Records
  BY DEF Init
<1>7. doc \in [Records -> RowStates] /\ page \in [Records -> RowStates]
  BY <1>1 DEF Init, RowStates
<1>8. changed \in [Syncs -> SUBSET Records] /\ read \in [Syncs -> [Records -> RowStates]]
  BY DEF Init, Unread, RowStates
<1> QED
  BY <1>1, <1>2, <1>3, <1>4, <1>5, <1>6, <1>7, <1>8 DEF TypeOK

LEMMA AskedRecords ==
  ASSUME TypeOK, NEW k \in Kinds, NEW S \in Asked(k)
  PROVE  S \in SUBSET Records
BY DEF TypeOK, Kinds, Asked

LEMMA TypeStep == TypeOK /\ [Next]_vars => TypeOK'
<1> SUFFICES ASSUME TypeOK, [Next]_vars PROVE TypeOK'
  OBVIOUS
<1> USE DEF TypeOK, history, state, shown
<1>1. ASSUME NEW r \in Records, Change(r) PROVE TypeOK'
  BY <1>1 DEF Change, local
<1>2. ASSUME NEW e \in Syncs, NEW k \in Kinds, NEW S \in Asked(k), Begin(e, k, S) PROVE TypeOK'
  <2>1. S \in SUBSET Records
    BY AskedRecords
  <2> QED
    BY <1>2, <2>1 DEF Begin, Steps
<1>3. ASSUME NEW e \in Syncs, NEW S \in SUBSET Records, Fetch(e, S) PROVE TypeOK'
  BY <1>3 DEF Fetch, Answer
<1>4. ASSUME NEW e \in Syncs, NEW S \in SUBSET Records, FlushRows(e, S) PROVE TypeOK'
  BY <1>4 DEF FlushRows, Overtaken, RowStates
<1>5. ASSUME NEW e \in Syncs, NEW r \in Records, SkipRecord(e, r) PROVE TypeOK'
  BY <1>5 DEF SkipRecord
<1>6. ASSUME NEW e \in Syncs, EndCrawl(e) PROVE TypeOK'
  BY <1>6 DEF EndCrawl, AfterCrawl, Steps
<1>7. ASSUME NEW e \in Syncs, MarkMissing(e) PROVE TypeOK'
  <2>1. gone' \in [Syncs -> SUBSET Records]
    BY <1>7 DEF MarkMissing, Stale
  <2> QED
    BY <1>7, <2>1 DEF MarkMissing, Steps
<1>8. ASSUME NEW e \in Syncs, RetireState(e) PROVE TypeOK'
  BY <1>8 DEF RetireState, Steps
<1>9. ASSUME NEW e \in Syncs, RetireRows(e) PROVE TypeOK'
  BY <1>9 DEF RetireRows, Steps, RowStates
<1>10. ASSUME NEW e \in Syncs, Break(e) PROVE TypeOK'
  <2>1. broken' \in 0 .. Breaks /\ split' \in BOOLEAN /\ dropped' \in SUBSET Records
    BY <1>10, RetireAssumption DEF Break
  <2>2. read' \in [Syncs -> [Records -> RowStates]]
    BY <1>10 DEF Break, Unread, RowStates
  <2>3. /\ todo' \in [Syncs -> SUBSET Records] /\ held' \in [Syncs -> SUBSET Records]
        /\ gone' \in [Syncs -> SUBSET Records] /\ changed' \in [Syncs -> SUBSET Records]
        /\ pc' \in [Syncs -> Steps]
    BY <1>10 DEF Break, Steps
  <2> QED
    BY <1>10, <2>1, <2>2, <2>3 DEF Break
<1>11. ASSUME NEW r \in Records, Visit(r) PROVE TypeOK'
  BY <1>11 DEF Visit, local
<1>12. ASSUME NEW e \in Syncs, ReadRows(e) PROVE TypeOK'
  <2>1. read' \in [Syncs -> [Records -> RowStates]]
    BY <1>12 DEF ReadRows, RowStates
  <2> QED
    BY <1>12, <2>1 DEF ReadRows, Steps
<1>13. ASSUME NEW e \in Syncs, NEW S \in SUBSET Records, IndexRows(e, S) PROVE TypeOK'
  <2>1. read' \in [Syncs -> [Records -> RowStates]]
    BY <1>13 DEF IndexRows, Unread, RowStates
  <2>2. doc' \in [Records -> RowStates]
    BY <1>13 DEF IndexRows
  <2> QED
    BY <1>13, <2>1, <2>2 DEF IndexRows, Steps
<1>14. ASSUME NEW e \in Syncs, NEW S \in SUBSET Records, RefreshCaches(e, S) PROVE TypeOK'
  BY <1>14 DEF RefreshCaches, Steps, RowStates
<1>15. ASSUME NEW e \in Syncs, NEW S \in SUBSET Records, Warm(e, S) PROVE TypeOK'
  BY <1>15 DEF Warm, Steps
<1>16. CASE UNCHANGED vars
  BY <1>16 DEF vars, local
<1> QED
  BY <1>1, <1>2, <1>3, <1>4, <1>5, <1>6, <1>7, <1>8, <1>9, <1>10, <1>11, <1>12, <1>13, <1>14,
     <1>15, <1>16 DEF Next, Crawl, Retire, Refresh

\* Every reachable state of the bridge syncs is well typed.
THEOREM TypeCorrect == Spec => []TypeOK
BY InitType, TypeStep, PTL DEF Spec

-----------------------------------------------------------------------------

LEMMA AgreeStep == TypeOK /\ TablesAgree /\ [Next]_vars => TablesAgree'
<1> SUFFICES ASSUME TypeOK, TablesAgree, [Next]_vars, ~split',
                    NEW r \in Records, retired'[r], row'[r] = "published"
             PROVE  \E e \in Syncs : pc'[e] = "retireRows" /\ r \in gone'[e]
  BY DEF TablesAgree
<1> USE DEF TypeOK, history, state
<1>0. split = FALSE
  BY DEF Next, vars, Crawl, Retire, Refresh, Change, Visit, Begin, Fetch, FlushRows,
     SkipRecord, EndCrawl, MarkMissing, RetireState, RetireRows, ReadRows, IndexRows,
     RefreshCaches, Warm, Break
<1>1. retired[r] /\ row[r] = "published" =>
        \E e \in Syncs : pc[e] = "retireRows" /\ r \in gone[e]
  BY <1>0 DEF TablesAgree
<1>2. ASSUME NEW x \in Records, Change(x) PROVE \E e \in Syncs : pc'[e] = "retireRows" /\ r \in gone'[e]
  BY <1>1, <1>2 DEF Change, local
<1>3. ASSUME NEW e \in Syncs, NEW k \in Kinds, NEW S, Begin(e, k, S)
      PROVE  \E d \in Syncs : pc'[d] = "retireRows" /\ r \in gone'[d]
  BY <1>1, <1>3 DEF Begin
<1>4. ASSUME NEW e \in Syncs, NEW S \in SUBSET Records, Fetch(e, S)
      PROVE  \E d \in Syncs : pc'[d] = "retireRows" /\ r \in gone'[d]
  BY <1>1, <1>4 DEF Fetch, Answer
<1>5. ASSUME NEW e \in Syncs, NEW S \in SUBSET Records, FlushRows(e, S)
      PROVE  \E d \in Syncs : pc'[d] = "retireRows" /\ r \in gone'[d]
  <2>1. r \notin S /\ retired[r] /\ row[r] = "published"
    BY <1>5 DEF FlushRows
  <2> QED
    BY <1>1, <1>5, <2>1 DEF FlushRows
<1>6. ASSUME NEW e \in Syncs, NEW x \in Records, SkipRecord(e, x)
      PROVE  \E d \in Syncs : pc'[d] = "retireRows" /\ r \in gone'[d]
  BY <1>1, <1>6 DEF SkipRecord
<1>7. ASSUME NEW e \in Syncs, EndCrawl(e)
      PROVE  \E d \in Syncs : pc'[d] = "retireRows" /\ r \in gone'[d]
  BY <1>1, <1>7 DEF EndCrawl, AfterCrawl
<1>8. ASSUME NEW e \in Syncs, MarkMissing(e)
      PROVE  \E d \in Syncs : pc'[d] = "retireRows" /\ r \in gone'[d]
  BY <1>1, <1>8 DEF MarkMissing
<1>9. ASSUME NEW e \in Syncs, RetireState(e)
      PROVE  \E d \in Syncs : pc'[d] = "retireRows" /\ r \in gone'[d]
  <2>1. CASE retired[r]
    BY <1>1, <1>9, <2>1 DEF RetireState
  <2>2. CASE ~retired[r]
    <3>1. r \in gone[e]
      BY <1>9, <2>2 DEF RetireState
    <3>2. r \in gone'[e]
      BY <1>9, <2>2, <3>1 DEF RetireState
    <3> QED
      BY <1>9, <3>2 DEF RetireState
  <2> QED
    BY <2>1, <2>2
<1>10. ASSUME NEW e \in Syncs, RetireRows(e)
       PROVE  \E d \in Syncs : pc'[d] = "retireRows" /\ r \in gone'[d]
  <2>1. r \notin gone[e] /\ retired[r] /\ row[r] = "published"
    BY <1>10 DEF RetireRows
  <2> QED
    BY <1>1, <1>10, <2>1 DEF RetireRows
<1>11. ASSUME NEW e \in Syncs, Break(e)
       PROVE  \E d \in Syncs : pc'[d] = "retireRows" /\ r \in gone'[d]
  BY <1>1, <1>11 DEF Break
<1>12. ASSUME NEW x \in Records, Visit(x)
       PROVE  \E d \in Syncs : pc'[d] = "retireRows" /\ r \in gone'[d]
  BY <1>1, <1>12 DEF Visit, local
<1>13. ASSUME NEW e \in Syncs, Refresh(e)
       PROVE  \E d \in Syncs : pc'[d] = "retireRows" /\ r \in gone'[d]
  BY <1>1, <1>13 DEF Refresh, ReadRows, IndexRows, RefreshCaches, Warm
<1>14. CASE UNCHANGED vars
  BY <1>1, <1>14 DEF vars, local
<1> QED
  BY <1>2, <1>3, <1>4, <1>5, <1>6, <1>7, <1>8, <1>9, <1>10, <1>11, <1>12, <1>13, <1>14
  DEF Next, Crawl, Retire

\* Unless an execution stops between the two statements of a retirement, no record stays
\* retired in one table and published in the other, however syncs overlap.
THEOREM Agree == Spec => []TablesAgree
<1>1. Init => TablesAgree
  BY DEF Init, TablesAgree
<1> QED
  BY <1>1, InitType, TypeStep, AgreeStep, PTL DEF Spec

-----------------------------------------------------------------------------
(* What a sync that imports leaves to be shown.                            *)

\* What a sync has fetched is on its list; an idle one has none; the record a single sync
\* asked for is there or it is not.
ListedFor(e) ==
  /\ pc[e] = "idle" => held[e] = {} /\ gone[e] = {} /\ changed[e] = {} /\ skipped[e] = {}
  /\ pc[e] = "crawl" /\ Lists(e) => held[e] \subseteq changed[e]
  /\ pc[e] = "crawl" /\ kind[e] = "single" =>
       /\ changed[e] = {} \/ gone[e] = {}
       /\ todo[e] # {} => changed[e] = {} /\ gone[e] = {} /\ \E r \in Records : todo[e] = {r}
  /\ ~Lists(e) => changed[e] = {}

Listed == \A e \in Syncs : ListedFor(e)

LEMMA ListedStep == TypeOK /\ Listed /\ [Next]_vars => Listed'
<1> SUFFICES ASSUME TypeOK, Listed, [Next]_vars PROVE Listed'
  OBVIOUS
<1> USE DEF TypeOK, history, state, shown, Lists, ListedFor
<1>1. ASSUME NEW x \in Records, Change(x) \/ Visit(x) PROVE Listed'
  <2>1. UNCHANGED <<local, skipped>>
    BY <1>1 DEF Change, Visit
  <2> QED
    BY <2>1 DEF local, Listed
<1>2. ASSUME NEW d \in Syncs, NEW k \in Kinds, NEW S \in Asked(k), Begin(d, k, S) PROVE Listed'
  <2>1. k = "single" => \E r \in Records : S = {r}
    BY DEF Asked
  <2>2. changed[d] = {} /\ gone[d] = {} /\ held[d] = {}
    BY <1>2 DEF Begin, Listed
  <2> QED
    BY <1>2, <2>1, <2>2 DEF Begin, Listed
<1>3. ASSUME NEW d \in Syncs, NEW S \in SUBSET Records, Fetch(d, S) PROVE Listed'
  <2> SUFFICES ASSUME NEW e \in Syncs PROVE ListedFor(e)'
    BY DEF Listed
  <2>1. CASE e # d
    BY <1>3, <2>1 DEF Fetch, Answer, Listed
  <2>2. CASE e = d /\ kind[e] = "single"
    <3>1. changed[e] = {} /\ gone[e] = {} /\ \E r \in Records : todo[e] = {r}
      BY <1>3, <2>2 DEF Fetch, Listed
    <3>2. S = todo[e]
      BY <1>3, <2>2, <3>1 DEF Fetch
    <3>3. Answer(S) = {} \/ S \ Answer(S) = {}
      BY <3>1, <3>2 DEF Answer
    <3>4. /\ todo'[e] = {} /\ changed'[e] = Answer(S) /\ gone'[e] = S \ Answer(S)
          /\ held'[e] \subseteq changed'[e] /\ pc'[e] = "crawl" /\ kind' = kind
      BY <1>3, <2>2, <3>1, <3>2 DEF Fetch, Listed
    <3> QED
      BY <2>2, <3>3, <3>4
  <2>3. CASE e = d /\ kind[e] # "single"
    BY <1>3, <2>3 DEF Fetch, Answer, Listed
  <2> QED
    BY <2>1, <2>2, <2>3
<1>4. ASSUME NEW d \in Syncs, NEW S \in SUBSET Records, FlushRows(d, S) PROVE Listed'
  BY <1>4 DEF FlushRows, Listed
<1>5. ASSUME NEW d \in Syncs, NEW x \in Records, SkipRecord(d, x) PROVE Listed'
  <2>1. pc[d] = "crawl"
    BY <1>5 DEF SkipRecord
  <2>2. kind[d] = "single" /\ todo'[d] # {} => todo'[d] = todo[d]
    BY <1>5, <2>1 DEF SkipRecord, Listed
  <2> QED
    BY <1>5, <2>1, <2>2 DEF SkipRecord, Listed
<1>6. ASSUME NEW d \in Syncs, EndCrawl(d) \/ Retire(d) \/ Refresh(d) \/ Break(d) PROVE Listed'
  <2>1. /\ pc[d] # "idle" /\ pc'[d] \notin {"idle", "crawl"} /\ changed'[d] \subseteq changed[d]
        /\ \A e \in Syncs \ {d} : /\ pc'[e] = pc[e] /\ gone'[e] = gone[e]
                                  /\ todo'[e] = todo[e] /\ held'[e] = held[e]
                                  /\ changed'[e] = changed[e]
        /\ UNCHANGED <<kind, skipped>>
    BY <1>6 DEF EndCrawl, AfterCrawl, Retire, MarkMissing, RetireState, RetireRows, Refresh, ReadRows,
       IndexRows, RefreshCaches, Warm, Break, Active
  <2> SUFFICES ASSUME NEW e \in Syncs PROVE ListedFor(e)'
    BY DEF Listed
  <2>2. CASE e = d
    <3>1. ~Lists(d) => changed[d] = {}
      BY DEF Listed
    <3>2. ~Lists(d)' => changed'[d] = {}
      BY <2>1, <3>1
    <3> QED
      BY <2>1, <2>2, <3>2
  <2>3. CASE e # d
    <3>1. ListedFor(e)
      BY DEF Listed
    <3> QED
      BY <2>1, <2>3, <3>1
  <2> QED
    BY <2>2, <2>3
<1>7. CASE UNCHANGED vars
  BY <1>7 DEF vars, local, Listed
<1> QED
  BY <1>1, <1>2, <1>3, <1>4, <1>5, <1>6, <1>7 DEF Next, Crawl

LEMMA ShownStep == TypeOK /\ Listed /\ ImportsAreShown /\ [Next]_vars => ImportsAreShown'
<1> SUFFICES ASSUME TypeOK, Listed, ImportsAreShown, [Next]_vars,
                    NEW r \in Records, r \notin dropped', row'[r] = "published"
             PROVE  /\ doc'[r] = "published" \/ \E e \in Syncs : r \in ToIndex(e)'
                    /\ page'[r] \in {"none", "published"} \/ \E e \in Syncs : r \in ToRefresh(e)'
  BY DEF ImportsAreShown
<1> DEFINE Shown == /\ doc[r] = "published" \/ \E e \in Syncs : r \in ToIndex(e)
                    /\ page[r] \in {"none", "published"} \/ \E e \in Syncs : r \in ToRefresh(e)
<1> USE DEF TypeOK, history, state, shown, ToIndex, ToRefresh
<1>0. row[r] = "published" /\ r \notin dropped => Shown
  BY DEF ImportsAreShown
<1>1. ASSUME NEW x \in Records, Change(x) \/ Visit(x) PROVE Shown'
  BY <1>0, <1>1 DEF Change, Visit, local
<1>2. ASSUME NEW d \in Syncs, NEW k \in Kinds, NEW S, Begin(d, k, S) PROVE Shown'
  BY <1>0, <1>2 DEF Begin
<1>3. ASSUME NEW d \in Syncs, NEW S \in SUBSET Records, Fetch(d, S) PROVE Shown'
  BY <1>0, <1>3 DEF Fetch, Answer
<1>4. ASSUME NEW d \in Syncs, NEW S \in SUBSET Records, FlushRows(d, S) PROVE Shown'
  <2>1. CASE r \in S
    <3>1. Lists(d)
      BY <1>4, <2>1 DEF FlushRows
    <3>2. r \in changed[d]
      BY <1>4, <2>1, <3>1 DEF FlushRows, Listed, ListedFor, Lists
    <3> QED
      BY <1>4, <3>2 DEF FlushRows
  <2>2. CASE r \notin S
    BY <1>0, <1>4, <2>2 DEF FlushRows
  <2> QED
    BY <2>1, <2>2
<1>5. ASSUME NEW d \in Syncs, NEW x \in Records, SkipRecord(d, x) PROVE Shown'
  BY <1>0, <1>5 DEF SkipRecord
<1>6. ASSUME NEW d \in Syncs, EndCrawl(d) PROVE Shown'
  <2>1. ASSUME r \in changed[d] PROVE pc'[d] = "readRows"
    <3>1. pc[d] = "crawl" /\ Lists(d) /\ ~(kind[d] = "single" /\ gone[d] # {})
      BY <1>6, <2>1 DEF EndCrawl, Listed, ListedFor, Lists
    <3> QED
      BY <1>6, <2>1, <3>1 DEF EndCrawl, AfterCrawl, Lists
  <2> QED
    BY <1>0, <1>6, <2>1 DEF EndCrawl, AfterCrawl
<1>7. ASSUME NEW d \in Syncs, Retire(d) PROVE Shown'
  <2>1. row[r] = "published"
    BY <1>7 DEF Retire, MarkMissing, RetireState, RetireRows
  <2> QED
    BY <1>0, <1>7, <2>1 DEF Retire, MarkMissing, RetireState, RetireRows
<1>8. ASSUME NEW d \in Syncs, ReadRows(d) PROVE Shown'
  BY <1>0, <1>8 DEF ReadRows
<1>9. ASSUME NEW d \in Syncs, NEW S \in SUBSET Records, IndexRows(d, S) PROVE Shown'
  BY <1>0, <1>9 DEF IndexRows
<1>10. ASSUME NEW d \in Syncs, NEW S \in SUBSET Records, RefreshCaches(d, S) PROVE Shown'
  BY <1>0, <1>10 DEF RefreshCaches
<1>11. ASSUME NEW d \in Syncs, NEW S \in SUBSET Records, Warm(d, S) PROVE Shown'
  BY <1>0, <1>11 DEF Warm
<1>12. ASSUME NEW d \in Syncs, Break(d) PROVE Shown'
  BY <1>0, <1>12 DEF Break
<1>13. CASE UNCHANGED vars
  BY <1>0, <1>13 DEF vars, local
<1> QED
  BY <1>1, <1>2, <1>3, <1>4, <1>5, <1>6, <1>7, <1>8, <1>9, <1>10, <1>11, <1>12, <1>13
  DEF Next, Crawl, Refresh

\* What a delta or single sync has imported is indexed and refreshed, or on the list of a
\* sync at work, however syncs and clients overlap, unless the refresh failed or got lost.
THEOREM ImportsShown == Spec => []ImportsAreShown
<1>1. Init => Listed
  BY DEF Init, Listed, ListedFor
<1>2. Init => ImportsAreShown
  BY DEF Init, ImportsAreShown
<1> QED
  BY <1>1, <1>2, InitType, TypeStep, ListedStep, ShownStep, PTL DEF Spec

-----------------------------------------------------------------------------
(* What a full sync that runs alone leaves.                                *)

\* Only full syncs and batches mark; only those that list records refresh them.
Scoped ==
  \A e \in Syncs :
    /\ pc[e] = "mark" => kind[e] \in {"full", "batch"}
    /\ pc[e] \in {"readRows", "index", "refresh", "warm"} => Lists(e)

\* No stamp is from the future; a record with a stamp, or of a batch, has a row.
Stamped ==
  /\ \A r \in Records : seen[r] <= clock /\ (seen[r] # 0 => row[r] # "none")
  /\ \A e \in Syncs : pc[e] # "idle" =>
       /\ start[e] <= clock /\ start[e] # 0
       /\ kind[e] = "batch" => \A r \in todo[e] \cup gone[e] : row[r] # "none"

\* While a sync is alone no other is active and no start is later.
Alone ==
  \A e \in Syncs : alone[e] =>
    pc[e] # "idle" /\ start[e] = clock /\ \A d \in Syncs \ {e} : ~Active(d)

\* What is missing is retired, or a sync is about to retire it.
MissingRetired ==
  ~split => \A r \in Records : missing[r] =>
    retired[r] \/ \E e \in Syncs : pc[e] = "retireState" /\ r \in gone[e]

Imported(e, r) == seen[r] = start[e] /\ row[r] = "published" /\ ~missing[r] /\ ~retired[r]

\* A full sync in question: alone, with no record passed over.
Sole(e) == alone[e] /\ kind[e] = "full" /\ skipped[e] = {} /\ ~split

\* While it crawls its stamp is on what the bridge serves and nothing else.
CrawlingFor(e) ==
  /\ held[e] \subseteq served
  /\ \A r \in Records : seen[r] = start[e] => r \in served
  /\ \A r \in served : r \in todo[e] \/ r \in held[e] \/ Imported(e, r)
  /\ pc[e] = "mark" => todo[e] = {} /\ held[e] = {}

Crawling == \A e \in Syncs : Sole(e) /\ pc[e] \in {"crawl", "mark"} => CrawlingFor(e)

\* Afterwards the rest is retired or about to be.
RetiringFor(e) ==
  /\ \A r \in served : r \notin gone[e] /\ Imported(e, r)
  /\ \A r \in Records \ served : seen[r] # 0 =>
       missing[r] /\ (row[r] = "retired" \/ (r \in gone[e] /\ pc[e] # "success"))

Retiring ==
  \A e \in Syncs : Sole(e) /\ pc[e] \in {"retireState", "retireRows", "success"} => RetiringFor(e)

LEMMA ScopedStep == TypeOK /\ Scoped /\ [Next]_vars => Scoped'
<1> SUFFICES ASSUME TypeOK, Scoped, [Next]_vars, NEW e \in Syncs
             PROVE  /\ pc'[e] = "mark" => kind'[e] \in {"full", "batch"}
                    /\ pc'[e] \in {"readRows", "index", "refresh", "warm"} => Lists(e)'
  BY DEF Scoped
<1>1. CASE UNCHANGED <<pc, kind>>
  BY <1>1 DEF Scoped, Lists
<1>2. ASSUME NEW d \in Syncs, NEW k \in Kinds, NEW S, Begin(d, k, S),
             pc'[e] \in {"mark", "readRows", "index", "refresh", "warm"}
      PROVE  pc'[e] = pc[e] /\ kind'[e] = kind[e]
  BY <1>2 DEF Begin, TypeOK
<1>3. ASSUME NEW d \in Syncs, EndCrawl(d) \/ Retire(d) \/ Refresh(d) \/ Break(d)
      PROVE  kind' = kind /\ (e # d => pc'[e] = pc[e])
  BY <1>3 DEF TypeOK, EndCrawl, Retire, MarkMissing, RetireState, RetireRows, Refresh,
     ReadRows, IndexRows, RefreshCaches, Warm, Break
<1>4. EndCrawl(e) => /\ pc'[e] = "mark" => kind[e] \in {"full", "batch"}
                     /\ pc'[e] \in {"readRows", "index", "refresh", "warm"} => Lists(e)
  BY DEF TypeOK, EndCrawl, AfterCrawl
<1>5. Retire(e) \/ Break(e) => pc'[e] \in {"retireState", "retireRows", "success", "stopped"}
  BY DEF TypeOK, Retire, MarkMissing, RetireState, RetireRows, Break
<1>6. Refresh(e) => pc[e] \in {"readRows", "index", "refresh", "warm"} /\ pc'[e] # "mark"
  BY DEF TypeOK, Refresh, ReadRows, IndexRows, RefreshCaches, Warm
<1>7. ASSUME NEW d \in Syncs, EndCrawl(d) \/ Retire(d) \/ Refresh(d) \/ Break(d)
      PROVE  /\ pc'[e] = "mark" => kind'[e] \in {"full", "batch"}
             /\ pc'[e] \in {"readRows", "index", "refresh", "warm"} => Lists(e)'
  BY <1>3, <1>4, <1>5, <1>6, <1>7 DEF Scoped, Lists
<1>8. ASSUME NEW x \in Records, Change(x) \/ Visit(x) PROVE UNCHANGED <<pc, kind>>
  BY <1>8 DEF Change, Visit, local
<1>9. ASSUME NEW d \in Syncs, NEW S, Fetch(d, S) \/ FlushRows(d, S) PROVE UNCHANGED <<pc, kind>>
  BY <1>9 DEF Fetch, FlushRows
<1>10. ASSUME NEW d \in Syncs, NEW x \in Records, SkipRecord(d, x) PROVE UNCHANGED <<pc, kind>>
  BY <1>10 DEF SkipRecord
<1>11. UNCHANGED vars => UNCHANGED <<pc, kind>>
  BY DEF vars, local
<1> QED
  BY <1>1, <1>2, <1>7, <1>8, <1>9, <1>10, <1>11 DEF Next, Crawl, Scoped, Lists

LEMMA StampedStep == TypeOK /\ Listed /\ Scoped /\ Stamped /\ [Next]_vars => Stamped'
<1> SUFFICES ASSUME TypeOK, Listed, Scoped, Stamped, [Next]_vars PROVE Stamped'
  OBVIOUS
<1> USE DEF TypeOK, state, history, shown
<1>1. ASSUME NEW x \in Records, Change(x) \/ Visit(x) PROVE Stamped'
  <2>1. UNCHANGED <<state, clock, local>>
    BY <1>1 DEF Change, Visit
  <2> QED
    BY <2>1 DEF local, Stamped
<1>2. ASSUME NEW d \in Syncs, NEW k \in Kinds, NEW S \in Asked(k), Begin(d, k, S)
      PROVE Stamped'
  <2>1. k = "batch" => \A r \in S : row[r] # "none"
    BY DEF Asked
  <2>2. gone[d] = {}
    BY <1>2 DEF Begin, Listed, ListedFor
  <2> QED
    BY <1>2, <2>1, <2>2 DEF Begin, Stamped
<1>3. ASSUME NEW d \in Syncs, NEW S \in SUBSET Records, Fetch(d, S) PROVE Stamped'
  BY <1>3 DEF Fetch, Answer, Stamped
<1>4. ASSUME NEW d \in Syncs, NEW S \in SUBSET Records, FlushRows(d, S) PROVE Stamped'
  BY <1>4 DEF FlushRows, Stamped
<1>5. ASSUME NEW d \in Syncs, NEW x \in Records, SkipRecord(d, x) PROVE Stamped'
  BY <1>5 DEF SkipRecord, Stamped
<1>6. ASSUME NEW d \in Syncs, EndCrawl(d) \/ Refresh(d) \/ Break(d) PROVE Stamped'
  <2>1. /\ UNCHANGED <<row, seen, clock, kind, start>>
        /\ todo'[d] \subseteq todo[d] /\ gone'[d] \subseteq gone[d] /\ pc[d] # "idle"
        /\ \A e \in Syncs \ {d} : pc'[e] = pc[e] /\ todo'[e] = todo[e] /\ gone'[e] = gone[e]
    BY <1>6 DEF EndCrawl, Refresh, ReadRows, IndexRows, RefreshCaches, Warm, Break, Active
  <2> QED
    BY <2>1 DEF Stamped
<1>7. ASSUME NEW d \in Syncs, MarkMissing(d) PROVE Stamped'
  <2>1. \A r \in gone'[d] : row[r] # "none"
    BY <1>7 DEF MarkMissing, Stale, Scoped, Stamped
  <2>2. ASSUME NEW r \in Records PROVE seen'[r] <= clock /\ (seen'[r] # 0 => row[r] # "none")
    BY <1>7, <2>1 DEF MarkMissing, Stamped
  <2>3. \A e \in Syncs : kind[e] = "batch" => gone'[e] = gone[e]
    BY <1>7 DEF MarkMissing
  <2> QED
    BY <1>7, <2>2, <2>3 DEF MarkMissing, Stamped
<1>8. ASSUME NEW d \in Syncs, RetireState(d) PROVE Stamped'
  BY <1>8 DEF RetireState, Stamped
<1>9. ASSUME NEW d \in Syncs, RetireRows(d) PROVE Stamped'
  BY <1>9 DEF RetireRows, Stamped
<1>10. CASE UNCHANGED vars
  BY <1>10 DEF vars, local, Stamped
<1> QED
  BY <1>1, <1>2, <1>3, <1>4, <1>5, <1>6, <1>7, <1>8, <1>9, <1>10 DEF Next, Crawl, Retire

LEMMA AloneStep == TypeOK /\ Stamped /\ Alone /\ [Next]_vars => Alone'
<1> SUFFICES ASSUME TypeOK, Stamped, Alone, [Next]_vars, NEW e \in Syncs, alone'[e]
             PROVE  /\ pc'[e] # "idle" /\ start'[e] = clock'
                    /\ \A d \in Syncs \ {e} : ~Active(d)'
  BY DEF Alone
<1> USE DEF TypeOK, state, history, shown, Active
<1>1. ASSUME NEW x \in Records, Change(x) PROVE FALSE
  BY <1>1 DEF Change
<1>2. ASSUME NEW d \in Syncs, NEW k \in Kinds, NEW S, Begin(d, k, S)
      PROVE  pc'[e] # "idle" /\ start'[e] = clock' /\ \A f \in Syncs \ {e} : ~Active(f)'
  BY <1>2 DEF Begin
<1>3. ASSUME UNCHANGED <<clock, start, alone>>,
             \A d \in Syncs : pc'[d] # pc[d] => Active(d) /\ pc'[d] # "idle"
      PROVE  pc'[e] # "idle" /\ start'[e] = clock' /\ \A d \in Syncs \ {e} : ~Active(d)'
  <2>1. pc[e] # "idle" /\ start[e] = clock /\ \A d \in Syncs \ {e} : ~Active(d)
    BY <1>3 DEF Alone
  <2> QED
    BY <1>3, <2>1
<1>4. ASSUME NEW x \in Records, Visit(x) PROVE UNCHANGED <<clock, start, alone, pc>>
  BY <1>4 DEF Visit, local
<1>5. ASSUME NEW d \in Syncs, Crawl(d) \/ Retire(d) \/ Refresh(d) \/ Break(d)
      PROVE  /\ UNCHANGED <<clock, start, alone>>
             /\ \A f \in Syncs : pc'[f] # pc[f] => Active(f) /\ pc'[f] # "idle"
  BY <1>5 DEF Crawl, Fetch, FlushRows, EndCrawl, AfterCrawl, Retire, MarkMissing, RetireState, RetireRows,
     Refresh, ReadRows, IndexRows, RefreshCaches, Warm, Break
<1>6. ASSUME NEW d \in Syncs, NEW x \in Records, SkipRecord(d, x)
      PROVE  UNCHANGED <<clock, start, alone, pc>>
  BY <1>6 DEF SkipRecord
<1>7. UNCHANGED vars => UNCHANGED <<clock, start, alone, pc>>
  BY DEF vars, local
<1> QED
  BY <1>1, <1>2, <1>3, <1>4, <1>5, <1>6, <1>7 DEF Next

LEMMA MissingStep == TypeOK /\ MissingRetired /\ [Next]_vars => MissingRetired'
<1> SUFFICES ASSUME TypeOK, MissingRetired, [Next]_vars, ~split',
                    NEW r \in Records, missing'[r]
             PROVE  retired'[r] \/ \E e \in Syncs : pc'[e] = "retireState" /\ r \in gone'[e]
  BY DEF MissingRetired
<1> DEFINE Seen == retired[r] \/ \E e \in Syncs : pc[e] = "retireState" /\ r \in gone[e]
<1> USE DEF TypeOK, state, history, shown
<1>0. split = FALSE
  BY DEF Next, vars, Crawl, Retire, Refresh, Change, Visit, Begin, Fetch, FlushRows,
     SkipRecord, EndCrawl, MarkMissing, RetireState, RetireRows, ReadRows, IndexRows,
     RefreshCaches, Warm, Break
<1>1. missing[r] => Seen
  BY <1>0 DEF MissingRetired
<1>2. ASSUME NEW x \in Records, Change(x) \/ Visit(x) PROVE Seen'
  BY <1>1, <1>2 DEF Change, Visit, local
<1>3. ASSUME NEW d \in Syncs, NEW k \in Kinds, NEW S, Begin(d, k, S) PROVE Seen'
  BY <1>1, <1>3 DEF Begin
<1>4. ASSUME NEW d \in Syncs, NEW S \in SUBSET Records, Fetch(d, S) PROVE Seen'
  BY <1>1, <1>4 DEF Fetch, Answer
<1>5. ASSUME NEW d \in Syncs, NEW S \in SUBSET Records, FlushRows(d, S) PROVE Seen'
  BY <1>1, <1>5 DEF FlushRows
<1>6. ASSUME NEW d \in Syncs, NEW x \in Records, SkipRecord(d, x) PROVE Seen'
  BY <1>1, <1>6 DEF SkipRecord
<1>7. ASSUME NEW d \in Syncs, EndCrawl(d) PROVE Seen'
  BY <1>1, <1>7 DEF EndCrawl
<1>8. ASSUME NEW d \in Syncs, MarkMissing(d) PROVE Seen'
  BY <1>1, <1>8 DEF MarkMissing
<1>9. ASSUME NEW d \in Syncs, RetireState(d) PROVE Seen'
  BY <1>1, <1>9 DEF RetireState
<1>10. ASSUME NEW d \in Syncs, RetireRows(d) PROVE Seen'
  BY <1>1, <1>10 DEF RetireRows
<1>11. ASSUME NEW d \in Syncs, Refresh(d) PROVE Seen'
  BY <1>1, <1>11 DEF Refresh, ReadRows, IndexRows, RefreshCaches, Warm
<1>12. ASSUME NEW d \in Syncs, Break(d) PROVE Seen'
  BY <1>0, <1>1, <1>12 DEF Break
<1>13. CASE UNCHANGED vars
  BY <1>1, <1>13 DEF vars, local
<1> QED
  BY <1>2, <1>3, <1>4, <1>5, <1>6, <1>7, <1>8, <1>9, <1>10, <1>11, <1>12, <1>13
  DEF Next, Crawl, Retire

\* While a full sync is alone, only it takes steps, and it is not one that refreshes.
LEMMA OnlySole ==
  ASSUME TypeOK, Scoped, Alone, NEW e \in Syncs, Sole(e)', NEW d \in Syncs,
         Crawl(d) \/ Retire(d) \/ Refresh(d) \/ Break(d)
  PROVE  /\ Sole(e) /\ d = e /\ ~Refresh(d)
         /\ UNCHANGED <<served, start>>
<1> USE DEF TypeOK, history
<1>1. UNCHANGED <<served, start, alone, kind, skipped>> /\ (~split' => ~split) /\ Active(d)
  BY DEF Crawl, Fetch, FlushRows, EndCrawl, Retire, MarkMissing, RetireState, RetireRows,
     Refresh, ReadRows, IndexRows, RefreshCaches, Warm, Break, Active
<1>2. Sole(e)
  BY <1>1 DEF Sole
<1>3. d = e
  BY <1>1, <1>2 DEF Sole, Alone
<1>4. ~Refresh(d)
  BY <1>2, <1>3 DEF Sole, Scoped, Lists, Refresh, ReadRows, IndexRows, RefreshCaches, Warm
<1> QED
  BY <1>1, <1>2, <1>3, <1>4

LEMMA CrawlingStep ==
  TypeOK /\ Listed /\ Scoped /\ Stamped /\ Alone /\ Crawling /\ [Next]_vars => Crawling'
<1> SUFFICES ASSUME TypeOK, Listed, Scoped, Stamped, Alone, Crawling, [Next]_vars,
                    NEW e \in Syncs, Sole(e)', pc'[e] \in {"crawl", "mark"}
             PROVE  CrawlingFor(e)'
  BY DEF Crawling
<1> USE DEF TypeOK, state, history, shown
<1>1. ASSUME NEW x \in Records, Change(x) PROVE FALSE
  BY <1>1 DEF Change, Sole
<1>2. ASSUME UNCHANGED <<served, state, local, history>> PROVE CrawlingFor(e)'
  BY <1>2 DEF local, Crawling, CrawlingFor, Sole, Imported
<1>3. ASSUME NEW x \in Records, Visit(x) PROVE CrawlingFor(e)'
  BY <1>2, <1>3 DEF Visit
<1>4. ASSUME NEW d \in Syncs, NEW k \in Kinds, NEW S \in Asked(k), Begin(d, k, S)
      PROVE  CrawlingFor(e)'
  <2>1. d = e /\ k = "full"
    BY <1>4 DEF Begin, Sole
  <2>2. S = Records
    BY <2>1 DEF Asked
  <2>3. held[e] = {}
    BY <1>4, <2>1 DEF Begin, Listed, ListedFor
  <2>4. todo'[e] = Records /\ held'[e] = {} /\ pc'[e] = "crawl" /\ start'[e] = clock + 1
    BY <1>4, <2>1, <2>2, <2>3 DEF Begin
  <2>5. \A r \in Records : seen'[r] # start'[e]
    BY <1>4, <2>4 DEF Begin, Stamped
  <2> QED
    BY <1>4, <2>4, <2>5 DEF Begin, CrawlingFor
<1>5. ASSUME NEW S \in SUBSET Records, Sole(e), Fetch(e, S) PROVE CrawlingFor(e)'
  <2>1. CrawlingFor(e) /\ pc'[e] = "crawl"
    BY <1>5 DEF Fetch, Crawling
  <2>2. todo'[e] = todo[e] \ S /\ held'[e] = held[e] \cup (S \cap served)
    BY <1>5 DEF Fetch, Answer
  <2> QED
    BY <1>5, <2>1, <2>2 DEF Fetch, CrawlingFor, Imported
<1>6. ASSUME NEW S \in SUBSET Records, Sole(e), FlushRows(e, S) PROVE CrawlingFor(e)'
  <2>1. CrawlingFor(e) /\ pc'[e] = "crawl"
    BY <1>6 DEF FlushRows, Crawling
  <2>2. S \subseteq served /\ held'[e] = held[e] \ S /\ UNCHANGED <<todo, start, served>>
    BY <1>6, <2>1 DEF FlushRows, CrawlingFor
  <2>3. \A r \in S : Imported(e, r)'
    BY <1>6 DEF FlushRows, Imported
  <2>4. \A r \in Records \ S : seen'[r] = seen[r] /\ (Imported(e, r) => Imported(e, r)')
    BY <1>6 DEF FlushRows, Imported
  <2> QED
    BY <2>1, <2>2, <2>3, <2>4 DEF CrawlingFor
<1>7. ASSUME NEW x \in Records, NEW d \in Syncs, SkipRecord(d, x) PROVE FALSE
  <2>1. Active(d) /\ UNCHANGED alone
    BY <1>7 DEF SkipRecord, Active
  <2>2. d = e
    BY <2>1 DEF Sole, Alone
  <2> QED
    BY <1>7, <2>2 DEF SkipRecord, Sole
<1>8. ASSUME Sole(e), EndCrawl(e) PROVE CrawlingFor(e)'
  BY <1>8 DEF EndCrawl, Crawling, CrawlingFor, Imported
<1>9. ASSUME Retire(e) \/ Break(e) PROVE FALSE
  BY <1>9 DEF Retire, MarkMissing, RetireState, RetireRows, Break
<1>10. ASSUME NEW d \in Syncs, Crawl(d) \/ Retire(d) \/ Refresh(d) \/ Break(d)
       PROVE  CrawlingFor(e)'
  <2>1. Sole(e) /\ d = e /\ ~Refresh(d)
    BY <1>10, OnlySole
  <2> QED
    BY <1>5, <1>6, <1>8, <1>9, <1>10, <2>1 DEF Crawl
<1>11. CASE UNCHANGED vars
  BY <1>2, <1>11 DEF vars
<1> QED
  BY <1>1, <1>3, <1>4, <1>7, <1>10, <1>11 DEF Next

LEMMA RetiringStep ==
  /\ TypeOK /\ TablesAgree /\ Listed /\ Scoped /\ Stamped /\ Alone /\ MissingRetired
  /\ Crawling /\ Retiring /\ [Next]_vars
  => Retiring'
<1> SUFFICES ASSUME TypeOK, TablesAgree, Listed, Scoped, Stamped, Alone, MissingRetired,
                    Crawling, Retiring, [Next]_vars, NEW e \in Syncs, Sole(e)',
                    pc'[e] \in {"retireState", "retireRows", "success"}
             PROVE  RetiringFor(e)'
  BY DEF Retiring
<1> USE DEF TypeOK, state, history, shown
<1>1. ASSUME NEW x \in Records, Change(x) PROVE FALSE
  BY <1>1 DEF Change, Sole
<1>2. ASSUME UNCHANGED <<served, state, local, history>> PROVE RetiringFor(e)'
  BY <1>2 DEF local, Retiring, RetiringFor, Sole, Imported
<1>3. ASSUME NEW x \in Records, Visit(x) PROVE RetiringFor(e)'
  BY <1>2, <1>3 DEF Visit
<1>4. ASSUME NEW d \in Syncs, NEW k \in Kinds, NEW S, Begin(d, k, S) PROVE FALSE
  BY <1>4 DEF Begin, Sole
<1>5. ASSUME Sole(e), Active(e), NEW r \in Records, row[r] = "published", retired[r]
      PROVE  pc[e] = "retireRows" /\ r \in gone[e]
  BY <1>5 DEF Sole, Alone, TablesAgree, Active
<1>6. ASSUME Sole(e), MarkMissing(e) PROVE RetiringFor(e)'
  <2>1. CrawlingFor(e) /\ pc[e] = "mark"
    BY <1>6 DEF MarkMissing, Crawling
  <2>2. \A r \in served : Imported(e, r)
    BY <2>1 DEF CrawlingFor
  <2>3. gone'[e] = Stale(e) /\ start'[e] = start[e] /\ start[e] = clock
    BY <1>6 DEF MarkMissing, Sole, Alone
  <2>4. ASSUME NEW r \in served PROVE r \notin gone'[e] /\ Imported(e, r)'
    <3>1. r \notin Stale(e)
      BY <2>2, <2>4 DEF Stale, Imported
    <3> QED
      BY <1>6, <2>2, <2>3, <2>4, <3>1 DEF MarkMissing, Imported
  <2>5. ASSUME NEW r \in Records \ served, seen'[r] # 0
        PROVE  missing'[r] /\ (row'[r] = "retired" \/ r \in gone'[e])
    <3>1. seen'[r] = seen[r]
      BY <1>6, <2>3 DEF MarkMissing, Stale
    <3>2. seen[r] < start[e] /\ row[r] # "none"
      <4>1. seen[r] <= clock /\ row[r] # "none"
        BY <2>5, <3>1 DEF Stamped
      <4>2. seen[r] # start[e]
        BY <2>1, <2>5 DEF CrawlingFor
      <4>3. seen[r] \in Nat /\ clock \in Nat /\ start[e] = clock
        BY <2>3
      <4> HIDE DEF TypeOK
      <4>4. seen[r] < clock
        BY <4>1, <4>2, <4>3
      <4> QED
        BY <4>1, <4>3, <4>4
    <3>3. CASE ~missing[r]
      BY <1>6, <2>3, <2>5, <3>1, <3>2, <3>3 DEF MarkMissing, Stale
    <3>4. CASE missing[r]
      <4>1. retired[r]
        BY <1>6, <2>1, <3>4 DEF MissingRetired, Sole, Alone, Active
      <4>2. row[r] # "published"
        BY <1>5, <1>6, <2>1, <4>1 DEF Active
      <4> QED
        BY <1>6, <3>2, <3>4, <4>2 DEF MarkMissing, RowStates
    <3> QED
      BY <3>3, <3>4
  <2> QED
    BY <1>6, <2>4, <2>5 DEF MarkMissing, RetiringFor
<1>7. ASSUME Sole(e), RetireState(e) PROVE RetiringFor(e)'
  <2>1. RetiringFor(e) /\ pc[e] = "retireState"
    BY <1>7 DEF RetireState, Retiring
  <2>2. gone'[e] = {r \in gone[e] : ~retired[r]} /\ pc'[e] \in {"retireRows", "success"}
    BY <1>7 DEF RetireState
  <2>3. pc'[e] = "success" => gone'[e] = {}
    BY <1>7, <2>2 DEF RetireState
  <2>4. ASSUME NEW r \in served PROVE r \notin gone'[e] /\ Imported(e, r)'
    BY <1>7, <2>1, <2>2, <2>4 DEF RetireState, RetiringFor, Imported
  <2>5. ASSUME NEW r \in Records \ served, seen'[r] # 0, row'[r] # "retired"
        PROVE  missing'[r] /\ r \in gone'[e]
    <3>1. missing[r] /\ r \in gone[e] /\ row[r] # "retired"
      BY <1>7, <2>1, <2>5 DEF RetireState, RetiringFor
    <3>2. row[r] = "published"
      BY <1>7, <2>5, <3>1 DEF RetireState, Stamped, RowStates
    <3>3. ~retired[r]
      BY <1>5, <1>7, <2>1, <3>2 DEF Active
    <3> QED
      BY <1>7, <2>2, <3>1, <3>3 DEF RetireState
  <2>6. \A r \in Records \ served : seen'[r] # 0 => missing'[r]
    BY <1>7, <2>1 DEF RetireState, RetiringFor
  <2>7. UNCHANGED served
    BY <1>7 DEF RetireState
  <2> QED
    BY <2>3, <2>4, <2>5, <2>6, <2>7 DEF RetiringFor
<1>8. ASSUME Sole(e), RetireRows(e) PROVE RetiringFor(e)'
  <2>1. RetiringFor(e) /\ pc[e] = "retireRows"
    BY <1>8 DEF RetireRows, Retiring
  <2>2. ASSUME NEW r \in served PROVE r \notin gone'[e] /\ Imported(e, r)'
    BY <1>8, <2>1, <2>2 DEF RetireRows, RetiringFor, Imported
  <2>3. ASSUME NEW r \in Records \ served, seen'[r] # 0
        PROVE  missing'[r] /\ row'[r] = "retired"
    BY <1>8, <2>1, <2>3 DEF RetireRows, RetiringFor, Stamped
  <2> QED
    BY <1>8, <2>2, <2>3 DEF RetireRows, RetiringFor
<1>9. ASSUME Sole(e), Crawl(e) \/ Break(e) PROVE FALSE
  BY <1>9 DEF Crawl, Fetch, FlushRows, EndCrawl, AfterCrawl, Break, Sole
<1>10. ASSUME NEW x \in Records, NEW d \in Syncs, SkipRecord(d, x) PROVE FALSE
  <2>1. Active(d) /\ UNCHANGED alone
    BY <1>10 DEF SkipRecord, Active
  <2>2. d = e
    BY <2>1 DEF Sole, Alone
  <2> QED
    BY <1>10, <2>2 DEF SkipRecord, Sole
<1>11. ASSUME NEW d \in Syncs, Crawl(d) \/ Retire(d) \/ Refresh(d) \/ Break(d)
       PROVE  RetiringFor(e)'
  <2>1. Sole(e) /\ d = e /\ ~Refresh(d)
    BY <1>11, OnlySole
  <2> QED
    BY <1>6, <1>7, <1>8, <1>9, <1>11, <2>1 DEF Retire
<1>12. CASE UNCHANGED vars
  BY <1>2, <1>12 DEF vars
<1> QED
  BY <1>1, <1>3, <1>4, <1>10, <1>11, <1>12 DEF Next

\* What a full sync that ran alone leaves is what the bridge serves, whatever overlapping,
\* failing or dying syncs of any kind came before it.
THEOREM Reconciles == Spec => []FullSyncReconciles
<1> DEFINE IInv == /\ TypeOK /\ TablesAgree /\ Listed /\ Scoped /\ Stamped /\ Alone
                   /\ MissingRetired /\ Crawling /\ Retiring
<1>1. Init => IInv
  <2> SUFFICES ASSUME Init PROVE IInv
    OBVIOUS
  <2>1. TypeOK /\ TablesAgree
    BY InitType DEF Init, TablesAgree
  <2>2. Listed /\ Scoped /\ Stamped /\ Alone /\ MissingRetired
    BY DEF Init, Listed, ListedFor, Scoped, Stamped, Alone, MissingRetired
  <2>3. Crawling /\ Retiring
    BY DEF Init, Crawling, Retiring
  <2> QED
    BY <2>1, <2>2, <2>3
<1>2. IInv /\ [Next]_vars => IInv'
  BY TypeStep, AgreeStep, ListedStep, ScopedStep, StampedStep, AloneStep, MissingStep,
     CrawlingStep, RetiringStep
<1>3. IInv => FullSyncReconciles
  BY DEF FullSyncReconciles, Reconciled, Sole, Retiring, RetiringFor, Imported
<1> QED
  BY <1>1, <1>2, <1>3, PTL DEF Spec

-----------------------------------------------------------------------------
(* What the bridge has served all along.                                   *)

\* Nobody is about to retire such a record, and a full sync has stamped it, or somebody has
\* since the sync began, before it looks for older stamps.
Kept(r) ==
  /\ seen[r] # 0 => row[r] = "published" /\ ~missing[r] /\ ~retired[r]
  /\ \A e \in Syncs :
       /\ r \notin gone[e]
       /\ kind[e] = "full" /\ pc[e] = "crawl" =>
            r \in todo[e] \/ r \in held[e] \/ start[e] <= seen[r]
       /\ kind[e] = "full" /\ pc[e] = "mark" => start[e] <= seen[r]

AllKept == \A r \in served \ excused : Kept(r)

LEMMA KeptStep == TypeOK /\ AllKept /\ [Next]_vars => AllKept'
<1> SUFFICES ASSUME TypeOK, AllKept, [Next]_vars, NEW r \in served', r \notin excused'
             PROVE  Kept(r)'
  BY DEF AllKept
<1> USE DEF TypeOK, state, history, shown
<1>1. ASSUME NEW x \in Records, Change(x) \/ Visit(x) PROVE Kept(r)'
  <2>1. r \in served \ excused /\ UNCHANGED <<state, local>>
    BY <1>1 DEF Change, Visit
  <2> QED
    BY <2>1 DEF AllKept, Kept, local
<1>2. ASSUME NEW d \in Syncs, NEW k \in Kinds, NEW S \in Asked(k), Begin(d, k, S)
      PROVE  Kept(r)'
  <2>1. Kept(r)
    BY <1>2 DEF Begin, AllKept
  <2>2. k = "full" => S = Records
    BY DEF Asked
  <2>3. r \in Records
    BY <1>2 DEF Begin
  <2> QED
    BY <1>2, <2>1, <2>2, <2>3 DEF Begin, Kept
<1>3. ASSUME NEW d \in Syncs, NEW S \in SUBSET Records, Fetch(d, S) PROVE Kept(r)'
  <2>1. Kept(r) /\ r \in served
    BY <1>3 DEF Fetch, AllKept
  <2> QED
    BY <1>3, <2>1 DEF Fetch, Answer, Kept
<1>4. ASSUME NEW d \in Syncs, NEW S \in SUBSET Records, FlushRows(d, S) PROVE Kept(r)'
  <2>1. Kept(r) /\ r \in Records
    BY <1>4 DEF FlushRows, AllKept
  <2>2. CASE r \in S
    <3>1. seen[r] <= start[d] /\ seen'[r] = start[d]
      BY <1>4, <2>1, <2>2 DEF FlushRows, Overtaken
    <3>2. \A e \in Syncs : start[e] <= seen[r] => start[e] <= seen'[r]
      BY <3>1, <2>1
    <3>3. row'[r] = "published" /\ ~missing'[r] /\ ~retired'[r]
      BY <1>4, <2>1, <2>2 DEF FlushRows
    <3>4. /\ UNCHANGED <<gone, todo, kind, pc, start>>
          /\ \A e \in Syncs \ {d} : held'[e] = held[e]
      BY <1>4 DEF FlushRows
    <3>5. start[d] <= seen'[r] /\ pc[d] = "crawl"
      BY <1>4, <3>1 DEF FlushRows
    <3> QED
      BY <2>1, <3>2, <3>3, <3>4, <3>5 DEF Kept
  <2>3. CASE r \notin S
    BY <1>4, <2>1, <2>3 DEF FlushRows, Kept
  <2> QED
    BY <2>2, <2>3
<1>5. ASSUME NEW d \in Syncs, NEW x \in Records, SkipRecord(d, x) PROVE Kept(r)'
  <2>1. Kept(r) /\ r # x
    BY <1>5 DEF SkipRecord, AllKept
  <2> QED
    BY <1>5, <2>1 DEF SkipRecord, Kept
<1>6. ASSUME NEW d \in Syncs, EndCrawl(d) PROVE Kept(r)'
  <2>1. Kept(r)
    BY <1>6 DEF EndCrawl, AllKept
  <2> QED
    BY <1>6, <2>1 DEF EndCrawl, AfterCrawl, Kept
<1>7. ASSUME NEW d \in Syncs, MarkMissing(d) PROVE Kept(r)'
  <2>1. Kept(r) /\ r \in Records
    BY <1>7 DEF MarkMissing, AllKept
  <2>2. r \notin gone'[d]
    <3>1. kind[d] = "full" => r \notin Stale(d)
      BY <1>7, <2>1 DEF MarkMissing, Stale, Kept
    <3> QED
      BY <1>7, <2>1, <3>1 DEF MarkMissing, Kept
  <2>3. seen'[r] = seen[r] /\ missing'[r] = missing[r]
    BY <1>7, <2>1, <2>2 DEF MarkMissing
  <2> QED
    BY <1>7, <2>1, <2>2, <2>3 DEF MarkMissing, Kept
<1>8. ASSUME NEW d \in Syncs, RetireState(d) \/ RetireRows(d) PROVE Kept(r)'
  <2>1. Kept(r) /\ r \in Records
    BY <1>8 DEF RetireState, RetireRows, AllKept
  <2>2. /\ UNCHANGED <<seen, missing, todo, held, start, kind>>
        /\ row'[r] = row[r] /\ retired'[r] = retired[r] /\ pc'[d] \notin {"crawl", "mark"}
        /\ gone'[d] \subseteq gone[d]
        /\ \A e \in Syncs \ {d} : pc'[e] = pc[e] /\ gone'[e] = gone[e]
    BY <1>8, <2>1 DEF RetireState, RetireRows, Kept
  <2> QED
    BY <2>1, <2>2 DEF Kept
<1>9. ASSUME NEW d \in Syncs, Refresh(d) \/ Break(d) PROVE Kept(r)'
  <2>1. Kept(r)
    BY <1>9 DEF Refresh, ReadRows, IndexRows, RefreshCaches, Warm, Break, AllKept
  <2>2. /\ UNCHANGED <<row, seen, missing, retired, start, kind>>
        /\ pc'[d] \notin {"crawl", "mark"} /\ gone'[d] \subseteq gone[d]
        /\ \A e \in Syncs \ {d} : /\ pc'[e] = pc[e] /\ gone'[e] = gone[e]
                                  /\ todo'[e] = todo[e] /\ held'[e] = held[e]
    BY <1>9 DEF Refresh, ReadRows, IndexRows, RefreshCaches, Warm, Break
  <2> QED
    BY <2>1, <2>2 DEF Kept
<1>10. CASE UNCHANGED vars
  BY <1>10 DEF vars, local, AllKept, Kept
<1> QED
  BY <1>1, <1>2, <1>3, <1>4, <1>5, <1>6, <1>7, <1>8, <1>9, <1>10 DEF Next, Crawl, Retire

\* A record that the bridge has served all along, that every sync could import and that no
\* older sync wrote after a newer one, is never marked missing nor retired, however many
\* syncs overlap and stop.
THEOREM Survives == Spec => []ServedSurvives
<1>1. Init => AllKept
  BY DEF Init, AllKept, Kept
<1>2. AllKept => ServedSurvives
  BY DEF AllKept, Kept, ServedSurvives
<1> QED
  BY <1>1, <1>2, InitType, TypeStep, KeptStep, PTL DEF Spec
=============================================================================
