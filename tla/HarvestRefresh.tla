--------------------------- MODULE HarvestRefresh ---------------------------
(***************************************************************************)
(* What an OGM harvest refreshes: the representations of the records whose *)
(* thumbnail it may have changed (importer.py, harvest.py,                 *)
(* thumbnail_refresh_service.py).                                          *)
(*                                                                         *)
(* Before it writes a batch an execution compares it with the rows there   *)
(* are, and remembers in memory which records differ in a field that       *)
(* bears on the thumbnail.  After the last batch it deletes their          *)
(* representations.  These have no expiry: readers build one from the row  *)
(* when there is none, and keep it until somebody deletes it.              *)
(*                                                                         *)
(* Abstractions: the content of a record is a value, what bears on its     *)
(* thumbnail the value's signature; the checkout is what is published at   *)
(* the time of the sync; how the rows of runs, missing records and the     *)
(* checkout are kept is in OgmHarvest; a representation is one copy,       *)
(* RepresentationCache has its stores and races.                           *)
(***************************************************************************)
CONSTANTS Resources,
          Executions,  \* executions of harvest_repo at a time
          Values,      \* contents of a record
          Signature,   \* Signature[v]: the THUMBNAIL_SOURCE_FIELDS of v
          None         \* no row, no representation

ASSUME NoneAssumption == None \notin Values
ASSUME SignatureAssumption == DOMAIN Signature = Values

Steps == {"idle", "import", "commit", "refresh"}
Contents == Values \cup {None}

Nothing == [rec \in Resources |-> None]

VARIABLES
  published,  \* published[rec]: what the repository says
  resource,   \* resource[rec]: the resources row
  shown,      \* shown[rec]: what the representation was built from
  step,       \* step[p]: what execution p is about to do
  unread,     \* unread[p]: what p has checked out and not written (None: nothing)
  batch,      \* batch[p]: those in the batch at hand
  differ,     \* differ[p]: those of the batch that differ from their rows
  changed,    \* changed[p]: changed_thumbnail_resource_ids
  succeeded,  \* the harvest status of the repository is success
  owed,       \* history: changed records nobody will refresh: the execution that knew
              \*   them died or raised, or their refresh failed
  failed,     \* history: a refresh has failed
  crossed,    \* history: crossed[p]: those of the batch that another execution has
              \*   written since they were compared
  raced       \* history: records written without being noted as changed, by an execution
              \*   whose comparison was crossed

content == <<published, resource, shown>>
stream == <<unread, batch, differ, crossed>>
history == <<owed, failed, raced>>
refreshVars == <<content, step, stream, changed, succeeded, history>>

RefreshTypeOK ==
  /\ published \in [Resources -> Values]
  /\ resource \in [Resources -> Contents]
  /\ shown \in [Resources -> Contents]
  /\ step \in [Executions -> Steps]
  /\ unread \in [Executions -> [Resources -> Contents]]
  /\ batch \in [Executions -> SUBSET Resources]
  /\ differ \in [Executions -> SUBSET Resources]
  /\ \A p \in Executions : differ[p] \subseteq batch[p]
  /\ changed \in [Executions -> SUBSET Resources]
  /\ succeeded \in BOOLEAN
  /\ owed \in SUBSET Resources
  /\ failed \in BOOLEAN
  /\ crossed \in [Executions -> SUBSET Resources]
  /\ raced \in SUBSET Resources

RefreshInit ==
  /\ published \in [Resources -> Values]
  /\ resource = Nothing
  /\ shown = Nothing
  /\ step = [p \in Executions |-> "idle"]
  /\ unread = [p \in Executions |-> Nothing]
  /\ batch = [p \in Executions |-> {}]
  /\ differ = [p \in Executions |-> {}]
  /\ changed = [p \in Executions |-> {}]
  /\ succeeded = FALSE
  /\ owed = {}
  /\ failed = FALSE
  /\ crossed = [p \in Executions |-> {}]
  /\ raced = {}

-----------------------------------------------------------------------------
(* Upstream, readers and operators.                                        *)

PushRecord(rec, v) ==
  /\ published' = [published EXCEPT ![rec] = v]
  /\ UNCHANGED <<resource, shown, step, stream, changed, succeeded, history>>

Build(rec) ==
  /\ shown[rec] = None
  /\ resource[rec] # None
  /\ shown' = [shown EXCEPT ![rec] = resource[rec]]
  /\ UNCHANGED <<published, resource, step, stream, changed, succeeded, history>>

\* The whole cache is cleared by hand.
Clear ==
  /\ shown' = Nothing
  /\ UNCHANGED <<published, resource, step, stream, changed, succeeded, history>>

-----------------------------------------------------------------------------
(* One execution.                                                          *)

Same(v, w) == v # None /\ w # None /\ Signature[v] = Signature[w]

Begin(p) ==
  /\ step[p] = "idle"
  /\ step' = [step EXCEPT ![p] = "import"]
  /\ unread' = [unread EXCEPT ![p] = published]
  /\ changed' = [changed EXCEPT ![p] = {}]
  /\ succeeded' = FALSE
  /\ UNCHANGED <<content, batch, differ, crossed, history>>

\* The records it has still to read.
Left(p) == {rec \in Resources : unread[p][rec] # None} \ batch[p]

\* The next batch is compared, before the transaction that writes it.
Compare(p, S) ==
  /\ step[p] = "import"
  /\ S # {} /\ S \subseteq Left(p)
  /\ step' = [step EXCEPT ![p] = "commit"]
  /\ batch' = [batch EXCEPT ![p] = S]
  /\ differ' = [differ EXCEPT ![p] = {rec \in S : ~Same(resource[rec], unread[p][rec])}]
  /\ UNCHANGED <<content, unread, crossed, changed, succeeded, history>>

\* Written or left out, a batch is done with.
Done(p) ==
  /\ step' = [step EXCEPT ![p] = "import"]
  /\ unread' = [unread EXCEPT ![p] =
       [rec \in Resources |-> IF rec \in batch[p] THEN None ELSE @[rec]]]
  /\ batch' = [batch EXCEPT ![p] = {}]
  /\ differ' = [differ EXCEPT ![p] = {}]

\* What a commit of p does to the comparisons that were made before it.
Cross(p) ==
  /\ crossed' = [q \in Executions |-> IF q = p THEN {} ELSE crossed[q] \cup (batch[p] \cap batch[q])]
  /\ raced' = raced \cup (crossed[p] \ differ[p])

\* Mutant of Commit: the changed records of the last batch replace the others.
CommitLastBatch(p) ==
  /\ step[p] = "commit"
  /\ resource' = [rec \in Resources |-> IF rec \in batch[p] THEN unread[p][rec] ELSE resource[rec]]
  /\ changed' = [changed EXCEPT ![p] = differ[p]]
  /\ Cross(p)
  /\ Done(p)
  /\ UNCHANGED <<published, shown, succeeded, owed, failed>>

Commit(p) ==
  /\ step[p] = "commit"
  /\ resource' = [rec \in Resources |-> IF rec \in batch[p] THEN unread[p][rec] ELSE resource[rec]]
  /\ changed' = [changed EXCEPT ![p] = @ \cup differ[p]]
  /\ Cross(p)
  /\ Done(p)
  /\ UNCHANGED <<published, shown, succeeded, owed, failed>>

\* A batch that cannot be written is taken up again in parts, a single record left out.
CommitFails(p) ==
  /\ step[p] = "commit"
  /\ \/ /\ \E rec \in Resources : batch[p] = {rec}
        /\ Done(p)
     \/ /\ \A rec \in Resources : batch[p] # {rec}
        /\ step' = [step EXCEPT ![p] = "import"]
        /\ batch' = [batch EXCEPT ![p] = {}]
        /\ differ' = [differ EXCEPT ![p] = {}]
        /\ UNCHANGED unread
  /\ crossed' = [crossed EXCEPT ![p] = {}]
  /\ UNCHANGED <<content, changed, succeeded, history>>

Imported(p) ==
  /\ step[p] = "import" /\ Left(p) = {}
  /\ step' = [step EXCEPT ![p] = "refresh"]
  /\ UNCHANGED <<content, stream, changed, succeeded, history>>

\* The changed records are taken batch by batch.
Refresh(p, S) ==
  /\ step[p] = "refresh"
  /\ S # {} /\ S \subseteq changed[p]
  /\ shown' = [rec \in Resources |-> IF rec \in S THEN None ELSE shown[rec]]
  /\ changed' = [changed EXCEPT ![p] = @ \ S]
  /\ owed' = owed \ S
  /\ raced' = raced \ S
  /\ UNCHANGED <<published, resource, step, stream, succeeded, failed>>

\* The refresh raises: noted in the statistics, and the execution goes on.
RefreshFails(p) ==
  /\ step[p] = "refresh" /\ changed[p] # {}
  /\ changed' = [changed EXCEPT ![p] = {}]
  /\ owed' = owed \cup changed[p]
  /\ failed' = TRUE
  /\ UNCHANGED <<content, step, stream, succeeded, raced>>

Ended(p) ==
  /\ step' = [step EXCEPT ![p] = "idle"]
  /\ unread' = [unread EXCEPT ![p] = Nothing]
  /\ batch' = [batch EXCEPT ![p] = {}]
  /\ differ' = [differ EXCEPT ![p] = {}]
  /\ crossed' = [crossed EXCEPT ![p] = {}]

Succeed(p) ==
  /\ step[p] = "refresh" /\ changed[p] = {}
  /\ Ended(p)
  /\ succeeded' = TRUE
  /\ UNCHANGED <<content, changed, history>>

\* A statement outside _flush_rows raises, or the worker dies: what was committed stays,
\* what was remembered is gone.
Stop(p) ==
  /\ step[p] # "idle"
  /\ Ended(p)
  /\ changed' = [changed EXCEPT ![p] = {}]
  /\ owed' = owed \cup changed[p]
  /\ succeeded' \in {FALSE, succeeded}
  /\ UNCHANGED <<content, failed, raced>>

Execute(p) ==
  \/ Begin(p) \/ Commit(p) \/ CommitFails(p) \/ Imported(p)
  \/ RefreshFails(p) \/ Succeed(p) \/ Stop(p)
  \/ \E S \in SUBSET Resources : Compare(p, S) \/ Refresh(p, S)

RefreshNext ==
  \/ \E p \in Executions : Execute(p)
  \/ \E rec \in Resources : Build(rec) \/ \E v \in Values : PushRecord(rec, v)
  \/ Clear

RefreshSpec == RefreshInit /\ [][RefreshNext]_refreshVars

-----------------------------------------------------------------------------
(* Properties.                                                             *)

Quiet == \A p \in Executions : step[p] = "idle"
Outdated(rec) == shown[rec] # None /\ shown[rec] # resource[rec]
OldThumbnail(rec) == shown[rec] # None /\ ~Same(shown[rec], resource[rec])

\* However executions overlap, a representation that may show an old thumbnail is known
\* to an execution at work, or its refresh was lost, or another execution wrote the record
\* between the comparison and the commit that missed the change: none is forgotten across
\* batches, bisections and records left out.
OldThumbnailsAreKnown ==
  \A rec \in Resources : OldThumbnail(rec) =>
    \/ rec \in owed \cup raced
    \/ \E p \in Executions : rec \in changed[p]

\* docs/cache_priming.md: "Only changed or new records are re-primed, and their
\* generated API representations are invalidated."  When a harvest has succeeded, no
\* refresh has ever failed and no comparison was crossed, no old thumbnail is shown.
SuccessRefreshesThumbnails ==
  succeeded /\ Quiet /\ ~failed /\ raced = {}
    => \A rec \in Resources : ~OldThumbnail(rec)

\* document_events.py, of invalidate_document_caches: "This should be called whenever
\* documents are created, updated, or deleted."  When a harvest has succeeded and no
\* refresh was lost or missed, no representation of an earlier content is left.
SuccessRefreshesContent ==
  succeeded /\ Quiet /\ owed = {} /\ raced = {}
    => \A rec \in Resources : ~Outdated(rec)
=============================================================================
