---------------------------- MODULE BridgeRetire ----------------------------
(***************************************************************************)
(* What bridge syncs do to records (services/bridge_sync/harvest.py, the   *)
(* batches of batched.py, importer.py, repository.py): a sync imports what *)
(* the bridge serves and stamps it with its start; a full sync then marks  *)
(* everything with an older stamp as missing and retires it; a batch       *)
(* retires the records the bridge answers 404 for.  A delta or single sync *)
(* then indexes the records it was given and refreshes their caches        *)
(* (search_index.py, cache_refresh.py).  Executions overlap, raise and are *)
(* killed, and the bridge changes under them.                              *)
(*                                                                         *)
(* Abstractions: a start time is the number of the start in their order; a *)
(* sync is numbered by its execution; rows, documents and pages show the   *)
(* publication state; the copies of a page are one, read and stored in one *)
(* step (RepresentationCache has its parts); the listed records are one    *)
(* batch of the refresh; the run row is in BridgeBatches.                  *)
(***************************************************************************)
EXTENDS Naturals, FiniteSets

CONSTANTS Records,   \* ids the bridge or the harvests know
          Syncs,     \* bound: executions
          Breaks     \* bound: executions that raise or are killed

ASSUME RetireAssumption == IsFiniteSet(Syncs) /\ Breaks \in Nat

VARIABLES
  served,   \* records the bridge serves
  row,      \* publication state in resources ("published": any other than retired)
  seen,     \* bridge_last_seen_at (0: no bridge_resource_state row)
  missing,  \* bridge_missing_since is set
  retired,  \* bridge_retired_at is set
  doc,      \* state the search document shows
  page,     \* state the cached page and representation show ("none": not cached)
  clock,    \* syncs started
  pc,       \* what an execution is about to do
  kind,     \* what it syncs
  start,    \* its run_started_at
  todo,     \* records it has not asked the bridge for
  held,     \* records fetched and not yet written
  gone,     \* records it is about to mark missing or to retire
  changed,  \* changed_resource_ids: records it is to index and refresh
  read,     \* rows it has read to index them
  broken,   \* executions that raised or died
  skipped,  \* history: records an execution could not import
  alone,    \* history: no sync or bridge change since this one, the only one, began
  split,    \* history: an execution stopped between marking and retiring
  dropped,  \* history: records no refresh has followed since they were written: a full
            \*   sync or a batch wrote them, or what was to follow failed or got lost
  excused   \* history: records the bridge has not served all along, that a sync has passed
            \*   over, or that an older sync has written after a newer one

state == <<row, seen, missing, retired>>
shown == <<doc, page>>
local == <<pc, kind, start, todo, held, gone, changed, read>>
history == <<skipped, alone, split, dropped, excused>>
vars == <<served, state, shown, clock, local, broken, history>>

Kinds == {"full", "delta", "single", "batch"}
Steps == {"idle", "crawl", "mark", "retireState", "retireRows", "readRows", "index",
          "refresh", "warm", "success", "stopped"}
RowStates == {"none", "published", "retired"}
Unread == [r \in Records |-> "none"]

Active(e) == pc[e] \notin {"idle", "success", "stopped"}

TypeOK ==
  /\ served \in SUBSET Records
  /\ row \in [Records -> RowStates]
  /\ seen \in [Records -> Nat]
  /\ missing \in [Records -> BOOLEAN]
  /\ retired \in [Records -> BOOLEAN]
  /\ doc \in [Records -> RowStates]
  /\ page \in [Records -> RowStates]
  /\ clock \in Nat
  /\ pc \in [Syncs -> Steps]
  /\ kind \in [Syncs -> Kinds]
  /\ start \in [Syncs -> Nat]
  /\ todo \in [Syncs -> SUBSET Records]
  /\ held \in [Syncs -> SUBSET Records]
  /\ gone \in [Syncs -> SUBSET Records]
  /\ changed \in [Syncs -> SUBSET Records]
  /\ read \in [Syncs -> [Records -> RowStates]]
  /\ broken \in 0 .. Breaks
  /\ skipped \in [Syncs -> SUBSET Records]
  /\ alone \in [Syncs -> BOOLEAN]
  /\ split \in BOOLEAN
  /\ dropped \in SUBSET Records
  /\ excused \in SUBSET Records

\* Harvests of other sources may have published records already, and indexed them.
Init ==
  /\ served \in SUBSET Records
  /\ row \in [Records -> {"none", "published"}]
  /\ seen = [r \in Records |-> 0]
  /\ missing = [r \in Records |-> FALSE]
  /\ retired = [r \in Records |-> FALSE]
  /\ doc = row
  /\ page = [r \in Records |-> "none"]
  /\ clock = 0
  /\ pc = [e \in Syncs |-> "idle"]
  /\ kind = [e \in Syncs |-> "full"]
  /\ start = [e \in Syncs |-> 0]
  /\ todo = [e \in Syncs |-> {}]
  /\ held = [e \in Syncs |-> {}]
  /\ gone = [e \in Syncs |-> {}]
  /\ changed = [e \in Syncs |-> {}]
  /\ read = [e \in Syncs |-> Unread]
  /\ broken = 0
  /\ skipped = [e \in Syncs |-> {}]
  /\ alone = [e \in Syncs |-> FALSE]
  /\ split = FALSE
  /\ dropped = {}
  /\ excused = {}

-----------------------------------------------------------------------------

\* The bridge adds or drops a record.
Change(r) ==
  /\ served' = IF r \in served THEN served \ {r} ELSE served \cup {r}
  /\ alone' = [e \in Syncs |-> FALSE]
  /\ excused' = excused \cup {r}
  /\ UNCHANGED <<state, shown, clock, local, broken, skipped, split, dropped>>

\* A client asks for a page that is not cached.
Visit(r) ==
  /\ page[r] = "none"
  /\ row[r] # "none"
  /\ page' = [page EXCEPT ![r] = row[r]]
  /\ UNCHANGED <<served, state, doc, clock, local, broken, history>>

\* What an execution of this kind may ask for: a batch has ids of rows, a delta is given
\* what has changed.
Asked(k) == {S \in SUBSET Records :
  /\ k = "full" => S = Records
  /\ k = "delta" => S \subseteq served
  /\ k = "single" => \E r \in Records : S = {r}
  /\ k = "batch" => \A r \in S : row[r] # "none"}

\* Creates its run and cancels the others, which does not stop their executions.
Begin(e, k, S) ==
  /\ pc[e] = "idle"
  /\ clock' = clock + 1
  /\ pc' = [pc EXCEPT ![e] = "crawl"]
  /\ kind' = [kind EXCEPT ![e] = k]
  /\ start' = [start EXCEPT ![e] = clock + 1]
  /\ todo' = [todo EXCEPT ![e] = S]
  /\ alone' = [d \in Syncs |-> d = e /\ \A f \in Syncs : ~Active(f)]
  /\ UNCHANGED <<served, state, shown, held, gone, changed, read, broken, skipped, split,
                 dropped, excused>>

\* What the bridge answers: a page without the records it lacks, a 404 for one.
Answer(S) == S \cap served

\* Only these remember what they were given.
Lists(e) == kind[e] \in {"delta", "single"}

\* Mutant of Fetch: the record of a single sync is not listed.
FetchUnlisted(e, S) ==
  /\ pc[e] = "crawl"
  /\ kind[e] # "batch" => held[e] = {}
  /\ S # {}
  /\ S \subseteq todo[e]
  /\ todo' = [todo EXCEPT ![e] = @ \ S]
  /\ held' = [held EXCEPT ![e] = @ \cup Answer(S)]
  /\ gone' = [gone EXCEPT ![e] = IF kind[e] \in {"single", "batch"} THEN @ \cup (S \ Answer(S))
                                 ELSE @]
  /\ changed' = [changed EXCEPT ![e] = IF kind[e] = "delta" THEN @ \cup Answer(S) ELSE @]
  /\ UNCHANGED <<served, state, shown, clock, pc, kind, start, read, broken, history>>

\* A page, or one record.  A page is written before the next is asked for; a batch asks
\* for all its records first, and notes those that are not there.
Fetch(e, S) ==
  /\ pc[e] = "crawl"
  /\ kind[e] # "batch" => held[e] = {}
  /\ S # {}
  /\ S \subseteq todo[e]
  /\ todo' = [todo EXCEPT ![e] = @ \ S]
  /\ held' = [held EXCEPT ![e] = @ \cup Answer(S)]
  /\ gone' = [gone EXCEPT ![e] = IF kind[e] \in {"single", "batch"} THEN @ \cup (S \ Answer(S))
                                 ELSE @]
  /\ changed' = [changed EXCEPT ![e] = IF Lists(e) THEN @ \cup Answer(S) ELSE @]
  /\ UNCHANGED <<served, state, shown, clock, pc, kind, start, read, broken, history>>

\* Records that a sync which began later has stamped.
Overtaken(e, S) == {r \in S : seen[r] > start[e]}

\* Mutant of FlushRows: the stamp of an imported record is kept.
FlushKeepStamp(e, S) ==
  /\ pc[e] = "crawl"
  /\ S # {}
  /\ S \subseteq held[e]
  /\ kind[e] = "batch" => todo[e] = {}
  /\ row' = [r \in Records |-> IF r \in S THEN "published" ELSE row[r]]
  /\ seen' = [r \in Records |-> IF r \in S /\ seen[r] = 0 THEN start[e] ELSE seen[r]]
  /\ missing' = [r \in Records |-> missing[r] /\ r \notin S]
  /\ retired' = [r \in Records |-> retired[r] /\ r \notin S]
  /\ held' = [held EXCEPT ![e] = @ \ S]
  /\ dropped' = IF Lists(e) THEN dropped \ S ELSE dropped \cup S
  /\ excused' = excused \cup Overtaken(e, S)
  /\ UNCHANGED <<served, shown, clock, pc, kind, start, todo, gone, changed, read, broken,
                 skipped, alone, split>>

\* Mutant of FlushRows: the retirement of an imported record is kept.
FlushKeepRetired(e, S) ==
  /\ pc[e] = "crawl"
  /\ S # {}
  /\ S \subseteq held[e]
  /\ kind[e] = "batch" => todo[e] = {}
  /\ row' = [r \in Records |-> IF r \in S THEN "published" ELSE row[r]]
  /\ seen' = [r \in Records |-> IF r \in S THEN start[e] ELSE seen[r]]
  /\ missing' = [r \in Records |-> missing[r] /\ r \notin S]
  /\ held' = [held EXCEPT ![e] = @ \ S]
  /\ dropped' = IF Lists(e) THEN dropped \ S ELSE dropped \cup S
  /\ excused' = excused \cup Overtaken(e, S)
  /\ UNCHANGED <<served, retired, shown, clock, pc, kind, start, todo, gone, changed, read,
                 broken, skipped, alone, split>>

\* One transaction: rows and stamps.
FlushRows(e, S) ==
  /\ pc[e] = "crawl"
  /\ S # {}
  /\ S \subseteq held[e]
  /\ kind[e] = "batch" => todo[e] = {}
  /\ row' = [r \in Records |-> IF r \in S THEN "published" ELSE row[r]]
  /\ seen' = [r \in Records |-> IF r \in S THEN start[e] ELSE seen[r]]
  /\ missing' = [r \in Records |-> missing[r] /\ r \notin S]
  /\ retired' = [r \in Records |-> retired[r] /\ r \notin S]
  /\ held' = [held EXCEPT ![e] = @ \ S]
  /\ dropped' = IF Lists(e) THEN dropped \ S ELSE dropped \cup S
  /\ excused' = excused \cup Overtaken(e, S)
  /\ UNCHANGED <<served, shown, clock, pc, kind, start, todo, gone, changed, read, broken,
                 skipped, alone, split>>

\* A record that cannot be normalised or written, or that a batch cannot fetch, is counted
\* as an error and passed over.
SkipRecord(e, r) ==
  /\ pc[e] = "crawl"
  /\ \/ r \in held[e]
     \/ kind[e] = "batch" /\ r \in todo[e]
  /\ todo' = [todo EXCEPT ![e] = @ \ {r}]
  /\ held' = [held EXCEPT ![e] = @ \ {r}]
  /\ skipped' = [skipped EXCEPT ![e] = @ \cup {r}]
  /\ excused' = excused \cup {r}
  /\ UNCHANGED <<served, state, shown, clock, pc, kind, start, gone, changed, read, broken,
                 alone, split, dropped>>

\* A single record that was not found raises; a delta with no record has nothing to refresh.
AfterCrawl(e) ==
  IF kind[e] = "full" \/ (kind[e] = "batch" /\ gone[e] # {}) THEN "mark"
  ELSE IF kind[e] = "single" /\ gone[e] # {} THEN "stopped"
  ELSE IF Lists(e) /\ changed[e] # {} THEN "readRows"
  ELSE "success"

EndCrawl(e) ==
  /\ pc[e] = "crawl"
  /\ todo[e] = {}
  /\ held[e] = {}
  /\ pc' = [pc EXCEPT ![e] = AfterCrawl(e)]
  /\ UNCHANGED <<served, state, shown, clock, kind, start, todo, held, gone, changed, read,
                 broken, history>>

\* Mutant of Stale: what was imported in the same instant is stale too.
StaleOrAsOld(e) == {r \in Records : seen[r] # 0 /\ seen[r] <= start[e] /\ ~missing[r]}

\* mark_missing_stale: older stamp and not missing yet.
Stale(e) == {r \in Records : seen[r] # 0 /\ seen[r] < start[e] /\ ~missing[r]}

MarkMissing(e) ==
  /\ pc[e] = "mark"
  /\ gone' = [gone EXCEPT ![e] = IF kind[e] = "full" THEN Stale(e) ELSE @]
  /\ missing' = [r \in Records |-> missing[r] \/ r \in gone'[e]]
  /\ seen' = [r \in Records |-> IF r \in gone'[e] /\ seen[r] = 0 THEN clock ELSE seen[r]]
  /\ pc' = [pc EXCEPT ![e] = "retireState"]
  /\ UNCHANGED <<served, row, retired, shown, clock, kind, start, todo, held, changed, read,
                 broken, history>>

\* retire_missing_resources, first statement: those that are not retired already.
RetireState(e) ==
  /\ pc[e] = "retireState"
  /\ gone' = [gone EXCEPT ![e] = {r \in @ : ~retired[r]}]
  /\ retired' = [r \in Records |-> retired[r] \/ r \in gone[e]]
  /\ pc' = [pc EXCEPT ![e] = IF gone'[e] = {} THEN "success" ELSE "retireRows"]
  /\ UNCHANGED <<served, row, seen, missing, shown, clock, kind, start, todo, held, changed,
                 read, broken, history>>

\* Second statement.
RetireRows(e) ==
  /\ pc[e] = "retireRows"
  /\ row' = [r \in Records |-> IF r \in gone[e] /\ row[r] # "none" THEN "retired" ELSE row[r]]
  /\ gone' = [gone EXCEPT ![e] = {}]
  /\ pc' = [pc EXCEPT ![e] = "success"]
  /\ UNCHANGED <<served, seen, missing, retired, shown, clock, kind, start, todo, held,
                 changed, read, broken, history>>

\* index_changed_resources reads the rows, then writes their documents; a record without a
\* row keeps the document it has (Applied of SearchIndex).  What fails is passed over; if the
\* rows cannot be read, all of it.
ReadRows(e) ==
  /\ pc[e] = "readRows"
  /\ \/ /\ read' = [read EXCEPT ![e] = [r \in Records |-> IF r \in changed[e] THEN row[r]
                                                          ELSE "none"]]
        /\ pc' = [pc EXCEPT ![e] = "index"]
        /\ UNCHANGED dropped
     \/ /\ dropped' = dropped \cup changed[e]
        /\ pc' = [pc EXCEPT ![e] = "refresh"]
        /\ UNCHANGED read
  /\ UNCHANGED <<served, state, shown, clock, kind, start, todo, held, gone, changed, broken,
                 skipped, alone, split, excused>>

IndexRows(e, S) ==
  /\ pc[e] = "index"
  /\ S \subseteq changed[e]
  /\ doc' = [r \in Records |-> IF r \in S /\ read[e][r] # "none" THEN read[e][r] ELSE doc[r]]
  /\ dropped' = dropped \cup (changed[e] \ S) \cup {r \in S : read[e][r] # row[r]}
  /\ read' = [read EXCEPT ![e] = Unread]
  /\ pc' = [pc EXCEPT ![e] = "refresh"]
  /\ UNCHANGED <<served, state, page, clock, kind, start, todo, held, gone, changed, broken,
                 skipped, alone, split, excused>>

\* refresh_cache_for_changed_resources deletes representations and responses, as far as
\* the stores can be reached, then asks for the pages as a client does, as far as the
\* limit on paths allows.
RefreshCaches(e, S) ==
  /\ pc[e] = "refresh"
  /\ S \subseteq changed[e]
  /\ page' = [r \in Records |-> IF r \in S THEN "none" ELSE page[r]]
  /\ dropped' = dropped \cup (changed[e] \ S)
  /\ pc' = [pc EXCEPT ![e] = "warm"]
  /\ UNCHANGED <<served, state, doc, clock, kind, start, todo, held, gone, changed, read,
                 broken, skipped, alone, split, excused>>

Warm(e, S) ==
  /\ pc[e] = "warm"
  /\ S \subseteq changed[e]
  /\ page' = [r \in Records |-> IF r \in S /\ page[r] = "none" THEN row[r] ELSE page[r]]
  /\ changed' = [changed EXCEPT ![e] = {}]
  /\ pc' = [pc EXCEPT ![e] = "success"]
  /\ UNCHANGED <<served, state, doc, clock, kind, start, todo, held, gone, read, broken,
                 history>>

\* An error, a time limit, an operator's cancel or the death of the worker.
Break(e) ==
  /\ Active(e)
  /\ broken < Breaks
  /\ broken' = broken + 1
  /\ pc' = [pc EXCEPT ![e] = "stopped"]
  /\ split' = (split \/ pc[e] \in {"retireState", "retireRows"})
  /\ dropped' = IF pc[e] = "warm" THEN dropped ELSE dropped \cup changed[e]
  /\ todo' = [todo EXCEPT ![e] = {}]
  /\ held' = [held EXCEPT ![e] = {}]
  /\ gone' = [gone EXCEPT ![e] = {}]
  /\ changed' = [changed EXCEPT ![e] = {}]
  /\ read' = [read EXCEPT ![e] = Unread]
  /\ UNCHANGED <<served, state, shown, clock, kind, start, skipped, alone, excused>>

Crawl(e) ==
  \/ EndCrawl(e)
  \/ \E S \in SUBSET Records : Fetch(e, S) \/ FlushRows(e, S)

Retire(e) == MarkMissing(e) \/ RetireState(e) \/ RetireRows(e)

Refresh(e) ==
  \/ ReadRows(e)
  \/ \E S \in SUBSET Records : IndexRows(e, S) \/ RefreshCaches(e, S) \/ Warm(e, S)

Next ==
  \/ \E r \in Records : Change(r) \/ Visit(r)
  \/ \E e \in Syncs :
       \/ \E k \in Kinds : \E S \in Asked(k) : Begin(e, k, S)
       \/ Crawl(e) \/ Retire(e) \/ Refresh(e) \/ Break(e)
       \/ \E r \in Records : SkipRecord(e, r)

Spec == Init /\ [][Next]_vars

-----------------------------------------------------------------------------
(* Properties.                                                             *)

Reconciled(e) == kind[e] = "full" /\ pc[e] = "success" /\ alone[e]

\* A full sync that ran alone over a bridge that did not change, and passed over no record,
\* leaves the records published that the bridge serves and those retired that it had served;
\* unless an earlier sync stopped between marking and retiring.
FullSyncReconciles ==
  \A e \in Syncs : Reconciled(e) /\ skipped[e] = {} /\ ~split =>
    \A r \in Records :
      IF r \in served THEN row[r] = "published" /\ ~missing[r] /\ ~retired[r]
      ELSE seen[r] # 0 => row[r] = "retired" /\ missing[r]

\* However syncs of all kinds overlap and stop, a record that the bridge has served all
\* along, that every sync could import and that no older sync wrote after a newer one, is
\* never marked missing and never retired.
ServedSurvives ==
  \A r \in served \ excused :
    seen[r] # 0 => row[r] = "published" /\ ~missing[r] /\ ~retired[r]

\* A record marked retired in bridge_resource_state is retired in resources, or about to be,
\* unless an execution stopped between the two statements.
TablesAgree ==
  ~split => \A r \in Records : retired[r] /\ row[r] = "published" =>
    \E e \in Syncs : pc[e] = "retireRows" /\ r \in gone[e]

\* Before and while a delta or single sync indexes its records, and until it refreshes them.
ToIndex(e) == IF pc[e] \in {"crawl", "readRows", "index"} THEN changed[e] ELSE {}
ToRefresh(e) == IF pc[e] \in {"crawl", "readRows", "index", "refresh"} THEN changed[e] ELSE {}

\* A published record that the search or the cached page shows otherwise is on the list of
\* a sync at work, unless nothing was to follow when it was written or that went wrong.
ImportsAreShown ==
  \A r \in Records \ dropped : row[r] = "published" =>
    /\ doc[r] = "published" \/ \E e \in Syncs : r \in ToIndex(e)
    /\ page[r] \in {"none", "published"} \/ \E e \in Syncs : r \in ToRefresh(e)

\* A full sync retires the records that disappeared.
DisappearedIsRetired ==
  \A e \in Syncs : Reconciled(e) =>
    \A r \in Records \ served : seen[r] # 0 => row[r] = "retired"

\* A full sync does not retire a record that the bridge has served all along.
ServedIsNotRetired ==
  \A e \in Syncs : Reconciled(e) => \A r \in served : row[r] # "retired"
=============================================================================
