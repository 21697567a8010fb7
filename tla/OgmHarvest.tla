----------------------------- MODULE OgmHarvest -----------------------------
(***************************************************************************)
(* The harvest of one OpenGeoMetadata repository                           *)
(* (backend/app/services/ogm_harvest, backend/app/tasks/ogm_harvest.py):   *)
(* Celery messages start executions of harvest_repo; an execution creates  *)
(* a run row, cancels the older rows that still say "running", brings the  *)
(* shared git checkout up to date, upserts the records it reads from it    *)
(* and marks as missing the records it did not see.                        *)
(*                                                                         *)
(* Executions of the same repository may overlap: a webhook, the nightly   *)
(* job and an operator trigger harvests independently, the broker          *)
(* redelivers a message that stays unacknowledged, and cancelling a run    *)
(* only rewrites its row, it does not stop the execution.                  *)
(*                                                                         *)
(* Abstractions: a record is its id; a timestamp is a tick of one clock    *)
(* shared by the hosts; missing_since is a Boolean; the files of a commit  *)
(* are the ids of its parseable records.  The checkout is a work tree and  *)
(* a .git beside it; a .git that git does not recognise counts as none,    *)
(* for a pull on it fails and ends in a clone like a missing one.          *)
(***************************************************************************)
EXTENDS Naturals

CONSTANTS Records,    \* ids of the records the repository may publish
          MaxRuns,    \* bound: executions of harvest_repo
          MaxPushes   \* bound: commits pushed upstream

ASSUME RunsAssumption == MaxRuns \in Nat \ {0}
ASSUME PushesAssumption == MaxPushes \in Nat

Runs == 1 .. MaxRuns
NoSha == MaxPushes + 1          \* ogm_last_commit_sha = NULL
NoGit == [sha |-> NoSha, files |-> {}]
Commits == 0 .. MaxPushes
RowStatus == {"none", "running", "success", "failed", "cancelled"}

\* The statement an execution is about to issue.
Stages == {"idle", "create", "stamp", "cancel", "sync", "clone", "import",
           "finalize", "complete", "done", "fail", "failRepo", "failed"}

VARIABLES
  upstream,    \* GitHub: [sha, files] of the default branch
  checkout,    \* work tree: the files in the checkout directory all workers share
  git,         \* .git: the commit HEAD names, or NoGit
  torn,        \* history: the last time git or rmtree was cut short in the directory, the
               \*   files were not those of HEAD, and no clone has come since
  queued,      \* deliverable ogm_harvest_repo messages
  begun,       \* executions delivered so far; they are numbered 1, 2, ...
  alive,       \* alive[r]: a worker process is executing r
  pc,          \* pc[r]: the statement r is about to issue
  contended,   \* history: another execution was alive when r, the latest, started
  clock,       \* datetime.utcnow()
  startedAt,   \* run_started_at of r
  head,        \* head_sha of r; NoSha if rev-parse failed
  todo,        \* records r has not reached in its walk of the checkout
  buffer,      \* batch_rows of r: read, not yet committed
  skipped,     \* records of r whose single-row upsert failed
  runStatus,   \* ogm_harvest_runs.ogm_status
  repoStatus,  \* ogm_repos.ogm_last_harvest_status
  repoSha,     \* ogm_repos.ogm_last_commit_sha
  lastSeen,    \* ogm_resource_state.ogm_last_seen_at; 0 when there is no row
  missing      \* ogm_resource_state.ogm_missing_since IS NOT NULL

envVars == <<upstream, queued, begun>>
dirVars == <<checkout, git, torn>>
runVars == <<contended, startedAt, head, skipped>>
rowVars == <<runStatus, repoStatus, repoSha>>
recVars == <<lastSeen, missing>>
vars == <<envVars, dirVars, alive, pc, runVars, clock, todo, buffer, rowVars, recVars>>

TypeOK ==
  /\ upstream \in [sha : Commits, files : SUBSET Records]
  /\ checkout \in SUBSET Records
  /\ git \in [sha : Commits \cup {NoSha}, files : SUBSET Records]
  /\ torn \in BOOLEAN
  /\ queued \in Nat
  /\ begun \in 0 .. MaxRuns
  /\ alive \in [Runs -> BOOLEAN]
  /\ pc \in [Runs -> Stages]
  /\ contended \in [Runs -> BOOLEAN]
  /\ clock \in Nat
  /\ startedAt \in [Runs -> Nat]
  /\ head \in [Runs -> Commits \cup {NoSha}]
  /\ todo \in [Runs -> SUBSET Records]
  /\ buffer \in [Runs -> SUBSET Records]
  /\ skipped \in [Runs -> SUBSET Records]
  /\ runStatus \in [Runs -> RowStatus]
  /\ repoStatus \in RowStatus
  /\ repoSha \in Commits \cup {NoSha}
  /\ lastSeen \in [Records -> Nat]
  /\ missing \in [Records -> BOOLEAN]

\* A checkout can be there already: the directory is not in the database.
Init ==
  /\ \E F \in SUBSET Records : upstream = [sha |-> 0, files |-> F]
  /\ git \in {NoGit, upstream}
  /\ checkout = git.files
  /\ torn = FALSE
  /\ queued = 0
  /\ begun = 0
  /\ alive = [r \in Runs |-> FALSE]
  /\ pc = [r \in Runs |-> "idle"]
  /\ contended = [r \in Runs |-> FALSE]
  /\ clock = 0
  /\ startedAt = [r \in Runs |-> 0]
  /\ head = [r \in Runs |-> NoSha]
  /\ todo = [r \in Runs |-> {}]
  /\ buffer = [r \in Runs |-> {}]
  /\ skipped = [r \in Runs |-> {}]
  /\ runStatus = [r \in Runs |-> "none"]
  /\ repoStatus = "none"
  /\ repoSha = NoSha
  /\ lastSeen = [rec \in Records |-> 0]
  /\ missing = [rec \in Records |-> FALSE]

-----------------------------------------------------------------------------
(* Triggers and delivery.  The executions are numbered by MaxRuns, and the *)
(* last one is kept for the nightly job: whatever goes wrong is followed   *)
(* by one more night.                                                      *)

NightRemains == begun + queued < MaxRuns
RunsToSpare  == begun + queued + 1 < MaxRuns

\* The organization pushes a commit.
Push(F) ==
  /\ NightRemains
  /\ upstream.sha < MaxPushes
  /\ upstream' = [sha |-> upstream.sha + 1, files |-> F]
  /\ UNCHANGED <<queued, begun, dirVars, alive, pc, runVars, clock, todo, buffer,
                 rowVars, recVars>>

\* A webhook delivery or POST /ogm/harvest enqueues the repository, at any time.
Trigger ==
  /\ RunsToSpare
  /\ queued' = queued + 1
  /\ UNCHANGED <<upstream, begun, dirVars, alive, pc, runVars, clock, todo, buffer,
                 rowVars, recVars>>

\* The nightly job enqueues it.  A night is long (24 h) next to the time limit of
\* an execution (70 min), so it finds the previous ones over.
Nightly ==
  /\ NightRemains
  /\ queued = 0
  /\ \A r \in Runs : ~alive[r]
  /\ queued' = queued + 1
  /\ UNCHANGED <<upstream, begun, dirVars, alive, pc, runVars, clock, todo, buffer,
                 rowVars, recVars>>

\* With acks_late the message of a running execution is still unacknowledged; the
\* broker hands it out again when its visibility timeout (1 h) passes.
Redeliver(r) ==
  /\ alive[r]
  /\ RunsToSpare
  /\ queued' = queued + 1
  /\ UNCHANGED <<upstream, begun, dirVars, alive, pc, runVars, clock, todo, buffer,
                 rowVars, recVars>>

\* A worker takes a message: upsert_repo and mark_repo_harvest_started.
Start(r) ==
  /\ queued > 0
  /\ r = begun + 1
  /\ begun' = r
  /\ queued' = queued - 1
  /\ alive' = [alive EXCEPT ![r] = TRUE]
  /\ pc' = [pc EXCEPT ![r] = "create"]
  /\ contended' = [q \in Runs |-> q = r /\ \E p \in Runs : alive[p]]
  /\ repoStatus' = "running"
  /\ UNCHANGED <<upstream, dirVars, startedAt, head, skipped, clock, todo, buffer,
                 runStatus, repoSha, recVars>>

-----------------------------------------------------------------------------
(* One execution of harvest_repo.                                          *)

\* r has issued cancel_other_running_runs.
PastCancel(r) == pc[r] \notin {"idle", "create", "stamp", "cancel"}

At(r, stage) == alive[r] /\ pc[r] = stage
Goto(r, stage) == pc' = [pc EXCEPT ![r] = stage]

CreateRun(r) ==
  /\ At(r, "create")
  /\ runStatus' = [runStatus EXCEPT ![r] = "running"]
  /\ Goto(r, "stamp")
  /\ UNCHANGED <<envVars, dirVars, alive, runVars, clock, todo, buffer, repoStatus,
                 repoSha, recVars>>

Stamp(r) ==
  /\ At(r, "stamp")
  /\ clock' = clock + 1
  /\ startedAt' = [startedAt EXCEPT ![r] = clock']
  /\ Goto(r, "cancel")
  /\ UNCHANGED <<envVars, dirVars, alive, contended, head, skipped, todo, buffer,
                 rowVars, recVars>>

\* Mutant of CancelOtherRunningRuns: only the most recent older run is cancelled.
CancelPreviousRun(r) ==
  /\ At(r, "cancel")
  /\ runStatus' = [q \in Runs |-> IF q + 1 = r /\ runStatus[q] = "running"
                                  THEN "cancelled" ELSE runStatus[q]]
  /\ Goto(r, "sync")
  /\ UNCHANGED <<envVars, dirVars, alive, runVars, clock, todo, buffer, repoStatus,
                 repoSha, recVars>>

\* The rows of all other runs that say "running" become "cancelled".
CancelOtherRunningRuns(r) ==
  /\ At(r, "cancel")
  /\ runStatus' = [q \in Runs |-> IF q # r /\ runStatus[q] = "running"
                                  THEN "cancelled" ELSE runStatus[q]]
  /\ Goto(r, "sync")
  /\ UNCHANGED <<envVars, dirVars, alive, runVars, clock, todo, buffer, repoStatus,
                 repoSha, recVars>>

\* ensure_repo has returned with HEAD at commit sha; the walk starts.  A rev-parse that
\* fails is no error.
Synced(r, sha) ==
  /\ head' \in {[head EXCEPT ![r] = s] : s \in {sha, NoSha}}
  /\ todo' = [todo EXCEPT ![r] = Records]
  /\ Goto(r, "import")
  /\ UNCHANGED <<envVars, alive, contended, startedAt, skipped, clock, buffer,
                 rowVars, recVars>>

\* git clone, into no directory or one that could be removed.
Clone(r) ==
  /\ checkout' = upstream.files
  /\ git' = upstream
  /\ torn' = FALSE
  /\ Synced(r, upstream.sha)

\* git pull --ff-only writes the files by which HEAD and the new head differ, and no other:
\* a file that has gone from the work tree comes back only if its content has changed
\* (Restored), and a file git does not know stays.  One that is in the way of a new file
\* makes the pull fail.
Pull(r, Restored) ==
  /\ (checkout \ git.files) \cap upstream.files = {}
  /\ Restored \subseteq (IF git = upstream THEN {} ELSE git.files \cap upstream.files)
  /\ checkout' = (checkout \ (git.files \ upstream.files))
                 \cup (upstream.files \ git.files) \cup Restored
  /\ git' = upstream
  /\ torn' = torn
  /\ Synced(r, upstream.sha)

\* ensure_repo: pull where there is a .git, else clone.
EnsureRepo(r) ==
  /\ At(r, "sync")
  /\ IF git = NoGit THEN Clone(r) ELSE \E Restored \in SUBSET Records : Pull(r, Restored)

\* A failed pull removes the directory before cloning it anew.
RemoveCheckout(r) ==
  /\ At(r, "sync")
  /\ git # NoGit
  /\ checkout' = {}
  /\ git' = NoGit
  /\ torn' = FALSE
  /\ Goto(r, "clone")
  /\ UNCHANGED <<envVars, alive, runVars, clock, todo, buffer, rowVars, recVars>>

\* git clone refuses a directory another execution has put something into meanwhile.
Reclone(r) ==
  /\ At(r, "clone")
  /\ git = NoGit /\ checkout = {}
  /\ Clone(r)

\* The walk finds the files the directory holds now; one that cannot be parsed is passed
\* over as if it were not there, and counts as absent from the commit.
Readable(S) == S \cap checkout

\* The generator is drawn on for one more batch.
ReadBatch(r, S) ==
  /\ At(r, "import")
  /\ buffer[r] = {}
  /\ S # {}
  /\ S \subseteq todo[r]
  /\ todo' = [todo EXCEPT ![r] = @ \ S]
  /\ buffer' = [buffer EXCEPT ![r] = Readable(S)]
  /\ UNCHANGED <<envVars, dirVars, alive, pc, runVars, clock, rowVars, recVars>>

\* Mutant of FlushRows: an existing state row keeps its ogm_missing_since.
FlushRowsKeepMissing(r, S) ==
  /\ At(r, "import")
  /\ S # {}
  /\ S \subseteq buffer[r]
  /\ buffer' = [buffer EXCEPT ![r] = @ \ S]
  /\ lastSeen' = [rec \in Records |-> IF rec \in S THEN startedAt[r] ELSE lastSeen[rec]]
  /\ UNCHANGED <<envVars, dirVars, alive, pc, runVars, clock, todo, rowVars, missing>>

\* _flush_rows: the batch, or one of the parts it is bisected into, commits the
\* resources and their seen rows in one transaction.
FlushRows(r, S) ==
  /\ At(r, "import")
  /\ S # {}
  /\ S \subseteq buffer[r]
  /\ buffer' = [buffer EXCEPT ![r] = @ \ S]
  /\ lastSeen' = [rec \in Records |-> IF rec \in S THEN startedAt[r] ELSE lastSeen[rec]]
  /\ missing' = [rec \in Records |-> IF rec \in S THEN FALSE ELSE missing[rec]]
  /\ UNCHANGED <<envVars, dirVars, alive, pc, runVars, clock, todo, rowVars>>

\* _flush_rows on a single row that cannot be written: logged and left out.
SkipRow(r, rec) ==
  /\ At(r, "import")
  /\ rec \in buffer[r]
  /\ buffer' = [buffer EXCEPT ![r] = @ \ {rec}]
  /\ skipped' = [skipped EXCEPT ![r] = @ \cup {rec}]
  /\ UNCHANGED <<envVars, dirVars, alive, pc, contended, startedAt, head, clock, todo,
                 rowVars, recVars>>

\* Mutant of MarkMissingStale: the records this very run saw are stale as well.
MarkMissingSeen(r) ==
  /\ At(r, "import")
  /\ todo[r] = {}
  /\ buffer[r] = {}
  /\ missing' = [rec \in Records |-> \/ missing[rec]
                                     \/ lastSeen[rec] # 0 /\ lastSeen[rec] <= startedAt[r]]
  /\ Goto(r, "finalize")
  /\ UNCHANGED <<envVars, dirVars, alive, runVars, clock, todo, buffer, rowVars, lastSeen>>

MarkMissingStale(r) ==
  /\ At(r, "import")
  /\ todo[r] = {}
  /\ buffer[r] = {}
  /\ missing' = [rec \in Records |-> \/ missing[rec]
                                     \/ lastSeen[rec] # 0 /\ lastSeen[rec] < startedAt[r]]
  /\ Goto(r, "finalize")
  /\ UNCHANGED <<envVars, dirVars, alive, runVars, clock, todo, buffer, rowVars, lastSeen>>

\* finalize_harvest_run(success): unconditional on the row's present status.
FinalizeHarvestRun(r) ==
  /\ At(r, "finalize")
  /\ runStatus' = [runStatus EXCEPT ![r] = "success"]
  /\ Goto(r, "complete")
  /\ UNCHANGED <<envVars, dirVars, alive, runVars, clock, todo, buffer, repoStatus,
                 repoSha, recVars>>

MarkRepoHarvestCompleted(r) ==
  /\ At(r, "complete")
  /\ repoStatus' = "success"
  /\ repoSha' = head[r]
  /\ Goto(r, "done")
  /\ alive' = [alive EXCEPT ![r] = FALSE]
  /\ UNCHANGED <<envVars, dirVars, runVars, clock, todo, buffer, runStatus, recVars>>

\* What r had read, noted and not committed is gone.
Drop(r) ==
  /\ todo' = [todo EXCEPT ![r] = {}]
  /\ buffer' = [buffer EXCEPT ![r] = {}]
  /\ skipped' = [skipped EXCEPT ![r] = {}]
  /\ head' = [head EXCEPT ![r] = NoSha]

\* Any statement inside the try block raises.
Raise(r) ==
  /\ alive[r]
  /\ pc[r] \in {"sync", "clone", "import", "finalize", "complete"}
  /\ NightRemains
  /\ Goto(r, "fail")
  /\ Drop(r)
  /\ UNCHANGED <<envVars, dirVars, alive, contended, startedAt, clock, rowVars, recVars>>

\* git or rmtree has stopped half way.
CutShort == torn' = (git' # NoGit /\ checkout' # git'.files)

\* rmtree ignores errors: what it leaves makes the clone after it fail.
RemoveHalf(r) ==
  /\ At(r, "sync")
  /\ NightRemains
  /\ checkout' \in SUBSET checkout
  /\ git' \in {git, NoGit}
  /\ CutShort
  /\ Goto(r, "fail")
  /\ Drop(r)
  /\ UNCHANGED <<envVars, alive, contended, startedAt, clock, rowVars, recVars>>

\* The clone finds something there: it raises.
RecloneRefused(r) ==
  /\ At(r, "clone")
  /\ git # NoGit \/ checkout # {}
  /\ Goto(r, "fail")
  /\ Drop(r)
  /\ UNCHANGED <<envVars, dirVars, alive, contended, startedAt, clock, rowVars, recVars>>

FailHarvestRun(r) ==
  /\ At(r, "fail")
  /\ runStatus' = [runStatus EXCEPT ![r] = "failed"]
  /\ Goto(r, "failRepo")
  /\ UNCHANGED <<envVars, dirVars, alive, runVars, clock, todo, buffer, repoStatus,
                 repoSha, recVars>>

FailRepoHarvest(r) ==
  /\ At(r, "failRepo")
  /\ repoStatus' = "failed"
  /\ repoSha' = NoSha
  /\ Goto(r, "failed")
  /\ alive' = [alive EXCEPT ![r] = FALSE]
  /\ UNCHANGED <<envVars, dirVars, runVars, clock, todo, buffer, runStatus, recVars>>

\* The worker process dies.  The message is lost with it, or comes back when the whole
\* worker went down.  A directory git or rmtree was at work in is left as it is then: some
\* of the files, the old .git, the new one or none.
Crash(r) ==
  /\ alive[r]
  /\ NightRemains
  /\ alive' = [alive EXCEPT ![r] = FALSE]
  /\ \/ queued' = queued
     \/ RunsToSpare /\ queued' = queued + 1
  /\ IF pc[r] \in {"sync", "clone"}
     THEN /\ checkout' \in SUBSET (checkout \cup upstream.files)
          /\ git' \in {git, upstream, NoGit}
          /\ CutShort
     ELSE UNCHANGED dirVars
  /\ Drop(r)
  /\ IF PastCancel(r) THEN Goto(r, "failed") ELSE UNCHANGED pc
  /\ UNCHANGED <<upstream, begun, contended, startedAt, clock, rowVars, recVars>>

-----------------------------------------------------------------------------
\* What an execution does when it is left alone.
Proceed(r) ==
  \/ CreateRun(r) \/ Stamp(r) \/ CancelOtherRunningRuns(r)
  \/ EnsureRepo(r) \/ RemoveCheckout(r) \/ Reclone(r) \/ RecloneRefused(r)
  \/ \E S \in SUBSET Records : ReadBatch(r, S) \/ FlushRows(r, S)
  \/ MarkMissingStale(r) \/ FinalizeHarvestRun(r) \/ MarkRepoHarvestCompleted(r)
  \/ FailHarvestRun(r) \/ FailRepoHarvest(r)

Disturb(r) ==
  \/ RemoveHalf(r)
  \/ \E rec \in Records : SkipRow(r, rec)
  \/ Raise(r) \/ Crash(r) \/ Redeliver(r)

Next ==
  \/ \E F \in SUBSET Records : Push(F)
  \/ Trigger
  \/ Nightly
  \/ \E r \in Runs : Start(r) \/ Proceed(r) \/ Disturb(r)

\* A worker takes what is queued and goes on with what it took; the nightly job comes.
Fairness ==
  /\ WF_vars(Nightly)
  /\ WF_vars(\E r \in Runs : Start(r))
  /\ \A r \in Runs : WF_vars(Proceed(r))

Spec == Init /\ [][Next]_vars
FairSpec == Spec /\ Fairness

-----------------------------------------------------------------------------
(* Properties.                                                             *)

\* The records of the repository the API regards as current.
Current == {rec \in Records : lastSeen[rec] # 0 /\ ~missing[rec]}

\* Of the runs that have cancelled the others, at most one row says "running",
\* however many executions overlap, crash or are redelivered: the status page shows
\* one harvest per repository.
AtMostOneRunningRow ==
  \A r, q \in Runs :
    /\ PastCancel(r) /\ runStatus[r] = "running"
    /\ PastCancel(q) /\ runStatus[q] = "running"
    => r = q

\* When the latest execution met no other one and has passed its mark_missing_stale,
\* the current records are exactly the files of the checkout it could write,
\* whatever earlier executions left behind: overlapping, failed or crashed ones.
UncontendedRunReconciles ==
  \A r \in Runs :
    /\ r = begun
    /\ ~contended[r]
    /\ pc[r] \in {"finalize", "complete", "done"}
    => Current = checkout \ skipped[r]

\* A row that says "running" does not say so forever, its worker's death included:
\* a later run cancels it.
RunningRowIsSettled == \A r \in Runs : runStatus[r] = "running" ~> runStatus[r] # "running"

\* Nightly runs are enough: when pushes end, HEAD becomes the head commit, the current
\* records become the files of the checkout, and the repository row says success and names
\* the commit, or none if it could not be read; though webhook runs, redeliveries, failures
\* and crashes may precede the last night.  The files are those of the head commit, unless
\* git or rmtree was cut short and left files out beside a .git that names their commit:
\* a pull does not bring them back.
NightlyRunReconciles ==
  <>[](/\ git = upstream
       /\ Current = checkout \ skipped[MaxRuns]
       /\ repoStatus = "success"
       /\ repoSha \in {upstream.sha, NoSha}
       /\ ~torn => checkout = upstream.files)

\* repo_sync.py, of a pull: "Self-heal broken or divergent local checkouts by recloning."
\* When the last execution met no other one and has synced, the files of the head commit
\* are there.
CheckoutHeals ==
  \A r \in Runs :
    /\ r = begun /\ ~contended[r]
    /\ pc[r] \in {"finalize", "complete", "done"}
    /\ git = upstream
    => checkout = upstream.files

\* A pull leaves no file out by itself, whatever was pushed between pulls and whoever else
\* pulled or cloned: the files are those of HEAD unless git or rmtree was cut short.
WholeUnlessTorn == torn \/ git = NoGit \/ checkout = git.files

\* A superseded run stays cancelled.
SupersededStaysCancelled ==
  [][\A r \in Runs : runStatus[r] = "cancelled" => runStatus'[r] = "cancelled"]_runStatus

\* When all executions ended in success, read the head commit and wrote every row, and no
\* checkout was cut short, the records of that commit are current.
NoFileIsMissing ==
  /\ begun > 0 /\ ~torn
  /\ \A r \in 1 .. begun : pc[r] = "done" /\ head[r] = upstream.sha /\ skipped[r] = {}
  => Current = upstream.files
=============================================================================
