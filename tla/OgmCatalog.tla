----------------------------- MODULE OgmCatalog -----------------------------
(***************************************************************************)
(* The watch list: which repositories of the OpenGeoMetadata organization  *)
(* are harvested.  One row of ogm_repos, seen by the nightly catalogue     *)
(* refresh (trigger_ogm_nightly_sync.py), the webhook (ogm_webhook.py),    *)
(* the operator (admin.py), ogm_harvest_all and every harvest, which       *)
(* writes the row too (harvest.py:32).                                     *)
(*                                                                         *)
(* Abstractions: one repository; its content is the number of its last     *)
(* push; a harvest is one step (OgmHarvest has its detail) and identical   *)
(* queued harvests are counted up to MaxQueued.                            *)
(***************************************************************************)
EXTENDS Naturals

CONSTANTS Scanners,   \* runs of the nightly script (GitHub Actions, cron container)
          MaxHead,    \* bound: pushes to the repository
          MaxQueued,  \* bound: queued harvests told apart
          MaxEdits    \* bound: operator edits of the row

ASSUME CatalogAssumption == MaxHead \in Nat \ {0} /\ MaxQueued \in Nat \ {0} /\ MaxEdits \in Nat

EditableModes == {"weekly", "webhook", "both", "manual"}
Modes == EditableModes \cup {"nightly"}
ScheduledModes == {"nightly", "weekly", "both"}
EventModes == {"webhook", "both", "nightly"}

VARIABLES
  repository,   \* the repository on GitHub: has it metadata-aardvark/, is it archived, its head
  row,        \* its row in ogm_repos, or NoRow
  events,     \* webhook deliveries under way
  discovered, \* payloads whose handler has asked GitHub for the directory
  scan,       \* scan[s]: what nightly run s is about to do and what it has found
  allQueued,  \* triggers of the queued ogm_harvest_all tasks
  harvests,     \* queued ogm_harvest_repo tasks
  harvested,  \* head of the last successful harvest
  edits,      \* operator edits so far
  steady,     \* history: directory always there, never archived, row left alone by the operator
  wanted      \* history: the directory was there at some time, or the operator asked

github == <<repository, events>>
catalogVars == <<repository, row, events, discovered, scan, allQueued, harvests, harvested, edits,
          steady, wanted>>

NoRow == [enabled |-> FALSE, mode |-> "none"]
Rows == [enabled : BOOLEAN, mode : Modes]
Events == [kind : {"push", "discovery"}, archived : BOOLEAN]
Findings == [aardvark : BOOLEAN, archived : BOOLEAN]
Upstreams == [aardvark : BOOLEAN, archived : BOOLEAN, head : 1 .. MaxHead]
Scans == [step : {"idle", "check", "write", "enqueue"}, aardvark : BOOLEAN]
Idle == [step |-> "idle", aardvark |-> FALSE]

CatalogTypeOK ==
  /\ repository \in Upstreams
  /\ row \in Rows \cup {NoRow}
  /\ events \in SUBSET Events
  /\ discovered \in SUBSET Findings
  /\ scan \in [Scanners -> Scans]
  /\ allQueued \in SUBSET {"nightly", "manual"}
  /\ harvests \in 0 .. MaxQueued
  /\ harvested \in 0 .. MaxHead
  /\ edits \in 0 .. MaxEdits
  /\ steady \in BOOLEAN
  /\ wanted \in BOOLEAN

CatalogInit ==
  /\ repository \in [aardvark : BOOLEAN, archived : {FALSE}, head : {1}]
  /\ row = NoRow
  /\ events = {}
  /\ discovered = {}
  /\ scan = [s \in Scanners |-> Idle]
  /\ allQueued = {}
  /\ harvests = 0
  /\ harvested = 0
  /\ edits = 0
  /\ steady = repository.aardvark
  /\ wanted = repository.aardvark

\* One more queued harvest.
Enqueued == IF harvests = MaxQueued THEN harvests ELSE harvests + 1

\* Mutant of RepoRow: any repository is watched.
WatchAnyRow(f) ==
  IF ~f.archived THEN [enabled |-> TRUE, mode |-> "both"]
  ELSE [enabled |-> FALSE, mode |-> "manual"]

\* The row for what GitHub says of the repository.
RepoRow(f) ==
  IF f.aardvark /\ ~f.archived THEN [enabled |-> TRUE, mode |-> "both"]
  ELSE [enabled |-> FALSE, mode |-> "manual"]

-----------------------------------------------------------------------------
(* GitHub.                                                                 *)

\* A push under metadata-aardvark/, which may add or remove the directory.
PushDirectory(a) ==
  /\ repository.head < MaxHead
  /\ ~repository.archived
  /\ repository.aardvark \/ a
  /\ repository' = [repository EXCEPT !.head = @ + 1, !.aardvark = a]
  /\ events' = events \cup {[kind |-> "push", archived |-> FALSE]}
  /\ steady' = (steady /\ a)
  /\ wanted' = (wanted \/ a)
  /\ UNCHANGED <<row, discovered, scan, allQueued, harvests, harvested, edits>>

\* The handler ignores the "archived" action of a repository event.
Archive ==
  /\ ~repository.archived
  /\ repository' = [repository EXCEPT !.archived = TRUE]
  /\ steady' = FALSE
  /\ UNCHANGED <<row, events, discovered, scan, allQueued, harvests, harvested, edits, wanted>>

Unarchive ==
  /\ repository.archived
  /\ repository' = [repository EXCEPT !.archived = FALSE]
  /\ events' = events \cup {[kind |-> "discovery", archived |-> FALSE]}
  /\ UNCHANGED <<row, discovered, scan, allQueued, harvests, harvested, edits, steady, wanted>>

\* The repository is renamed, transferred or made public.
Announce ==
  /\ events' = events \cup {[kind |-> "discovery", archived |-> repository.archived]}
  /\ UNCHANGED <<repository, row, discovered, scan, allQueued, harvests, harvested, edits, steady,
                 wanted>>

\* A delivery that fails is not repeated.
Lose(e) ==
  /\ e \in events
  /\ events' = events \ {e}
  /\ UNCHANGED <<repository, row, discovered, scan, allQueued, harvests, harvested, edits, steady,
                 wanted>>

-----------------------------------------------------------------------------
(* The webhook.                                                            *)

\* A push to a known repository.
PushEvent(e) ==
  /\ e \in events
  /\ e.kind = "push"
  /\ row # NoRow
  /\ harvests' = IF row.enabled /\ row.mode \in EventModes THEN Enqueued ELSE harvests
  /\ events' = events \ {e}
  /\ UNCHANGED <<repository, row, discovered, scan, allQueued, harvested, edits, steady, wanted>>

\* Another event, or a push to an unknown repository: GitHub is asked for the directory.
\* An error there ends the handler as if the event were lost.
Discover(e) ==
  /\ e \in events
  /\ e.kind = "push" => row = NoRow
  /\ discovered' = discovered \cup
                     {[aardvark |-> repository.aardvark, archived |-> e.archived]}
  /\ events' = events \ {e}
  /\ UNCHANGED <<repository, row, scan, allQueued, harvests, harvested, edits, steady, wanted>>

\* The row is written and a watched repository is harvested, unless the broker is down.
Enroll(f) ==
  /\ f \in discovered
  /\ discovered' = discovered \ {f}
  /\ row' = RepoRow(f)
  /\ harvests' \in {harvests, IF RepoRow(f).enabled THEN Enqueued ELSE harvests}
  /\ UNCHANGED <<repository, events, scan, allQueued, harvested, edits, steady, wanted>>

-----------------------------------------------------------------------------
(* The nightly run.                                                        *)

\* An archived repository is left out of the list, and its row alone.
List(s) ==
  /\ scan[s].step = "idle"
  /\ scan' = [scan EXCEPT ![s].step = IF repository.archived THEN "enqueue" ELSE "check"]
  /\ UNCHANGED <<repository, row, events, discovered, allQueued, harvests, harvested, edits,
                 steady, wanted>>

CheckDirectory(s) ==
  /\ scan[s].step = "check"
  /\ scan' = [scan EXCEPT ![s] = [step |-> "write", aardvark |-> repository.aardvark]]
  /\ UNCHANGED <<repository, row, events, discovered, allQueued, harvests, harvested, edits,
                 steady, wanted>>

\* GitHub answers with an error: counted as a missing directory.
CheckFails(s) ==
  /\ scan[s].step = "check"
  /\ scan' = [scan EXCEPT ![s] = [step |-> "write", aardvark |-> FALSE]]
  /\ UNCHANGED <<repository, row, events, discovered, allQueued, harvests, harvested, edits,
                 steady, wanted>>

\* Mutant of WriteRow: an existing row is left as it is.
InsertRow(s) ==
  /\ scan[s].step = "write"
  /\ row' = IF row = NoRow THEN RepoRow([aardvark |-> scan[s].aardvark, archived |-> FALSE])
            ELSE row
  /\ scan' = [scan EXCEPT ![s].step = "enqueue"]
  /\ UNCHANGED <<repository, events, discovered, allQueued, harvests, harvested, edits, steady,
                 wanted>>

WriteRow(s) ==
  /\ scan[s].step = "write"
  /\ row' = RepoRow([aardvark |-> scan[s].aardvark, archived |-> FALSE])
  /\ scan' = [scan EXCEPT ![s].step = "enqueue"]
  /\ UNCHANGED <<repository, events, discovered, allQueued, harvests, harvested, edits, steady,
                 wanted>>

EnqueueAll(s) ==
  /\ scan[s].step = "enqueue"
  /\ allQueued' = allQueued \cup {"nightly"}
  /\ scan' = [scan EXCEPT ![s] = Idle]
  /\ UNCHANGED <<repository, row, events, discovered, harvests, harvested, edits, steady, wanted>>

\* The script stops before it is done.
StopScan(s) ==
  /\ scan[s].step # "idle"
  /\ scan' = [scan EXCEPT ![s] = Idle]
  /\ UNCHANGED <<repository, row, events, discovered, allQueued, harvests, harvested, edits,
                 steady, wanted>>

\* ogm_harvest_all: a scheduled one looks at the watch mode too.
HarvestAll(t) ==
  /\ t \in allQueued
  /\ allQueued' = allQueued \ {t}
  /\ harvests' = IF row.enabled /\ (t = "nightly" => row.mode \in ScheduledModes)
               THEN Enqueued ELSE harvests
  /\ UNCHANGED <<repository, row, events, discovered, scan, harvested, edits, steady, wanted>>

-----------------------------------------------------------------------------
(* A harvest and the operator.                                             *)

\* harvest_repo first writes the row with the defaults of upsert_repo.
Harvest(result) ==
  /\ harvests > 0
  /\ harvests' = harvests - 1
  /\ row' = [enabled |-> TRUE, mode |-> "nightly"]
  /\ harvested' = result
  /\ UNCHANGED <<repository, events, discovered, scan, allQueued, edits, steady, wanted>>

HarvestSucceeds == Harvest(repository.head)
HarvestFails == Harvest(harvested)

Edit(enabled, mode) ==
  /\ edits < MaxEdits
  /\ edits' = edits + 1
  /\ row' = [enabled |-> enabled, mode |-> mode]
  /\ steady' = FALSE
  /\ wanted' = TRUE
  /\ UNCHANGED <<repository, events, discovered, scan, allQueued, harvests, harvested>>

TriggerOne ==
  /\ edits < MaxEdits
  /\ edits' = edits + 1
  /\ harvests' = Enqueued
  /\ wanted' = TRUE
  /\ UNCHANGED <<repository, row, events, discovered, scan, allQueued, harvested, steady>>

TriggerAll(t) ==
  /\ edits < MaxEdits
  /\ edits' = edits + 1
  /\ allQueued' = allQueued \cup {t}
  /\ UNCHANGED <<repository, row, events, discovered, scan, harvests, harvested, steady, wanted>>

-----------------------------------------------------------------------------
NightlyScan(s) == List(s) \/ CheckDirectory(s) \/ CheckFails(s) \/ WriteRow(s) \/ EnqueueAll(s)

CatalogNext ==
  \/ (\E a \in BOOLEAN : PushDirectory(a)) \/ Archive \/ Unarchive \/ Announce
  \/ \E e \in events : Lose(e) \/ PushEvent(e) \/ Discover(e)
  \/ \E f \in discovered : Enroll(f)
  \/ \E s \in Scanners : NightlyScan(s) \/ StopScan(s)
  \/ \E t \in {"nightly", "manual"} : HarvestAll(t) \/ TriggerAll(t)
  \/ HarvestSucceeds \/ HarvestFails \/ TriggerOne
  \/ \E enabled \in BOOLEAN, mode \in EditableModes : Edit(enabled, mode)

\* The script runs every night, the workers take their tasks, some harvests succeed.
CatalogFairness ==
  /\ \A s \in Scanners : WF_catalogVars(NightlyScan(s))
  /\ SF_catalogVars(HarvestAll("nightly"))
  /\ SF_catalogVars(HarvestSucceeds)

CatalogSpec == CatalogInit /\ [][CatalogNext]_catalogVars
FairCatalogSpec == CatalogSpec /\ CatalogFairness

-----------------------------------------------------------------------------
(* Properties.                                                             *)

\* A repository that never had the directory is not harvested unless the operator asks
\* for it, whatever events, nightly runs and stale answers come in which order.
NeverHarvestedUnasked == ~wanted => harvests = 0 /\ harvested = 0 /\ ~row.enabled

\* A repository that keeps its directory is brought up to date in the end, whatever
\* events were lost and edits made, if the nights stop failing.
EventuallyHarvested ==
  /\ <>[](repository.aardvark /\ ~repository.archived)
  /\ <>[][\A s \in Scanners : ~CheckFails(s) /\ ~StopScan(s)]_catalogVars
  => []<>(harvested = repository.head)

\* A repository that has always had the directory, was never archived and never edited
\* is never switched off: a failed look at GitHub keeps it.
SteadyStaysWatched == steady /\ row # NoRow => row.enabled

\* A switched-off repository is switched on again only when GitHub shows the directory
\* or by the operator.
OffUntilFound ==
  [][row # NoRow /\ ~row.enabled /\ row'.enabled =>
       \/ \E s \in Scanners : WriteRow(s)
       \/ \E f \in discovered : Enroll(f)
       \/ edits' # edits]_catalogVars
=============================================================================
