# OGM API: a verification project

TLA+ models of the backend of the OpenGeoMetadata API (`backend/app`), the TLC
configurations that check them on small instances and the theorems TLAPS proves
about them. Paths below are relative to `backend/app` unless they start with
`backend/`, `docs/` or `scripts/`.

## 1. Inventory

The program is a FastAPI application, Celery workers, PostgreSQL, Elasticsearch
and Redis. It mirrors the metadata repositories of the OpenGeoMetadata GitHub
organization, imports records from a bridge to another catalogue, indexes them,
and serves them through cached JSON:API endpoints.

| Part | State | Operations | Talks to |
|---|---|---|---|
| OGM harvest of a repository (`services/ogm_harvest`, `tasks/ogm_harvest.py`) | `ogm_harvest_runs`, the harvest columns of `ogm_repos`, `ogm_resource_state`, `resources`, one git checkout directory per repository | `harvest_repo`: create run, cancel older runs, sync checkout, stream import in batches, mark missing, finalize | GitHub, Celery broker, thumbnail refresh |
| Watch list (`ogm_repos`: `scripts/populate_ogm_repos.py`, `ogm_webhook.py`, `admin.py`) | enabled flag, watch mode, notes, tags | nightly refresh, webhook discovery, operator PATCH, selection by `ogm_harvest_all` | harvest |
| Thumbnail refresh after a harvest (`importer.py`, `thumbnail_refresh_service.py`) | set of changed ids in memory, generated thumbnails | compare before upsert, refresh after the last batch | harvest, caches, thumbnail pipeline |
| Response cache (`cache_service.py`, `durable_response_cache.py`) | Redis records, tag sets, reverse tag sets, locks; `generated_api_responses` and their tags | fill on a miss, stale-while-revalidate, stale-if-error, rehydrate from Postgres, invalidate by tag | every cached endpoint |
| Representation cache (`resource_representation_cache.py`) | Redis entries, `generated_resource_representations` (no expiry) | get or build, rehydrate, store, delete | resource and search endpoints, refreshes |
| Thumbnail pipeline (`tasks/worker.py`, `thumbnail_queue_service.py`, `thumbnail_state_service.py`, `thumbnail_alias_service.py`) | `resource_thumbnail_state`, Redis images, aliases and enqueue slots | reserve and enqueue, fetch with retries, record state, invalidate caches | providers, caches |
| Provider throttle (`provider_throttle.py`) | Redis lease slots, per-host delay and cooldown keys | acquire, release, register failure | thumbnail and static-map tasks |
| Bridge sync (`services/bridge_sync`, `tasks/bridge_sync.py`) | `bridge_sync_runs`, per-resource state, counters of batches | full and delta sync, batched fan-out, finalize, retire missing, index and cache refresh | bridge API, Elasticsearch, caches |
| Search index (`elasticsearch/index.py`, `scripts/reindex_atomic.py`, `scripts/reindex.py`, `bridge_sync/search_index.py`) | Elasticsearch indices and the alias | atomic build with swap and pruning, rebuild in place, targeted refresh, creation at start | `resources` |
| Search (`elasticsearch/search.py`, `endpoint_modules/search.py`, `search_service.py`) | Redis caches of whole answers, aggregations and facet values, locks | build a query, look up, search, store, clear | Elasticsearch, caches |
| Rate limiting and API keys (`rate_limit_service.py`, `api_key_service.py`, `middleware`) | Redis counters by minute, key rows, a tier cache in each process | look up, check and count, change, revoke | every request |
| Turnstile (`turnstile_service.py`) | a session key in Redis | challenge | an external service |
| Static maps (`static_map_service.py`, `endpoint_modules/static_maps.py`) | images, aliases and links in Redis and Postgres | draw, store, redirect | tile servers |
| Analytics, usage log (`analytics_events.py`, `api_usage_log_service.py`, `api_usage_enrichment.py`) | event rows | append, enrich in batches | workers |
| Generated content (`summarization`, `entities`, `ocr`, `allmaps`, `spatial_facets`, `gin_blog_sync`) | enrichment rows, image caches | Celery tasks that write one row or image | providers, caches |
| Presentation (presenters, viewers, citations, downloads, OGC, MCP, sitemap) | none of their own | format a response | Postgres |
| Import and maintenance scripts (`backend/scripts`, `gazetteer`, `backend/db/migrations`) | tables, files | batch jobs run by an operator or cron | Postgres, S3 |

What is hard here: the same job may run twice at once (webhook, nightly job,
operator, broker redelivery under `acks_late`); workers die between two
statements, and most operations of several statements are not one transaction; a
cache fill reads before an invalidation and writes after it; recomputation locks
and thumbnail queue slots are leases without an owner, throttle slots and the
pacing lock have one but expire under it; copies of the same data expire on
different clocks. `PROJECT.json` lists these hazards one by one, each at the line
where it bites and with the properties that would show it going wrong.

What makes the parts correct:

- a harvest or sync that runs undisturbed leaves exactly what its source has,
  whatever its predecessors left behind; one row at most says "running"; rows do
  not say so for ever; the nightly run is enough;
- a repository is harvested only if it has `metadata-aardvark/` or the operator
  asks, and one that has it is harvested in the end;
- a refresh leaves no outdated copy, an invalidation finds every copy, and a copy
  that is missed is dropped when its time is up;
- an overrun in the throttle does not spread, and requests stay apart;
- a batched sync is closed once, by its last batch, with the verdict on all;
- an imported record is seen in the search and in its cached page, and a record the
  bridge serves all along is not retired;
- a redirect leads to the image of the source at hand, a success has an image, and the
  thumbnail of a record that is asked for appears;
- the search is never without an index because of a build, and what is swapped in is
  complete;
- a limit is overrun by the requests open at once and no more, nobody is refused too
  early, and a changed key is noticed in time;
- an answer, cached or not, is one to its question, recent, and not from before a clear.

## 2. Modules

Each component has a module with its state, one action per statement, handler
step or external event, its specification and its properties; the theorems about
it are in a module that extends it, some of which serve several components
(`OgmProofs`: `OgmHarvest`, `OgmCatalog` and `HarvestRefresh`; `BridgeProofs`:
`BridgeBatches` and `BridgeRetire`; `LimitProofs`: `ProviderThrottle` and `RequestGate`),
so that their definitions have names of their own (`CatalogInit`, `BatchNext`, `GateSpec`);
`MC...` modules give symmetry sets and function-valued constants to TLC. An operator whose comment says "Mutant
of X" is no part of the specification: it is X with a plausible bug, used to see
that a property notices.

| Module | Models | Composes with |
|---|---|---|
| `OgmHarvest` | overlapping executions of `harvest_repo` for one repository | its rows are written inside the batches of `HarvestRefresh`; it is one step of `OgmCatalog` |
| `HarvestRefresh` | which representations a harvest deletes | its deletion is the refresh of `RepresentationCache` |
| `RepresentationCache` | the copies of one resource in Redis and Postgres, next to refreshes | |
| `ResponseCache` | the clocks of the cached responses and of their tag set | its reads and sweeps are single steps, interleaved in `RepresentationCache` |
| `ThumbnailPipeline` | requests, queue slots, tasks and primer of one record's thumbnail | what a harvest primes is in its `Prime`; its fetches pass `ProviderThrottle` |
| `SearchIndex` | indices and alias beside the rows they are made of | the targeted refresh is the indexing of `BridgeRetire`; its swaps are changes of version in `SearchAnswers` |
| `SearchQuery` | the query that is built, what it finds, the names of cached results | extended by `SearchAnswers` |
| `SearchAnswers` | searches and facets with their three caches, an index that changes, clears | the response cache around it is `ResponseCache` |
| `RequestGate` | tier caches, keys and the counters of the minute | |
| `OgmCatalog` | the row of one repository in the watch list | |
| `ProviderThrottle` | slots and pacing of one origin | |
| `BridgeRun` | abstract: what the row of a batched sync promises | implemented by `BridgeBatches` |
| `BridgeBatches` | the enqueuing task, the batch tasks and their counts | what a batch does to records is in `BridgeRetire` |
| `BridgeRetire` | what syncs of all kinds do to records, their documents and cached pages | |

### OgmHarvest

State: the rows of `ogm_harvest_runs` (`runStatus`), the harvest columns of the
repository (`repoStatus`, `repoSha`), `ogm_resource_state` (`lastSeen`,
`missing`), the shared checkout directory (`checkout` its files, `git` the commit its
`.git` is at, `torn` whether git or `rmtree` was cut short there), the broker's queue,
and for each execution the statement it is about to issue (`pc`), its start time, what
it has yet to read (`todo`), what it has read and not committed (`buffer`). Actions follow
`harvest_repo` statement by statement: `CreateRun`, `Stamp`,
`CancelOtherRunningRuns`, `EnsureRepo` (`Pull` where there is a `.git`, else `Clone`) or
`RemoveCheckout` and `Reclone`, `ReadBatch`, `FlushRows`, `SkipRow`, `MarkMissingStale`, `FinalizeHarvestRun`,
`MarkRepoHarvestCompleted`; `Raise`, `FailHarvestRun`, `FailRepoHarvest` are the
`except` branch, and `Crash` and `Redeliver` the worker and the broker. A pull writes the
files by which two commits differ and no others, so what is missing from the work tree
beside a `.git` at the head commit stays missing: a worker killed in a clone (`Crash`) and a
removal that stops half way (`RemoveHalf`) leave such directories. A whole checkout may be
there before the first row (`Init`), for the directory is not in the database; so one execution
can find its directory refilled by another that also removed it (`RecloneRefused`). `git
rev-parse` may fail, and then the commit recorded is none (`Synced`). Superseding only rewrites
a row: the superseded execution goes on, as in the code.

### HarvestRefresh

State: published contents, rows (`resource`), the representation shown to readers, and for
each execution what it has still to write (`unread`), the batch at hand, the records that differ in it, the records changed so
far. `Compare` reads before the transaction that `Commit` or `CommitFails` ends (a
failing batch is bisected, a single record left out), `Refresh` deletes the
representations after the last batch, `RefreshFails` loses the list and goes on,
`Stop` loses it with the execution. `Signature` is the projection on
`THUMBNAIL_SOURCE_FIELDS`. Executions overlap: `crossed` holds the records another
execution has written since they were compared, `raced` those then written without being
noted as changed.

### RepresentationCache

One resource: the version of its row, its representation (no expiry in Postgres)
and its detail response, each in Redis and in Postgres, the tag set, requests and
refreshers. Every store operation of `get_or_build_resource_representation` and
`cached_endpoint` is a step that may fail, and so is every deletion of a refresh.

### ResponseCache

The same stores seen through their clocks: a copy has an age and a remaining life;
`Ask`, `Compute`, `Store`, `Persist`, `Tag`, `RefreshFails`, `Extend` are the steps
of a request or of the background task of `cached_endpoint`; the tag set has a life
of its own. Reading a record and sweeping Redis are single steps here. A tick is
far longer than the 10 s of a lock, so locks may expire at any time, and nothing
ticks between the two Redis calls of an extension, between computing and storing
expiries, and during a sweep.

### OgmCatalog

One repository: what GitHub has, its row (enabled, mode), deliveries under way,
handlers that have asked GitHub, nightly runs with what they found, queued tasks.
A harvest is one step that first writes the row as `upsert_repo` does. Deliveries
are lost and reordered; GitHub answers with errors; the operator edits and triggers.

### ProviderThrottle

The Redis keys of the slots and of the pacing lock with their owner tokens, the
time until `next_allowed`, the time since each worker read the clock. Keys expire at
any time. A worker that cannot reach Redis goes on under its local lock
(`Fallback`); a release that does not reach Redis leaves the key with a token nobody
will release.

### BridgeRun and BridgeBatches

`BridgeRun` has three variables: the row's outcome, the batches that have not
reported, whether all reports were clean. `BridgeBatches` has the enqueuing task step
by step, the copies of every batch message (`copy[<<b, d>>]`: the d-th delivery of
batch b) and the counts in the row; a batch may pass records over because they have no
id (`skips`), which is counted in the row and is no error; `RecordBatch` is
`record_batched_batch_result` in its transaction. A message is delivered again when
a worker stops between its report and its acknowledgement, or when it waits longer
than the broker's visibility timeout of one hour.

### BridgeRetire

Rows of `resources`, `bridge_resource_state` (`seen`, `missing`, `retired`) and
executions of full, delta, single and batched syncs: `Fetch`, `FlushRows`,
`SkipRecord`, `EndCrawl`, then `MarkMissing`, `RetireState` and `RetireRows`, the
three statements that commit separately or can be cut apart. A delta or single sync
goes on to index the records it was given (`ReadRows`, `IndexRows`) and to refresh
their caches (`RefreshCaches`, `Warm`), next to visitors who cache pages (`Visit`).
`excused` remembers the records of which nothing can be promised: not served all along,
passed over, or written by an older sync after a newer one (`Overtaken`).

### ThumbnailPipeline

One record whose source may change: its row in `resource_thumbnail_state`, the alias key,
queue slots, images in Redis and in `generated_visual_assets`, skip markers, cached
manifests, and the actors: a GET (`Resolve` the fast path, `Load` the slow one, then
`Acquire`, `Send` and the notes), the Celery task (`Begin`, `Fetch`, `Store`, `Note`,
`NoteError`, `Retry`, `Release`) and the primer. Sources are of five kinds, since each
task has its own limits and error branches. A task asks whether its retries are used up by
a limit that is not the one it retries with (`Exhausted`), and its `finally` clause releases
the slot also when it has just asked for a retry (`Retry`). `Empty` are the sources no image can
be made of. A PMTiles source gets a skip marker that never expires if it is one of them, and
also if it is not and an exception came up while it was read (`FetchPmtiles`, `PrimeFetch`); the
history `misread` remembers the latter, and nothing but a forced priming or the loss of the
marker makes up for it. Slots expire at any time;
calls fail, workers die and Redis loses its keys within a bound.

### SearchIndex

Rows by version, indices by number with the version of each document, the alias, and four
actors nothing locks against each other: `reindex_atomic.py` (`StartBuild`, `ReadChunk`,
`BulkWrite`, `CheckBuild`, `ReadTargets`, `Swap`, `Prune`), the targeted refresh, the
rebuild in place (`Drop`, `InitIndex`, `ReadRows`, `WriteRow`, `Verify`) and the start
of the application. A write to a name that does not exist creates an index without mapping,
as Elasticsearch does (`Written`). The targeted refresh does not delete: the call it makes for
a record without a row raises a `TypeError`, which is counted and passed over (`Applied`). `calm` says whether something else happened since the
last actor began.

### SearchQuery and SearchAnswers

`SearchQuery` has no state: operators for the clauses of a query (`LonRanges` the
bounding box and the antimeridian, `ExactClauses`, the clauses of an advanced search),
for what Elasticsearch finds and counts, and for the names of cached results. `SearchAnswers`
runs them: a request looks in the caches, takes a lock or waits, searches, stores, tags. The tag
set `search` that all caches share is a key of its own with the names it lists (`tagged`) and
its expiry (`expires`), which every tagging sets anew for the whole set (`Tagged`), the refill of
a response too (`OthersTag`); a clear finds what the set still lists (`Uncleared`). `slips`
remembers the entries a clear may not find: their tagging failed (`TagFails`) or was never
reached (`Die`), or they were listed when the expiry was moved up. A tick is longer than the
60 s by which a tag set is to outlive an entry (`cache_service.py:62`): `Padding` is 0. The
reference definition the answers are compared with (`Wanted`, `Said`, `Within`,
`Touching`) does without clauses, ranges and names.

### RequestGate

The row of one API key, the tier cache of each process, the counters in Redis; a request
goes through `api_key_service` and `rate_limit_service` await by await, an operator's
change or revocation through its own awaits.

## 3. Runs

`tlc -config <cfg> <module>` in this directory repeats each of them.

| Run | Instance | What it shows |
|---|---|---|
| `harvest` | 1 record, 3 executions, 1 push, fair | of the runs that have cancelled the others at most one row says running (`AtMostOneRunningRow`); the latest execution, if it met no other, leaves as current exactly the files it could write (`UncontendedRunReconciles`); a running row is settled (`RunningRowIsSettled`); when pushes end, the last night brings HEAD, the row's status and commit to the head commit and the current records to the files of the checkout, which are those of the head commit unless a clone or a removal was cut short in it (`NightlyRunReconciles`) |
| `refresh` | 2 records, 2 contents, 2 executions | an old thumbnail is on the list of an execution at work, or its list was lost, or the comparison that missed it was crossed (`OldThumbnailsAreKnown`) |
| `representations` | 1 GET at a time, 2 refreshers, 2 versions, fair | an undisturbed refresh leaves no outdated copy and none comes back (`QuietRefreshIsComplete`); expiry makes responses follow the representation (`ResponsesFollow`) |
| `responses` | 1 endpoint (TTL 2, hard TTL 4), 2 computations at a time, 2 failures, 2 changes, fair | each failed refresh buys a copy one extension and no more (`NoCopyOutstays`); copies of an old row die (`OldCopiesDie`) |
| `catalog` | 1 nightly script, 2 heads, 1 queued harvest, 1 operator action, fair | `NeverHarvestedUnasked` and `EventuallyHarvested` |
| `throttle` | 3 workers, 1 slot, fair | workers that kept their slot are never more than the slots (`OverrunsDoNotSpread`); grants are apart unless the pacing lock was lost (`GrantsArePaced`); somebody is served (`SomebodyIsServed`) |
| `batches` | 2 batches, 2 deliveries each, fair | until a message comes twice the row behaves as `BridgeRun` promises (`KeepsPromise`) and success means that every record is imported, but for records without an id that the row counts as skipped (`SuccessMeansDone`); a run that loses no task is closed (`RunSettles`) |
| `retire` | 1 record, 3 syncs of any kind, 1 that stops | the two tables agree unless a retirement was cut in half (`TablesAgree`); a full sync that ran alone reconciles, whatever came before (`FullSyncReconciles`); a record served all along survives every overlap but an older stamp over a newer one (`ServedSurvives`); search and page show an imported record, or its refresh is still to come, failed or was never due (`ImportsAreShown`) |
| `thumbnails` | 1 record, sources of 5 kinds and one without an image, 1 GET, 1 task, 1 primer at a time, 1 change, 1 fault, fair | no redirect to another source's image (`RedirectIsCurrent`), no success without an image (`SuccessHasImage`), the thumbnail of a record that is asked for appears, if one can be made of its source and no skip marker is left of a failed read (`ThumbnailAppears`) |
| `index` | 2 records, 2 builds in turn, 1 refresh, 1 rebuild, 1 change, 1 fault | `SwapIsComplete`, `SearchStaysUp`, and what nothing disturbed leaves the search as the rows are (`UndisturbedIsExact`): a build and the operator's rebuild for every id, a refresh for those of its ids that have a row, the script's rebuild for the published rows |
| `gate` | 2 requests at 2 processes, 4 in all, limits of 1, a minute of 2 ticks, 1 change of the key, 1 failure | how far a limit is overrun (`OverrunIsBounded`), who is refused (`RefusedOnlyWhenFull`), how long an old tier is used (`TierIsRecent`, `LocalChangeIsSeen`) |
| `answers` | 2 requests at a time, six sequences of 1 to 3 questions, 3 documents, an index that changes and disappears, 2 ticks, 1 failure or tagging by another cache | every answer is one to its question (`AnswersAreRight`), recent (`AnswersAreRecent`), and not from before a clear, if nobody was asking at the clear and no entry had slipped out of the tag set (`ClearedIsCleared`) |

The type invariants of `OgmHarvest`, `HarvestRefresh`, `RepresentationCache`, `OgmCatalog`,
`ProviderThrottle` and `BridgeRetire` are proved and not run; those of the other modules,
which also relate lives, counts, entries or indices, are both.

**Bounds.** Three executions are an older one, a newer one that overlaps it, and a
later one that has to repair what they left; every ordering found so far needs no
more. With two records a batch is flushed in part and bisected: for `OgmHarvest` the safety
part of the run was repeated so (`Records = {a, b}`, 849,000 states), and in `HarvestRefresh`
two records and two contents do the same, and since only equality of contents matters there, they may change places
(`Symmetry` in `MCHarvestRefresh`). Three syncs are the same for the bridge; states of
`retire` that differ only in what no step and no property reads any more (the locals of a sync
that has ended) count as one (`View` in `MCBridgeRetire`). Three workers for one slot are one that overran, its successor
and one that waits. Two batches are the least for which one report may stand for
another. TTLs of 2 and 3 ticks with padding, extension and cap of 1, 1 and 3 keep
the order of the real constants (padding < hard TTL of the shortest, extension < cap)
and let a copy be fresh, stale, extended and dead at different ticks. In `thumbnails` the
limits of 1 and 0 retries keep their order (3 and 2 in the code), so that the wrong test
for the last retry shows, and one message suffices because a second one for the same image
finds what the first has stored. Two builds with one fault leave an index behind that the
second has to deal with; a chunk of one row lets every change fall between two chunks. Two
requests are the least that pass a limit together, and three ticks turn the minute and
outlive the tier cache. The questions of `answers` differ in one respect each, so that
two of them share a cached result if the name leaves that respect out. All its lifetimes are 2
ticks and that of the tagging from outside is 1, so that it moves the expiry of the tag set up
under entries that are alive. The theorems of
section 5 do without these bounds; what has no theorem rests on them.

**Deadlock.** It is checked except in the runs of `OgmHarvest`, `BridgeBatches`,
`BridgeRetire`, `ThumbnailPipeline`, `SearchIndex`, `RequestGate` and `SearchAnswers`,
whose bounded executions, clocks, arrivals or faults come to an end.

**Fairness** is weak and asked only of what keeps running by itself:

- `OgmHarvest`: a worker takes a queued message and goes on with a started
  execution (supervised Celery workers); the nightly job fires while executions are
  left. The last of the numbered executions is reserved for it: pushes, triggers,
  errors, crashes and redeliveries happen only before it is queued, so whatever goes
  wrong is followed by one quiet night, in which records may still be passed over
  for their own content. None of these events is asked for. `NightlyRunReconciles`
  therefore says that one undisturbed night is enough, not that nights succeed.
- `RepresentationCache`, `ResponseCache`: started requests and refreshes go on, the
  clock ticks, keys expire, an invalidation that has begun goes on. Nothing is asked
  of clients: no request need ever come.
- `OgmCatalog`: the script goes on and starts again every night. Two strong
  conditions: a queued nightly `ogm_harvest_all` is taken in the end, and of
  infinitely many harvests one succeeds; workers that are busy or fail now and then
  would otherwise starve them. `EventuallyHarvested` assumes in its statement that
  nights stop failing.
- `ProviderThrottle`: workers go on, keys expire, time passes; that workers stop
  dying is assumed in `SomebodyIsServed`.
- `ThumbnailPipeline`: clients keep asking for the thumbnail, slots expire, and started
  requests, tasks and primers go on. No priming need ever begin. Faults are bounded, so
  `ThumbnailAppears` says that the pipeline recovers from any one of them, except, by name,
  from the marker that a failed read of a PMTiles source leaves.
- `BridgeBatches`: started tasks go on. Cancelling, failing, dying, redelivering are
  not asked for; `RunSettles` excludes lost tasks, because nothing in the code counts
  a batch whose worker was killed.

## 4. Counterexamples kept

Beside the runs there are configurations under which TLC violates a property: each
property states what a comment or a document says, or what one might expect, and the
counterexample shows what happens instead.

| cfg (module) | Property | What happens |
|---|---|---|
| `OgmOverlap` (`OgmHarvest`) | `NoFileIsMissing` | the older of two overlapping harvests writes its older start over the newer stamp (`ogm_harvest/repository.py:451`), so the newer one marks a record missing that both have imported |
| `OgmSuperseded` (`OgmHarvest`) | `SupersededStaysCancelled` | `finalize_harvest_run` (`ogm_harvest/repository.py:242`) updates a row that another run has cancelled; `harvest.py:36`: "Cancel any older stuck/duplicate \"running\" runs for this repo so status pages stay sane." |
| `OgmTorn` (`OgmHarvest`) | `CheckoutHeals` | a worker dies in its clone after `.git` is complete and before the files are; later pulls are up to date and leave them out (`ogm_harvest/repo_sync.py:74`), so a quiet night imports nothing of them, marks them missing if they were current and says success; line 84: "Self-heal broken or divergent local checkouts by recloning." |
| `RefreshLost` (`MCHarvestRefresh`) | `SuccessRefreshesThumbnails` | the changed ids are lost with an execution that stops after a commit (`ogm_harvest/importer.py:520`); `docs/cache_priming.md:146`: "Only changed or new records are re-primed, and their generated API representations are invalidated." |
| `RefreshContent` (`MCHarvestRefresh`) | `SuccessRefreshesContent` | a change of the title alone deletes no representation (`ogm_harvest/harvest.py:78`); `document_events.py:13`: "This should be called whenever documents are created, updated, or deleted." |
| `RepRace` (`RepresentationCache`) | `RefreshLeavesNoOldRepresentation` | a representation built before a refresh is stored after it, without expiry (`resource_representation_cache.py:540`) |
| `ResponsesMissed` (`MCResponseCache`) | `InvalidationReachesAll` | every tagging sets the expiry of the whole tag set, so a search page shortens it below the life of the detail page it lists, and a later invalidation does not find that page |
| `OgmUnknown` (`OgmCatalog`) | `SteadyStaysWatched` | a failed check counts as a missing directory (`backend/scripts/populate_ogm_repos.py:252`); line 251: "If the check fails (rate limit, permissions), keep the repo but mark unknown." |
| `OgmReenabled` (`OgmCatalog`) | `OffUntilFound` | a queued harvest switches a disabled row on (`ogm_harvest/harvest.py:32`); `populate_ogm_repos.py:158`: "if no aardvark directory, disable by default (so it won't be harvested)" |
| `ThrottleOverrun` (`ProviderThrottle`) | `Serialized` | a slot of 90 s is not renewed under a task of up to 240 s (`provider_throttle.py:289`); line 329: "Serialize/police outbound requests per origin." |
| `BatchesTwice` (`BridgeBatches`) | `SuccessMeansComplete` | a batch that is delivered twice is counted twice (`bridge_sync/repository.py:396`); the run says success before another batch has run, and that batch is then skipped |
| `RetireLost` (`MCBridgeRetire`) | `DisappearedIsRetired` | a sync stops between marking and retiring, and no later one retires (`bridge_sync/repository.py:527`); `bridge_sync/harvest.py:54`: "Page the bridge API, UPSERT resources, and retire records that disappear." |
| `RetireServed` (`MCBridgeRetire`) | `ServedIsNotRetired` | a record that could not be imported is retired although the bridge serves it (`bridge_sync/harvest.py:205`); the same line 54 |
| `ThumbnailsMisread` (`MCThumbnailPipeline`) | `FailedReadsHeal` | any exception while a PMTiles source is read ends as "no image" (`tasks/worker.py:1151`), and the marker that is then set never expires, so one failed request costs the source its thumbnail for good; line 1188 speaks of a source that is "vector or empty", line 1189: "Cache a skip marker so we don't keep re-queuing" |
| `IndexPrevious` (`SearchIndex`) | `PreviousIsKept` | the pruning keeps the newest names (`scripts/reindex_atomic.py:572`), among them the index a failed build has left, and deletes the one that answered before the swap; line 10: "Keep one previous versioned index (configurable) and prune older ones" |
| `IndexLeftover` (`SearchIndex`) | `RefreshTakesOut` | the targeted refresh calls `es.delete(..., ignore_status=[404])` (`bridge_sync/search_index.py:83`), which elasticsearch 9 does not accept; the error is counted and the document of a record without a row stays in the search. `backend/tests/services/test_bridge_search_index.py:39` gives the client a `delete` that takes the argument |
| `AnswersMissed` (`MCSearchAnswers`) | `ClearFindsAll` | every tagging sets the expiry of the whole tag set (`cache_service.py:578`), so an answer that is tagged for a shorter time takes the set with it, and a later clear does not find aggregations and facet values that are still alive, although nothing has failed; line 577: "Expire tag sets around the same time as the cached object." |
| `IndexOverlap` (`SearchIndex`) | `SearchStaysUp` | of two builds at once the one that started earlier swaps last, and the pruning of the other deletes the index it has swapped in; the code assumes one build at a time |

With `Mixed` in place of `Some` for `Scripts` in `Answers.cfg` `AnswersAreRight` is
violated: the values of lists are sorted for the name of a cached answer
(`endpoint_modules/search.py:188`), while the query takes the first `geo_global` flag, so
two questions share an answer. Two more instances of `MCSearchAnswers` violate it in the same
way: `Blanks` for `Scripts`, because a facet searches for a query of blanks, and `Thin` for
`Contents` with `Inside` for `Scripts`, because the overlap script (`elasticsearch/search.py:775`) leaves out
a document whose extent has no width, although it lies in the box.

With one endpoint and no outage (`Keys = {detail}` and `MaxFailures = 0` in `ResponsesMissed.cfg`)
`InvalidationReachesAll` holds, refills from Postgres included. With one endpoint and two
outages (`Keys = {detail}`, `Ttl <- Long`, `MaxFailures = 2`) it is violated in another way: a failed
refresh extends a record beyond its tag set (`cache_service.py:789`; line 586: "Invalidate all
cached keys associated with the given tags.").

The following was read while modelling, and is in the models, but no property is about it:

- the docstring of the facet endpoint promises the filters of the search; `get_facet_values`
  has neither the least overlap of a bounding box nor the handling of blank queries;
- the empty answer of a missing index is cached like any other, for the lifetime of answers;
- `admin_service.py` clears the caches before it rebuilds the index, so answers from the
  old index may be cached in between;
- names of cached results are records in the models, and different for different values;
  `generate_cache_key` joins `k=v` strings with colons and does not quote text
  (`cache_service.py:692`), so two questions of which one has `:k=` in a text can share a name;
- a page beyond the end of a facet reports no pages (`total_pages` 0);
- the locks around a cached answer are left to their 10 s, also after the answer is there;
- full and batched bridge syncs neither index nor refresh caches (`batched.py:257` asks for
  a reindex), so what they retire stays in the search until then.

## 5. Theorems

`tlapm <module>` checks the proofs of a `...Proofs` module. They hold for every value
of the constants that satisfies the `ASSUME`s of the component's module, which TLC
evaluates on every run:

- bounds and lifetimes are natural numbers, positive where the code needs one; `Slots`,
  `Syncs`, `Ids` and the requests of the gate are finite; tokens for "free" and "dead" are no
  workers, `None` is no content, no source and no entry;
- `_standardize_iiif_url` (`Standard`, `image_service.py:408`) leaves what it has made as it
  is (`Standard[Standard[s]] = Standard[s]`), which is so where the base of an image service
  has no `/full/` of its own;
- the contents of the index and the scripts of questions are sequences, and a question for
  the values of a facet names one facet (`FacetAssumption`), as the path of the endpoint does;
- questions are in the form the endpoints hand on (`QuestionsAssumption`): parameters that may
  be repeated are lists, pages are counted from 1 (the GET handlers refuse others; in a POST
  they are an error of Elasticsearch), boxes are numbers with a least overlap of 0 to 100
  percent, advanced clauses have one of the operators `_build_advanced_query` knows, and facet
  values one of the four orders that are accepted. In documents (`DocumentsAssumption`) an
  extent goes eastwards within the world, and names stand for their places in the order of
  names.

Hypotheses of a theorem are what the code leaves to chance. `AnswersRight` has three, each
necessary, as the instances in section 4 show: the flags of one question agree (`OneFlag`), no
facet is asked for with a query of blanks (`NoBlankFacet`), and extents have a width (`Wide`).
The other one is about the order of steps: `OneBuilder` (`SearchIndexProofs`), that builds do not
overlap. The code assumes it without a lock. Without it both theorems are false: TLC finds a
behaviour of 14 steps in which the pruning of one build deletes the index another has verified
and not yet swapped in, and `IndexOverlap` one in which it deletes what answers the search.

| Module | Theorem | Inductive invariant, and why it is needed |
|---|---|---|
| `OgmProofs` (`OgmHarvest`) | `TypeCorrect` | `TypeOK` |
| | `OneRunningRow` | `AtMostOneRunningRow` with `TypeOK`: a row turns to running only before its own cancelling statement, and that statement cancels all the others |
| | `PullsLeaveNothingOut` | `WholeUnlessTorn` with `TypeOK`: a pull that starts from a whole work tree ends in one, whatever others have put there, so a file can only be missing where something was cut short |
| | `Reconciles` | `ReconcileInv`: while the latest execution meets no other (`Solo`) its stamp is newer than every row (`Fresh`, `Past`); what it has written carries that stamp and is not missing (`Importing`); what it has not written is older, so that `MarkMissingStale` takes just these |
| `OgmProofs` (`HarvestRefresh`) | `RefreshTypeCorrect` | `RefreshTypeOK` |
| | `NoneForgotten` | `KnownInv`: what another execution has not crossed is as it was when it was compared, so what the commit changes is in `differ` (`Compared`); an idle execution knows nothing (`RestKnowsNothing`) |
| `RepresentationCacheProofs` | `TypeCorrect` | `TypeOK` |
| | `QuietRefresh` | `QuietInv`: during a quiet refresh the stores already passed are empty (`Refreshing`), afterwards stores and requests carry only the current version (`AllCurrent`) |
| `ResponseCacheProofs` | `TypeCorrect` | `TypeOK` |
| | `CopiesLeaveOnTime` | `LifeInv`: a failure is counted before its extension is written, so an extension about to be written is paid for (`ExtensionPaid`), also when several tasks hold the same record |
| `OgmProofs` (`OgmCatalog`) | `CatalogTypeCorrect` | `CatalogTypeOK` |
| | `HarvestedIfAsked` | `Unwatched`: while the directory has never been there, nobody holds a finding that says so: not GitHub, no handler, no nightly run |
| `LimitProofs` (`ProviderThrottle`) | `TypeCorrect` | `TypeOK` |
| | `OverrunsStayAlone` | `Leased` and `Owning`: a worker that kept its slot is the owner in the slot's key, so slots map one to one to such workers |
| | `Paced` | `LockHeld` and `Spaced`: while the pacing lock is not lost, the time since the last grant and the time left until the next add up to the delay |
| `BridgeProofs` (`BridgeBatches`) | `BatchTypeCorrect` | `BatchTypeOK` with `EnqInv`, `Room`, `BatchInv`: counts have room for the report that is due |
| | `SuccessIsDone` | `Tally`: until a message comes twice the counts are the number of batches that have reported; `BatchInv`: what reported without an error is imported, or passed records over that the row of a run under way counts as skipped |
| | `PromiseKept` | the same, and a lemma per step of `BridgeRun`: as long as no message has come twice every step of `BridgeBatches` is a step of `BridgeRun` or changes nothing of it |
| `BridgeProofs` (`BridgeRetire`) | `TypeCorrect` | `TypeOK` |
| | `Agree` | `TablesAgree` with `TypeOK` |
| | `ImportsShown` | `Listed`: what a delta or single sync holds to be written is on its list already, other syncs list nothing, and an idle one has nothing at hand, so no write escapes the indexing and the refresh that follow |
| | `Reconciles` | a sync that is alone has the latest start of all (`Alone`, `Stamped`); while it crawls its own stamp is on served records only, and each of these is still to be asked for, held or imported (`Crawling`); after the marking the others are retired or about to be (`Retiring`), and those that earlier syncs marked are retired unless one was cut (`MissingRetired`) |
| | `Survives` | `Kept`: a record served all along has a stamp no older than any sync that has passed it, or is still to be asked for or held by that sync; so no `MarkMissing` takes it |
| `ThumbnailPipelineProofs` | `TypeCorrect` | `ThumbInv` |
| | `RedirectsAreCurrent` | `ThumbInv`: whoever holds an image (a request, a task, a primer) holds that of the source he has read, whatever the row says by then; the alias and the row may be of another source, so every way to a redirect has to compare them (`TaskOK`, `RequestOK`, `PrimerOK`) |
| | `SuccessIsStored` | the same: a success is announced only by an actor that has stored its image, or found it stored; `Have` is what is stored or was lost |
| `SearchIndexProofs` | `TypeCorrect` | `IndexInv`: what has the alias exists and no index bears its name as well; what does not exist holds nothing |
| | `SwapsAreComplete` | `CompleteInv`: up to the last id a build has paged past, its index has the records that were published when it began, at least as they were then, unless a write was refused; an index under construction has not the alias, so nobody else writes it |
| | `BuildsKeepSearchUp` | the same: a swap leaves exactly the index it has verified, and the pruning spares it |
| | `CalmIsExact` | `CalmInv`: who works undisturbed finds alias, indices and rows as his steps so far have left them (`BuildExact`, `DeltaExact`, `RebuildExact`): rows up to the last id are in the index, the chunk at hand is as the rows are, and the rest is still to come; the operator's rebuild begins with an empty index, so that it has no document without a row |
| `LimitProofs` (`RequestGate`) | `GateTypeCorrect` | `GateInv` |
| | `LimitOverrun` | `Admitted`: a counter lags behind what was served by one for each failure at most, and what was served and what is open have each had an arrival; a request that passed the comparison was open when the last one was counted |
| | `RefusalsAreDue` | a counter never exceeds what was served, so a full counter is a full minute; it stays so until the minute turns |
| | `ChangeIsSeenLocally` | `SeenInv`: since a change the process that made it holds no other tier, except in the entry it is about to clear |
| | `TiersAreRecent` | `RecentInv`: what was read before the change belongs to a lookup still pending, what was cached of it expires a lifetime after the last of these has ended |
| `SearchAnswersProofs` | `TypeCorrect` | `AnswersInv`, and of `HeldInv` that the tag set lists known names |
| | `Recent` | `AnswersInv`: a result carries the versions of the index it shows; an entry is no older than its lifetime, what it shows was current when it was made or, for the aggregations, within their lifetime before; a request holds what it may still store only as long as the clock cannot pass |
| | `ClearsClear` | the same with `HeldInv`: an entry is listed in a tag set that lives as long as it, or is still to be tagged, or has slipped; so a clear while nobody asks and nothing has slipped leaves no entry, and every version that is cached or held from then on is not before it (`Seen`) |
| | `AnswersRight` | `ExactInv`: what is cached is what the index answers, at the version it carries, to every question whose name it is cached under (`CoreNamesakes`, `AggNamesakes`, `ValuesNamesakes`: equal names, equal queries), and a request holds only what answers its own question |

`ExactInv` says that an answer is the one of the index; that this is the right one is about
data, and `FoundIsRight` sets it against the reference definition: `BoxIs` (the ranges of
`_normalize_geo_bbox_bounds` are the arc the box means, for every pair of corners and every
circle), `InTheBox` and `TouchesTheBox` (a document in that arc matches, one that matches
touches it), `FoundMeans` (the bool query says what `Wanted` and `Said` say), `TallyIsRight`
(more documents count more) and `RankedPageIs` (a page shows each hit in its place and none
twice). A sorted sequence is defined by the places of its members (`Ranked`) and not by sorting
it, which would need an induction.

The proofs about `SearchIndex` need facts about the least and largest id of a finite set,
which no induction principle can be used for here: they are derived from the finiteness by
a smallest counterexample.

**Only model-checked.** Liveness needs fairness and enabledness, which the prover does
not handle: `RunningRowIsSettled`, `NightlyRunReconciles`, `ResponsesFollow`,
`OldCopiesDie`, `EventuallyHarvested`, `SomebodyIsServed`, `RunSettles`,
`ThumbnailAppears`. Every safety property that a run checks has a theorem, among them the
action properties and the step simulation of `BridgeRun`.

## 6. What is not modelled

Of the modelled parts: the non-streaming import nobody calls; progress fields, report
mails, statistics; normalisation of records; HTTP retries inside one request; the
failure count and cooldown of an origin, which only defer a task (`Deferred` of
`ThumbnailPipeline` is what a primer sees of it); conditional requests
and prefix invalidation; versions and profiles of representations; signatures of
webhooks; restricted records, the optional probe of a source and the icon that stands in
for a thumbnail; the conversion of a row to a document, temporary index settings and the
options that accept a partial index; server keys, whitelists and headers of the rate
limit; scores, latitudes and other geometries than a box, suggestions and similar records in
the search. `BridgeBatches` has one run: other syncs act on it only by
cancelling it. That a batch's report holds the row's lock is taken from the code
(`SELECT ... FOR UPDATE`), as is the atomicity of one Postgres statement, transaction,
Redis command or request to Elasticsearch; that the methods of its client, in the version
`backend/pyproject.toml` asks for (9.0 or later), take no `ignore_status` is read off their
signatures.

Whole parts are left out, with the reason in `PROJECT.json`: presentation keeps no state;
analytics and usage logs are append-only; static maps are stored like thumbnails, but drawn
in the request, without queue, state row or retries; generated content is independent tasks
that write one row each; gazetteer, dumps, spatial facets, scripts and migrations are batch
jobs; images and their conversion are I/O.

## 7. Plan

Done, in this order: `OgmHarvest`, `RepresentationCache`, `OgmCatalog`,
`ProviderThrottle`, `BridgeRun` and `BridgeBatches`, `BridgeRetire`, `ResponseCache`,
`HarvestRefresh`, `ThumbnailPipeline`, `SearchIndex`, `RequestGate`, `SearchQuery` and
`SearchAnswers`; then overlaps in `HarvestRefresh`, indexing and refreshing in
`BridgeRetire`, and the theorems `ImportsShown`, `Reconciles` and `Survives`; then proofs of
all safety properties of `ThumbnailPipeline`, `SearchIndex`, `RequestGate` and
`SearchAnswers`. Next:

1. A harvest in `OgmCatalog` as an abstraction of `OgmHarvest`.
2. `StaticMaps`: aliases with and without the signature of a geometry, the first of which
   is believed before the record is read (`endpoint_modules/static_maps.py:265`), and the
   world map that is kept under a geometry's signature when drawing it has failed.
3. The failure count and cooldown of an origin, next to `ProviderThrottle`.
