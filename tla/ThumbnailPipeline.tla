------------------------- MODULE ThumbnailPipeline -------------------------
(***************************************************************************)
(* The thumbnail of one record: requests that redirect to a stored image   *)
(* or queue a task (thumbnail.py), the tasks that fetch and store it       *)
(* (tasks/worker.py), the primer that a harvest or an operator starts      *)
(* (prime_thumbnail_cache.py), and the row, alias, queue slots and images  *)
(* they share.                                                             *)
(*                                                                         *)
(* Abstractions: an image is named by the URL its hash is taken of, so a   *)
(* source determines its image; a request finds out in one step what it    *)
(* may redirect to, since each thing it looks at is only believed if it    *)
(* names the source at hand; the source is the one image_service selects.  *)
(* Restricted records and the optional probe of a source are left out.     *)
(* Whatever fails counts as a fault, and faults are bounded.               *)
(***************************************************************************)
EXTENDS Naturals, FiniteSets

CONSTANTS Urls,         \* URLs of sources and of their standard renditions
          Sources,      \* those a record may name
          Kind,         \* Kind[s]: how a source is turned into an image
          Standard,     \* Standard[s]: _standardize_iiif_url
          Empty,        \* those that no image can be made of
          None,         \* no source, no image
          Requests,     \* GETs under way at once
          Primers,      \* primings under way at once
          Messages,     \* room in the broker's queue
          MaxRetries,   \* Celery's default, which fetch_and_cache_image uses too
          FewRetries,   \* the limit of the three generating tasks
          Changes,      \* bound: the changes of source considered, as pairs
          MaxChanges,   \* bound: changes of the record's source
          MaxFaults     \* bound: calls that fail, workers that die, keys that are lost

Kinds == {"remote", "iiif", "cog", "pmtiles", "pdf"}

ASSUME ThumbnailAssumption ==
  /\ Sources \subseteq Urls
  /\ Empty \subseteq Sources
  /\ Kind \in [Sources -> Kinds]
  /\ Standard \in [Sources -> Urls]
  /\ \A s \in Sources : Kind[s] # "remote" => Standard[s] = s
  /\ \A s \in Sources : Standard[s] \in Sources => Standard[Standard[s]] = Standard[s]
  /\ None \notin Urls
  /\ MaxRetries \in Nat /\ FewRetries \in 0 .. MaxRetries
  /\ Changes \subseteq (Sources \cup {None}) \X (Sources \cup {None})
  /\ MaxChanges \in Nat /\ MaxFaults \in Nat

VARIABLES
  source,   \* what the record's thumbnail is to be made of, or None
  changes,  \* number of changes of it
  redis,    \* images in Redis
  durable,  \* images in generated_visual_assets
  skips,    \* PMTiles sources with a skip marker
  misread,  \* history: those marked because reading them failed
  known,    \* IIIF sources whose manifest is in Redis
  lost,     \* history: images that were in a Redis that lost its keys
  slots,    \* URLs with a queue slot
  row,      \* the record's row in resource_thumbnail_state
  alias,    \* the image the alias key names
  task,     \* task[m]: the message m and its execution
  request,  \* request[q]: where the GET q stands
  primer,   \* primer[p]: where the priming p stands
  faults    \* number of faults

stores == <<redis, durable, skips, misread, known, lost>>
state == <<row, alias>>
vars == <<source, changes, stores, slots, state, task, request, primer, faults>>

OrNone(S) == S \cup {None}
RowStates == {"absent", "queued", "success", "failure", "placeheld"}
Rows == [state : RowStates, url : OrNone(Urls), image : OrNone(Urls)]
TaskSteps == {"free", "queued", "fetch", "store", "note", "error", "retry", "release"}
Verdicts == {"success", "failure", "placeheld", "none"}

TypeOK ==
  /\ source \in OrNone(Sources)
  /\ changes \in 0 .. MaxChanges
  /\ redis \in SUBSET Urls /\ durable \in SUBSET Urls
  /\ skips \in SUBSET Sources /\ misread \in SUBSET Sources /\ known \in SUBSET Sources
  /\ lost \in SUBSET Urls
  /\ slots \in SUBSET Urls
  /\ row \in Rows
  /\ alias \in OrNone(Urls)
  /\ task \in [Messages -> [pc : TaskSteps, src : OrNone(Sources), image : OrNone(Urls),
                            retries : 0 .. MaxRetries, verdict : Verdicts]]
  /\ request \in [Requests -> [pc : {"idle", "resolve", "load", "hit", "place", "enqueue", "send",
                                     "sent", "busy", "unsent", "redirect"},
                               src : OrNone(Sources), image : OrNone(Urls)]]
  /\ primer \in [Primers -> [pc : {"idle", "fetch", "keep", "store", "note"}, src : OrNone(Sources),
                             image : OrNone(Urls), verdict : Verdicts]]
  /\ faults \in 0 .. MaxFaults

NoTask == [pc |-> "free", src |-> None, image |-> None, retries |-> 0, verdict |-> "none"]
NoRequest == [pc |-> "idle", src |-> None, image |-> None]
NoPrimer == [pc |-> "idle", src |-> None, image |-> None, verdict |-> "none"]

Init ==
  /\ source \in {c[1] : c \in Changes}
  /\ changes = 0
  /\ redis = {} /\ durable = {} /\ skips = {} /\ misread = {} /\ known = {} /\ lost = {}
  /\ slots = {}
  /\ row = [state |-> "absent", url |-> None, image |-> None]
  /\ alias = None
  /\ task = [m \in Messages |-> NoTask]
  /\ request = [q \in Requests |-> NoRequest]
  /\ primer = [p \in Primers |-> NoPrimer]
  /\ faults = 0

Fault == faults < MaxFaults /\ faults' = faults + 1
Fine == faults' = faults

----------------------------------------------------------------------------
(* The record, and what may get lost.                                       *)

\* A harvest or a bridge sync writes the record with another source.
ChangeSource(s) ==
  /\ changes < MaxChanges
  /\ <<source, s>> \in Changes
  /\ source' = s
  /\ changes' = changes + 1
  /\ UNCHANGED <<stores, slots, state, task, request, primer, faults>>

\* The keys of Redis are lost: all of them, or the cached manifest by its expiry.
LoseKeys ==
  /\ Fault
  /\ \/ /\ redis' = {} /\ skips' = {} /\ known' = {} /\ slots' = {} /\ alias' = None
        /\ lost' = lost \cup redis
     \/ /\ known' = {}
        /\ UNCHANGED <<redis, skips, slots, alias, lost>>
  /\ UNCHANGED <<source, changes, durable, misread, row, task, request, primer>>

\* Mutant of ExpireSlot: slots are taken without an expiry.
NeverExpire(u) ==
  /\ FALSE
  /\ UNCHANGED vars

\* A queue slot expires, whatever became of its task.
ExpireSlot(u) ==
  /\ u \in slots
  /\ slots' = slots \ {u}
  /\ UNCHANGED <<source, changes, stores, state, task, request, primer, faults>>

----------------------------------------------------------------------------
(* What is known of images.                                                 *)

Image(s) == Standard[s]

\* thumbnail_image_hash_for_source_sync: the image of a IIIF source is only known from
\* its manifest.
HashOf(s) == IF Kind[s] = "iiif" /\ s \notin known THEN None ELSE Image(s)

\* has_cached_image
Cached(i) == i # None /\ i \in redis \cup durable

\* Mutant of RowServes: the source the row was written for is not compared.
RowServesAny(s) ==
  /\ row.state = "success"
  /\ Cached(row.image)

\* The row speaks of source s and its image can be had.
RowServes(s) ==
  /\ row.state = "success"
  /\ row.url = s
  /\ Cached(row.image)

\* _current_thumbnail_hash_sync: the alias is believed if the row or the source's own
\* hash confirms it; then the row; then the source's own hash.
Current(s) ==
  IF Cached(HashOf(s)) /\ alias = HashOf(s) THEN HashOf(s)
  ELSE IF RowServes(s) THEN row.image
  ELSE IF Cached(HashOf(s)) THEN HashOf(s) ELSE None

\* The alias afterwards: what was found, or nothing.
AliasFor(s) == IF s = None THEN None ELSE Current(s)

\* record_state: the row, and the alias after it.  Either write may fail; with the row
\* fails all of it.
Recorded(st, u, i) ==
  \/ /\ Fine
     /\ row' = [state |-> st, url |-> u, image |-> i]
     /\ alias' = CASE st = "success" /\ i # None -> i
                   [] st = "placeheld" -> None
                   [] OTHER -> alias
  \/ /\ Fault
     /\ alias' = alias
     /\ row' \in {row, [state |-> st, url |-> u, image |-> i]}

----------------------------------------------------------------------------
(* A request.                                                               *)

GoReq(q, step) == request' = [request EXCEPT ![q].pc = step]

Ask(q) ==
  /\ request[q].pc = "idle"
  /\ request' = [request EXCEPT ![q] = [pc |-> "resolve", src |-> source, image |-> None]]
  /\ UNCHANGED <<source, changes, stores, slots, state, task, primer, faults>>

\* The fast path: redirect to an image that is there, and correct the alias.
Resolve(q) ==
  LET s == request[q].src
      i == AliasFor(s)
  IN /\ request[q].pc = "resolve"
     /\ \/ Fine /\ alias' = i
        \/ Fault /\ alias' = alias
     /\ request' = [request EXCEPT ![q] = IF i = None THEN [@ EXCEPT !.pc = "load"]
                                          ELSE [pc |-> "redirect", src |-> s, image |-> i]]
     /\ UNCHANGED <<source, changes, stores, slots, row, task, primer>>

\* The slow path reads the record again; an image found in Postgres goes back to Redis.
Load(q) ==
  LET hit == source # None /\ Cached(HashOf(source))
      skip == source # None /\ Kind[source] = "pmtiles" /\ source \in skips
  IN /\ request[q].pc = "load"
     /\ redis' = IF hit THEN redis \cup {HashOf(source)} ELSE redis
     /\ request' = [request EXCEPT ![q] =
          [pc |-> IF hit THEN "hit" ELSE IF source = None \/ skip THEN "place" ELSE "enqueue",
           src |-> source,
           image |-> IF source = None THEN None ELSE HashOf(source)]]
     /\ UNCHANGED <<source, changes, durable, skips, misread, known, lost, slots, state, task, primer, faults>>

NoteHit(q) ==
  /\ request[q].pc = "hit"
  /\ Recorded("success", request[q].src, request[q].image)
  /\ GoReq(q, "redirect")
  /\ UNCHANGED <<source, changes, stores, slots, task, primer>>

NotePlace(q) ==
  /\ request[q].pc = "place"
  /\ Recorded("placeheld", request[q].src, request[q].image)
  /\ GoReq(q, "idle")
  /\ UNCHANGED <<source, changes, stores, slots, task, primer>>

\* acquire_thumbnail_queue_slot: without Redis everybody gets it.
Acquire(q) ==
  LET u == Standard[request[q].src]
  IN /\ request[q].pc = "enqueue"
     /\ \/ /\ Fine
           /\ slots' = slots \cup {u}
           /\ GoReq(q, IF u \in slots THEN "busy" ELSE "send")
        \/ /\ Fault
           /\ slots' = slots
           /\ GoReq(q, "send")
     /\ UNCHANGED <<source, changes, stores, state, task, primer>>

\* A message for source s, sent again n times.
Queued(s, n) == [pc |-> "queued", src |-> s, image |-> None, retries |-> n, verdict |-> "none"]

\* .delay(): if it fails the slot stays taken; the generating tasks' branch records a
\* failure, _queue_thumbnail_processing only logs it.
Send(q) ==
  /\ request[q].pc = "send"
  /\ \/ /\ Fine
        /\ \E m \in Messages :
             /\ task[m].pc = "free"
             /\ task' = [task EXCEPT ![m] = Queued(request[q].src, 0)]
        /\ GoReq(q, "sent")
     \/ /\ Fault
        /\ task' = task
        /\ GoReq(q, IF Kind[request[q].src] \in {"remote", "iiif"} THEN "idle" ELSE "unsent")
  /\ UNCHANGED <<source, changes, stores, slots, state, primer>>

\* The row says "queued" after the message is out, also over what its task has recorded.
NoteQueued(q) ==
  LET s == request[q].src
  IN /\ request[q].pc \in {"sent", "busy"}
     /\ Recorded("queued", Standard[s],
                 IF Kind[s] \in {"remote", "iiif"} THEN None ELSE request[q].image)
     /\ GoReq(q, "idle")
     /\ UNCHANGED <<source, changes, stores, slots, task, primer>>

NoteUnsent(q) ==
  /\ request[q].pc = "unsent"
  /\ Recorded("failure", request[q].src, request[q].image)
  /\ GoReq(q, "idle")
  /\ UNCHANGED <<source, changes, stores, slots, task, primer>>

\* The client follows the redirect: get_cached_image, which refills Redis.
Deliver(q) ==
  /\ request[q].pc = "redirect"
  /\ redis' = redis \cup (durable \cap {request[q].image})
  /\ GoReq(q, "idle")
  /\ UNCHANGED <<source, changes, durable, skips, misread, known, lost, slots, state, task, primer, faults>>

----------------------------------------------------------------------------
(* A task.                                                                  *)

SetTask(m, step, i, v) == task' = [task EXCEPT ![m].pc = step, ![m].image = i, ![m].verdict = v]

Limit(s) == IF Kind[s] \in {"remote", "iiif"} THEN MaxRetries ELSE FewRetries

\* fetch_and_cache_image: _resolve_image_url, which may fall back to the manifest itself,
\* and the look into Redis, which is skipped if Redis fails.
Begin(m) ==
  LET s == task[m].src
      i == Image(s)
  IN /\ task[m].pc = "queued"
     /\ \/ /\ Fine
           /\ known' = IF Kind[s] = "iiif" THEN known \cup {s} ELSE known
           /\ IF i \in redis THEN SetTask(m, "note", i, "success") ELSE SetTask(m, "fetch", i, "none")
        \/ /\ Fault
           /\ known' = known
           /\ SetTask(m, "fetch", IF Kind[s] = "iiif" THEN None ELSE i, "none")
     /\ UNCHANGED <<source, changes, redis, durable, skips, misread, lost, slots, state, request, primer>>

\* A source is read and gives an image, or it fails: it cannot be read, or has none.
Gives(s) == Fine /\ s \notin Empty
Fails(s) == Fault \/ (Fine /\ s \in Empty)

\* A PMTiles source is marked to be skipped; the marker never expires.
Marked(s) == skips' = skips \cup {s}

\* The provider's answers of fetch_and_cache_image: no image, an unsafe address or a
\* refusal is final; a 404 is recorded and retried; other errors are retried, a status
\* with a record of the last one, a timeout without.
FetchRemote(m) ==
  LET i == task[m].image
  IN \/ Gives(task[m].src) /\ i # None /\ SetTask(m, "store", i, "none")
     \/ Fine /\ i = None /\ SetTask(m, "note", None, "failure")
     \/ /\ Fails(task[m].src)
        /\ \/ \E j \in {i, None} : SetTask(m, "note", j, "failure")
           \/ SetTask(m, "error", None, "failure")
           \/ SetTask(m, "error", None, IF task[m].retries >= MaxRetries THEN "failure" ELSE "none")
           \/ SetTask(m, "retry", None, "none")

\* The generating tasks ask in vain for a retry limit of MaxRetries before they record
\* their last error: they stop after FewRetries.
Exhausted(m, j) ==
  SetTask(m, "error", j, IF task[m].retries >= MaxRetries THEN "failure" ELSE "none")

\* generate_cog_thumbnail: a source that renders to nothing is a failure at once.
FetchCog(m) ==
  \/ Gives(task[m].src) /\ SetTask(m, "store", task[m].image, "none")
  \/ Fails(task[m].src) /\ (SetTask(m, "note", task[m].image, "failure") \/ Exhausted(m, None))

\* generate_pdf_thumbnail: such a source is an error to retry; an unsafe one is not.
FetchPdf(m) ==
  \/ Gives(task[m].src) /\ SetTask(m, "store", task[m].image, "none")
  \/ Fails(task[m].src) /\ (SetTask(m, "note", task[m].image, "failure") \/ Exhausted(m, task[m].image))

\* generate_pmtiles_thumbnail: whether the source has no image or any exception occurs
\* while it is read, it gets a skip marker, if that can be set, and a placeholder.
FetchPmtiles(m) ==
  LET s == task[m].src
      i == task[m].image
  IN \/ Gives(s) /\ SetTask(m, "store", i, "none") /\ UNCHANGED <<skips, misread>>
     \/ s \in Empty /\ Fine /\ SetTask(m, "note", i, "placeheld") /\ Marked(s) /\ misread' = misread
     \/ Fault /\ SetTask(m, "note", i, "placeheld") /\ Marked(s) /\ misread' = misread \cup {s}
     \/ Fault /\ SetTask(m, "note", i, "placeheld") /\ UNCHANGED <<skips, misread>>
     \/ Fault /\ (SetTask(m, "note", i, "failure") \/ Exhausted(m, None)) /\ UNCHANGED <<skips, misread>>

Fetch(m) ==
  /\ task[m].pc = "fetch"
  /\ LET k == Kind[task[m].src]
     IN \/ k \in {"remote", "iiif"} /\ FetchRemote(m) /\ UNCHANGED <<skips, misread>>
        \/ k = "cog" /\ FetchCog(m) /\ UNCHANGED <<skips, misread>>
        \/ k = "pdf" /\ FetchPdf(m) /\ UNCHANGED <<skips, misread>>
        \/ k = "pmtiles" /\ FetchPmtiles(m)
  /\ UNCHANGED <<source, changes, redis, durable, known, lost, slots, state, request, primer>>

\* _persist_thumbnail_bytes: Postgres decides, Redis is a hot copy.
Stored(i) ==
  \/ Fine /\ durable' = durable \cup {i} /\ redis' = redis \cup {i}
  \/ Fault /\ durable' = durable \cup {i} /\ redis' = redis

NotStored(i) == Fault /\ durable' = durable /\ redis' \in {redis, redis \cup {i}}

\* Mutant of Store: success is announced whether or not the image could be stored.
StoreUnchecked(m) ==
  LET i == task[m].image
  IN /\ task[m].pc = "store"
     /\ Stored(i) \/ NotStored(i)
     /\ SetTask(m, "note", i, "success")
     /\ UNCHANGED <<source, changes, skips, misread, known, lost, slots, state, request, primer>>

\* A PDF that could not be stored is tried again; another image is a failure.
Store(m) ==
  LET i == task[m].image
  IN /\ task[m].pc = "store"
     /\ \/ Stored(i) /\ SetTask(m, "note", i, "success")
        \/ /\ NotStored(i)
           /\ IF Kind[task[m].src] = "pdf" THEN Exhausted(m, i) ELSE SetTask(m, "note", i, "failure")
     /\ UNCHANGED <<source, changes, skips, misread, known, lost, slots, state, request, primer>>

\* _record_thumbnail_state before the task returns.
Note(m) ==
  /\ task[m].pc = "note"
  /\ Recorded(task[m].verdict, Standard[task[m].src], task[m].image)
  /\ task' = [task EXCEPT ![m].pc = "release"]
  /\ UNCHANGED <<source, changes, stores, slots, request, primer>>

\* The same before the task asks for a retry.
NoteError(m) ==
  /\ task[m].pc = "error"
  /\ IF task[m].verdict = "none" THEN Fine /\ UNCHANGED state
     ELSE Recorded("failure", Standard[task[m].src], task[m].image)
  /\ task' = [task EXCEPT ![m].pc = "retry"]
  /\ UNCHANGED <<source, changes, stores, slots, request, primer>>

\* self.retry() publishes the task again, unless its limit is reached, and the finally
\* clause releases the queue slot in both cases.
Retry(m) ==
  /\ task[m].pc = "retry"
  /\ task' = [task EXCEPT ![m] =
       IF @.retries < Limit(@.src) THEN Queued(@.src, @.retries + 1)
       ELSE NoTask]
  /\ slots' = slots \ {Standard[task[m].src]}
  /\ UNCHANGED <<source, changes, stores, state, request, primer, faults>>

\* The finally clause: the slot is released, whoever has taken it; then the message is
\* acknowledged.
Release(m) ==
  /\ task[m].pc = "release"
  /\ \/ Fine /\ slots' = slots \ {Standard[task[m].src]}
     \/ Fault /\ slots' = slots
  /\ task' = [task EXCEPT ![m] = NoTask]
  /\ UNCHANGED <<source, changes, stores, state, request, primer>>

\* The worker dies; its message comes again or not.
Die(m) ==
  /\ task[m].pc \notin {"free", "queued"}
  /\ Fault
  /\ task' \in {[task EXCEPT ![m] = NoTask],
                [task EXCEPT ![m] = Queued(@.src, @.retries)]}
  /\ UNCHANGED <<source, changes, stores, slots, state, request, primer>>

----------------------------------------------------------------------------
(* The primer.                                                              *)

SetPrimer(p, step, s, i, v) ==
  primer' = [primer EXCEPT ![p] = [pc |-> step, src |-> s, image |-> i, verdict |-> v]]

\* Which record is next.  After a harvest it is forced; the script passes over what is
\* cached or has a skip marker.  A IIIF source is resolved first.
Prime(p) ==
  LET s == source
      i == Image(s)
  IN /\ primer[p].pc = "idle"
     /\ \/ /\ s = None
           /\ Fine /\ known' = known
           /\ SetPrimer(p, "note", None, None, "placeheld")
        \/ /\ s # None
           /\ Fine
           /\ known' = IF Kind[s] = "iiif" THEN known \cup {s} ELSE known
           /\ \/ SetPrimer(p, "fetch", s, i, "none")
              \/ Cached(i) /\ SetPrimer(p, "keep", s, i, "none")
              \/ ~Cached(i) /\ s \in skips /\ SetPrimer(p, "note", s, i, "placeheld")
        \/ /\ s # None
           /\ Kind[s] = "iiif" /\ s \notin known
           /\ Fault /\ known' = known
           /\ SetPrimer(p, "note", s, None, "failure")
     /\ UNCHANGED <<source, changes, redis, durable, skips, misread, lost, slots, state, task, request>>

\* Mutant of Deferred: a provider that cools down is recorded as a state of its own.
DeferredRecorded(p) ==
  Fault /\ SetPrimer(p, "note", primer[p].src, primer[p].image, "deprioritized")

\* The provider fails and cools down, or does so already: nothing is recorded.
Deferred(p) == Fault /\ primer' = [primer EXCEPT ![p] = NoPrimer]

\* _prime_..._thumbnail: an image, none, an exception, or a provider that cools down.
\* A PMTiles source without an image is marked, and so is one that could not be read.
PrimeFetch(p) ==
  LET s == primer[p].src
      i == primer[p].image
  IN /\ primer[p].pc = "fetch"
     /\ \/ Gives(s) /\ SetPrimer(p, "store", s, i, "none") /\ UNCHANGED <<skips, misread>>
        \/ Fails(s) /\ (\E j \in {i, None} : SetPrimer(p, "note", s, j, "failure")) /\ UNCHANGED <<skips, misread>>
        \/ Kind[s] \in {"remote", "iiif"} /\ Deferred(p) /\ UNCHANGED <<skips, misread>>
        \/ /\ Kind[s] = "pmtiles" /\ SetPrimer(p, "note", s, i, "placeheld") /\ Marked(s)
           /\ \/ s \in Empty /\ Fine /\ misread' = misread
              \/ Fault /\ misread' = misread \cup {s}
     /\ UNCHANGED <<source, changes, redis, durable, known, lost, slots, state, task, request>>

\* What was cached already is a success even if it cannot be made durable.
PrimeStore(p) ==
  LET s == primer[p].src
      i == primer[p].image
  IN /\ primer[p].pc \in {"keep", "store"}
     /\ \/ Stored(i) /\ SetPrimer(p, "note", s, i, "success")
        \/ /\ NotStored(i)
           /\ SetPrimer(p, "note", s, i, IF primer[p].pc = "keep" THEN "success" ELSE "failure")
     /\ UNCHANGED <<source, changes, skips, misread, known, lost, slots, state, task, request>>

PrimeNote(p) ==
  /\ primer[p].pc = "note"
  /\ Recorded(primer[p].verdict, primer[p].src, primer[p].image)
  /\ primer' = [primer EXCEPT ![p] = NoPrimer]
  /\ UNCHANGED <<source, changes, stores, slots, task, request>>
----------------------------------------------------------------------------
RequestStep(q) ==
  \/ Resolve(q) \/ Load(q) \/ NoteHit(q) \/ NotePlace(q)
  \/ Acquire(q) \/ Send(q) \/ NoteQueued(q) \/ NoteUnsent(q) \/ Deliver(q)

TaskStep(m) ==
  Begin(m) \/ Fetch(m) \/ Store(m) \/ Note(m) \/ NoteError(m) \/ Retry(m) \/ Release(m)

PrimerStep(p) == PrimeFetch(p) \/ PrimeStore(p) \/ PrimeNote(p)

Next ==
  \/ \E s \in OrNone(Sources) : ChangeSource(s)
  \/ LoseKeys
  \/ \E u \in Urls : ExpireSlot(u)
  \/ \E q \in Requests : Ask(q) \/ RequestStep(q)
  \/ \E m \in Messages : TaskStep(m) \/ Die(m)
  \/ \E p \in Primers : Prime(p) \/ PrimerStep(p)

Spec == Init /\ [][Next]_vars

\* Clients keep asking for the thumbnail, slots expire, and what has begun goes on.
FairSpec ==
  /\ Spec
  /\ \A u \in Urls : WF_vars(ExpireSlot(u))
  /\ \A q \in Requests : WF_vars(Ask(q) \/ RequestStep(q))
  /\ \A m \in Messages : WF_vars(TaskStep(m))
  /\ \A p \in Primers : WF_vars(PrimerStep(p))

----------------------------------------------------------------------------
(* Properties.                                                              *)

\* A request is never redirected to an image of another source than the one it read,
\* though row and alias outlive a change of the source (_current_thumbnail_hash_sync).
RedirectIsCurrent ==
  \A q \in Requests :
    request[q].pc = "redirect" => request[q].src # None /\ request[q].image = Image(request[q].src)

\* A row that announces success names an image that was stored, whoever wrote it last
\* and whatever failed on the way; only a Redis that lost its keys can have taken it.
SuccessHasImage ==
  row.state = "success" => row.image \in redis \cup durable \cup lost

\* Whatever message, worker, slot or key got lost, the thumbnail of a record that is
\* asked for is there in the end, if one can be made of its source; only a skip marker
\* that a failed read has left can keep a PMTiles source from it.
ThumbnailAppears ==
  <>[](source \in Empty \cup {None} \/ Cached(Image(source)) \/ source \in skips \cap misread)

\* The same without that exception, which the code does not keep: one exception while a
\* PMTiles source is read costs it its thumbnail for good (generate_pmtiles_thumbnail).
FailedReadsHeal ==
  <>[](source \in Empty \cup {None} \/ Cached(Image(source)))
=============================================================================
