--------------------- MODULE ThumbnailPipelineProofs ------------------------
(***************************************************************************)
(* Proofs about ThumbnailPipeline, for any requests, tasks, sources, kinds *)
(* and bounds.                                                             *)
(***************************************************************************)
EXTENDS ThumbnailPipeline, TLAPS

-----------------------------------------------------------------------------
(* What is true of each actor and of the row, given the images that are or  *)
(* were stored.                                                             *)

Have == redis \cup durable \cup lost

Tasks == [pc : TaskSteps, src : OrNone(Sources), image : OrNone(Urls), retries : 0 .. MaxRetries,
          verdict : Verdicts]
Gets == [pc : {"idle", "resolve", "load", "hit", "place", "enqueue", "send", "sent", "busy", "unsent",
               "redirect"}, src : OrNone(Sources), image : OrNone(Urls)]
Primings == [pc : {"idle", "fetch", "keep", "store", "note"}, src : OrNone(Sources),
             image : OrNone(Urls), verdict : Verdicts]

\* The image at hand is that of the source at hand.
OwnImage(x) == x.image # None => x.src # None /\ x.image = Image(x.src)

TaskOK(t, have) ==
  /\ t \in Tasks /\ OwnImage(t)
  /\ t.pc # "free" => t.src # None
  /\ t.pc = "store" => t.image # None
  /\ t.pc = "fetch" /\ Kind[t.src] # "iiif" => t.image # None
  /\ t.pc = "note" => t.verdict # "none"
  /\ t.verdict = "success" => t.image # None /\ t.image \in have

RequestOK(r, have) ==
  /\ r \in Gets /\ OwnImage(r)
  /\ r.pc \notin {"idle", "resolve", "load", "place"} => r.src # None
  /\ r.pc \in {"hit", "redirect"} => r.image # None
  /\ r.pc = "hit" => r.image \in have

PrimerOK(p, have) ==
  /\ p \in Primings /\ OwnImage(p)
  /\ p.pc \in {"fetch", "keep", "store"} => p.image # None
  /\ p.pc = "keep" => p.image \in have
  /\ p.pc = "note" => p.verdict # "none"
  /\ p.verdict = "success" => p.image # None /\ p.image \in have

RowOK(r, have) ==
  /\ r \in Rows
  /\ r.state = "success" =>
       r.image # None /\ r.image \in have /\ (r.url \in Sources => r.image = Image(r.url))

ThumbInv ==
  /\ TypeOK
  /\ \A m \in Messages : TaskOK(task[m], Have)
  /\ \A q \in Requests : RequestOK(request[q], Have)
  /\ \A p \in Primers : PrimerOK(primer[p], Have)
  /\ RowOK(row, Have)

LEMMA Renditions ==
  ASSUME NEW s \in Sources
  PROVE  /\ Image(s) \in Urls /\ Image(s) # None /\ s # None /\ s \in Urls
         /\ Image(s) \in Sources => Image(Image(s)) = Image(s)
         /\ Kind[s] # "remote" => Image(s) = s
BY ThumbnailAssumption DEF Image

LEMMA InvInit == Init => ThumbInv
<1> SUFFICES ASSUME Init PROVE ThumbInv
  OBVIOUS
<1> USE ThumbnailAssumption
<1>1. TaskOK(NoTask, Have) /\ NoTask \in Tasks
  BY DEF TaskOK, NoTask, Tasks, OwnImage, OrNone, TaskSteps, Verdicts
<1>2. RequestOK(NoRequest, Have) /\ NoRequest \in Gets
  BY DEF RequestOK, NoRequest, Gets, OwnImage, OrNone
<1>3. PrimerOK(NoPrimer, Have) /\ NoPrimer \in Primings
  BY DEF PrimerOK, NoPrimer, Primings, OwnImage, OrNone, Verdicts
<1>4. RowOK(row, Have) /\ row \in Rows
  BY DEF Init, RowOK, Rows, RowStates, OrNone
<1>5. source \in OrNone(Sources) /\ alias \in OrNone(Urls)
  BY DEF Init, OrNone
<1>6. TypeOK
  BY <1>1, <1>2, <1>3, <1>4, <1>5 DEF Init, TypeOK, Tasks, Gets, Primings
<1> QED
  BY <1>1, <1>2, <1>3, <1>4, <1>6 DEF Init, ThumbInv

\* Images once stored stay stored or are known to be lost: what is true of an actor stays so.
LEMMA StillTask ==
  ASSUME NEW t, NEW have, NEW more, have \subseteq more, TaskOK(t, have) PROVE TaskOK(t, more)
BY DEF TaskOK
LEMMA StillRequest ==
  ASSUME NEW r, NEW have, NEW more, have \subseteq more, RequestOK(r, have) PROVE RequestOK(r, more)
BY DEF RequestOK
LEMMA StillPrimer ==
  ASSUME NEW p, NEW have, NEW more, have \subseteq more, PrimerOK(p, have) PROVE PrimerOK(p, more)
BY DEF PrimerOK
LEMMA StillRow ==
  ASSUME NEW r, NEW have, NEW more, have \subseteq more, RowOK(r, have) PROVE RowOK(r, more)
BY DEF RowOK

\* A step keeps the invariant if it loses no image, and leaves each actor and the row as it
\* was or right.
StoresOK ==
  /\ source' \in OrNone(Sources) /\ changes' \in 0 .. MaxChanges /\ faults' \in 0 .. MaxFaults
  /\ redis' \in SUBSET Urls /\ durable' \in SUBSET Urls /\ lost' \in SUBSET Urls
  /\ skips' \in SUBSET Sources /\ misread' \in SUBSET Sources
  /\ known' \in SUBSET Sources /\ slots' \in SUBSET Urls
  /\ Have \subseteq Have'
NotedOK == alias' \in OrNone(Urls) /\ (row' = row \/ RowOK(row', Have'))
TasksOK ==
  /\ task' = [m \in Messages |-> task'[m]]
  /\ \A m \in Messages : task'[m] = task[m] \/ TaskOK(task'[m], Have')
RequestsOK ==
  /\ request' = [q \in Requests |-> request'[q]]
  /\ \A q \in Requests : request'[q] = request[q] \/ RequestOK(request'[q], Have')
PrimersOK ==
  /\ primer' = [p \in Primers |-> primer'[p]]
  /\ \A p \in Primers : primer'[p] = primer[p] \/ PrimerOK(primer'[p], Have')

LEMMA Kept ==
  ASSUME ThumbInv, StoresOK, NotedOK, TasksOK, RequestsOK, PrimersOK
  PROVE  ThumbInv'
<1>1. \A m \in Messages : TaskOK(task'[m], Have')
  BY StillTask DEF ThumbInv, StoresOK, TasksOK
<1>2. \A q \in Requests : RequestOK(request'[q], Have')
  BY StillRequest DEF ThumbInv, StoresOK, RequestsOK
<1>3. \A p \in Primers : PrimerOK(primer'[p], Have')
  BY StillPrimer DEF ThumbInv, StoresOK, PrimersOK
<1>4. RowOK(row', Have')
  BY StillRow DEF ThumbInv, StoresOK, NotedOK
<1>5. task' \in [Messages -> Tasks]
  BY <1>1 DEF TasksOK, TaskOK
<1>6. request' \in [Requests -> Gets]
  BY <1>2 DEF RequestsOK, RequestOK
<1>7. primer' \in [Primers -> Primings]
  BY <1>3 DEF PrimersOK, PrimerOK
<1>8. TypeOK'
  BY <1>4, <1>5, <1>6, <1>7 DEF TypeOK, StoresOK, NotedOK, RowOK, Tasks, Gets, Primings,
     OrNone, Rows, TaskSteps, Verdicts, RowStates
<1> QED
  BY <1>1, <1>2, <1>3, <1>4, <1>8 DEF ThumbInv, TaskOK, RequestOK, PrimerOK, RowOK, OwnImage, Image,
     Tasks, Gets, Primings, OrNone, Rows, TaskSteps, Verdicts, RowStates

\* What is not touched is as it was.
LEMMA Untouched ==
  ASSUME ThumbInv
  PROVE  /\ UNCHANGED task => TasksOK
         /\ UNCHANGED request => RequestsOK
         /\ UNCHANGED primer => PrimersOK
         /\ UNCHANGED state => NotedOK
         /\ UNCHANGED <<source, changes, stores, slots>> /\ faults' \in 0 .. MaxFaults => StoresOK
         /\ UNCHANGED <<redis, durable, lost>> => Have' = Have
BY DEF ThumbInv, TypeOK, TasksOK, RequestsOK, PrimersOK, NotedOK, StoresOK, state, stores, Have

\* A step may fail or not.
LEMMA FaultType == ASSUME TypeOK, Fault \/ Fine PROVE faults' \in 0 .. MaxFaults
BY ThumbnailAssumption DEF TypeOK, Fault, Fine

\* What is recorded of a success is an image that is stored, of the source the row is for.
LEMMA RecordedOK ==
  ASSUME ThumbInv, NEW st \in RowStates, NEW u \in OrNone(Urls), NEW i \in OrNone(Urls),
         st = "success" => i # None /\ i \in Have /\ (u \in Sources => i = Image(u)),
         UNCHANGED stores, Recorded(st, u, i)
  PROVE  NotedOK /\ faults' \in 0 .. MaxFaults
<1>1. Have' = Have
  BY DEF stores, Have
<1>2. RowOK([state |-> st, url |-> u, image |-> i], Have)
  BY DEF RowOK, Rows
<1>3. alias' \in OrNone(Urls)
  BY DEF Recorded, ThumbInv, TypeOK, OrNone
<1>4. row' = row \/ row' = [state |-> st, url |-> u, image |-> i]
  BY DEF Recorded
<1>5. faults' \in 0 .. MaxFaults
  BY FaultType DEF Recorded, ThumbInv
<1> QED
  BY <1>1, <1>2, <1>3, <1>4, <1>5 DEF NotedOK

-----------------------------------------------------------------------------
(* The record and the stores.                                               *)

LEMMA EnvironmentKeeps ==
  ASSUME ThumbInv,
         (\E s \in OrNone(Sources) : ChangeSource(s)) \/ LoseKeys \/ (\E u \in Urls : ExpireSlot(u))
         \/ UNCHANGED vars
  PROVE  ThumbInv'
<1> USE ThumbnailAssumption
<1>1. UNCHANGED <<task, request, primer, row>>
  BY DEF ChangeSource, LoseKeys, ExpireSlot, vars, stores, state
<1>2. TasksOK /\ RequestsOK /\ PrimersOK
  BY <1>1, Untouched
<1>3. NotedOK
  BY <1>1 DEF ChangeSource, LoseKeys, ExpireSlot, vars, state, NotedOK, ThumbInv, TypeOK, OrNone
<1>4. ASSUME NEW s \in OrNone(Sources), ChangeSource(s) PROVE StoresOK
  BY <1>4 DEF ChangeSource, stores, StoresOK, ThumbInv, TypeOK, Have
<1>5. ASSUME LoseKeys PROVE StoresOK
  <2>1. faults' \in 0 .. MaxFaults
    BY <1>5, FaultType DEF LoseKeys, ThumbInv
  <2>2. Have \subseteq Have'
    BY <1>5 DEF LoseKeys, Have
  <2> QED
    BY <1>5, <2>1, <2>2 DEF LoseKeys, StoresOK, ThumbInv, TypeOK
<1>6. ASSUME NEW u \in Urls, ExpireSlot(u) PROVE StoresOK
  BY <1>6 DEF ExpireSlot, stores, StoresOK, ThumbInv, TypeOK, Have
<1>7. ASSUME UNCHANGED vars PROVE StoresOK
  BY <1>7 DEF vars, stores, StoresOK, ThumbInv, TypeOK, Have
<1> QED
  BY <1>2, <1>3, <1>4, <1>5, <1>6, <1>7, Kept

-----------------------------------------------------------------------------
(* Requests.                                                                *)

LEMMA HashType ==
  ASSUME NEW s \in Sources
  PROVE  HashOf(s) \in {None, Image(s)} /\ HashOf(s) \in OrNone(Urls)
BY Renditions DEF HashOf, OrNone

\* What a request may be redirected to.
LEMMA AliasIsOwn ==
  ASSUME ThumbInv, NEW s \in OrNone(Sources), AliasFor(s) # None
  PROVE  s # None /\ AliasFor(s) = Image(s) /\ AliasFor(s) \in Urls
<1>1. s # None /\ s \in Sources
  BY DEF AliasFor, OrNone
<1>2. Cached(HashOf(s)) => HashOf(s) = Image(s)
  BY <1>1, HashType DEF Cached
<1>3. RowServes(s) => row.image = Image(s)
  BY <1>1 DEF RowServes, ThumbInv, RowOK
<1> QED
  BY <1>1, <1>2, <1>3, Renditions DEF AliasFor, Current

\* One request goes on.
LEMMA OneRequest ==
  ASSUME ThumbInv, NEW q \in Requests, NEW r, RequestOK(r, Have'), request' = [request EXCEPT ![q] = r]
  PROVE  RequestsOK
BY DEF RequestsOK, ThumbInv, TypeOK

LEMMA GoesOn ==
  ASSUME ThumbInv, NEW q \in Requests, NEW step, GoReq(q, step), Have \subseteq Have',
         step \in {"idle", "send", "sent", "busy", "unsent", "redirect"},
         step \in {"send", "sent", "busy", "unsent"} => request[q].src # None,
         step = "redirect" => request[q].image # None /\ request[q].src # None
  PROVE  RequestsOK
<1>1. request' = [request EXCEPT ![q] = [request[q] EXCEPT !.pc = step]]
  BY DEF GoReq
<1>2. RequestOK([request[q] EXCEPT !.pc = step], Have')
  BY DEF ThumbInv, RequestOK, OwnImage, Gets
<1> QED
  BY <1>1, <1>2, OneRequest

LEMMA RequestKeeps ==
  ASSUME ThumbInv, NEW q \in Requests, Ask(q) \/ RequestStep(q)
  PROVE  ThumbInv'
<1> USE ThumbnailAssumption
<1> DEFINE r == request[q]
<1>0. RequestOK(r, Have) /\ TypeOK
  BY DEF ThumbInv
<1>1. CASE Ask(q)
  <2>1. RequestOK([pc |-> "resolve", src |-> source, image |-> None], Have')
    BY <1>0 DEF RequestOK, OwnImage, Gets, OrNone, TypeOK
  <2>2. RequestsOK
    BY <1>1, <2>1, OneRequest DEF Ask
  <2>3. faults' \in 0 .. MaxFaults
    BY <1>0, <1>1 DEF Ask, TypeOK
  <2> QED
    BY <1>1, <2>2, <2>3, Untouched, Kept DEF Ask
<1>2. CASE Resolve(q)
  <2> DEFINE i == AliasFor(r.src)
  <2>1. r.src \in OrNone(Sources) /\ r \in Gets
    BY <1>0 DEF RequestOK, Gets
  <2>2. i # None => r.src # None /\ i = Image(r.src) /\ i \in Urls
    BY <2>1, AliasIsOwn
  <2>3. faults' \in 0 .. MaxFaults /\ alias' \in {alias, i} /\ UNCHANGED row
    BY <1>0, <1>2, FaultType DEF Resolve
  <2>4. NotedOK
    BY <1>0, <2>2, <2>3 DEF NotedOK, TypeOK, OrNone
  <2>5. RequestsOK
    <3>1. RequestOK(IF i = None THEN [r EXCEPT !.pc = "load"]
                    ELSE [pc |-> "redirect", src |-> r.src, image |-> i], Have')
      BY <1>0, <2>1, <2>2 DEF RequestOK, OwnImage, Gets, OrNone
    <3> QED
      BY <1>2, <3>1, OneRequest DEF Resolve
  <2> QED
    BY <1>2, <2>3, <2>4, <2>5, Untouched, Kept DEF Resolve
<1>3. CASE Load(q)
  <2> DEFINE hit == source # None /\ Cached(HashOf(source))
             step == IF hit THEN "hit"
                     ELSE IF source = None \/ (Kind[source] = "pmtiles" /\ source \in skips) THEN "place"
                     ELSE "enqueue"
             j == IF source = None THEN None ELSE HashOf(source)
  <2>1. source \in OrNone(Sources) /\ (source # None => source \in Sources)
    BY <1>0 DEF TypeOK, OrNone
  <2>2. request' = [request EXCEPT ![q] = [pc |-> step, src |-> source, image |-> j]]
    BY <1>3 DEF Load
  <2>3. /\ j \in OrNone(Urls) /\ (j # None => source # None /\ j = Image(source))
        /\ hit => j # None /\ j \in redis \cup durable
    BY <2>1, HashType DEF OrNone, Cached
  <2>4. hit \in BOOLEAN /\ (step = "hit" <=> hit) /\ step \in {"hit", "place", "enqueue"}
        /\ (step = "enqueue" => source # None)
    OBVIOUS
  <2>5. redis' = IF hit THEN redis \cup {j} ELSE redis
    BY <1>3 DEF Load
  <2> HIDE DEF hit, step, j
  <2>6. redis' \in SUBSET Urls /\ Have \subseteq Have'
    BY <1>0, <1>3, <2>3, <2>5 DEF Load, Have, TypeOK, OrNone
  <2>7. StoresOK
    BY <1>0, <1>3, <2>6 DEF Load, StoresOK, TypeOK
  <2>8. RequestOK([pc |-> step, src |-> source, image |-> j], Have)
    BY <2>1, <2>3, <2>4 DEF RequestOK, OwnImage, Gets, Have
  <2>9. RequestsOK
    BY <2>2, <2>6, <2>8, OneRequest, StillRequest
  <2> QED
    BY <1>3, <2>7, <2>9, Untouched, Kept DEF Load
<1>4. CASE NoteHit(q)
  <2>1. /\ r.src \in Sources /\ r.image \in Urls /\ r.image \in Have /\ r.image = Image(r.src) /\ r.image # None
        /\ r.src \in OrNone(Urls) /\ r.image \in OrNone(Urls)
    BY <1>0, <1>4, Renditions DEF NoteHit, RequestOK, OwnImage, Gets, OrNone
  <2>2. NotedOK /\ faults' \in 0 .. MaxFaults
    BY <1>4, <2>1, RecordedOK DEF NoteHit, RowStates
  <2>3. Have' = Have
    BY <1>4 DEF NoteHit, stores, Have
  <2>4. RequestsOK
    BY <1>4, <2>1, <2>3, GoesOn DEF NoteHit
  <2> QED
    BY <1>4, <2>2, <2>4, Untouched, Kept DEF NoteHit
<1>5. CASE NotePlace(q)
  <2>1. r.src \in OrNone(Urls) /\ r.image \in OrNone(Urls)
    BY <1>0 DEF RequestOK, Gets, OrNone
  <2>2. NotedOK /\ faults' \in 0 .. MaxFaults
    BY <1>5, <2>1, RecordedOK DEF NotePlace, RowStates
  <2>3. Have' = Have
    BY <1>5 DEF NotePlace, stores, Have
  <2>4. RequestsOK
    BY <1>5, <2>3, GoesOn DEF NotePlace
  <2> QED
    BY <1>5, <2>2, <2>4, Untouched, Kept DEF NotePlace
<1>6. CASE Acquire(q)
  <2>1. r.src \in Sources /\ Standard[r.src] \in Urls
    BY <1>0, <1>6 DEF Acquire, RequestOK, Gets, OrNone
  <2>2. faults' \in 0 .. MaxFaults /\ slots' \in SUBSET Urls /\ Have' = Have
    BY <1>0, <1>6, <2>1, FaultType DEF Acquire, TypeOK, stores, Have
  <2>3. PICK step \in {"busy", "send"} : GoReq(q, step)
    BY <1>6 DEF Acquire
  <2>4. RequestsOK
    BY <2>1, <2>2, <2>3, GoesOn, ThumbnailAssumption
  <2>5. StoresOK
    BY <1>0, <1>6, <2>2 DEF Acquire, StoresOK, stores, TypeOK
  <2> QED
    BY <1>6, <2>4, <2>5, Untouched, Kept DEF Acquire
<1>7. CASE Send(q)
  <2>1. r.src \in Sources /\ r.src # None
    BY <1>0, <1>7 DEF Send, RequestOK, Gets, OrNone
  <2>2. faults' \in 0 .. MaxFaults /\ Have' = Have
    BY <1>0, <1>7, FaultType DEF Send, stores, Have
  <2>3. PICK step \in {"sent", "idle", "unsent"} : GoReq(q, step)
    BY <1>7 DEF Send
  <2>4. RequestsOK
    BY <2>1, <2>2, <2>3, GoesOn
  <2>5. TaskOK(Queued(r.src, 0), Have)
    BY <2>1 DEF TaskOK, Queued, OwnImage, Tasks, OrNone, TaskSteps, Verdicts
  <2>6. TasksOK
    BY <1>0, <1>7, <2>2, <2>5 DEF Send, TasksOK, TypeOK
  <2> QED
    BY <1>7, <2>2, <2>4, <2>6, Untouched, Kept DEF Send
<1>8. CASE NoteQueued(q)
  <2> DEFINE i == IF Kind[r.src] \in {"remote", "iiif"} THEN None ELSE r.image
  <2>1. Standard[r.src] \in OrNone(Urls) /\ i \in OrNone(Urls)
    BY <1>0, <1>8 DEF NoteQueued, RequestOK, Gets, OrNone
  <2>2. NotedOK /\ faults' \in 0 .. MaxFaults
    BY <1>8, <2>1, RecordedOK DEF NoteQueued, RowStates
  <2>3. Have' = Have
    BY <1>8 DEF NoteQueued, stores, Have
  <2>4. RequestsOK
    BY <1>8, <2>3, GoesOn DEF NoteQueued
  <2> QED
    BY <1>8, <2>2, <2>4, Untouched, Kept DEF NoteQueued
<1>9. CASE NoteUnsent(q)
  <2>1. r.src \in OrNone(Urls) /\ r.image \in OrNone(Urls)
    BY <1>0 DEF RequestOK, Gets, OrNone
  <2>2. NotedOK /\ faults' \in 0 .. MaxFaults
    BY <1>9, <2>1, RecordedOK DEF NoteUnsent, RowStates
  <2>3. Have' = Have
    BY <1>9 DEF NoteUnsent, stores, Have
  <2>4. RequestsOK
    BY <1>9, <2>3, GoesOn DEF NoteUnsent
  <2> QED
    BY <1>9, <2>2, <2>4, Untouched, Kept DEF NoteUnsent
<1>10. CASE Deliver(q)
  <2>1. StoresOK
    BY <1>0, <1>10 DEF Deliver, StoresOK, TypeOK, Have
  <2>2. RequestsOK
    BY <1>10, <2>1, GoesOn DEF Deliver, StoresOK
  <2> QED
    BY <1>10, <2>1, <2>2, Untouched, Kept DEF Deliver
<1> QED
  BY <1>1, <1>2, <1>3, <1>4, <1>5, <1>6, <1>7, <1>8, <1>9, <1>10 DEF RequestStep

-----------------------------------------------------------------------------
(* Tasks.                                                                   *)

LEMMA OneTask ==
  ASSUME ThumbInv, NEW m \in Messages, NEW t, TaskOK(t, Have'), task' = [task EXCEPT ![m] = t]
  PROVE  TasksOK
BY DEF TasksOK, ThumbInv, TypeOK

LEMMA SetTaskOK ==
  ASSUME ThumbInv, NEW m \in Messages, NEW step \in TaskSteps, NEW i, NEW v \in Verdicts, SetTask(m, step, i, v),
         task[m].src # None, i \in {None, Image(task[m].src)}, Have \subseteq Have',
         step = "store" => i # None,
         step = "fetch" /\ Kind[task[m].src] # "iiif" => i # None,
         step = "note" => v # "none",
         v = "success" => i # None /\ i \in Have'
  PROVE  TasksOK
<1>1. task[m].src \in Sources /\ Image(task[m].src) \in Urls /\ task[m].retries \in 0 .. MaxRetries
  BY Renditions DEF ThumbInv, TaskOK, Tasks, OrNone
<1>2. task'[m] = [pc |-> step, src |-> task[m].src, image |-> i, retries |-> task[m].retries, verdict |-> v]
  BY ZenonT(60) DEF SetTask, ThumbInv, TypeOK
<1>3. task' = [x \in Messages |-> task'[x]] /\ \A x \in Messages : x # m => task'[x] = task[x]
  BY DEF SetTask, ThumbInv, TypeOK
<1>4. TaskOK(task'[m], Have')
  BY <1>1, <1>2 DEF TaskOK, OwnImage, Tasks, OrNone
<1> QED
  BY <1>3, <1>4 DEF TasksOK

\* The source and the image of a task under way.
LEMMA UnderWay ==
  ASSUME ThumbInv, NEW m \in Messages, task[m].pc # "free"
  PROVE  /\ task[m].src \in Sources /\ task[m].src # None /\ task[m].src \in OrNone(Sources)
         /\ task[m].image \in {None, Image(task[m].src)} /\ task[m].image \in OrNone(Urls)
         /\ Standard[task[m].src] \in Urls /\ Standard[task[m].src] \in OrNone(Urls)
         /\ task[m].retries \in 0 .. MaxRetries
         /\ task[m].pc \in {"store", "fetch"} /\ (task[m].pc = "fetch" => Kind[task[m].src] # "iiif")
              => task[m].image # None
BY ThumbnailAssumption DEF ThumbInv, TaskOK, OwnImage, Tasks, OrNone

LEMMA TaskKeeps ==
  ASSUME ThumbInv, NEW m \in Messages, TaskStep(m) \/ Die(m)
  PROVE  ThumbInv'
<1> USE ThumbnailAssumption
<1> DEFINE s == task[m].src
           i == task[m].image
<1>0. TaskOK(task[m], Have) /\ TypeOK
  BY DEF ThumbInv
<1>1. CASE Begin(m)
  <2>1. s \in Sources /\ s # None /\ Image(s) # None
    BY <1>1, UnderWay, Renditions DEF Begin
  <2>2. faults' \in 0 .. MaxFaults /\ Have' = Have
    BY <1>0, <1>1, FaultType DEF Begin, Have
  <2>3. StoresOK
    BY <1>0, <1>1, <2>1, <2>2 DEF Begin, StoresOK, TypeOK
  <2>4. CASE Image(s) \in redis /\ SetTask(m, "note", Image(s), "success")
    <3>1. TasksOK
      BY <2>1, <2>2, <2>4, SetTaskOK DEF Have, TaskSteps, Verdicts
    <3> QED
      BY <1>1, <2>3, <3>1, Untouched, Kept DEF Begin
  <2>5. CASE SetTask(m, "fetch", Image(s), "none")
    <3>1. TasksOK
      BY <2>1, <2>2, <2>5, SetTaskOK DEF TaskSteps, Verdicts
    <3> QED
      BY <1>1, <2>3, <3>1, Untouched, Kept DEF Begin
  <2>6. CASE Kind[s] = "iiif" /\ SetTask(m, "fetch", None, "none")
    <3>1. TasksOK
      BY <2>1, <2>2, <2>6, SetTaskOK DEF TaskSteps, Verdicts
    <3> QED
      BY <1>1, <2>3, <3>1, Untouched, Kept DEF Begin
  <2> QED
    BY <1>1, <2>4, <2>5, <2>6 DEF Begin
<1>2. CASE Fetch(m)
  <2>1. s \in Sources /\ s # None /\ Image(s) # None /\ i \in {None, Image(s)}
    BY <1>2, UnderWay, Renditions DEF Fetch
  <2>2. Kind[s] # "iiif" => i # None
    BY <1>2, UnderWay DEF Fetch
  <2>3. Have' = Have /\ UNCHANGED <<redis, durable, lost>>
    BY <1>2 DEF Fetch, Have
  <2>4. Fault \/ Fine
    BY <1>2 DEF Fetch, FetchRemote, FetchCog, FetchPdf, FetchPmtiles, Gives, Fails
  <2>7. faults' \in 0 .. MaxFaults
    BY <1>0, <2>4, FaultType
  <2>8. skips' \in SUBSET Sources /\ misread' \in SUBSET Sources
    BY <1>0, <1>2, <2>1 DEF Fetch, FetchPmtiles, Marked, TypeOK
  <2>9. \/ \E v \in {"failure", "placeheld"}, j \in {i, None} : SetTask(m, "note", j, v)
        \/ \E v \in {"failure", "none"}, j \in {i, None} : SetTask(m, "error", j, v)
        \/ SetTask(m, "retry", None, "none")
        \/ i # None /\ SetTask(m, "store", i, "none")
    BY <1>2, <2>2 DEF Fetch, FetchRemote, FetchCog, FetchPdf, FetchPmtiles, Exhausted
  <2>5. TasksOK
    BY <2>1, <2>3, <2>9, SetTaskOK DEF TaskSteps, Verdicts
  <2>6. StoresOK
    BY <1>0, <1>2, <2>3, <2>7, <2>8 DEF Fetch, StoresOK, TypeOK
  <2> QED
    BY <1>2, <2>5, <2>6, Untouched, Kept DEF Fetch
<1>3. CASE Store(m)
  <2>1. s \in Sources /\ s # None /\ i # None /\ i = Image(s) /\ i \in Urls
    BY <1>3, UnderWay, Renditions DEF Store
  <2>2. faults' \in 0 .. MaxFaults
    BY <1>0, <1>3, FaultType DEF Store, Stored, NotStored
  <2>3. Have \subseteq Have' /\ redis' \in SUBSET Urls /\ durable' \in SUBSET Urls
    BY <1>0, <1>3, <2>1 DEF Store, Stored, NotStored, Have, TypeOK
  <2>4. \/ i \in Have' /\ SetTask(m, "note", i, "success")
        \/ SetTask(m, "note", i, "failure")
        \/ \E v \in {"failure", "none"} : SetTask(m, "error", i, v)
    BY <1>3 DEF Store, Stored, Have, Exhausted
  <2>5. TasksOK
    BY <2>1, <2>3, <2>4, SetTaskOK DEF TaskSteps, Verdicts
  <2>6. StoresOK
    BY <1>0, <1>3, <2>2, <2>3 DEF Store, StoresOK, TypeOK
  <2> QED
    BY <1>3, <2>5, <2>6, Untouched, Kept DEF Store
<1>4. CASE Note(m)
  <2>1. s \in Sources /\ i \in {None, Image(s)} /\ i \in OrNone(Urls) /\ Standard[s] \in OrNone(Urls)
    BY <1>4, UnderWay DEF Note
  <2>2. task[m].verdict \in RowStates
    BY <1>0, <1>4 DEF Note, TaskOK, Tasks, Verdicts, RowStates
  <2>3. task[m].verdict = "success" =>
          i # None /\ i \in Have /\ (Standard[s] \in Sources => i = Image(Standard[s]))
    BY <1>0, <2>1, Renditions DEF TaskOK, Image
  <2>4. NotedOK /\ faults' \in 0 .. MaxFaults
    BY <1>4, <2>1, <2>2, <2>3, RecordedOK DEF Note
  <2>5. Have' = Have
    BY <1>4 DEF Note, stores, Have
  <2>6. TaskOK([task[m] EXCEPT !.pc = "release"], Have)
    BY <1>0, <1>4 DEF Note, TaskOK, Tasks, OwnImage, TaskSteps
  <2>7. TasksOK
    BY <1>4, <2>5, <2>6, OneTask DEF Note
  <2> QED
    BY <1>4, <2>4, <2>7, Untouched, Kept DEF Note
<1>5. CASE NoteError(m)
  <2>1. s \in Sources /\ i \in {None, Image(s)} /\ i \in OrNone(Urls) /\ Standard[s] \in OrNone(Urls)
    BY <1>5, UnderWay DEF NoteError
  <2>2. NotedOK /\ faults' \in 0 .. MaxFaults
    <3>1. CASE Fine /\ UNCHANGED state
      BY <1>0, <3>1, FaultType, Untouched
    <3>2. CASE Recorded("failure", Standard[s], i)
      BY <1>5, <2>1, <3>2, RecordedOK DEF NoteError, RowStates
    <3> QED
      BY <1>5, <3>1, <3>2 DEF NoteError
  <2>3. Have' = Have
    BY <1>5 DEF NoteError, stores, Have
  <2>4. TaskOK([task[m] EXCEPT !.pc = "retry"], Have)
    BY <1>0, <1>5 DEF NoteError, TaskOK, Tasks, OwnImage, TaskSteps
  <2>5. TasksOK
    BY <1>5, <2>3, <2>4, OneTask DEF NoteError
  <2> QED
    BY <1>5, <2>2, <2>5, Untouched, Kept DEF NoteError
<1>9. TaskOK(NoTask, Have)
  BY DEF TaskOK, NoTask, Tasks, OwnImage, OrNone, TaskSteps, Verdicts
<1>10. ASSUME s \in Sources, NEW n \in 0 .. MaxRetries PROVE TaskOK(Queued(s, n), Have)
  BY <1>10 DEF TaskOK, Queued, Tasks, OwnImage, OrNone, TaskSteps, Verdicts
<1>6. CASE Retry(m)
  <2>1. s \in Sources /\ task[m].retries \in 0 .. MaxRetries
    BY <1>6, UnderWay DEF Retry
  <2>2. task[m].retries < Limit(s) => task[m].retries + 1 \in 0 .. MaxRetries
    BY <2>1 DEF Limit
  <2>3. Have' = Have
    BY <1>6 DEF Retry, stores, Have
  <2>4. TasksOK
    BY <1>6, <1>9, <1>10, <2>1, <2>2, <2>3, OneTask DEF Retry
  <2>5. StoresOK
    BY <1>0, <1>6, <2>3 DEF Retry, StoresOK, stores, TypeOK
  <2> QED
    BY <1>6, <2>4, <2>5, Untouched, Kept DEF Retry
<1>7. CASE Release(m)
  <2>1. faults' \in 0 .. MaxFaults /\ Have' = Have
    BY <1>0, <1>7, FaultType DEF Release, stores, Have
  <2>2. TasksOK
    BY <1>7, <1>9, <2>1, OneTask DEF Release
  <2>3. StoresOK
    BY <1>0, <1>7, <2>1 DEF Release, StoresOK, stores, TypeOK
  <2> QED
    BY <1>7, <2>2, <2>3, Untouched, Kept DEF Release
<1>8. CASE Die(m)
  <2>1. s \in Sources /\ task[m].retries \in 0 .. MaxRetries
    BY <1>8, UnderWay DEF Die
  <2>2. faults' \in 0 .. MaxFaults /\ Have' = Have
    BY <1>0, <1>8, FaultType DEF Die, stores, Have
  <2>3. TasksOK
    BY <1>8, <1>9, <1>10, <2>1, <2>2, OneTask DEF Die
  <2> QED
    BY <1>8, <2>2, <2>3, Untouched, Kept DEF Die
<1> QED
  BY <1>1, <1>2, <1>3, <1>4, <1>5, <1>6, <1>7, <1>8 DEF TaskStep

-----------------------------------------------------------------------------
(* The primer.                                                              *)

LEMMA OnePrimer ==
  ASSUME ThumbInv, NEW p \in Primers, NEW x, PrimerOK(x, Have'), primer' = [primer EXCEPT ![p] = x]
  PROVE  PrimersOK
BY DEF PrimersOK, ThumbInv, TypeOK

LEMMA SetPrimerOK ==
  ASSUME ThumbInv, NEW p \in Primers, NEW step \in {"fetch", "keep", "store", "note"},
         NEW s \in Sources, NEW i \in {None, Image(s)}, NEW v \in Verdicts,
         step \in {"fetch", "keep", "store"} => i # None,
         step = "keep" => i \in Have',
         step = "note" => v # "none",
         v = "success" => i # None /\ i \in Have',
         SetPrimer(p, step, s, i, v)
  PROVE  PrimersOK
<1>1. s # None /\ i \in OrNone(Urls)
  BY Renditions DEF OrNone
<1>2. PrimerOK([pc |-> step, src |-> s, image |-> i, verdict |-> v], Have')
  BY <1>1 DEF PrimerOK, OwnImage, Primings, OrNone
<1> QED
  BY <1>2, OnePrimer DEF SetPrimer

LEMMA PrimerKeeps ==
  ASSUME ThumbInv, NEW p \in Primers, Prime(p) \/ PrimerStep(p)
  PROVE  ThumbInv'
<1> USE ThumbnailAssumption
<1> DEFINE s == primer[p].src
           i == primer[p].image
<1>0. PrimerOK(primer[p], Have) /\ TypeOK
  BY DEF ThumbInv
<1>1. CASE Prime(p)
  <2>1. faults' \in 0 .. MaxFaults /\ Have' = Have
    BY <1>0, <1>1, FaultType DEF Prime, Have
  <2>2. source \in Sources \/ source = None
    BY <1>0 DEF TypeOK, OrNone
  <2>3. known' \in SUBSET Sources
    BY <1>0, <1>1, <2>2 DEF Prime, TypeOK
  <2>4. StoresOK
    BY <1>0, <1>1, <2>1, <2>3 DEF Prime, StoresOK, TypeOK
  <2>5. ASSUME SetPrimer(p, "note", None, None, "placeheld") PROVE PrimersOK
    <3>1. PrimerOK([pc |-> "note", src |-> None, image |-> None, verdict |-> "placeheld"], Have')
      BY DEF PrimerOK, Primings, OwnImage, OrNone, Verdicts
    <3> QED
      BY <2>5, <3>1, OnePrimer DEF SetPrimer
  <2>6. ASSUME source \in Sources,
               \/ SetPrimer(p, "fetch", source, Image(source), "none")
               \/ Cached(Image(source)) /\ SetPrimer(p, "keep", source, Image(source), "none")
               \/ SetPrimer(p, "note", source, Image(source), "placeheld")
               \/ SetPrimer(p, "note", source, None, "failure")
        PROVE  PrimersOK
    <3>1. Image(source) # None
      BY <2>6, Renditions
    <3>2. Cached(Image(source)) => Image(source) \in Have'
      BY <2>1 DEF Cached, Have
    <3>3. "none" \in Verdicts /\ "placeheld" \in Verdicts /\ "failure" \in Verdicts
      BY DEF Verdicts
    <3>4. CASE SetPrimer(p, "fetch", source, Image(source), "none")
      BY <2>6, <3>1, <3>3, <3>4, SetPrimerOK
    <3>5. CASE Cached(Image(source)) /\ SetPrimer(p, "keep", source, Image(source), "none")
      BY <2>6, <3>1, <3>2, <3>3, <3>5, SetPrimerOK
    <3>6. ASSUME NEW j \in {None, Image(source)}, NEW v \in {"failure", "placeheld"},
                 SetPrimer(p, "note", source, j, v)
          PROVE  PrimersOK
      <4>1. v \in Verdicts /\ v # "none" /\ v # "success"
        BY DEF Verdicts
      <4> QED
        BY <2>6, <3>6, <4>1, SetPrimerOK
    <3> QED
      BY <2>6, <3>4, <3>5, <3>6
  <2>7. PrimersOK
    BY <1>1, <2>2, <2>5, <2>6 DEF Prime
  <2> QED
    BY <1>1, <2>4, <2>7, Untouched, Kept DEF Prime
<1>2. CASE PrimeFetch(p)
  <2>1. s \in Sources /\ i = Image(s) /\ i # None
    BY <1>0, <1>2 DEF PrimeFetch, PrimerOK, OwnImage, Primings, OrNone
  <2>2. faults' \in 0 .. MaxFaults /\ Have' = Have
    BY <1>0, <1>2, FaultType DEF PrimeFetch, Deferred, Gives, Fails, Have
  <2>3. StoresOK
    BY <1>0, <1>2, <2>1, <2>2 DEF PrimeFetch, Marked, StoresOK, TypeOK
  <2>4. \/ SetPrimer(p, "store", s, i, "none")
        \/ \E j \in {i, None}, v \in {"failure", "placeheld"} : SetPrimer(p, "note", s, j, v)
        \/ primer' = [primer EXCEPT ![p] = NoPrimer]
    BY <1>2 DEF PrimeFetch, Deferred
  <2>5. PrimerOK(NoPrimer, Have')
    BY DEF PrimerOK, NoPrimer, Primings, OwnImage, OrNone, Verdicts
  <2>6. CASE SetPrimer(p, "store", s, i, "none")
    <3>1. PrimersOK
      BY <2>1, <2>6, SetPrimerOK DEF Verdicts
    <3> QED
      BY <1>2, <2>3, <3>1, Untouched, Kept DEF PrimeFetch
  <2>7. ASSUME NEW j \in {i, None}, NEW v \in {"failure", "placeheld"}, SetPrimer(p, "note", s, j, v)
        PROVE  PrimersOK
    <3>1. v \in Verdicts /\ v # "none" /\ v # "success" /\ j \in {None, Image(s)}
      BY <2>1 DEF Verdicts
    <3> QED
      BY <2>1, <2>7, <3>1, SetPrimerOK
  <2>8. CASE primer' = [primer EXCEPT ![p] = NoPrimer]
    <3>1. PrimersOK
      BY <2>5, <2>8, OnePrimer
    <3> QED
      BY <1>2, <2>3, <3>1, Untouched, Kept DEF PrimeFetch
  <2> QED
    BY <1>2, <2>3, <2>4, <2>6, <2>7, <2>8, Untouched, Kept DEF PrimeFetch
<1>3. CASE PrimeStore(p)
  <2>1. s \in Sources /\ i = Image(s) /\ i # None /\ i \in Urls
    BY <1>0, <1>3, Renditions DEF PrimeStore, PrimerOK, OwnImage, Primings, OrNone
  <2>2. faults' \in 0 .. MaxFaults
    BY <1>0, <1>3, FaultType DEF PrimeStore, Stored, NotStored
  <2>3. Have \subseteq Have' /\ redis' \in SUBSET Urls /\ durable' \in SUBSET Urls
    BY <1>0, <1>3, <2>1 DEF PrimeStore, Stored, NotStored, Have, TypeOK
  <2>4. \/ i \in Have' /\ SetPrimer(p, "note", s, i, "success")
        \/ SetPrimer(p, "note", s, i, "failure")
    <3>1. primer[p].pc = "keep" => i \in Have'
      BY <1>0, <2>3 DEF PrimerOK
    <3> QED
      BY <1>3, <3>1 DEF PrimeStore, Stored, Have
  <2>5. PrimersOK
    <3>1. ASSUME NEW v \in {"success", "failure"}, v = "success" => i \in Have',
                 SetPrimer(p, "note", s, i, v)
          PROVE  PrimersOK
      <4>1. v \in Verdicts /\ v # "none"
        BY DEF Verdicts
      <4> QED
        BY <2>1, <3>1, <4>1, SetPrimerOK
    <3> QED
      BY <2>4, <3>1
  <2>6. StoresOK
    BY <1>0, <1>3, <2>2, <2>3 DEF PrimeStore, StoresOK, TypeOK
  <2> QED
    BY <1>3, <2>5, <2>6, Untouched, Kept DEF PrimeStore
<1>4. CASE PrimeNote(p)
  <2>1. s \in OrNone(Urls) /\ i \in OrNone(Urls) /\ primer[p].verdict \in RowStates
    BY <1>0, <1>4 DEF PrimeNote, PrimerOK, Primings, OrNone, Verdicts, RowStates
  <2>2. primer[p].verdict = "success" => i # None /\ i \in Have /\ (s \in Sources => i = Image(s))
    BY <1>0 DEF PrimerOK, OwnImage
  <2>3. NotedOK /\ faults' \in 0 .. MaxFaults
    BY <1>4, <2>1, <2>2, RecordedOK DEF PrimeNote
  <2>4. PrimerOK(NoPrimer, Have')
    BY DEF PrimerOK, NoPrimer, Primings, OwnImage, OrNone, Verdicts
  <2>5. PrimersOK
    BY <1>4, <2>4, OnePrimer DEF PrimeNote
  <2> QED
    BY <1>4, <2>3, <2>5, Untouched, Kept DEF PrimeNote
<1> QED
  BY <1>1, <1>2, <1>3, <1>4 DEF PrimerStep

-----------------------------------------------------------------------------
(* The theorems.                                                            *)

LEMMA InvStep == ThumbInv /\ [Next]_vars => ThumbInv'
BY EnvironmentKeeps, RequestKeeps, TaskKeeps, PrimerKeeps DEF Next

LEMMA Invariant == Spec => []ThumbInv
BY InvInit, InvStep, PTL DEF Spec

\* Every reachable state of the pipeline is well typed.
THEOREM TypeCorrect == Spec => []TypeOK
<1>1. ThumbInv => TypeOK
  BY DEF ThumbInv
<1> QED
  BY <1>1, Invariant, PTL

\* Nobody is sent to the image of another source than the one he asked for.
THEOREM RedirectsAreCurrent == Spec => []RedirectIsCurrent
<1>1. ThumbInv => RedirectIsCurrent
  BY DEF ThumbInv, RequestOK, OwnImage, RedirectIsCurrent
<1> QED
  BY <1>1, Invariant, PTL

\* A row that announces success names an image that was stored.
THEOREM SuccessIsStored == Spec => []SuccessHasImage
<1>1. ThumbInv => SuccessHasImage
  BY DEF ThumbInv, RowOK, Have, SuccessHasImage
<1> QED
  BY <1>1, Invariant, PTL
=============================================================================
