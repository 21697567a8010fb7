------------------------ MODULE RepresentationCache ------------------------
(***************************************************************************)
(* The copies the API keeps of one resource, and their refresh.            *)
(*                                                                         *)
(* GET /resources/{id} answers from a cached response, else from a cached  *)
(* representation, else it builds the representation from the row; both    *)
(* are kept in Redis and in Postgres (cache_service.py,                    *)
(* durable_response_cache.py, resource_representation_cache.py).  A job    *)
(* that changes the row deletes the copies afterwards, one store after     *)
(* another (thumbnail_refresh_service.py, thumbnail_state_service.py,      *)
(* bridge_sync/cache_refresh.py).                                          *)
(*                                                                         *)
(* Abstractions: the content of a row or a copy is the version of the row  *)
(* it shows; one cache key per entry; an entry expires at any time (the    *)
(* clocks are in ResponseCache).                                           *)
(***************************************************************************)
EXTENDS Naturals

CONSTANTS Requests,     \* concurrent GETs of the resource
          Refreshers,   \* jobs that may change it
          MaxVersion    \* bound: versions of the row

ASSUME MaxVersionAssumption == MaxVersion \in Nat \ {0}

Entries == {"rep", "resp"}   \* the representation, the response
None == 0                    \* no copy
Versions == 1 .. MaxVersion
Copies == Versions \cup {None}
Steps == {"idle", "redis", "durable", "rehydrate", "load", "build", "storeDurable",
          "storeRedis", "tag"}
Phases == {"idle", "repDurable", "repRedis", "respDurable", "members", "evict"}

Idle == [step |-> "idle", level |-> "resp", source |-> None, value |-> None]

VARIABLES
  row,      \* version of the resources row
  durable,  \* durable[e]: version of the copy in Postgres
  redis,    \* redis[e]: version of the copy in Redis
  index,    \* entries in the Redis tag set resource:<id>
  request,  \* request[p]: the store operation p is about to do, the entry it does it
            \*   for, the version of the row it has loaded, that of the copy it holds
  phase,    \* phase[f]: the deletion refresher f is about to do
  members,  \* members[f]: entries f has read from the tag set and not deleted
  quiet,    \* history: the last change met no request, no other refresh and an index
            \*   that names the cached response; no request has begun during its refresh
  intact    \* history: no deletion has failed or been broken off since the last change

stores == <<durable, redis, index>>
refreshVars == <<phase, members>>
history == <<quiet, intact>>
vars == <<row, stores, request, refreshVars, history>>

TypeOK ==
  /\ row \in Versions
  /\ durable \in [Entries -> Copies]
  /\ redis \in [Entries -> Copies]
  /\ index \in SUBSET Entries
  /\ request \in [Requests ->
                   [step : Steps, level : Entries, source : Copies, value : Copies]]
  /\ phase \in [Refreshers -> Phases]
  /\ members \in [Refreshers -> SUBSET Entries]
  /\ quiet \in BOOLEAN
  /\ intact \in BOOLEAN

Init ==
  /\ row = 1
  /\ durable = [e \in Entries |-> None]
  /\ redis = [e \in Entries |-> None]
  /\ index = {}
  /\ request = [p \in Requests |-> Idle]
  /\ phase = [f \in Refreshers |-> "idle"]
  /\ members = [f \in Refreshers |-> {}]
  /\ quiet = TRUE
  /\ intact = TRUE

NoRequest == \A p \in Requests : request[p] = Idle
NoRefresh == \A f \in Refreshers : phase[f] = "idle"
Indexed == redis["resp"] # None => "resp" \in index

-----------------------------------------------------------------------------
(* A request.                                                              *)

Step(p) == request[p].step
Level(p) == request[p].level

Become(p, step, e, v) ==
  request' = [request EXCEPT ![p] = [step |-> step, level |-> e, source |-> @.source,
                                     value |-> v]]
Finish(p) == request' = [request EXCEPT ![p] = Idle]

\* With the response in hand the request is over; with the representation it goes on
\* to store the response it makes of it.
Deliver(p, v) == IF Level(p) = "resp" THEN Finish(p) ELSE Become(p, "storeRedis", "resp", v)

Begin(p) ==
  /\ Step(p) = "idle"
  /\ Become(p, "redis", "resp", None)
  /\ quiet' = (quiet /\ NoRefresh)
  /\ UNCHANGED <<row, stores, refreshVars, intact>>

\* A Redis error counts as a miss.
ReadRedis(p) ==
  /\ Step(p) = "redis"
  /\ \/ redis[Level(p)] # None /\ Deliver(p, redis[Level(p)])
     \/ Become(p, "durable", Level(p), None)
  /\ UNCHANGED <<row, stores, refreshVars, history>>

\* So does a Postgres error.
ReadDurable(p) ==
  /\ Step(p) = "durable"
  /\ \/ /\ durable[Level(p)] # None
        /\ Become(p, "rehydrate", Level(p), durable[Level(p)])
     \/ Become(p, IF Level(p) = "resp" THEN "load" ELSE "build", Level(p), None)
  /\ UNCHANGED <<row, stores, refreshVars, history>>

\* The handler runs: it reads the row, then looks for the representation.
LoadRow(p) ==
  /\ Step(p) = "load"
  /\ request' = [request EXCEPT ![p] = [step |-> "redis", level |-> "rep", source |-> row,
                                        value |-> None]]
  /\ UNCHANGED <<row, stores, refreshVars, history>>

Build(p) ==
  /\ Step(p) = "build"
  /\ Become(p, "storeDurable", "rep", request[p].source)
  /\ UNCHANGED <<row, stores, refreshVars, history>>

\* Mutant of StoreRedis: a rehydrated response is stored durably again.
StoreRedisAndPersist(p) ==
  /\ Step(p) \in {"rehydrate", "storeRedis"}
  /\ LET next == IF Level(p) = "resp" THEN "storeDurable" ELSE "tag"
     IN \/ /\ redis' = [redis EXCEPT ![Level(p)] = request[p].value]
           /\ Become(p, next, Level(p), request[p].value)
        \/ /\ UNCHANGED redis
           /\ IF Level(p) = "rep" THEN Deliver(p, request[p].value)
              ELSE Become(p, next, "resp", request[p].value)
  /\ UNCHANGED <<row, durable, index, refreshVars, history>>

\* Redis is written, then a new response is stored durably and indexed, a rehydrated one
\* and a representation are indexed.  After an error a response goes on the same way, a
\* representation is not indexed.
StoreRedis(p) ==
  /\ Step(p) \in {"rehydrate", "storeRedis"}
  /\ LET next == IF Level(p) = "resp" /\ Step(p) = "storeRedis" THEN "storeDurable" ELSE "tag"
     IN \/ /\ redis' = [redis EXCEPT ![Level(p)] = request[p].value]
           /\ Become(p, next, Level(p), request[p].value)
        \/ /\ UNCHANGED redis
           /\ IF Level(p) = "rep" THEN Deliver(p, request[p].value)
              ELSE Become(p, next, "resp", request[p].value)
  /\ UNCHANGED <<row, durable, index, refreshVars, history>>

StoreDurable(p) ==
  /\ Step(p) = "storeDurable"
  /\ \/ durable' = [durable EXCEPT ![Level(p)] = request[p].value]
     \/ UNCHANGED durable
  /\ Become(p, IF Level(p) = "resp" THEN "tag" ELSE "storeRedis", Level(p), request[p].value)
  /\ UNCHANGED <<row, redis, index, refreshVars, history>>

Tag(p) ==
  /\ Step(p) = "tag"
  /\ \/ index' = index \cup {Level(p)}
     \/ UNCHANGED index
  /\ Deliver(p, request[p].value)
  /\ UNCHANGED <<row, durable, redis, refreshVars, history>>

\* The client goes away, the build fails or the server stops.
Abandon(p) ==
  /\ Step(p) # "idle"
  /\ Finish(p)
  /\ UNCHANGED <<row, stores, refreshVars, history>>

-----------------------------------------------------------------------------
(* A refresh.                                                              *)

Enter(f, next) == phase' = [phase EXCEPT ![f] = next]

\* The row is committed; the deletions follow.
Update(f) ==
  /\ phase[f] = "idle"
  /\ row < MaxVersion
  /\ row' = row + 1
  /\ Enter(f, "repDurable")
  /\ quiet' = (NoRequest /\ NoRefresh /\ Indexed)
  /\ intact' = TRUE
  /\ UNCHANGED <<stores, request, members>>

\* A deletion is done, or its error is logged and the refresh goes on.
Attempt(done, skipped) ==
  \/ done /\ UNCHANGED intact
  \/ skipped /\ intact' = FALSE

DeleteRepDurable(f) ==
  /\ phase[f] = "repDurable"
  /\ Attempt(durable' = [durable EXCEPT !["rep"] = None], UNCHANGED durable)
  /\ Enter(f, "repRedis")
  /\ UNCHANGED <<row, redis, index, request, members, quiet>>

DeleteRepRedis(f) ==
  /\ phase[f] = "repRedis"
  /\ Attempt(redis' = [redis EXCEPT !["rep"] = None], UNCHANGED redis)
  /\ Enter(f, "respDurable")
  /\ UNCHANGED <<row, durable, index, request, members, quiet>>

DeleteRespDurable(f) ==
  /\ phase[f] = "respDurable"
  /\ Attempt(durable' = [durable EXCEPT !["resp"] = None], UNCHANGED durable)
  /\ Enter(f, "members")
  /\ UNCHANGED <<row, redis, index, request, members, quiet>>

ReadMembers(f) ==
  /\ phase[f] = "members"
  /\ members' = [members EXCEPT ![f] = index]
  /\ Enter(f, IF index = {} THEN "idle" ELSE "evict")
  /\ UNCHANGED <<row, stores, request, history>>

\* Mutant of Evict: the member leaves the tag set, its key stays.
EvictMemberOnly(f, e) ==
  /\ phase[f] = "evict"
  /\ e \in members[f]
  /\ index' = index \ {e}
  /\ members' = [members EXCEPT ![f] = @ \ {e}]
  /\ UNCHANGED <<row, durable, redis, request, phase, history>>

\* The key of one member goes, and with it the member.
Evict(f, e) ==
  /\ phase[f] = "evict"
  /\ e \in members[f]
  /\ redis' = [redis EXCEPT ![e] = None]
  /\ index' = index \ {e}
  /\ members' = [members EXCEPT ![f] = @ \ {e}]
  /\ UNCHANGED <<row, durable, request, phase, history>>

\* Finally the tag set itself is deleted, with what has joined it meanwhile.
DropIndex(f) ==
  /\ phase[f] = "evict"
  /\ members[f] = {}
  /\ index' = {}
  /\ Enter(f, "idle")
  /\ UNCHANGED <<row, durable, redis, request, members, history>>

\* The worker dies, or Redis fails and invalidate_tags gives up.
Break(f) ==
  /\ phase[f] # "idle"
  /\ Enter(f, "idle")
  /\ members' = [members EXCEPT ![f] = {}]
  /\ intact' = FALSE
  /\ UNCHANGED <<row, stores, request, quiet>>

\* Redis drops an entry, a durable response expires; durable representations do not.
ExpireRedis(e) ==
  /\ redis[e] # None
  /\ redis' = [redis EXCEPT ![e] = None]
  /\ UNCHANGED <<row, durable, index, request, refreshVars, history>>

ExpireResponse ==
  /\ durable["resp"] # None
  /\ durable' = [durable EXCEPT !["resp"] = None]
  /\ UNCHANGED <<row, redis, index, request, refreshVars, history>>

-----------------------------------------------------------------------------
Proceed(p) ==
  \/ ReadRedis(p) \/ ReadDurable(p) \/ LoadRow(p) \/ Build(p)
  \/ StoreRedis(p) \/ StoreDurable(p) \/ Tag(p)

Refresh(f) ==
  \/ DeleteRepDurable(f) \/ DeleteRepRedis(f) \/ DeleteRespDurable(f)
  \/ ReadMembers(f) \/ (\E e \in Entries : Evict(f, e)) \/ DropIndex(f)

Next ==
  \/ \E p \in Requests : Begin(p) \/ Proceed(p) \/ Abandon(p)
  \/ \E f \in Refreshers : Update(f) \/ Refresh(f) \/ Break(f)
  \/ \E e \in Entries : ExpireRedis(e)
  \/ ExpireResponse

\* Started requests and refreshes go on, and time passes.
Fairness ==
  /\ \A p \in Requests : WF_vars(Proceed(p))
  /\ \A f \in Refreshers : WF_vars(Refresh(f))
  /\ \A e \in Entries : WF_vars(ExpireRedis(e))
  /\ WF_vars(ExpireResponse)

Spec == Init /\ [][Next]_vars
FairSpec == Spec /\ Fairness

-----------------------------------------------------------------------------
(* Properties.                                                             *)

RepCurrent == durable["rep"] \in {None, row} /\ redis["rep"] \in {None, row}
RespCurrent == durable["resp"] \in {None, row} /\ redis["resp"] \in {None, row}

\* A refresh that met no request, no other refresh, no failure and an index naming the
\* cached response leaves no outdated copy in any store, and later requests bring none
\* back.
QuietRefreshIsComplete == quiet /\ intact /\ NoRefresh => RepCurrent /\ RespCurrent

\* Once the row stays as it is and the representation is up to date, the responses
\* become so, whatever races with invalidations left behind.
ResponsesFollow == <>[]RepCurrent => <>[]RespCurrent

\* When the refresh of the row's last change has deleted everything and nothing is in
\* flight, no outdated representation is left.
RefreshLeavesNoOldRepresentation == intact /\ NoRefresh /\ NoRequest => RepCurrent
=============================================================================
