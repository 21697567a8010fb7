--------------------------- MODULE ResponseCache ---------------------------
(***************************************************************************)
(* The clocks of the response cache (cache_service.py, cached_endpoint).   *)
(*                                                                         *)
(* A response is fresh for the TTL of its endpoint and served stale for as *)
(* long again while a background task recomputes it.  If that fails, the   *)
(* copy in Redis is given a little more time.  Redis drops the response    *)
(* when its time is up; the durable copy in Postgres is no longer read.    *)
(* Responses that show a resource are listed in the tag set of the         *)
(* resource, a Redis key with an expiry of its own, and a change of the    *)
(* resource deletes what is listed.                                        *)
(*                                                                         *)
(* Abstractions: one resource, shown by every response; a copy knows only  *)
(* whether it shows the current row; reading a record (with its refill     *)
(* from Postgres) and sweeping Redis are one step each, their              *)
(* interleavings being those of RepresentationCache; time is in ticks, far *)
(* longer than the life of a lock and than a pair of Redis calls.          *)
(***************************************************************************)
EXTENDS Integers

CONSTANTS Keys,          \* cached responses that show the resource
          Tasks,         \* bound: computations at a time, for requests or in background
          Ttl,           \* Ttl[k]: the TTL of the endpoint of k
          Padding,       \* TAG_INDEX_TTL_PADDING_SECONDS
          StaleIfError,  \* STALE_IF_ERROR_SECONDS
          MaxExtension,  \* MAX_STALE_EXTENSION_SECONDS
          MaxFailures,   \* bound: failed background refreshes
          MaxUpdates     \* bound: changes of the resource

ASSUME KeysAssumption == Keys # {}
ASSUME TtlAssumption == Ttl \in [Keys -> Nat \ {0}]
ASSUME BoundsAssumption == MaxFailures \in Nat /\ MaxUpdates \in Nat
ASSUME ClockAssumption == {Padding, StaleIfError, MaxExtension} \subseteq Nat \ {0}

None == [current |-> FALSE, age |-> 0, life |-> 0]
HardTtl(k) == 2 * Ttl[k]
Smaller(a, b) == IF a < b THEN a ELSE b
Steps == {"idle", "wait", "compute", "store", "persist", "tag", "extend"}
Copies == [current : BOOLEAN, age : Nat, life : Nat]

VARIABLES
  redis,     \* redis[k]: the record in Redis, how old it is, how long it still has
  durable,   \* durable[k]: the record in Postgres
  tagSet,    \* the Redis tag set of the resource
  tagLife,   \* how long the tag set still has
  lock,      \* lock[k]: the recomputation lock of k is taken
  task,      \* task[p]: the step p is about to do, for which response, in background
             \*   or for a request, and the record it holds
  sweep,     \* the deletion that is next after a change of the resource
  failures,  \* background refreshes that have failed
  updates    \* changes of the resource

clocks == <<redis, durable, tagSet, tagLife>>
vars == <<clocks, lock, task, sweep, failures, updates>>

Idle == [step |-> "idle", key |-> CHOOSE k \in Keys : TRUE, background |-> FALSE,
         held |-> None]
Jobs == [step : Steps, key : Keys, background : BOOLEAN, held : Copies]

TypeOK ==
  /\ redis \in [Keys -> Copies]
  /\ durable \in [Keys -> Copies]
  /\ tagSet \in SUBSET Keys
  /\ tagLife \in Nat
  /\ lock \in [Keys -> BOOLEAN]
  /\ task \in [Tasks -> Jobs]
  /\ sweep \in {"idle", "durable", "redis"}
  /\ failures \in 0 .. MaxFailures
  /\ updates \in 0 .. MaxUpdates

Init ==
  /\ redis = [k \in Keys |-> None]
  /\ durable = [k \in Keys |-> None]
  /\ tagSet = {}
  /\ tagLife = 0
  /\ lock = [k \in Keys |-> FALSE]
  /\ task = [p \in Tasks |-> Idle]
  /\ sweep = "idle"
  /\ failures = 0
  /\ updates = 0

-----------------------------------------------------------------------------
(* Reading and tagging a record.                                           *)

Live(copy) == copy.life > 0
Cached(k) == IF Live(redis[k]) THEN redis[k] ELSE durable[k]
Stale(k, copy) == copy.age > Ttl[k]

\* The expiry of the tag set is set anew by every response that is tagged.
TagKey(k, ttl) == tagSet' = tagSet \cup {k} /\ tagLife' = ttl + Padding

\* Mutant of GetRecord: the time left is taken from the soft expiry.
GetRecordUntilStale(k) ==
  IF Live(redis[k]) \/ ~Live(durable[k])
  THEN UNCHANGED <<redis, tagSet, tagLife>>
  ELSE /\ redis' = [redis EXCEPT ![k] = [durable[k] EXCEPT !.life = @ - Ttl[k]]]
       /\ TagKey(k, durable[k].life)

\* Mutant of GetRecord: a record that is read is stored anew for its full time.
GetRecordAnew(k) ==
  IF ~Live(Cached(k))
  THEN UNCHANGED <<redis, tagSet, tagLife>>
  ELSE /\ redis' = [redis EXCEPT ![k] = [Cached(k) EXCEPT !.age = 0, !.life = HardTtl(k)]]
       /\ TagKey(k, HardTtl(k))

\* get_record: a record that is only in Postgres is put back into Redis for the time
\* it still has, and tagged again.
GetRecord(k) ==
  IF Live(redis[k]) \/ ~Live(durable[k])
  THEN UNCHANGED <<redis, tagSet, tagLife>>
  ELSE /\ redis' = [redis EXCEPT ![k] = durable[k]]
       /\ TagKey(k, durable[k].life)

-----------------------------------------------------------------------------
(* Requests and background refreshes.                                      *)

At(p, step) == task[p].step = step
Key(p) == task[p].key
Go(p, step) == task' = [task EXCEPT ![p].step = step]
Rest(p) == task' = [task EXCEPT ![p] = Idle]
Start(p, k, step, inBackground) ==
  task' = [task EXCEPT ![p] = [step |-> step, key |-> k, background |-> inBackground,
                               held |-> None]]

\* A stale record is served all the same; who gets the lock recomputes it.
ServeStale(p, k) ==
  /\ Live(Cached(k)) /\ Stale(k, Cached(k))
  /\ ~lock[k]
  /\ lock' = [lock EXCEPT ![k] = TRUE]
  /\ Start(p, k, "compute", TRUE)

\* Nothing to serve: who gets the lock computes, the others wait a little.
Miss(p, k) ==
  /\ ~Live(Cached(k))
  /\ \/ ~lock[k] /\ lock' = [lock EXCEPT ![k] = TRUE] /\ Start(p, k, "compute", FALSE)
     \/ lock[k] /\ UNCHANGED lock /\ Start(p, k, "wait", FALSE)

\* A fresh record, or a stale one under refresh, is served and that is all.
Hit(k) ==
  /\ Live(Cached(k)) /\ (Stale(k, Cached(k)) => lock[k])
  /\ UNCHANGED <<lock, task>>

Ask(p, k) ==
  /\ At(p, "idle")
  /\ ServeStale(p, k) \/ Miss(p, k) \/ Hit(k)
  /\ GetRecord(k)
  /\ UNCHANGED <<durable, sweep, failures, updates>>

\* While it waits a request looks again, and takes what it finds.
WaitHit(p) ==
  /\ At(p, "wait")
  /\ Live(Cached(Key(p)))
  /\ GetRecord(Key(p))
  /\ Rest(p)
  /\ UNCHANGED <<durable, lock, sweep, failures, updates>>

GiveUpWaiting(p) ==
  /\ At(p, "wait")
  /\ Go(p, "compute")
  /\ UNCHANGED <<clocks, lock, sweep, failures, updates>>

\* The handler reads the row.
Compute(p) ==
  /\ At(p, "compute")
  /\ task' = [task EXCEPT ![p].step = "store",
                          ![p].held = [current |-> TRUE, age |-> 0, life |-> HardTtl(Key(p))]]
  /\ UNCHANGED <<clocks, lock, sweep, failures, updates>>

\* The handler of a request raises, or what it returns is not a 200: nothing is stored.
NotCached(p) ==
  /\ At(p, "compute")
  /\ Rest(p)
  /\ UNCHANGED <<clocks, lock, sweep, failures, updates>>

\* The handler of a background refresh raises: the record is read once more,
RefreshFails(p) ==
  /\ At(p, "compute") /\ task[p].background
  /\ failures < MaxFailures
  /\ failures' = failures + 1
  /\ GetRecord(Key(p))
  /\ IF Live(Cached(Key(p)))
     THEN task' = [task EXCEPT ![p].step = "extend", ![p].held = Cached(Key(p))]
     ELSE Rest(p)
  /\ UNCHANGED <<durable, lock, sweep, updates>>

\* Mutant of Extended: the cap is taken for the least.
ExtendedAtLeast(copy) ==
  [copy EXCEPT !.life = IF copy.life + StaleIfError > MaxExtension
                        THEN copy.life + StaleIfError ELSE MaxExtension]

\* and written back to Redis, untagged, with a later hard expiry.
Extended(copy) ==
  [copy EXCEPT !.life = Smaller(MaxExtension, copy.life + StaleIfError)]

Extend(p) ==
  /\ At(p, "extend")
  /\ IF Extended(task[p].held).life > task[p].held.life
     THEN redis' = [redis EXCEPT ![Key(p)] = Extended(task[p].held)]
     ELSE UNCHANGED redis
  /\ Rest(p)
  /\ UNCHANGED <<durable, tagSet, tagLife, lock, sweep, failures, updates>>

\* The expiries of a record count from the moment it is stored.
Store(p) ==
  /\ At(p, "store")
  /\ redis' = [redis EXCEPT ![Key(p)] = task[p].held]
  /\ Go(p, "persist")
  /\ UNCHANGED <<durable, tagSet, tagLife, lock, sweep, failures, updates>>

Persist(p) ==
  /\ At(p, "persist")
  /\ durable' = [durable EXCEPT ![Key(p)] = task[p].held]
  /\ Go(p, "tag")
  /\ UNCHANGED <<redis, tagSet, tagLife, lock, sweep, failures, updates>>

Tag(p) ==
  /\ At(p, "tag")
  /\ TagKey(Key(p), HardTtl(Key(p)))
  /\ Rest(p)
  /\ UNCHANGED <<redis, durable, lock, sweep, failures, updates>>

-----------------------------------------------------------------------------
(* A change of the resource and its invalidation.                          *)

Outdated(copy) == [copy EXCEPT !.current = FALSE]

\* Whatever was made from the row before is outdated.
Update ==
  /\ sweep = "idle"
  /\ updates < MaxUpdates
  /\ updates' = updates + 1
  /\ redis' = [k \in Keys |-> Outdated(redis[k])]
  /\ durable' = [k \in Keys |-> Outdated(durable[k])]
  /\ task' = [p \in Tasks |-> [task[p] EXCEPT !.held = Outdated(@)]]
  /\ sweep' = "durable"
  /\ UNCHANGED <<tagSet, tagLife, lock, failures>>

\* invalidate_tags: first Postgres, whose tags do not expire,
SweepDurable ==
  /\ sweep = "durable"
  /\ durable' = [k \in Keys |-> None]
  /\ sweep' = "redis"
  /\ UNCHANGED <<redis, tagSet, tagLife, lock, task, failures, updates>>

\* then the members of the tag set, and the tag set.
SweepRedis ==
  /\ sweep = "redis"
  /\ redis' = [k \in Keys |-> IF k \in tagSet THEN None ELSE redis[k]]
  /\ tagSet' = {} /\ tagLife' = 0
  /\ sweep' = "idle"
  /\ UNCHANGED <<durable, lock, task, failures, updates>>

-----------------------------------------------------------------------------
(* Time, and Redis.                                                        *)

Older(copy) == IF copy.life > 1 THEN [copy EXCEPT !.age = @ + 1, !.life = @ - 1] ELSE None

\* No time passes between the two Redis calls of an extension, from the computation of
\* the expiries of a record to its storage, and during an invalidation.
Tick ==
  /\ sweep = "idle"
  /\ \A p \in Tasks : task[p].step \notin {"extend", "store", "persist"}
  /\ tagLife > 0 \/ \E k \in Keys : Live(redis[k]) \/ Live(durable[k])
  /\ redis' = [k \in Keys |-> Older(redis[k])]
  /\ durable' = [k \in Keys |-> Older(durable[k])]
  /\ tagLife' = IF tagLife > 0 THEN tagLife - 1 ELSE 0
  /\ tagSet' = IF tagLife > 1 THEN tagSet ELSE {}
  /\ UNCHANGED <<lock, task, sweep, failures, updates>>

\* Nobody releases a lock.
LockExpires(k) ==
  /\ lock[k]
  /\ lock' = [lock EXCEPT ![k] = FALSE]
  /\ UNCHANGED <<clocks, task, sweep, failures, updates>>

\* Redis evicts a record.
Forget(k) ==
  /\ Live(redis[k])
  /\ redis' = [redis EXCEPT ![k] = None]
  /\ UNCHANGED <<durable, tagSet, tagLife, lock, task, sweep, failures, updates>>

Next ==
  \/ \E p \in Tasks :
       \/ \E k \in Keys : Ask(p, k)
       \/ WaitHit(p) \/ GiveUpWaiting(p)
       \/ Compute(p) \/ NotCached(p) \/ RefreshFails(p) \/ Extend(p)
       \/ Store(p) \/ Persist(p) \/ Tag(p)
  \/ Update \/ SweepDurable \/ SweepRedis
  \/ Tick
  \/ \E k \in Keys : LockExpires(k) \/ Forget(k)

Spec == Init /\ [][Next]_vars

-----------------------------------------------------------------------------
(* Properties.                                                             *)

\* No copy outlives the promise of its endpoint: it is dropped twice its TTL after it
\* was made, but for StaleIfError more per background refresh that failed; and none is
\* ever kept further ahead than its own hard TTL or the cap on extensions.
OnTime(k, copy, failed) ==
  Live(copy) =>
    /\ copy.age + copy.life <= HardTtl(k) + StaleIfError * failed
    /\ copy.life <= HardTtl(k) \/ copy.life <= MaxExtension

NoCopyOutstays ==
  /\ \A k \in Keys : OnTime(k, redis[k], failures) /\ OnTime(k, durable[k], failures)
  /\ \A p \in Tasks : OnTime(task[p].key, task[p].held, failures)

\* invalidate_tags: "Invalidate all cached keys associated with the given tags."  When
\* it is over and no request or refresh was under way, Redis has no response left that
\* shows the resource.
InvalidationReachesAll ==
  [][ sweep = "redis" /\ sweep' = "idle" /\ (\A p \in Tasks : At(p, "idle"))
        => \A k \in Keys : ~Live(redis'[k]) ]_vars

\* The steps a running process takes by itself, the clock and the invalidation go on;
\* nothing is asked of the clients.
Fairness ==
  /\ \A p \in Tasks :
       WF_vars(GiveUpWaiting(p) \/ WaitHit(p) \/ Compute(p) \/ NotCached(p)
                 \/ RefreshFails(p) \/ Extend(p) \/ Store(p) \/ Persist(p) \/ Tag(p))
  /\ WF_vars(Tick)
  /\ WF_vars(SweepDurable \/ SweepRedis)

FairSpec == Spec /\ Fairness

\* Whatever the races, the lost tags and the outages: when the resource no longer
\* changes, a time comes when no copy of the old row is served any more.
OldCopiesDie ==
  \A k \in Keys : <>[](Live(Cached(k)) => Cached(k).current)
=============================================================================
