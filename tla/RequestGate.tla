---------------------------- MODULE RequestGate ----------------------------
(***************************************************************************)
(* What a request passes before its handler: the tier of its API key, kept *)
(* for a while by each process (api_key_service.py), and the counter of    *)
(* its minute in Redis (rate_limit_service.py, rate_limit_middleware.py),  *)
(* while an operator changes the key.                                      *)
(*                                                                         *)
(* Abstractions: one API key and one address; whether the time of last use *)
(* is due is left open, and the tier of requests without a key, which      *)
(* nobody changes, is not stored - when its own entry expires, everything  *)
(* the process has cached goes.  Server keys, which are not counted, and   *)
(* the usage log are left out.  What happens between two awaits is a step. *)
(***************************************************************************)
EXTENDS Integers, FiniteSets

CONSTANTS Processes,   \* processes of the API
          Requests,    \* requests a client has open at a time
          Home,        \* Home[q]: the process that serves request q
          Tiers,       \* rows of api_service_tiers
          Anonymous,   \* the tier without a key
          Limit,       \* Limit[t]: requests_per_minute
          NoLimit,     \* null: unlimited
          None,        \* nothing cached; no worker
          Minute,      \* ticks of the clock in a minute
          Ttl,         \* API_KEY_TIER_CACHE_TTL_SECONDS, in ticks
          MaxTime,     \* bound: ticks of the clock
          MaxArrivals, \* bound: requests
          MaxChanges,  \* bound: changes of the key by an operator
          MaxFaults    \* bound: failures of Redis or of the database

ASSUME GateAssumption ==
  /\ Home \in [Requests -> Processes] /\ IsFiniteSet(Requests)
  /\ Anonymous \in Tiers /\ NoLimit \notin Nat /\ Limit \in [Tiers -> Nat \cup {NoLimit}]
  /\ None \notin Processes
  /\ Minute \in Nat \ {0} /\ Ttl \in Nat
  /\ MaxTime \in Nat /\ MaxArrivals \in Nat /\ MaxChanges \in Nat /\ MaxFaults \in Nat

VARIABLES
  now,      \* the clock
  key,      \* the row of api_keys; is its hash of the present kind?
  cache,    \* cache[w]: _tier_cache of worker w for the key
  req,      \* req[q]: what request q is about to do
  admin,    \* the operator's change under way
  count,    \* the counters in Redis
  served,   \* history: requests let through, by tier and minute of their check
  arrivals, changes, faults, \* how many there have been
  pending,  \* history: lookups that read the key before its last change
  settled,  \* history: when the last of them ended
  author    \* history: who made the last change, if it had no such lookup then

gateVars == <<now, key, cache, req, admin, count, served, arrivals, changes, faults,
          pending, settled, author>>
rates == <<count, served>>
lookups == <<pending, settled, author>>

Times == 0 .. MaxTime
Minutes == 0 .. (MaxTime \div Minute)
KeyTiers == Tiers \ {Anonymous}

GateTypeOK ==
  /\ now \in Times
  /\ key \in [active : BOOLEAN, tier : KeyTiers, current : BOOLEAN]
  /\ cache \in [Processes -> {None} \cup [tier : KeyTiers, expires : 0 .. (MaxTime + Ttl)]]
  /\ req \in [Requests -> [pc : {"idle", "read", "write", "get", "incr", "served", "refused"},
                           tier : Tiers, minute : Minutes]]
  /\ \A q \in Requests : req[q].pc \in {"get", "incr", "refused"} => Limit[req[q].tier] # NoLimit
  /\ admin \in [pc : {"idle", "revoke", "clear"}, worker : Processes \cup {None}, current : BOOLEAN]
  /\ count \in [Tiers \X Minutes -> 0 .. MaxArrivals]
  /\ served \in [Tiers \X Minutes -> 0 .. MaxArrivals]
  /\ arrivals \in 0 .. MaxArrivals /\ changes \in 0 .. MaxChanges /\ faults \in 0 .. MaxFaults
  /\ pending \subseteq Requests
  /\ settled \in Times
  /\ author \in Processes \cup {None}

NoRequest == [pc |-> "idle", tier |-> Anonymous, minute |-> 0]
NoChange == [pc |-> "idle", worker |-> None, current |-> FALSE]

GateInit ==
  /\ now = 0
  /\ key \in [active : {TRUE}, tier : KeyTiers, current : BOOLEAN]
  /\ cache = [w \in Processes |-> None]
  /\ req = [q \in Requests |-> NoRequest]
  /\ admin = NoChange
  /\ count = [c \in Tiers \X Minutes |-> 0] /\ served = count
  /\ arrivals = 0 /\ changes = 0 /\ faults = 0
  /\ pending = {} /\ settled = 0 /\ author = None

Fault == faults < MaxFaults /\ faults' = faults + 1

ClockTick ==
  /\ now < MaxTime
  /\ now' = now + 1
  /\ UNCHANGED <<key, cache, req, admin, rates, arrivals, changes, faults, lookups>>

----------------------------------------------------------------------------
(* The tier.                                                                *)

ThisMinute == now \div Minute

\* Mutants: no question whether there is a limit; what is cached stays so.
DecidedAlways(t) == [pc |-> "get", tier |-> t, minute |-> ThisMinute]
Usable(entry) == entry # None

\* The tier is known: without a limit the request is served, else its minute is fixed and
\* the counter asked for.
Decided(t) ==
  IF Limit[t] = NoLimit THEN [pc |-> "served", tier |-> t, minute |-> 0]
  ELSE [pc |-> "get", tier |-> t, minute |-> ThisMinute]

Fresh(entry) == entry # None /\ entry.expires > now

Entry(t) == IF Ttl = 0 THEN None ELSE [tier |-> t, expires |-> now + Ttl]

\* The lookup of request q is over.
Leave(q) ==
  /\ pending' = pending \ {q}
  /\ settled' = IF pending = {q} THEN now ELSE settled
  /\ UNCHANGED author

\* Without a key, or with one that is not valid; the entry of the anonymous tier may have
\* expired, and takes the others with it.
AsAnonymous(q) ==
  /\ req' = [req EXCEPT ![q] = Decided(Anonymous)]
  /\ \/ UNCHANGED cache
     \/ cache' = [cache EXCEPT ![Home[q]] = None]

Arrive(q) ==
  /\ req[q].pc = "idle" /\ arrivals < MaxArrivals
  /\ arrivals' = arrivals + 1
  /\ \/ AsAnonymous(q)
     \/ /\ Fresh(cache[Home[q]])
        /\ req' = [req EXCEPT ![q] = Decided(cache[Home[q]].tier)]
        /\ UNCHANGED cache
     \/ /\ ~Fresh(cache[Home[q]])
        /\ req' = [req EXCEPT ![q].pc = "read"]
        /\ cache' = [cache EXCEPT ![Home[q]] = None]
  /\ UNCHANGED <<now, key, admin, rates, changes, faults, lookups>>

\* The active key is read; a hash of an older kind is to be replaced, and the time of last
\* use may be due.  Otherwise the tier is cached at once.
ReadKey(q) ==
  /\ req[q].pc = "read"
  /\ \/ /\ ~key.active
        /\ AsAnonymous(q)
     \/ /\ key.active
        /\ req' = [req EXCEPT ![q].pc = "write", ![q].tier = key.tier]
        /\ UNCHANGED cache
     \/ /\ key.active /\ key.current
        /\ req' = [req EXCEPT ![q] = Decided(key.tier)]
        /\ cache' = [cache EXCEPT ![Home[q]] = Entry(key.tier)]
  /\ UNCHANGED <<now, key, admin, rates, arrivals, changes, faults, lookups>>

WriteKey(q) ==
  /\ req[q].pc = "write"
  /\ key' = [key EXCEPT !.current = TRUE]
  /\ req' = [req EXCEPT ![q] = Decided(req[q].tier)]
  /\ cache' = [cache EXCEPT ![Home[q]] = Entry(req[q].tier)]
  /\ Leave(q)
  /\ UNCHANGED <<now, admin, rates, arrivals, changes, faults>>

\* A lookup that fails makes the request anonymous; if that fails as well it passes unlimited.
LookupFails(q) ==
  /\ req[q].pc \in {"read", "write"}
  /\ Fault
  /\ \/ AsAnonymous(q)
     \/ req' = [req EXCEPT ![q] = NoRequest] /\ UNCHANGED cache
  /\ Leave(q)
  /\ UNCHANGED <<now, key, admin, rates, arrivals, changes>>

----------------------------------------------------------------------------
(* The counter.                                                             *)

\* Mutants: the window is not part of the counter's name; the limit itself is let through.
Ever(t, w) == <<t, 0>>
BelowOrAt(n, t) == n <= Limit[t]

Window(t, w) == <<t, w>>
Allows(n, t) == n < Limit[t]

Admit(q) == served' = [served EXCEPT ![<<req[q].tier, req[q].minute>>] = @ + 1]

GetCount(q) ==
  /\ req[q].pc = "get"
  /\ req' = [req EXCEPT ![q].pc =
       IF Allows(count[Window(req[q].tier, req[q].minute)], req[q].tier) THEN "incr" ELSE "refused"]
  /\ UNCHANGED <<now, key, cache, admin, rates, arrivals, changes, faults, lookups>>

Increment(q) ==
  /\ req[q].pc = "incr"
  /\ req' = [req EXCEPT ![q] = NoRequest]
  /\ count' = [count EXCEPT ![Window(req[q].tier, req[q].minute)] = @ + 1]
  /\ Admit(q)
  /\ UNCHANGED <<now, key, cache, admin, arrivals, changes, faults, lookups>>

\* When Redis fails, before or after it has counted, the request is let through.
CountFails(q) ==
  /\ req[q].pc \in {"get", "incr"}
  /\ Fault
  /\ req' = [req EXCEPT ![q] = NoRequest]
  /\ \/ UNCHANGED count
     \/ /\ req[q].pc = "incr"
        /\ count' = [count EXCEPT ![Window(req[q].tier, req[q].minute)] = @ + 1]
  /\ Admit(q)
  /\ UNCHANGED <<now, key, cache, admin, arrivals, changes, lookups>>

Answer(q) ==
  /\ req[q].pc \in {"served", "refused"}
  /\ req' = [req EXCEPT ![q] = NoRequest]
  /\ UNCHANGED <<now, key, cache, admin, rates, arrivals, changes, faults, lookups>>

----------------------------------------------------------------------------
(* The operator.                                                            *)

\* The key is changed; lookups that have read it go on with what they read.
Change(w, new) ==
  LET reading == {q \in Requests : req[q].pc = "write"} IN
  /\ key' = new
  /\ pending' = reading
  /\ settled' = now
  /\ author' = IF \E q \in reading : Home[q] = w THEN None ELSE w
  /\ admin' = [pc |-> "clear", worker |-> w, current |-> FALSE]

\* update_api_key_by_id: another tier, or (in)active.
UpdateKey(w, active, tier) ==
  /\ admin.pc = "idle" /\ changes < MaxChanges
  /\ changes' = changes + 1
  /\ Change(w, [active |-> active, tier |-> tier, current |-> key.current])
  /\ UNCHANGED <<now, cache, req, rates, arrivals, faults>>

\* revoke_api_key_by_id: the hash of the key is read, then the key with that hash changed.
StartRevoke(w) ==
  /\ admin.pc = "idle" /\ changes < MaxChanges
  /\ changes' = changes + 1
  /\ admin' = [pc |-> "revoke", worker |-> w, current |-> key.current]
  /\ UNCHANGED <<now, key, cache, req, rates, arrivals, faults, lookups>>

Revoke ==
  /\ admin.pc = "revoke"
  /\ IF key.current = admin.current
     THEN Change(admin.worker, [key EXCEPT !.active = FALSE])
     ELSE admin' = [admin EXCEPT !.pc = "clear"] /\ UNCHANGED <<key, lookups>>
  /\ UNCHANGED <<now, cache, req, rates, arrivals, changes, faults>>

\* Mutant: nothing is cleared.
Kept == cache

Cleared == [cache EXCEPT ![admin.worker] = None]

\* clear_cache in the process that serves the operator; the others wait for the TTL.
Clear ==
  /\ admin.pc = "clear"
  /\ cache' = Cleared
  /\ admin' = NoChange
  /\ UNCHANGED <<now, key, req, rates, arrivals, changes, faults, lookups>>

ChangeFails ==
  /\ admin.pc = "revoke"
  /\ Fault
  /\ admin' = NoChange
  /\ UNCHANGED <<now, key, cache, req, rates, arrivals, changes, lookups>>

----------------------------------------------------------------------------

Request(q) ==
  \/ Arrive(q) \/ ReadKey(q) \/ WriteKey(q) \/ LookupFails(q)
  \/ GetCount(q) \/ Increment(q) \/ CountFails(q) \/ Answer(q)

Operator ==
  \/ \E w \in Processes, active \in BOOLEAN, tier \in KeyTiers : UpdateKey(w, active, tier)
  \/ \E w \in Processes : StartRevoke(w)
  \/ Revoke \/ Clear \/ ChangeFails

GateNext == ClockTick \/ Operator \/ \E q \in Requests : Request(q)

GateSpec == GateInit /\ [][GateNext]_gateVars

----------------------------------------------------------------------------
(* Properties.                                                              *)

\* The counter is read and incremented apart, so requests at once may pass together; but no
\* more than are open at once, and one for each failure that lets a request through, also
\* when some are counted for a minute that is over.
OverrunIsBounded ==
  \A t \in Tiers, w \in Minutes : Limit[t] # NoLimit =>
    served[<<t, w>>] <= Limit[t] + (IF Limit[t] = 0 THEN 0 ELSE Cardinality(Requests) - 1) + faults

\* Whoever is refused (429) has had his limit of the minute let through, whatever failed.
RefusedOnlyWhenFull ==
  \A q \in Requests : req[q].pc = "refused" =>
    served[<<req[q].tier, req[q].minute>>] >= Limit[req[q].tier]

Looking(q) == req[q].pc \in {"idle", "read", "write"}
RightTier == IF key.active THEN key.tier ELSE Anonymous

\* A request is judged by the tier its key has, or had a TTL ago at most - reckoned from the
\* end of the last lookup that overlapped the change, which may still cache what it read.
TierIsRecent ==
  [][\A q \in Requests : Looking(q) /\ req'[q].pc \in {"get", "served"} /\ req'[q].tier # Anonymous =>
       req'[q].tier = RightTier \/ pending # {} \/ now < settled + Ttl]_gateVars

\* A change is seen at once by the process that made it, unless a lookup overlapped it there.
LocalChangeIsSeen ==
  author # None /\ admin.pc # "clear" /\ cache[author] # None =>
    key.active /\ cache[author].tier = key.tier
=============================================================================
