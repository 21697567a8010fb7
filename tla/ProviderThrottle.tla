-------------------------- MODULE ProviderThrottle --------------------------
(***************************************************************************)
(* The throttle that thumbnail and geocoding tasks pass before they ask a  *)
(* provider (provider_throttle.py): a request takes one of the slots of    *)
(* the origin and then waits until the last granted request is MinDelay    *)
(* old.  Slots and the pacing lock are Redis keys with an owner and an     *)
(* expiry; a worker that cannot reach Redis goes on under a lock of its    *)
(* own process.                                                            *)
(*                                                                         *)
(* Abstractions: one origin; a key may expire at any time; time counts     *)
(* down to the next grant.  A prefork worker runs one task, so its local   *)
(* lock is always free.                                                    *)
(***************************************************************************)
EXTENDS Integers, FiniteSets

CONSTANTS Workers,   \* worker processes
          Slots,     \* per_origin_concurrency of them
          MinDelay,  \* min_delay_seconds
          Free,      \* a key that does not exist
          Dead       \* the token of an owner that will never release it

ASSUME ThrottleAssumption ==
  /\ IsFiniteSet(Slots)
  /\ MinDelay \in Nat
  /\ Free \notin Workers
  /\ Dead \notin Workers \cup {Free}
  /\ Free \notin Slots

VARIABLES
  pc,      \* pc[p]: what worker p is about to do
  holder,  \* holder[i]: owner token in the key of slot i
  lease,   \* lease[p]: the slot p has been given, or Free
  pacer,   \* owner token in the pacing lock
  wait,    \* time until next_allowed
  age,     \* age[p]: time since p read the clock under the pacing lock
  local,   \* workers that go on without Redis
  since,   \* history: time since the last grant (the clock value it was given for)
  lapsed,  \* history: workers whose slot has expired under them
  stalled, \* history: the pacing lock has expired under its owner
  early    \* history: a grant came less than MinDelay after the one before

times == <<wait, age, since>>
history == <<lapsed, stalled, early>>
vars == <<pc, holder, lease, pacer, times, local, history>>

Steps == {"idle", "acquire", "pace", "read", "write", "unlockWait", "unlockGo", "request"}
Tokens == Workers \cup {Free, Dead}

TypeOK ==
  /\ pc \in [Workers -> Steps]
  /\ holder \in [Slots -> Tokens]
  /\ lease \in [Workers -> Slots \cup {Free}]
  /\ pacer \in Tokens
  /\ wait \in 0 .. MinDelay
  /\ age \in [Workers -> 0 .. MinDelay]
  /\ since \in 0 .. MinDelay
  /\ local \in SUBSET Workers
  /\ lapsed \in SUBSET Workers
  /\ stalled \in BOOLEAN
  /\ early \in BOOLEAN

Init ==
  /\ pc = [p \in Workers |-> "idle"]
  /\ holder = [i \in Slots |-> Free]
  /\ lease = [p \in Workers |-> Free]
  /\ pacer = Free
  /\ wait = 0
  /\ age = [p \in Workers |-> 0]
  /\ since = MinDelay
  /\ local = {}
  /\ lapsed = {}
  /\ stalled = FALSE
  /\ early = FALSE

Go(p, step) == pc' = [pc EXCEPT ![p] = step]

\* _RELEASE_IF_OWNER: another owner's key stays.  If Redis cannot be reached the key
\* stays too, with a token nobody will release.
Released(key, p) == IF key = p THEN {Free, Dead} ELSE {key}

Ask(p) ==
  /\ pc[p] = "idle"
  /\ Go(p, "acquire")
  /\ UNCHANGED <<holder, lease, pacer, times, local, history>>

\* SET NX EX on the key of a slot.
Acquire(p, i) ==
  /\ pc[p] = "acquire"
  /\ holder[i] = Free
  /\ holder' = [holder EXCEPT ![i] = p]
  /\ lease' = [lease EXCEPT ![p] = i]
  /\ Go(p, IF MinDelay = 0 THEN "request" ELSE "pace")
  /\ UNCHANGED <<pacer, times, local, history>>

\* Mutant of LockPace: the pacing lock is not waited for.
LockPaceAnyway(p) ==
  /\ pc[p] = "pace"
  /\ pacer' = p
  /\ Go(p, "read")
  /\ UNCHANGED <<holder, lease, times, local, history>>

LockPace(p) ==
  /\ pc[p] = "pace"
  /\ pacer = Free
  /\ pacer' = p
  /\ Go(p, "read")
  /\ UNCHANGED <<holder, lease, times, local, history>>

\* GET next_allowed, then the clock.
Read(p) ==
  /\ pc[p] = "read"
  /\ IF wait > 0
     THEN Go(p, "unlockWait") /\ UNCHANGED <<age, since, early>>
     ELSE /\ Go(p, "write")
          /\ age' = [age EXCEPT ![p] = 0]
          /\ since' = 0
          /\ early' = (early \/ since < MinDelay)
  /\ UNCHANGED <<holder, lease, pacer, wait, local, lapsed, stalled>>

\* SET next_allowed to the clock value read before, plus MinDelay.
Write(p) ==
  /\ pc[p] = "write"
  /\ wait' = MinDelay - age[p]
  /\ Go(p, "unlockGo")
  /\ UNCHANGED <<holder, lease, pacer, age, since, local, history>>

Unlock(p) ==
  /\ pc[p] \in {"unlockWait", "unlockGo"}
  /\ pacer' \in Released(pacer, p)
  /\ Go(p, IF pc[p] = "unlockGo" THEN "request" ELSE "pace")
  /\ UNCHANGED <<holder, lease, times, local, history>>

\* A grant that is broken off before next_allowed is set is none.
Regrant(p) == since' = IF pc[p] = "write" THEN MinDelay ELSE since

\* An exception on the way: p goes on under its local lock and keeps the slot it has.
\* A slot whose SET was not answered may stay taken.
Fallback(p) ==
  /\ pc[p] \in {"acquire", "pace", "read", "write"}
  /\ pacer' \in IF pc[p] \in {"read", "write"} THEN Released(pacer, p) ELSE {pacer}
  /\ \/ UNCHANGED holder
     \/ /\ pc[p] = "acquire"
        /\ \E i \in Slots : holder[i] = Free /\ holder' = [holder EXCEPT ![i] = Dead]
  /\ local' = local \cup {p}
  /\ Go(p, "request")
  /\ Regrant(p)
  /\ UNCHANGED <<lease, wait, age, history>>

\* Mutant of Finish: the key is deleted whoever owns it.
FinishAnyway(p) ==
  /\ pc[p] = "request"
  /\ IF lease[p] = Free THEN UNCHANGED holder
     ELSE holder' = [holder EXCEPT ![lease[p]] = Free]
  /\ lease' = [lease EXCEPT ![p] = Free]
  /\ local' = local \ {p}
  /\ lapsed' = lapsed \ {p}
  /\ Go(p, "idle")
  /\ UNCHANGED <<pacer, times, stalled, early>>

\* The request is answered and the slot given back.
Finish(p) ==
  /\ pc[p] = "request"
  /\ IF lease[p] = Free THEN UNCHANGED holder
     ELSE \E t \in Released(holder[lease[p]], p) : holder' = [holder EXCEPT ![lease[p]] = t]
  /\ lease' = [lease EXCEPT ![p] = Free]
  /\ local' = local \ {p}
  /\ lapsed' = lapsed \ {p}
  /\ Go(p, "idle")
  /\ UNCHANGED <<pacer, times, stalled, early>>

\* The hard time limit or the kernel kills the worker.
Crash(p) ==
  /\ pc[p] # "idle"
  /\ holder' = [i \in Slots |-> IF holder[i] = p THEN Dead ELSE holder[i]]
  /\ pacer' = IF pacer = p THEN Dead ELSE pacer
  /\ lease' = [lease EXCEPT ![p] = Free]
  /\ local' = local \ {p}
  /\ lapsed' = lapsed \ {p}
  /\ Go(p, "idle")
  /\ Regrant(p)
  /\ UNCHANGED <<wait, age, stalled, early>>

\* Mutant of ExpireSlot: the key is set without an expiry.
NeverExpire(i) == FALSE

ExpireSlot(i) ==
  /\ holder[i] # Free
  /\ holder' = [holder EXCEPT ![i] = Free]
  /\ lapsed' = lapsed \cup ({holder[i]} \cap Workers)
  /\ UNCHANGED <<pc, lease, pacer, times, local, stalled, early>>

ExpirePace ==
  /\ pacer # Free
  /\ pacer' = Free
  /\ stalled' = (stalled \/ pacer \in Workers)
  /\ UNCHANGED <<pc, holder, lease, times, local, lapsed, early>>

Later(t) == IF t < MinDelay THEN t + 1 ELSE t

Tick ==
  /\ wait' = IF wait > 0 THEN wait - 1 ELSE 0
  /\ age' = [p \in Workers |-> Later(age[p])]
  /\ since' = Later(since)
  /\ UNCHANGED <<pc, holder, lease, pacer, local, history>>

Proceed(p) ==
  \/ (\E i \in Slots : Acquire(p, i)) \/ LockPace(p) \/ Read(p) \/ Write(p) \/ Unlock(p)
  \/ Finish(p)

Next ==
  \/ \E p \in Workers : Ask(p) \/ Proceed(p) \/ Fallback(p) \/ Crash(p)
  \/ \E i \in Slots : ExpireSlot(i)
  \/ ExpirePace
  \/ Tick

\* Workers go on, keys expire and time passes.
Fairness ==
  /\ \A p \in Workers : WF_vars(Proceed(p))
  /\ \A i \in Slots : WF_vars(ExpireSlot(i))
  /\ WF_vars(ExpirePace)
  /\ WF_vars(Tick)

Spec == Init /\ [][Next]_vars
FairSpec == Spec /\ Fairness

-----------------------------------------------------------------------------
(* Properties.                                                             *)

Active == {p \in Workers : pc[p] = "request"}

\* A request that outlives its slot, or goes on without Redis, does not make others do
\* so: the remaining ones are never more than the slots.
OverrunsDoNotSpread == Cardinality(Active \ (lapsed \cup local)) <= Cardinality(Slots)

\* Grants are MinDelay apart unless an owner of the pacing lock lost it on the way.
GrantsArePaced == early => stalled

\* Slots and locks of workers that died are found again: whoever waits, somebody is
\* served in the end, if workers stop dying.
SomebodyIsServed ==
  <>[][\A p \in Workers : ~Crash(p)]_vars
    => ([]<>(\E p \in Workers : pc[p] = "acquire") => []<>(\E p \in Workers : pc[p] = "request"))

\* No more requests than slots at the same time.
Serialized == Cardinality(Active \ local) <= Cardinality(Slots)
=============================================================================
