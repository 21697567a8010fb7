--------------------------- MODULE LimitProofs ------------------------------
(***************************************************************************)
(* Proofs about ProviderThrottle, for any workers, slots and delay, and    *)
(* about RequestGate, for any requests, processes, tiers and limits.       *)
(***************************************************************************)
EXTENDS ProviderThrottle, RequestGate, FiniteSetTheorems, TLAPS

(* ProviderThrottle.                                                       *)

LEMMA TypeInit == Init => TypeOK
<1> SUFFICES ASSUME Init PROVE TypeOK
  OBVIOUS
<1>1. stalled \in BOOLEAN /\ early \in BOOLEAN
  BY DEF Init
<1>2. wait \in 0 .. MinDelay /\ since \in 0 .. MinDelay /\ age \in [Workers -> 0 .. MinDelay]
  BY ThrottleAssumption DEF Init
<1> QED
  BY <1>1, <1>2 DEF Init, TypeOK, Steps, Tokens

\* Giving back a key leaves it as it was, free, or with a dead token.
LEMMA ReleasedType ==
  ASSUME NEW held \in Tokens, NEW p \in Workers, NEW t \in Released(held, p)
  PROVE  t \in Tokens
BY DEF Released, Tokens

LEMMA TypeStep == TypeOK /\ [Next]_vars => TypeOK'
<1> SUFFICES ASSUME TypeOK, [Next]_vars PROVE TypeOK'
  OBVIOUS
<1> USE ThrottleAssumption
<1> USE DEF TypeOK
<1>1. ASSUME NEW p \in Workers, Ask(p) PROVE TypeOK'
  BY <1>1 DEF Ask, Go, Steps, times, history
<1>2. ASSUME NEW p \in Workers, NEW i \in Slots, Acquire(p, i) PROVE TypeOK'
  BY <1>2 DEF Acquire, Go, Steps, Tokens, times, history
<1>3. ASSUME NEW p \in Workers, LockPace(p) PROVE TypeOK'
  BY <1>3 DEF LockPace, Go, Steps, Tokens, times, history
<1>4. ASSUME NEW p \in Workers, Read(p) PROVE TypeOK'
  <2>1. early' \in BOOLEAN
    BY <1>4 DEF Read
  <2>2. since' \in 0 .. MinDelay /\ age' \in [Workers -> 0 .. MinDelay]
    BY <1>4 DEF Read
  <2>3. pc' \in [Workers -> Steps]
    BY <1>4 DEF Read, Go, Steps
  <2> QED
    BY <1>4, <2>1, <2>2, <2>3 DEF Read
<1>5. ASSUME NEW p \in Workers, Write(p) PROVE TypeOK'
  <2>1. wait' \in 0 .. MinDelay
    BY <1>5 DEF Write
  <2> QED
    BY <1>5, <2>1 DEF Write, Go, Steps, history
<1>6. ASSUME NEW p \in Workers, Unlock(p) PROVE TypeOK'
  BY <1>6, ReleasedType DEF Unlock, Go, Steps, times, history
<1>7. ASSUME NEW p \in Workers, Fallback(p) PROVE TypeOK'
  <2>1. pacer' \in Tokens
    BY <1>7, ReleasedType DEF Fallback
  <2>2. holder' \in [Slots -> Tokens]
    BY <1>7 DEF Fallback, Tokens
  <2>3. since' \in 0 .. MinDelay
    BY <1>7 DEF Fallback, Regrant
  <2> QED
    BY <1>7, <2>1, <2>2, <2>3 DEF Fallback, Go, Steps, history
<1>8. ASSUME NEW p \in Workers, Finish(p) PROVE TypeOK'
  <2>1. holder' \in [Slots -> Tokens]
    <3>1. CASE lease[p] = Free
      BY <1>8, <3>1 DEF Finish
    <3>2. CASE lease[p] # Free
      <4>1. lease[p] \in Slots
        BY <3>2
      <4>2. PICK t \in Released(holder[lease[p]], p) : holder' = [holder EXCEPT ![lease[p]] = t]
        BY <1>8, <3>2 DEF Finish
      <4>3. t \in Tokens
        BY <4>1, <4>2, ReleasedType
      <4> QED
        BY <4>1, <4>2, <4>3
    <3> QED
      BY <3>1, <3>2
  <2> QED
    BY <1>8, <2>1 DEF Finish, Go, Steps, times
<1>9. ASSUME NEW p \in Workers, Crash(p) PROVE TypeOK'
  <2>1. holder' \in [Slots -> Tokens] /\ pacer' \in Tokens
    BY <1>9 DEF Crash, Tokens
  <2>2. since' \in 0 .. MinDelay
    BY <1>9 DEF Crash, Regrant
  <2> QED
    BY <1>9, <2>1, <2>2 DEF Crash, Go, Steps
<1>10. ASSUME NEW i \in Slots, ExpireSlot(i) PROVE TypeOK'
  BY <1>10 DEF ExpireSlot, Tokens, times
<1>11. ASSUME ExpirePace PROVE TypeOK'
  <2>1. stalled' \in BOOLEAN
    BY <1>11 DEF ExpirePace
  <2> QED
    BY <1>11, <2>1 DEF ExpirePace, Tokens, times
<1>12. ASSUME Tick PROVE TypeOK'
  BY <1>12 DEF Tick, Later, history
<1>13. ASSUME UNCHANGED vars PROVE TypeOK'
  BY <1>13 DEF vars, times, history
<1> QED
  BY <1>1, <1>2, <1>3, <1>4, <1>5, <1>6, <1>7, <1>8, <1>9, <1>10, <1>11, <1>12, <1>13
     DEF Next, Proceed

\* Every reachable state of the throttle is well typed.
THEOREM TypeCorrect == Spec => []TypeOK
BY TypeInit, TypeStep, PTL DEF Spec

-----------------------------------------------------------------------------
(* Overruns.  A worker whose slot has not expired is the owner its key     *)
(* names, so two of them never have the same slot.                         *)

Served == {"pace", "read", "write", "unlockWait", "unlockGo", "request"}

Leased == \A p \in Workers : pc[p] \in Served /\ p \notin local => lease[p] # Free

Owning == \A p \in Workers : lease[p] # Free /\ p \notin lapsed => holder[lease[p]] = p

LEMMA LeasedStep == TypeOK /\ Leased /\ [Next]_vars => Leased'
<1> SUFFICES ASSUME TypeOK, Leased, [Next]_vars PROVE Leased'
  OBVIOUS
<1> USE ThrottleAssumption
<1> USE DEF TypeOK, Leased, Served
<1>1. ASSUME NEW p \in Workers, Ask(p) \/ LockPace(p) \/ Read(p) \/ Write(p) \/ Unlock(p)
      PROVE  Leased'
  BY <1>1 DEF Ask, LockPace, Read, Write, Unlock, Go, history
<1>2. ASSUME NEW p \in Workers, NEW i \in Slots, Acquire(p, i) PROVE Leased'
  BY <1>2 DEF Acquire, Go
<1>3. ASSUME NEW p \in Workers, Fallback(p) \/ Finish(p) \/ Crash(p) PROVE Leased'
  BY <1>3 DEF Fallback, Finish, Crash, Go
<1>4. ASSUME NEW i \in Slots, ExpireSlot(i) PROVE Leased'
  BY <1>4 DEF ExpireSlot
<1>5. ASSUME ExpirePace \/ Tick \/ UNCHANGED vars PROVE Leased'
  BY <1>5 DEF ExpirePace, Tick, vars
<1> QED
  BY <1>1, <1>2, <1>3, <1>4, <1>5 DEF Next, Proceed

LEMMA OwningStep == TypeOK /\ Owning /\ [Next]_vars => Owning'
<1> SUFFICES ASSUME TypeOK, Owning, [Next]_vars PROVE Owning'
  OBVIOUS
<1> USE ThrottleAssumption
<1> USE DEF TypeOK, Owning
<1>1. ASSUME NEW p \in Workers, Ask(p) \/ LockPace(p) \/ Read(p) \/ Write(p) \/ Unlock(p)
      PROVE  Owning'
  BY <1>1 DEF Ask, LockPace, Read, Write, Unlock, history
<1>2. ASSUME NEW p \in Workers, NEW i \in Slots, Acquire(p, i) PROVE Owning'
  BY <1>2 DEF Acquire, history
<1>3. ASSUME NEW p \in Workers, Fallback(p) PROVE Owning'
  <2>1. CASE UNCHANGED holder
    BY <1>3, <2>1 DEF Fallback, history
  <2>2. CASE \E i \in Slots : holder[i] = Free /\ holder' = [holder EXCEPT ![i] = Dead]
    BY <1>3, <2>2 DEF Fallback, history
  <2> QED
    BY <1>3, <2>1, <2>2 DEF Fallback
<1>4. ASSUME NEW p \in Workers, Finish(p) PROVE Owning'
  <2>1. CASE lease[p] = Free
    BY <1>4, <2>1 DEF Finish
  <2>2. CASE lease[p] # Free
    <3>1. PICK t \in Released(holder[lease[p]], p) : holder' = [holder EXCEPT ![lease[p]] = t]
      BY <1>4, <2>2 DEF Finish
    <3>2. ASSUME NEW q \in Workers, lease'[q] # Free, q \notin lapsed'
          PROVE  holder'[lease'[q]] = q
      <4>1. q # p /\ lease'[q] = lease[q] /\ q \notin lapsed
        BY <1>4, <3>2 DEF Finish
      <4>2. holder[lease[q]] = q /\ lease[q] \in Slots /\ lease[p] \in Slots
        BY <3>2, <4>1, <2>2
      <4>3. lease[q] = lease[p] => t = q
        BY <3>1, <4>1, <4>2 DEF Released
      <4> QED
        BY <3>1, <4>1, <4>2, <4>3
    <3> QED
      BY <3>2
  <2> QED
    BY <2>1, <2>2
<1>5. ASSUME NEW p \in Workers, Crash(p) PROVE Owning'
  BY <1>5 DEF Crash
<1>6. ASSUME NEW i \in Slots, ExpireSlot(i) PROVE Owning'
  BY <1>6 DEF ExpireSlot
<1>7. ASSUME ExpirePace \/ Tick \/ UNCHANGED vars PROVE Owning'
  BY <1>7 DEF ExpirePace, Tick, vars, history
<1> QED
  BY <1>1, <1>2, <1>3, <1>4, <1>5, <1>6, <1>7 DEF Next, Proceed

\* Owners of different slots are as many as slots at most.
LEMMA OwnersFit == TypeOK /\ Leased /\ Owning => OverrunsDoNotSpread
<1> SUFFICES ASSUME TypeOK, Leased, Owning PROVE OverrunsDoNotSpread
  OBVIOUS
<1> DEFINE Good == Active \ (lapsed \cup local)
<1> DEFINE slot == [p \in Good |-> lease[p]]
<1>1. \A p \in Good : lease[p] \in Slots /\ holder[lease[p]] = p
  BY DEF Active, TypeOK, Leased, Owning, Served
<1>2. slot \in Injection(Good, Slots)
  BY <1>1 DEF Injection, IsInjective
<1>3. IsFiniteSet(Slots)
  BY ThrottleAssumption
<1> HIDE DEF Good, slot
<1>4. Cardinality(Good) <= Cardinality(Slots)
  BY <1>2, <1>3, FS_Injection
<1> QED
  BY <1>4 DEF OverrunsDoNotSpread, Good

\* A request that outlives its slot does not make others share one.
THEOREM OverrunsStayAlone == Spec => []OverrunsDoNotSpread
<1>1. Init => Leased /\ Owning
  BY ThrottleAssumption DEF Init, Leased, Owning, Served
<1> QED
  BY <1>1, TypeInit, TypeStep, LeasedStep, OwningStep, OwnersFit, PTL DEF Spec

-----------------------------------------------------------------------------
(* Pacing.  While no owner of the pacing lock has lost it, at most one     *)
(* worker is between the read and the write of next_allowed, and the clock *)
(* value it read is that of the last grant.                                *)

Pacing == {"read", "write", "unlockWait", "unlockGo"}

LockHeld == ~stalled => \A p \in Workers : pc[p] \in Pacing => pacer = p

Spaced == ~stalled =>
  /\ \A p \in Workers : pc[p] = "write" => since = age[p]
  /\ (\A p \in Workers : pc[p] # "write") => since + wait >= MinDelay

LEMMA LockHeldStep == TypeOK /\ LockHeld /\ [Next]_vars => LockHeld'
<1> SUFFICES ASSUME TypeOK, LockHeld, [Next]_vars PROVE LockHeld'
  OBVIOUS
<1> USE ThrottleAssumption
<1> USE DEF TypeOK, LockHeld, Pacing
<1>1. ASSUME NEW p \in Workers, Ask(p) \/ LockPace(p) \/ Read(p) \/ Write(p) PROVE LockHeld'
  BY <1>1 DEF Ask, LockPace, Read, Write, Go, history
<1>2. ASSUME NEW p \in Workers, NEW i \in Slots, Acquire(p, i) PROVE LockHeld'
  BY <1>2 DEF Acquire, Go, history
<1>3. ASSUME NEW p \in Workers, Unlock(p) PROVE LockHeld'
  BY <1>3 DEF Unlock, Released, Go, history
<1>4. ASSUME NEW p \in Workers, Fallback(p) PROVE LockHeld'
  BY <1>4 DEF Fallback, Released, Go, history
<1>5. ASSUME NEW p \in Workers, Finish(p) \/ Crash(p) PROVE LockHeld'
  BY <1>5 DEF Finish, Crash, Go
<1>6. ASSUME NEW i \in Slots, ExpireSlot(i) PROVE LockHeld'
  BY <1>6 DEF ExpireSlot
<1>7. ASSUME ExpirePace PROVE LockHeld'
  BY <1>7 DEF ExpirePace, Tokens
<1>8. ASSUME Tick \/ UNCHANGED vars PROVE LockHeld'
  BY <1>8 DEF Tick, vars, history
<1> QED
  BY <1>1, <1>2, <1>3, <1>4, <1>5, <1>6, <1>7, <1>8 DEF Next, Proceed

LEMMA SpacedStep ==
  TypeOK /\ LockHeld /\ Spaced /\ GrantsArePaced /\ [Next]_vars => Spaced' /\ GrantsArePaced'
<1> SUFFICES ASSUME TypeOK, LockHeld, Spaced, GrantsArePaced, [Next]_vars
             PROVE  Spaced' /\ GrantsArePaced'
  OBVIOUS
<1> USE ThrottleAssumption
<1> USE DEF TypeOK, Spaced, GrantsArePaced
<1>1. ASSUME NEW p \in Workers, Ask(p) \/ LockPace(p) \/ Unlock(p)
      PROVE  Spaced' /\ GrantsArePaced'
  BY <1>1 DEF Ask, LockPace, Unlock, Go, times, history
<1>2. ASSUME NEW p \in Workers, NEW i \in Slots, Acquire(p, i) PROVE Spaced' /\ GrantsArePaced'
  BY <1>2 DEF Acquire, Go, times, history
<1>3. ASSUME NEW p \in Workers, Read(p) PROVE Spaced' /\ GrantsArePaced'
  <2>1. ~stalled => \A q \in Workers : pc[q] # "write"
    BY <1>3 DEF Read, LockHeld, Pacing
  <2>2. CASE wait > 0
    BY <1>3, <2>2 DEF Read, Go
  <2>3. CASE ~(wait > 0)
    <3>1. ~stalled => ~(since < MinDelay)
      BY <2>1, <2>3
    <3>2. GrantsArePaced'
      BY <1>3, <2>3, <3>1 DEF Read
    <3>3. Spaced'
      BY <1>3, <2>1, <2>3 DEF Read, Go
    <3> QED
      BY <3>2, <3>3
  <2> QED
    BY <2>2, <2>3
<1>4. ASSUME NEW p \in Workers, Write(p) PROVE Spaced' /\ GrantsArePaced'
  <2>1. ~stalled => since = age[p]
    BY <1>4 DEF Write
  <2> QED
    BY <1>4, <2>1 DEF Write, Go, history, LockHeld, Pacing
<1>5. ASSUME NEW p \in Workers, Fallback(p) \/ Crash(p) PROVE Spaced' /\ GrantsArePaced'
  <2>1. CASE pc[p] = "write"
    <3>1. ~stalled => \A q \in Workers : q # p => pc[q] # "write"
      BY <2>1 DEF LockHeld, Pacing
    <3> QED
      BY <1>5, <2>1, <3>1 DEF Fallback, Crash, Regrant, Go, history
  <2>2. CASE pc[p] # "write"
    BY <1>5, <2>2 DEF Fallback, Crash, Regrant, Go, history
  <2> QED
    BY <2>1, <2>2
<1>6. ASSUME NEW p \in Workers, Finish(p) PROVE Spaced' /\ GrantsArePaced'
  BY <1>6 DEF Finish, Go, times
<1>7. ASSUME NEW i \in Slots, ExpireSlot(i) PROVE Spaced' /\ GrantsArePaced'
  BY <1>7 DEF ExpireSlot, times
<1>8. ASSUME ExpirePace PROVE Spaced' /\ GrantsArePaced'
  BY <1>8 DEF ExpirePace, times
<1>9. ASSUME Tick PROVE Spaced' /\ GrantsArePaced'
  BY <1>9 DEF Tick, Later, history
<1>10. ASSUME UNCHANGED vars PROVE Spaced' /\ GrantsArePaced'
  BY <1>10 DEF vars, times, history
<1> QED
  BY <1>1, <1>2, <1>3, <1>4, <1>5, <1>6, <1>7, <1>8, <1>9, <1>10 DEF Next, Proceed

\* Grants are MinDelay apart while no owner of the pacing lock loses it.
THEOREM Paced == Spec => []GrantsArePaced
<1>1. Init => LockHeld /\ Spaced /\ GrantsArePaced
  BY ThrottleAssumption DEF Init, LockHeld, Spaced, GrantsArePaced, Pacing
<1> QED
  BY <1>1, TypeInit, TypeStep, LockHeldStep, SpacedStep, PTL DEF Spec

-----------------------------------------------------------------------------
(* RequestGate.                                                            *)

\* An earlier time has no later minute.
LEMMA EarlierMinute ==
  ASSUME NEW a \in Nat, NEW b \in Nat, a <= b, NEW m \in Nat \ {0}
  PROVE  a \div m \in 0 .. (b \div m)
OBVIOUS

\* What a request knows once its tier is decided.
LEMMA DecidedType ==
  ASSUME GateTypeOK, NEW t \in Tiers
  PROVE  /\ Decided(t) \in [pc : {"get", "served"}, tier : {t}, minute : Minutes]
         /\ Decided(t).pc = "get" => Limit[t] # NoLimit
<1>1. now \in Nat /\ MaxTime \in Nat /\ now <= MaxTime /\ Minute \in Nat \ {0}
  BY GateAssumption DEF GateTypeOK, Times
<1>3. ThisMinute \in Minutes
  BY <1>1, EarlierMinute DEF Minutes, ThisMinute
<1>4. 0 \in Minutes
  BY <1>1, EarlierMinute DEF Minutes
<1> QED
  BY <1>3, <1>4 DEF Decided

LEMMA EntryType ==
  ASSUME GateTypeOK, NEW t \in KeyTiers
  PROVE  /\ Entry(t) \in {None} \cup [tier : {t}, expires : 0 .. (MaxTime + Ttl)]
         /\ Entry(t) # None => Entry(t).tier = t /\ Entry(t).expires <= now + Ttl
BY GateAssumption DEF GateTypeOK, Times, Entry

-----------------------------------------------------------------------------
(* What is let through.  A request that is not decided or not counted yet   *)
(* has still its share of the arrivals; the counter of a minute lags behind *)
(* what was let through in it by one for each failure at most.              *)

Requested == [pc : {"idle", "read", "write", "get", "incr", "served", "refused"},
              tier : Tiers, minute : Minutes]

\* What a request is about to count has a limit, what it is about to cache is the tier of a key.
Fitting(r) ==
  /\ r.pc \in {"get", "incr", "refused"} => Limit[r.tier] # NoLimit
  /\ r.pc = "write" => r.tier \in KeyTiers

Open == {q \in Requests : req[q].pc \in {"read", "write", "get", "incr"}}

Admitted ==
  \A c \in Tiers \X Minutes :
    /\ count[c] <= served[c] /\ served[c] <= count[c] + faults
    /\ served[c] + Cardinality(Open) <= arrivals

GateInv == GateTypeOK /\ Admitted /\ \A q \in Requests : Fitting(req[q])

LEMMA OpenFinite == IsFiniteSet(Open) /\ IsFiniteSet(Open') /\ Cardinality(Open) \in Nat /\ Cardinality(Open') \in Nat
BY GateAssumption, FS_Subset, FS_CardinalityType DEF Open

LEMMA FewerOpen == ASSUME Open' \subseteq Open PROVE Cardinality(Open') <= Cardinality(Open)
BY OpenFinite, FS_Subset

LEMMA OneMoreOpen ==
  ASSUME NEW q, Open' \subseteq Open \cup {q}
  PROVE  Cardinality(Open') <= Cardinality(Open) + 1
<1>1. IsFiniteSet(Open \cup {q}) /\ Cardinality(Open \cup {q}) <= Cardinality(Open) + 1
  BY OpenFinite, FS_AddElement
<1> QED
  BY <1>1, OpenFinite, FS_Subset, FS_CardinalityType

LEMMA OneLessOpen ==
  ASSUME NEW q \in Open, Open' \subseteq Open \ {q}
  PROVE  Cardinality(Open') + 1 <= Cardinality(Open)
<1>1. IsFiniteSet(Open \ {q}) /\ Cardinality(Open \ {q}) = Cardinality(Open) - 1
  BY OpenFinite, FS_RemoveElement
<1> QED
  BY <1>1, OpenFinite, FS_Subset, FS_CardinalityType

LEMMA GateInitInv == GateInit => GateInv
<1> SUFFICES ASSUME GateInit PROVE GateInv
  OBVIOUS
<1> USE GateAssumption
<1>1. 0 \in Minutes
  BY EarlierMinute DEF Minutes
<1>2. req \in [Requests -> {NoRequest}] /\ key.tier \in KeyTiers /\ Limit \in [Tiers -> Nat \cup {NoLimit}]
  BY DEF GateInit
<1>3. now \in Times /\ settled \in Times /\ arrivals \in 0 .. MaxArrivals
      /\ changes \in 0 .. MaxChanges /\ faults \in 0 .. MaxFaults
  BY DEF GateInit, Times
<1>5. count \in [Tiers \X Minutes -> 0 .. MaxArrivals] /\ served \in [Tiers \X Minutes -> 0 .. MaxArrivals]
  BY DEF GateInit
<1>6. \A q \in Requests : req[q] = NoRequest
  BY <1>2
<1>7. GateTypeOK
  BY <1>1, <1>2, <1>3, <1>5, <1>6 DEF GateInit, GateTypeOK, NoRequest, NoChange
<1>4. Open = {}
  BY <1>2 DEF Open, NoRequest
<1> QED
  BY <1>7, <1>4, <1>6, FS_EmptySet DEF GateInit, GateInv, Admitted, Fitting, NoRequest

\* A step of the request alone, which lets nothing through, leaves the books in order.
LEMMA Waits ==
  ASSUME GateInv, Open' \subseteq Open, UNCHANGED <<count, served, arrivals>>,
         faults' \in Nat, faults <= faults'
  PROVE  Admitted'
<1>1. Cardinality(Open') <= Cardinality(Open) /\ Cardinality(Open) \in Nat /\ Cardinality(Open') \in Nat
  BY FewerOpen, OpenFinite
<1> HIDE DEF Open
<1> USE GateAssumption
<1>0. (Tiers \X Minutes)' = Tiers \X Minutes
  BY DEF Minutes
<1> SUFFICES ASSUME NEW c \in Tiers \X Minutes
             PROVE  (/\ count[c] <= served[c] /\ served[c] <= count[c] + faults
                     /\ served[c] + Cardinality(Open) <= arrivals)'
  BY <1>0 DEF Admitted
<1>2. count[c] \in Nat /\ served[c] \in Nat /\ arrivals \in Nat /\ faults \in Nat
  BY DEF GateInv, GateTypeOK
<1>4. count[c] <= served[c] /\ served[c] <= count[c] + faults /\ served[c] + Cardinality(Open) <= arrivals
  BY DEF GateInv, Admitted
<1> QED
  BY <1>1, <1>2, <1>4

\* Who arrives brings an arrival of his own.
LEMMA Arrives ==
  ASSUME GateInv, NEW q, Open' \subseteq Open \cup {q}, arrivals' = arrivals + 1,
         UNCHANGED <<count, served, faults>>
  PROVE  Admitted'
<1>1. Cardinality(Open') <= Cardinality(Open) + 1 /\ Cardinality(Open) \in Nat /\ Cardinality(Open') \in Nat
  BY OneMoreOpen, OpenFinite
<1> HIDE DEF Open
<1> USE GateAssumption
<1>0. (Tiers \X Minutes)' = Tiers \X Minutes
  BY DEF Minutes
<1> SUFFICES ASSUME NEW c \in Tiers \X Minutes
             PROVE  (/\ count[c] <= served[c] /\ served[c] <= count[c] + faults
                     /\ served[c] + Cardinality(Open) <= arrivals)'
  BY <1>0 DEF Admitted
<1>2. count[c] \in Nat /\ served[c] \in Nat /\ arrivals \in Nat /\ faults \in Nat
  BY DEF GateInv, GateTypeOK
<1>4. count[c] <= served[c] /\ served[c] <= count[c] + faults /\ served[c] + Cardinality(Open) <= arrivals
  BY DEF GateInv, Admitted
<1> QED
  BY <1>1, <1>2, <1>4

\* A request that is counted, or that a failure lets through, is open no more.
LEMMA LetThrough ==
  ASSUME GateInv, NEW q \in Open, Admit(q), Open' \subseteq Open \ {q}, UNCHANGED arrivals,
         req[q].tier \in Tiers, req[q].minute \in Minutes,
         \/ count' = [count EXCEPT ![<<req[q].tier, req[q].minute>>] = @ + 1] /\ UNCHANGED faults
         \/ faults' = faults + 1
            /\ count' \in {count, [count EXCEPT ![<<req[q].tier, req[q].minute>>] = @ + 1]}
  PROVE  /\ Admitted'
         /\ count' \in [Tiers \X Minutes -> 0 .. MaxArrivals]
         /\ served' \in [Tiers \X Minutes -> 0 .. MaxArrivals]
<1> DEFINE d == <<req[q].tier, req[q].minute>>
<1>1. Cardinality(Open') + 1 <= Cardinality(Open) /\ Cardinality(Open) \in Nat /\ Cardinality(Open') \in Nat
  BY OneLessOpen, OpenFinite
<1>2. arrivals \in 0 .. MaxArrivals /\ faults \in Nat /\ MaxArrivals \in Nat
  BY GateAssumption DEF GateInv, GateTypeOK
<1>3. d \in Tiers \X Minutes /\ (Tiers \X Minutes)' = Tiers \X Minutes
  BY DEF Minutes
<1>4. served' = [served EXCEPT ![d] = @ + 1]
  BY DEF Admit
<1>5. \/ count' = [count EXCEPT ![d] = @ + 1] /\ UNCHANGED faults
      \/ faults' = faults + 1 /\ count' \in {count, [count EXCEPT ![d] = @ + 1]}
  OBVIOUS
<1> HIDE DEF Open, d
<1>6. ASSUME NEW c \in Tiers \X Minutes
      PROVE  /\ count'[c] \in Nat /\ served'[c] \in Nat
             /\ count'[c] <= served'[c] /\ served'[c] <= count'[c] + faults'
             /\ served'[c] + Cardinality(Open') <= arrivals
  <2>1. count[c] \in Nat /\ served[c] \in Nat
    BY DEF GateInv, GateTypeOK
  <2>2. count[c] <= served[c] /\ served[c] <= count[c] + faults /\ served[c] + Cardinality(Open) <= arrivals
    BY DEF GateInv, Admitted
  <2>3. served'[c] = IF c = d THEN served[c] + 1 ELSE served[c]
    BY <1>4 DEF GateInv, GateTypeOK
  <2>4. \/ count'[c] = (IF c = d THEN count[c] + 1 ELSE count[c]) /\ faults' = faults
        \/ faults' = faults + 1 /\ count'[c] \in {count[c], IF c = d THEN count[c] + 1 ELSE count[c]}
    BY <1>5 DEF GateInv, GateTypeOK
  <2> QED
    BY <1>1, <1>2, <2>1, <2>2, <2>3, <2>4
<1>7. DOMAIN count' = Tiers \X Minutes /\ DOMAIN served' = Tiers \X Minutes
      /\ count' = [c \in Tiers \X Minutes |-> count'[c]] /\ served' = [c \in Tiers \X Minutes |-> served'[c]]
  BY <1>4, <1>5 DEF GateInv, GateTypeOK
<1>8. \A c \in Tiers \X Minutes : count'[c] \in 0 .. MaxArrivals /\ served'[c] \in 0 .. MaxArrivals
  BY <1>1, <1>2, <1>6
<1> QED
  BY <1>3, <1>6, <1>7, <1>8 DEF Admitted

\* The steps of one request: what becomes of it, and of what its process has cached.
LEMMA RequestKept ==
  ASSUME GateInv, NEW q \in Requests, NEW r \in Requested, Fitting(r),
         req' = [req EXCEPT ![q] = r]
  PROVE  /\ req' \in [Requests -> Requested]
         /\ \A x \in Requests : Fitting(req'[x])
         /\ Open' \subseteq Open \cup {q}
         /\ r.pc \notin {"read", "write", "get", "incr"} => Open' \subseteq Open \ {q}
BY DEF GateInv, GateTypeOK, Requested, Fitting, Open

LEMMA CacheKept ==
  ASSUME GateInv, NEW q \in Requests, NEW t \in KeyTiers,
         cache' \in {cache, [cache EXCEPT ![Home[q]] = None], [cache EXCEPT ![Home[q]] = Entry(t)]}
  PROVE  cache' \in [Processes -> {None} \cup [tier : KeyTiers, expires : 0 .. (MaxTime + Ttl)]]
BY EntryType DEF GateInv, GateTypeOK

LEMMA GateStepInv == GateInv /\ [GateNext]_gateVars => GateInv'
<1> SUFFICES ASSUME GateInv, [GateNext]_gateVars PROVE GateInv'
  OBVIOUS
<1> USE GateAssumption DEF GateInv
<1>0. /\ Times' = Times /\ Minutes' = Minutes /\ KeyTiers' = KeyTiers
      /\ IsFiniteSet(Open) /\ Anonymous \in Tiers /\ 0 \in Minutes
  BY OpenFinite, EarlierMinute DEF Times, Minutes, KeyTiers
<1>1. ASSUME ClockTick PROVE GateInv'
  <2>1. Admitted'
    BY <1>1, Waits DEF ClockTick, rates, Open, GateTypeOK
  <2>2. now' \in Times
    BY <1>1 DEF ClockTick, Times, GateTypeOK
  <2> QED
    BY <1>1, <2>1, <2>2, <1>0 DEF ClockTick, rates, lookups, GateTypeOK, Fitting
<1>2. ASSUME Operator PROVE GateInv'
  <2> DEFINE Same == UNCHANGED <<now, req, count, served, arrivals>> /\ faults' \in 0 .. MaxFaults /\ faults <= faults'
             T == /\ key \in [active : BOOLEAN, tier : KeyTiers, current : BOOLEAN]
                  /\ admin \in [pc : {"idle", "revoke", "clear"}, worker : Processes \cup {None}, current : BOOLEAN]
                  /\ cache \in [Processes -> {None} \cup [tier : KeyTiers, expires : 0 .. (MaxTime + Ttl)]]
                  /\ changes \in 0 .. MaxChanges
                  /\ pending \subseteq Requests /\ settled \in Times /\ author \in Processes \cup {None}
  <2>1. ASSUME NEW w \in Processes, NEW active \in BOOLEAN, NEW tier \in KeyTiers, UpdateKey(w, active, tier)
        PROVE  Same /\ T'
    BY <2>1, <1>0 DEF UpdateKey, Change, NoChange, rates, GateTypeOK
  <2>2. ASSUME NEW w \in Processes, StartRevoke(w) PROVE Same /\ T'
    BY <2>2, <1>0 DEF StartRevoke, lookups, rates, GateTypeOK
  <2>3. ASSUME Revoke PROVE Same /\ T'
    <3>1. CASE key.current = admin.current
      <4>1. Change(admin.worker, [key EXCEPT !.active = FALSE]) /\ Same /\ UNCHANGED <<cache, changes>>
        BY <2>3, <3>1 DEF Revoke, rates, GateTypeOK
      <4>2. admin.worker \in Processes \cup {None}
        BY DEF GateTypeOK
      <4>3. key' \in [active : BOOLEAN, tier : KeyTiers, current : BOOLEAN]
        BY <4>1 DEF Change, GateTypeOK
      <4>4. pending' \subseteq Requests /\ settled' \in Times /\ author' \in Processes \cup {None}
        BY <4>1, <4>2 DEF Change, GateTypeOK
      <4> QED
        BY <4>1, <4>2, <4>3, <4>4, <1>0 DEF Change, GateTypeOK
    <3>2. CASE key.current # admin.current
      BY <2>3, <3>2, <1>0 DEF Revoke, lookups, rates, GateTypeOK
    <3> QED
      BY <3>1, <3>2
  <2>4. ASSUME Clear PROVE Same /\ T'
    <3>1. cache' \in [Processes -> {None} \cup [tier : KeyTiers, expires : 0 .. (MaxTime + Ttl)]]
      BY <2>4 DEF Clear, Cleared, GateTypeOK
    <3> QED
      BY <2>4, <3>1, <1>0 DEF Clear, NoChange, lookups, rates, GateTypeOK
  <2>5. ASSUME ChangeFails PROVE Same /\ T'
    <3>1. faults' \in 0 .. MaxFaults /\ faults <= faults'
      BY <2>5 DEF ChangeFails, Fault, GateTypeOK
    <3> QED
      BY <2>5, <3>1, <1>0 DEF ChangeFails, NoChange, lookups, rates, GateTypeOK
  <2>6. Same /\ T'
    BY <1>2, <2>1, <2>2, <2>3, <2>4, <2>5 DEF Operator
  <2>7. Admitted'
    BY <2>6, Waits DEF Open, GateTypeOK
  <2> QED
    BY <2>6, <2>7, <1>0 DEF GateTypeOK, Fitting
<1>3. ASSUME NEW q \in Requests, Request(q) PROVE GateInv'
  <2> USE DEF GateTypeOK, Requested, Fitting, rates, lookups
  <2> DEFINE
    Caches(c) == \/ c \in {cache, [cache EXCEPT ![Home[q]] = None]}
                 \/ \E t \in KeyTiers : c = [cache EXCEPT ![Home[q]] = Entry(t)]
    Same == /\ UNCHANGED <<now, admin, changes>>
            /\ key' \in [active : BOOLEAN, tier : KeyTiers, current : BOOLEAN]
            /\ pending' \subseteq Requests /\ settled' \in Times /\ author' \in Processes \cup {None}
    Counted == /\ faults' \in 0 .. MaxFaults /\ arrivals' \in 0 .. MaxArrivals /\ Admitted'
               /\ count' \in [Tiers \X Minutes -> 0 .. MaxArrivals]
               /\ served' \in [Tiers \X Minutes -> 0 .. MaxArrivals]
    Known == \E r \in Requested : Fitting(r) /\ req' = [req EXCEPT ![q] = r]
  <2>1. req[q] \in Requested /\ Fitting(req[q]) /\ NoRequest \in Requested /\ Fitting(NoRequest)
    BY <1>0 DEF NoRequest
  <2>2. \A t \in Tiers : Decided(t) \in Requested /\ Fitting(Decided(t)) /\ Decided(t).pc \notin {"read", "write", "incr"}
    BY DecidedType
  <2>3. ASSUME NEW r \in Requested, Fitting(r), req' = [req EXCEPT ![q] = r]
        PROVE  Open' \subseteq Open \cup {q} /\ (r.pc \notin {"read", "write", "get", "incr"} => Open' \subseteq Open \ {q})
    BY <2>3, RequestKept
  <2>4. ASSUME q \in Open, Open' \subseteq Open \cup {q}, UNCHANGED <<count, served, arrivals>>,
               faults' \in 0 .. MaxFaults, faults <= faults'
        PROVE  Counted
    BY <2>4, Waits
  <2>5. ASSUME AsAnonymous(q) PROVE Known /\ Caches(cache')
    BY <2>5, <2>2, <1>0 DEF AsAnonymous
  <2>6. ASSUME Leave(q) PROVE pending' \subseteq Requests /\ settled' \in Times /\ author' \in Processes \cup {None}
    BY <2>6 DEF Leave
  <2>17. Known => Open' \subseteq Open \cup {q}
    BY <2>3
  <2>7. ASSUME Arrive(q) PROVE Known /\ Caches(cache') /\ Same /\ Counted
    <3>1. Known /\ Caches(cache')
      <4>1. CASE AsAnonymous(q)
        BY <4>1, <2>5
      <4>2. CASE /\ Fresh(cache[Home[q]])
                 /\ req' = [req EXCEPT ![q] = Decided(cache[Home[q]].tier)]
                 /\ UNCHANGED cache
        <5>1. cache[Home[q]].tier \in Tiers
          BY <4>2 DEF Fresh, KeyTiers
        <5> QED
          BY <4>2, <5>1, <2>2
      <4>3. CASE /\ req' = [req EXCEPT ![q].pc = "read"]
                 /\ cache' = [cache EXCEPT ![Home[q]] = None]
        <5>1. [req[q] EXCEPT !.pc = "read"] \in Requested /\ Fitting([req[q] EXCEPT !.pc = "read"])
          BY <2>1
        <5> QED
          BY <4>3, <5>1
      <4> HIDE DEF Known, Caches, GateInv
      <4> QED
        BY <2>7, <4>1, <4>2, <4>3 DEF Arrive
    <3>2. Admitted' /\ arrivals' \in 0 .. MaxArrivals
      <4>1. arrivals' = arrivals + 1 /\ arrivals < MaxArrivals /\ UNCHANGED <<count, served, faults>>
        BY <2>7 DEF Arrive
      <4>2. arrivals' \in 0 .. MaxArrivals
        BY <4>1
      <4>3. Open' \subseteq Open \cup {q}
        BY <3>1, <2>17
      <4> HIDE DEF GateInv
      <4> QED
        BY <4>1, <4>2, <4>3, Arrives
    <3> QED
      BY <2>7, <3>1, <3>2 DEF Arrive
  <2>8. ASSUME ReadKey(q) PROVE Known /\ Caches(cache') /\ Same /\ Counted
    <3>1. Known /\ Caches(cache')
      <4>1. CASE AsAnonymous(q)
        BY <4>1, <2>5
      <4>2. CASE /\ req' = [req EXCEPT ![q].pc = "write", ![q].tier = key.tier]
                 /\ UNCHANGED cache
        <5>1. [pc |-> "write", tier |-> key.tier, minute |-> req[q].minute] \in Requested
          BY <2>1 DEF KeyTiers
        <5>5. Fitting([pc |-> "write", tier |-> key.tier, minute |-> req[q].minute])
          OBVIOUS
        <5>2. req'[q] = [pc |-> "write", tier |-> key.tier, minute |-> req[q].minute]
          BY <4>2, ZenonT(60)
        <5>3. DOMAIN req' = Requests /\ DOMAIN req = Requests /\ (\A x \in Requests : x # q => req'[x] = req[x])
              /\ req' = [x \in Requests |-> req'[x]]
          BY <4>2
        <5>4. req' = [req EXCEPT ![q] = req'[q]]
          BY <5>3
        <5>6. req'[q] \in Requested /\ Fitting(req'[q])
          BY <5>1, <5>2, <5>5
        <5>7. Known
          BY <5>4, <5>6
        <5> QED
          BY <4>2, <5>7
      <4>3. CASE /\ req' = [req EXCEPT ![q] = Decided(key.tier)]
                 /\ cache' = [cache EXCEPT ![Home[q]] = Entry(key.tier)]
        <5>1. key.tier \in KeyTiers /\ key.tier \in Tiers
          BY DEF KeyTiers
        <5> QED
          BY <4>3, <5>1, <2>2
      <4> QED
        BY <2>8, <4>1, <4>2, <4>3 DEF ReadKey
    <3>2. Counted
      BY <2>8, <3>1, <2>17, <2>4 DEF ReadKey, Open
    <3> QED
      BY <2>8, <3>1, <3>2 DEF ReadKey
  <2>9. ASSUME WriteKey(q) PROVE Known /\ Caches(cache') /\ Same /\ Counted
    <3>1. Known
      BY <2>9, <2>1, <2>2 DEF WriteKey
    <3>2. Caches(cache')
      BY <2>9, <2>1 DEF WriteKey
    <3>3. Counted
      BY <2>9, <3>1, <2>17, <2>4 DEF WriteKey, Open
    <3> QED
      BY <2>9, <2>6, <3>1, <3>2, <3>3 DEF WriteKey
  <2>10. ASSUME LookupFails(q) PROVE Known /\ Caches(cache') /\ Same /\ Counted
    <3>1. Known /\ Caches(cache')
      BY <2>10, <2>5, <2>1 DEF LookupFails
    <3>2. Counted
      <4>1. q \in Open /\ UNCHANGED <<count, served, arrivals>>
        BY <2>10 DEF LookupFails, Open
      <4>2. faults' \in 0 .. MaxFaults /\ faults <= faults'
        BY <2>10 DEF LookupFails, Fault
      <4> QED
        BY <4>1, <4>2, <3>1, <2>17, <2>4
    <3> QED
      BY <2>10, <2>6, <3>1, <3>2 DEF LookupFails
  <2>11. ASSUME GetCount(q) PROVE Known /\ Caches(cache') /\ Same /\ Counted
    <3>1. PICK step \in {"incr", "refused"} : req' = [req EXCEPT ![q].pc = step]
      BY <2>11 DEF GetCount
    <3>2. req[q].pc = "get" /\ [req[q] EXCEPT !.pc = step] \in Requested /\ Fitting([req[q] EXCEPT !.pc = step])
      BY <2>11, <2>1 DEF GetCount
    <3>3. Known
      BY <3>1, <3>2
    <3>4. Counted
      BY <2>11, <3>2, <3>3, <2>17, <2>4 DEF GetCount, Open
    <3> QED
      BY <2>11, <3>3, <3>4 DEF GetCount
  <2>12. ASSUME Increment(q) \/ CountFails(q) PROVE Known /\ Caches(cache') /\ Same /\ Counted
    <3>1. /\ req' = [req EXCEPT ![q] = NoRequest] /\ Admit(q) /\ req[q].pc \in {"get", "incr"}
          /\ UNCHANGED <<arrivals, cache>> /\ Same
      BY <2>12 DEF Increment, CountFails
    <3>2. Known /\ Open' \subseteq Open \ {q} /\ q \in Open
      <4>1. NoRequest.pc \notin {"read", "write", "get", "incr"}
        BY DEF NoRequest
      <4> QED
        BY <3>1, <4>1, <2>1, <2>3 DEF Open
    <3>3. \/ count' = [count EXCEPT ![<<req[q].tier, req[q].minute>>] = @ + 1] /\ UNCHANGED faults
          \/ faults' = faults + 1
             /\ count' \in {count, [count EXCEPT ![<<req[q].tier, req[q].minute>>] = @ + 1]}
      BY <2>12 DEF Increment, CountFails, Fault, Window
    <3>4. faults' \in 0 .. MaxFaults
      BY <2>12 DEF Increment, CountFails, Fault
    <3>5. Counted
      BY <3>1, <3>2, <3>3, <3>4, <2>1, LetThrough
    <3> QED
      BY <3>1, <3>2, <3>5
  <2>13. ASSUME Answer(q) PROVE Known /\ Caches(cache') /\ Same /\ Counted
    <3>1. Known
      BY <2>13, <2>1 DEF Answer
    <3>2. Open' \subseteq Open
      BY <2>13 DEF Answer, Open, NoRequest
    <3>3. Counted
      BY <2>13, <3>2, Waits DEF Answer
    <3> QED
      BY <2>13, <3>1, <3>3 DEF Answer
  <2>14. Known /\ Caches(cache') /\ Same /\ Counted
    BY <1>3, <2>7, <2>8, <2>9, <2>10, <2>11, <2>12, <2>13 DEF Request
  <2>15. cache' \in [Processes -> {None} \cup [tier : KeyTiers, expires : 0 .. (MaxTime + Ttl)]]
    BY <2>14, CacheKept
  <2>16. req' \in [Requests -> Requested] /\ (\A x \in Requests : Fitting(req'[x]))
    BY <2>14, RequestKept
  <2> QED
    BY <2>14, <2>15, <2>16, <1>0
<1>4. ASSUME UNCHANGED gateVars PROVE GateInv'
  <2>1. Open' = Open
    BY <1>4 DEF gateVars, Open
  <2> QED
    BY <1>4, <1>0, <2>1 DEF gateVars, rates, lookups, GateTypeOK, Admitted, Fitting
<1> QED
  BY <1>1, <1>2, <1>3, <1>4 DEF GateNext

\* Every reachable state of the gate is well typed, and its books are in order.
THEOREM GateTypeCorrect == GateSpec => []GateTypeOK
<1>1. GateInv => GateTypeOK
  BY DEF GateInv
<1> QED
  BY <1>1, GateInitInv, GateStepInv, PTL DEF GateSpec

LEMMA GateInvariant == GateSpec => []GateInv
BY GateInitInv, GateStepInv, PTL DEF GateSpec

-----------------------------------------------------------------------------
(* The limit.  A request that has read the counter below its limit counts   *)
(* one more; of these there are as many as requests, and the one that would *)
(* reach the limit first has still read it below.                           *)

Counting(t, w) == {q \in Requests : req[q].pc = "incr" /\ req[q].tier = t /\ req[q].minute = w}

Excess(t) == IF Limit[t] = 0 THEN 0 ELSE Cardinality(Requests) - 1

CountBounded ==
  \A t \in Tiers, w \in Minutes : Limit[t] # NoLimit =>
    count[<<t, w>>] + Cardinality(Counting(t, w)) <= Limit[t] + Excess(t)

LEMMA CountingFinite ==
  ASSUME NEW t, NEW w
  PROVE  /\ IsFiniteSet(Counting(t, w)) /\ IsFiniteSet(Counting(t, w)')
         /\ Cardinality(Counting(t, w)) \in Nat
         /\ Cardinality(Counting(t, w)') \in 0 .. Cardinality(Requests) /\ Cardinality(Requests) \in Nat
<1>1. Counting(t, w) \subseteq Requests /\ Counting(t, w)' \subseteq Requests
  BY DEF Counting
<1> QED
  BY <1>1, GateAssumption, FS_Subset, FS_CardinalityType

LEMMA CountBoundedStep == GateInv /\ CountBounded /\ [GateNext]_gateVars => CountBounded'
<1> SUFFICES ASSUME GateInv, CountBounded, [GateNext]_gateVars,
                    NEW t \in Tiers, NEW w \in Minutes, Limit[t] # NoLimit
             PROVE  (count[<<t, w>>] + Cardinality(Counting(t, w)) <= Limit[t] + Excess(t))'
  BY DEF CountBounded, Minutes
<1> USE DEF GateInv, GateTypeOK
<1> DEFINE C == Counting(t, w)
<1> DEFINE CountStep ==
      \/ C' \subseteq C /\ count'[<<t, w>>] = count[<<t, w>>]
      \/ \E q \in C : C' \subseteq C \ {q} /\ count'[<<t, w>>] \in {count[<<t, w>>], count[<<t, w>>] + 1}
      \/ count'[<<t, w>>] = count[<<t, w>>] /\ count[<<t, w>>] < Limit[t]
<1>1. CountStep
  <2>1. ASSUME ClockTick \/ Operator \/ UNCHANGED gateVars PROVE C' \subseteq C /\ count' = count
    <3>1. UNCHANGED <<req, count>>
      BY <2>1 DEF ClockTick, Operator, UpdateKey, StartRevoke, Revoke, Clear, ChangeFails, rates, gateVars
    <3> QED
      BY <3>1 DEF Counting
  <2>2. ASSUME NEW q \in Requests, Arrive(q) \/ ReadKey(q) \/ WriteKey(q) \/ LookupFails(q) \/ Answer(q)
        PROVE  C' \subseteq C /\ count' = count
    <3>1. count' = count
      BY <2>2 DEF Arrive, ReadKey, WriteKey, LookupFails, Answer, rates
    <3>2. req'[q].pc # "incr"
      <4>1. CASE AsAnonymous(q)
        <5>1. Decided(Anonymous).pc # "incr"
          BY GateAssumption, DecidedType
        <5> QED
          BY <4>1, <5>1 DEF AsAnonymous
      <4>2. CASE Arrive(q) /\ ~AsAnonymous(q)
        <5>1. Fresh(cache[Home[q]]) => Decided(cache[Home[q]].tier).pc # "incr"
          BY GateAssumption, DecidedType DEF Fresh, KeyTiers
        <5> QED
          BY <4>2, <5>1 DEF Arrive
      <4>3. CASE ReadKey(q) /\ ~AsAnonymous(q)
        <5>1. Decided(key.tier).pc # "incr"
          BY DecidedType DEF KeyTiers
        <5> QED
          BY <4>3, <5>1 DEF ReadKey
      <4>4. CASE WriteKey(q)
        <5>1. Decided(req[q].tier).pc # "incr"
          BY DecidedType
        <5> QED
          BY <4>4, <5>1 DEF WriteKey
      <4>5. CASE (LookupFails(q) /\ ~AsAnonymous(q)) \/ Answer(q)
        BY <4>5 DEF LookupFails, Answer, NoRequest
      <4> QED
        BY <2>2, <4>1, <4>2, <4>3, <4>4, <4>5
    <3>3. \A x \in Requests : x # q => req'[x] = req[x]
      BY <2>2 DEF Arrive, ReadKey, WriteKey, LookupFails, Answer, AsAnonymous
    <3> QED
      BY <3>1, <3>2, <3>3 DEF Counting
  <2>3. ASSUME NEW q \in Requests, GetCount(q) PROVE CountStep
    <3>1. count' = count /\ \A x \in Requests : x # q => req'[x] = req[x]
      BY <2>3 DEF GetCount, rates
    <3>2. CASE C' \subseteq C
      BY <3>1, <3>2
    <3>3. CASE ~(C' \subseteq C)
      <4>1. req'[q].pc = "incr" /\ req'[q].tier = t /\ req'[q].minute = w
        BY <3>1, <3>3 DEF Counting
      <4>2. req[q].tier = t /\ req[q].minute = w
        BY <2>3, <4>1 DEF GetCount
      <4>3. Allows(count[<<t, w>>], t)
        BY <2>3, <4>1, <4>2 DEF GetCount, Window
      <4> QED
        BY <3>1, <4>3 DEF Allows
    <3> QED
      BY <3>2, <3>3
  <2>4. ASSUME NEW q \in Requests, Increment(q) \/ CountFails(q) PROVE CountStep
    <3>1. C' \subseteq C \ {q}
      BY <2>4 DEF Increment, CountFails, NoRequest, Counting
    <3> DEFINE d == <<req[q].tier, req[q].minute>>
    <3>2. count' = count \/ (req[q].pc = "incr" /\ count' = [count EXCEPT ![d] = @ + 1])
      BY <2>4 DEF Increment, CountFails, Window
    <3>3. CASE count' = count
      BY <3>1, <3>3
    <3>4. CASE req[q].pc = "incr" /\ count' = [count EXCEPT ![d] = @ + 1]
      <4>1. CASE d = <<t, w>>
        <5>1. q \in C
          BY <3>4, <4>1 DEF Counting
        <5>2. count'[<<t, w>>] = count[<<t, w>>] + 1
          BY <3>4, <4>1 DEF Minutes
        <5> QED
          BY <3>1, <5>1, <5>2
      <4>2. CASE d # <<t, w>>
        BY <3>1, <3>4, <4>2
      <4> QED
        BY <4>1, <4>2
    <3> QED
      BY <3>2, <3>3, <3>4
  <2> QED
    BY <2>1, <2>2, <2>3, <2>4 DEF GateNext, Request
<1>2. count[<<t, w>>] \in Nat /\ Limit[t] \in Nat /\ count'[<<t, w>>] \in Nat
  BY GateAssumption, GateStepInv
<1>3. count[<<t, w>>] + Cardinality(C) <= Limit[t] + Excess(t)
  BY DEF CountBounded
<1>7. /\ IsFiniteSet(C) /\ IsFiniteSet(C') /\ Cardinality(C) \in Nat
      /\ Cardinality(C') \in 0 .. Cardinality(Requests) /\ Cardinality(Requests) \in Nat
  BY CountingFinite
<1>8. Excess(t) = (IF Limit[t] = 0 THEN 0 ELSE Cardinality(Requests) - 1)
  BY DEF Excess
<1> HIDE DEF C, GateInv, CountStep
<1>4. ASSUME C' \subseteq C, count'[<<t, w>>] = count[<<t, w>>]
      PROVE  count'[<<t, w>>] + Cardinality(C') <= Limit[t] + Excess(t)
  <2>1. Cardinality(C') <= Cardinality(C)
    BY <1>4, <1>7, FS_Subset
  <2> QED
    BY <1>4, <2>1, <1>2, <1>3, <1>7, <1>8
<1>5. ASSUME NEW q \in C, C' \subseteq C \ {q}, count'[<<t, w>>] \in {count[<<t, w>>], count[<<t, w>>] + 1}
      PROVE  count'[<<t, w>>] + Cardinality(C') <= Limit[t] + Excess(t)
  <2>1. IsFiniteSet(C \ {q}) /\ Cardinality(C \ {q}) = Cardinality(C) - 1
    BY <1>5, <1>7, FS_RemoveElement
  <2>2. Cardinality(C') <= Cardinality(C \ {q})
    BY <1>5, <2>1, FS_Subset
  <2> QED
    BY <1>5, <2>1, <2>2, <1>2, <1>3, <1>7, <1>8
<1>6. ASSUME count'[<<t, w>>] = count[<<t, w>>], count[<<t, w>>] < Limit[t]
      PROVE  count'[<<t, w>>] + Cardinality(C') <= Limit[t] + Excess(t)
  BY <1>6, <1>2, <1>7, <1>8
<1>9. Excess(t)' = Excess(t)
  BY DEF Excess
<1> QED
  BY <1>1, <1>4, <1>5, <1>6, <1>9 DEF C, CountStep

\* However many ask at once and whatever fails, a limit is overrun by no more than requests
\* are open beside one and by one for each failure.
THEOREM LimitOverrun == GateSpec => []OverrunIsBounded
<1>1. GateInit => CountBounded
  <2> SUFFICES ASSUME GateInit, NEW t \in Tiers, NEW w \in Minutes, Limit[t] # NoLimit
               PROVE  count[<<t, w>>] + Cardinality(Counting(t, w)) <= Limit[t] + Excess(t)
    BY DEF CountBounded
  <2>1. Counting(t, w) = {} /\ count[<<t, w>>] = 0
    BY DEF GateInit, Counting, NoRequest
  <2>2. Limit[t] \in Nat /\ Cardinality(Requests) \in Nat
    BY GateAssumption, FS_CardinalityType
  <2>3. Cardinality(Counting(t, w)) = 0
    BY <2>1, FS_EmptySet
  <2> QED
    BY <2>1, <2>2, <2>3 DEF Excess
<1>2. GateInv /\ CountBounded => OverrunIsBounded
  <2> SUFFICES ASSUME GateInv, CountBounded, NEW t \in Tiers, NEW w \in Minutes, Limit[t] # NoLimit
               PROVE  served[<<t, w>>] <= Limit[t] + Excess(t) + faults
    BY DEF OverrunIsBounded, Excess
  <2>1. /\ count[<<t, w>>] \in Nat /\ served[<<t, w>>] \in Nat /\ Limit[t] \in Nat /\ faults \in Nat
        /\ Cardinality(Requests) \in Nat /\ Cardinality(Counting(t, w)) \in Nat
    BY GateAssumption, FS_CardinalityType, CountingFinite DEF GateInv, GateTypeOK
  <2>2. served[<<t, w>>] <= count[<<t, w>>] + faults
    BY DEF GateInv, Admitted
  <2>3. count[<<t, w>>] + Cardinality(Counting(t, w)) <= Limit[t] + Excess(t)
    BY DEF CountBounded
  <2> QED
    BY <2>1, <2>2, <2>3 DEF Excess
<1> QED
  BY <1>1, <1>2, GateInvariant, CountBoundedStep, PTL DEF GateSpec

\* A 429 is sent only when the limit of its minute has been let through, whatever failed.
THEOREM RefusalsAreDue == GateSpec => []RefusedOnlyWhenFull
<1>1. GateInit => RefusedOnlyWhenFull
  BY DEF GateInit, RefusedOnlyWhenFull, NoRequest
<1>2. GateInv /\ RefusedOnlyWhenFull /\ [GateNext]_gateVars => RefusedOnlyWhenFull'
  <2> SUFFICES ASSUME GateInv, RefusedOnlyWhenFull, [GateNext]_gateVars
               PROVE  RefusedOnlyWhenFull'
    OBVIOUS
  <2> USE DEF GateInv, GateTypeOK
  <2> USE GateAssumption
  <2>1. \A d \in Tiers \X Minutes : served'[d] >= served[d]
    <3>1. served' = served \/ \E d \in Tiers \X Minutes : served' = [served EXCEPT ![d] = @ + 1]
      <4>1. CASE \E q \in Requests : Admit(q)
        BY <4>1 DEF Admit
      <4>2. CASE served' = served
        BY <4>2
      <4> QED
        BY <4>1, <4>2 DEF GateNext, Operator, Request, ClockTick, UpdateKey, StartRevoke, Revoke, Clear,
             ChangeFails, Arrive, ReadKey, WriteKey, LookupFails, GetCount, Increment, CountFails, Answer,
             rates, gateVars
    <3> QED
      BY <3>1
  <2>2. ASSUME NEW q \in Requests, req'[q].pc = "refused", req'[q] # req[q]
        PROVE  /\ req'[q].tier = req[q].tier /\ req'[q].minute = req[q].minute
               /\ count[<<req[q].tier, req[q].minute>>] >= Limit[req[q].tier]
               /\ Limit[req[q].tier] \in Nat
    <3>1. GetCount(q)
      <4>1. ASSUME NEW x \in Requests, Request(x) PROVE x = q
        BY <2>2, <4>1 DEF Request, Arrive, ReadKey, WriteKey, LookupFails, AsAnonymous, GetCount,
             Increment, CountFails, Answer
      <4>2. Request(q)
        BY <2>2, <4>1 DEF GateNext, Operator, ClockTick, UpdateKey, StartRevoke, Revoke, Clear,
             ChangeFails, gateVars
      <4>3. ASSUME Arrive(q) \/ ReadKey(q) \/ WriteKey(q) \/ LookupFails(q) PROVE FALSE
        <5>1. \A t \in Tiers : Decided(t).pc # "refused"
          BY DecidedType
        <5>2. \A t \in KeyTiers : t \in Tiers
          BY DEF KeyTiers
        <5> QED
          BY <2>2, <4>3, <5>1, <5>2 DEF Arrive, ReadKey, WriteKey, LookupFails, AsAnonymous, Fresh, NoRequest
      <4>4. ASSUME Increment(q) \/ CountFails(q) \/ Answer(q) PROVE FALSE
        BY <2>2, <4>4 DEF Increment, CountFails, Answer, NoRequest
      <4> QED
        BY <4>2, <4>3, <4>4 DEF Request
    <3>2. req'[q].tier = req[q].tier /\ req'[q].minute = req[q].minute
          /\ ~Allows(count[<<req[q].tier, req[q].minute>>], req[q].tier)
      BY <2>2, <3>1 DEF GetCount, Window
    <3>3. Limit[req[q].tier] \in Nat /\ count[<<req[q].tier, req[q].minute>>] \in Nat
      BY <3>1 DEF GetCount
    <3> QED
      BY <3>2, <3>3 DEF Allows
  <2>3. ASSUME NEW q \in Requests, req'[q].pc = "refused"
        PROVE  served'[<<req'[q].tier, req'[q].minute>>] >= Limit[req'[q].tier]
    <3> DEFINE d == <<req[q].tier, req[q].minute>>
    <3>1. req[q].tier \in Tiers /\ req[q].minute \in Minutes /\ count[d] <= served[d]
      BY DEF Admitted
    <3>2. count[d] \in Nat /\ served[d] \in Nat /\ served'[d] \in Nat /\ served'[d] >= served[d]
      BY <2>1, <3>1, GateStepInv
    <3>3. CASE req'[q] # req[q]
      <4>1. /\ req'[q].tier = req[q].tier /\ req'[q].minute = req[q].minute
            /\ count[d] >= Limit[req[q].tier] /\ Limit[req[q].tier] \in Nat
        BY <2>2, <2>3, <3>3
      <4> HIDE DEF d
      <4>2. served'[d] >= Limit[req[q].tier]
        BY <3>1, <3>2, <4>1
      <4> QED
        BY <4>1, <4>2 DEF d
    <3>4. CASE req'[q] = req[q]
      <4>1. served[d] >= Limit[req[q].tier] /\ Limit[req[q].tier] \in Nat
        BY <2>3, <3>4 DEF RefusedOnlyWhenFull
      <4> QED
        BY <3>2, <3>4, <4>1
    <3> QED
      BY <3>3, <3>4
  <2> QED
    BY <2>3 DEF RefusedOnlyWhenFull
<1> QED
  BY <1>1, <1>2, GateInvariant, PTL DEF GateSpec

-----------------------------------------------------------------------------
(* The tier.                                                                *)

RightFor(t) == key.active /\ t = key.tier

\* The tiers a lookup may hand on: what is cached and fresh, what the row says, what it read.
OfRequest(q, t) ==
  \/ Fresh(cache[Home[q]]) /\ t = cache[Home[q]].tier
  \/ RightFor(t)
  \/ req[q].pc = "write" /\ t = req[q].tier

\* What a request leaves alone, and what becomes of tiers: all that is read, cached or decided
\* comes from the row or from what was read or cached before.
LEMMA RequestEffects ==
  ASSUME GateInv, NEW q \in Requests, Request(q)
  PROVE  /\ UNCHANGED <<now, admin, author>> /\ key'.active = key.active /\ key'.tier = key.tier
         /\ \A x \in Requests : x # q => req'[x] = req[x]
         /\ req'[q].pc = "write" => RightFor(req'[q].tier)
         /\ \A w \in Processes :
              \/ cache'[w] \in {None, cache[w]}
              \/ \E t \in KeyTiers : /\ w = Home[q] /\ cache'[w] = Entry(t) /\ req'[q].pc # "write"
                                     /\ RightFor(t) \/ (req[q].pc = "write" /\ t = req[q].tier)
         /\ UNCHANGED <<pending, settled>> \/ Leave(q)
         /\ Looking(q) /\ req'[q].pc \in {"get", "served"} =>
              req'[q].tier = Anonymous \/ OfRequest(q, req'[q].tier)
<1> USE GateAssumption
<1> USE DEF GateInv, GateTypeOK, RightFor, OfRequest
<1>1. \A t \in Tiers : Decided(t).pc # "write" /\ Decided(t).tier = t
  BY DecidedType
<1>2. \A t \in KeyTiers : t \in Tiers
  BY DEF KeyTiers
<1>3. NoRequest.pc = "idle"
  BY DEF NoRequest
<1>4. CASE Arrive(q)
  BY <1>4, <1>1, <1>2 DEF Arrive, AsAnonymous, Fresh, lookups
<1>5. CASE ReadKey(q)
  BY <1>5, <1>1, <1>2 DEF ReadKey, AsAnonymous, lookups
<1>6. CASE WriteKey(q)
  BY <1>6, <1>1, <1>2 DEF WriteKey, Leave, Fitting
<1>7. CASE LookupFails(q)
  BY <1>7, <1>1, <1>3 DEF LookupFails, AsAnonymous, Leave
<1>8. CASE GetCount(q)
  BY <1>8 DEF GetCount, lookups, Looking
<1>9. CASE Increment(q) \/ CountFails(q) \/ Answer(q)
  BY <1>9, <1>3 DEF Increment, CountFails, Answer, lookups
<1> QED
  BY <1>4, <1>5, <1>6, <1>7, <1>8, <1>9 DEF Request

\* What the process of the operator has read or cached since the change is right; an entry
\* of before is about to be cleared.
SeenInv ==
  author # None =>
    /\ \A q \in Requests : req[q].pc = "write" /\ Home[q] = author => RightFor(req[q].tier)
    /\ cache[author] # None /\ ~(admin.pc = "clear" /\ admin.worker = author)
         => RightFor(cache[author].tier)

LEMMA SeenStep == GateInv /\ SeenInv /\ [GateNext]_gateVars => SeenInv'
<1> SUFFICES ASSUME GateInv, SeenInv, [GateNext]_gateVars PROVE SeenInv'
  OBVIOUS
<1> USE GateAssumption
<1> USE DEF GateInv, GateTypeOK, SeenInv, RightFor
<1>1. ASSUME ClockTick \/ UNCHANGED gateVars PROVE SeenInv'
  BY <1>1 DEF ClockTick, rates, lookups, gateVars
<1>2. ASSUME NEW w \in Processes, NEW new, Change(w, new), UNCHANGED <<cache, req>> PROVE SeenInv'
  BY <1>2 DEF Change
<1>3. ASSUME Operator PROVE SeenInv'
  <2>1. ASSUME NEW w \in Processes, NEW active \in BOOLEAN, NEW tier \in KeyTiers, UpdateKey(w, active, tier)
        PROVE  SeenInv'
    BY <2>1, <1>2 DEF UpdateKey
  <2>2. ASSUME NEW w \in Processes, StartRevoke(w) PROVE SeenInv'
    BY <2>2 DEF StartRevoke, lookups
  <2>3. ASSUME Revoke PROVE SeenInv'
    BY <2>3 DEF Revoke, Change, lookups
  <2>4. ASSUME Clear PROVE SeenInv'
    BY <2>4 DEF Clear, Cleared, NoChange, lookups
  <2>5. ASSUME ChangeFails PROVE SeenInv'
    BY <2>5 DEF ChangeFails, NoChange, lookups
  <2> QED
    BY <1>3, <2>1, <2>2, <2>3, <2>4, <2>5 DEF Operator
<1>4. ASSUME NEW q \in Requests, Request(q) PROVE SeenInv'
  <2>1. author' = author /\ admin' = admin /\ key'.active = key.active /\ key'.tier = key.tier
    BY <1>4, RequestEffects
  <2>2. ASSUME NEW x \in Requests, req'[x].pc = "write", Home[x] = author, author # None
        PROVE  RightFor(req'[x].tier)
    BY <1>4, <2>2, RequestEffects
  <2>3. ASSUME author # None, cache'[author] # None, ~(admin.pc = "clear" /\ admin.worker = author)
        PROVE  RightFor(cache'[author].tier)
    <3>1. CASE cache'[author] \in {None, cache[author]}
      BY <2>3, <3>1
    <3>2. CASE \E t \in KeyTiers : /\ author = Home[q] /\ cache'[author] = Entry(t)
                                   /\ RightFor(t) \/ (req[q].pc = "write" /\ t = req[q].tier)
      BY <2>3, <3>2, EntryType
    <3> QED
      BY <1>4, <2>3, <3>1, <3>2, RequestEffects
  <2> QED
    BY <2>1, <2>2, <2>3
<1> QED
  BY <1>1, <1>3, <1>4 DEF GateNext

\* A change is seen at once where it was made.
THEOREM ChangeIsSeenLocally == GateSpec => []LocalChangeIsSeen
<1>1. GateInit => SeenInv
  BY DEF GateInit, SeenInv
<1>2. GateInv /\ SeenInv => LocalChangeIsSeen
  BY DEF SeenInv, LocalChangeIsSeen, RightFor
<1> QED
  BY <1>1, <1>2, GateInvariant, SeenStep, PTL DEF GateSpec

\* What was read before the last change belongs to a lookup that is still pending; what is
\* cached since it ended is right, or was cached by its end.
RecentInv ==
  /\ \A q \in Requests : req[q].pc = "write" => RightFor(req[q].tier) \/ q \in pending
  /\ \A w \in Processes : cache[w] # None =>
       /\ cache[w].expires <= now + Ttl
       /\ RightFor(cache[w].tier) \/ pending # {} \/ cache[w].expires <= settled + Ttl

LEMMA RecentStep == GateInv /\ RecentInv /\ [GateNext]_gateVars => RecentInv'
<1> SUFFICES ASSUME GateInv, RecentInv, [GateNext]_gateVars PROVE RecentInv'
  OBVIOUS
<1> USE GateAssumption
<1> USE DEF GateInv, GateTypeOK, RecentInv, RightFor, Times
<1>0. \A w \in Processes : cache[w] # None => cache[w].expires \in Nat
  OBVIOUS
<1>1. ASSUME ClockTick \/ UNCHANGED gateVars PROVE RecentInv'
  BY <1>0, <1>1 DEF ClockTick, rates, lookups, gateVars
<1>2. ASSUME NEW w, NEW new, Change(w, new), UNCHANGED <<now, cache, req>> PROVE RecentInv'
  BY <1>2 DEF Change
<1>3. ASSUME Operator PROVE RecentInv'
  <2>1. ASSUME NEW w \in Processes, NEW active \in BOOLEAN, NEW tier \in KeyTiers, UpdateKey(w, active, tier)
        PROVE  RecentInv'
    BY <2>1, <1>2 DEF UpdateKey
  <2>2. ASSUME NEW w \in Processes, StartRevoke(w) PROVE RecentInv'
    BY <2>2 DEF StartRevoke, lookups
  <2>3. ASSUME Revoke PROVE RecentInv'
    <3>1. CASE key.current = admin.current
      BY <2>3, <3>1, <1>2 DEF Revoke
    <3>2. CASE key.current # admin.current
      BY <2>3, <3>2 DEF Revoke, lookups
    <3> QED
      BY <3>1, <3>2
  <2>4. ASSUME Clear PROVE RecentInv'
    BY <2>4 DEF Clear, Cleared, lookups
  <2>5. ASSUME ChangeFails PROVE RecentInv'
    BY <2>5 DEF ChangeFails, lookups
  <2> QED
    BY <1>3, <2>1, <2>2, <2>3, <2>4, <2>5 DEF Operator
<1>4. ASSUME NEW q \in Requests, Request(q) PROVE RecentInv'
  <2>1. now' = now /\ key'.active = key.active /\ key'.tier = key.tier
        /\ (UNCHANGED <<pending, settled>> \/ Leave(q))
    BY <1>4, RequestEffects
  <2>2. ASSUME NEW x \in Requests, req'[x].pc = "write"
        PROVE  RightFor(req'[x].tier) \/ x \in pending'
    BY <1>4, <2>1, <2>2, RequestEffects DEF Leave
  <2>3. ASSUME NEW w \in Processes, cache'[w] # None
        PROVE  /\ cache'[w].expires <= now + Ttl
               /\ RightFor(cache'[w].tier) \/ pending' # {} \/ cache'[w].expires <= settled' + Ttl
    <3>1. pending' # {} \/ (pending = {} /\ settled' = settled) \/ settled' = now
      BY <2>1 DEF Leave
    <3>2. CASE cache'[w] \in {None, cache[w]}
      BY <1>0, <2>3, <3>1, <3>2
    <3>3. ASSUME NEW t \in KeyTiers, w = Home[q], cache'[w] = Entry(t),
                 RightFor(t) \/ (req[q].pc = "write" /\ t = req[q].tier)
          PROVE  /\ cache'[w].expires <= now + Ttl
                 /\ RightFor(cache'[w].tier) \/ pending' # {} \/ cache'[w].expires <= settled' + Ttl
      <4>1. cache'[w].tier = t /\ cache'[w].expires <= now + Ttl
        BY <2>3, <3>3, EntryType
      <4>2. RightFor(t) \/ q \in pending
        BY <3>3
      <4>3. q \in pending => pending' # {} \/ settled' = now
        BY <2>1 DEF Leave
      <4> QED
        BY <4>1, <4>2, <4>3
    <3> QED
      BY <1>4, <3>2, <3>3, RequestEffects
  <2> QED
    BY <2>1, <2>2, <2>3
<1> QED
  BY <1>1, <1>3, <1>4 DEF GateNext

\* A tier is the one its key has, or had a TTL ago at most.
THEOREM TiersAreRecent == GateSpec => TierIsRecent
<1>1. GateInit => RecentInv
  BY DEF GateInit, RecentInv, NoRequest
<1>2. ASSUME GateInv, RecentInv, [GateNext]_gateVars, NEW q \in Requests, Looking(q),
             req'[q].pc \in {"get", "served"}, req'[q].tier # Anonymous
      PROVE  req'[q].tier = RightTier \/ pending # {} \/ now < settled + Ttl
  <2> USE GateAssumption
  <2> USE DEF GateInv, GateTypeOK, Times
  <2>1. req'[q] # req[q]
    BY <1>2 DEF Looking
  <2>2. PICK x \in Requests : Request(x)
    BY <1>2, <2>1 DEF GateNext, Operator, ClockTick, UpdateKey, StartRevoke, Revoke, Clear, ChangeFails, gateVars
  <2>3. x = q
    BY <1>2, <2>1, <2>2, RequestEffects
  <2>4. OfRequest(q, req'[q].tier)
    BY <1>2, <2>2, <2>3, RequestEffects
  <2>5. RightFor(req'[q].tier) => req'[q].tier = RightTier
    BY DEF RightFor, RightTier
  <2>6. ASSUME Fresh(cache[Home[q]]), req'[q].tier = cache[Home[q]].tier
        PROVE  RightFor(req'[q].tier) \/ pending # {} \/ now < settled + Ttl
    <3> DEFINE e == cache[Home[q]].expires
    <3>1. Home[q] \in Processes /\ cache[Home[q]] # None /\ e > now
      BY <2>6 DEF Fresh
    <3>2. e \in Nat /\ now \in Nat /\ settled + Ttl \in Nat
      BY <3>1, <1>2
    <3>3. RightFor(cache[Home[q]].tier) \/ pending # {} \/ e <= settled + Ttl
      BY <1>2, <3>1 DEF RecentInv
    <3> HIDE DEF e
    <3>4. e <= settled + Ttl => now < settled + Ttl
      BY <3>1, <3>2
    <3> QED
      BY <2>6, <3>3, <3>4
  <2>7. ASSUME req[q].pc = "write", req'[q].tier = req[q].tier
        PROVE  RightFor(req'[q].tier) \/ pending # {}
    BY <1>2, <2>7 DEF RecentInv
  <2> QED
    BY <2>4, <2>5, <2>6, <2>7 DEF OfRequest
<1>3. GateInv /\ RecentInv /\ [GateNext]_gateVars =>
        [\A q \in Requests : Looking(q) /\ req'[q].pc \in {"get", "served"} /\ req'[q].tier # Anonymous =>
           req'[q].tier = RightTier \/ pending # {} \/ now < settled + Ttl]_gateVars
  BY <1>2
<1> QED
  BY <1>1, <1>3, GateInvariant, RecentStep, PTL DEF GateSpec, TierIsRecent
=============================================================================
