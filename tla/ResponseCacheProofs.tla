------------------------ MODULE ResponseCacheProofs ------------------------
(***************************************************************************)
(* Proofs about ResponseCache, for any responses, TTLs, extensions, caps,  *)
(* computations at a time and number of failures.                          *)
(***************************************************************************)
EXTENDS ResponseCache, TLAPS

LEMMA Constants ==
  /\ \A k \in Keys : Ttl[k] \in Nat /\ HardTtl(k) \in Nat /\ HardTtl(k) > 0
  /\ Padding \in Nat /\ StaleIfError \in Nat /\ MaxExtension \in Nat
  /\ MaxFailures \in Nat /\ MaxUpdates \in Nat
BY TtlAssumption, ClockAssumption, BoundsAssumption DEF HardTtl

-----------------------------------------------------------------------------
(* What the operations on a copy return.                                   *)

LEMMA NoneType == None \in Copies
BY DEF None, Copies

LEMMA OlderType == \A c \in Copies : Older(c) \in Copies
<1> SUFFICES ASSUME NEW c \in Copies PROVE Older(c) \in Copies
  OBVIOUS
<1>1. c.life \in Nat /\ c.age \in Nat
  BY DEF Copies
<1>2. c.life > 1 => c.life - 1 \in Nat /\ c.age + 1 \in Nat
  BY <1>1
<1> QED
  BY <1>2, NoneType DEF Older, Copies

LEMMA OutdatedType == \A c \in Copies : Outdated(c) \in Copies
BY DEF Outdated, Copies

LEMMA ExtendedType == \A c \in Copies : Extended(c) \in Copies
BY Constants DEF Extended, Copies, Smaller

LEMMA FreshType ==
  ASSUME NEW k \in Keys
  PROVE  [current |-> TRUE, age |-> 0, life |-> HardTtl(k)] \in Copies
BY Constants DEF Copies

LEMMA IdleType == Idle \in Jobs
BY KeysAssumption, NoneType DEF Idle, Jobs, Steps

\* Of an outdated copy only the content has changed, and of a copy a tick older the sum
\* of what it has lived and what it has left is the same.
LEMMA OnTimeKept ==
  ASSUME NEW k \in Keys, NEW c \in Copies, NEW n \in Nat, OnTime(k, c, n)
  PROVE  OnTime(k, Outdated(c), n) /\ OnTime(k, Older(c), n)
<1>1. OnTime(k, Outdated(c), n)
  BY DEF OnTime, Outdated, Live, Copies
<1>2. OnTime(k, Older(c), n)
  <2>1. CASE c.life > 1
    <3>1. Older(c).age = c.age + 1 /\ Older(c).life = c.life - 1
      BY <2>1 DEF Older, Copies
    <3>2. c.age \in Nat /\ c.life \in Nat
      BY DEF Copies
    <3>3. HardTtl(k) \in Nat /\ MaxExtension \in Nat
      BY Constants
    <3> QED
      BY <2>1, <3>1, <3>2, <3>3 DEF OnTime, Live
  <2>2. CASE ~(c.life > 1)
    BY <2>2 DEF OnTime, Older, Live, None
  <2> QED
    BY <2>1, <2>2
<1> QED
  BY <1>1, <1>2

LEMMA NoneOnTime == \A k \in Keys, n \in Nat : OnTime(k, None, n)
BY DEF OnTime, Live, None

LEMMA FreshOnTime ==
  ASSUME NEW k \in Keys, NEW n \in Nat
  PROVE  OnTime(k, [current |-> TRUE, age |-> 0, life |-> HardTtl(k)], n)
<1>1. StaleIfError * n \in Nat
  BY Constants
<1> QED
  BY <1>1, Constants DEF OnTime

\* One failure more pays for one extension.
LEMMA OneMore ==
  ASSUME NEW k \in Keys, NEW c \in Copies, NEW n \in Nat, OnTime(k, c, n)
  PROVE  OnTime(k, c, n + 1) /\ (Live(c) => OnTime(k, Extended(c), n + 1))
<1> DEFINE e == StaleIfError * n
<1>1. e \in Nat /\ StaleIfError * (n + 1) = e + StaleIfError
  BY Constants
<1>2. c.age \in Nat /\ c.life \in Nat /\ StaleIfError \in Nat /\ MaxExtension \in Nat
      /\ HardTtl(k) \in Nat
  BY Constants DEF Copies
<1>3. Extended(c).age = c.age
      /\ Extended(c).life = Smaller(MaxExtension, c.life + StaleIfError)
  BY DEF Extended, Copies
<1>4. Live(c) => c.age + c.life <= HardTtl(k) + e
  BY DEF OnTime
<1> HIDE DEF e
<1>5. OnTime(k, c, n + 1)
  BY <1>1, <1>2, <1>4 DEF OnTime
<1>6. Live(c) => OnTime(k, Extended(c), n + 1)
  BY <1>1, <1>2, <1>3, <1>4 DEF OnTime, Smaller
<1> QED
  BY <1>5, <1>6

-----------------------------------------------------------------------------
(* Types.                                                                  *)

LEMMA TypeInit == Init => TypeOK
BY NoneType, IdleType, Constants DEF Init, TypeOK

LEMMA CachedType == TypeOK => \A k \in Keys : Cached(k) \in Copies
BY DEF TypeOK, Cached

LEMMA GetRecordType ==
  ASSUME TypeOK, NEW k \in Keys, GetRecord(k)
  PROVE  redis' \in [Keys -> Copies] /\ tagSet' \in SUBSET Keys /\ tagLife' \in Nat
<1>1. durable[k].life \in Nat
  BY DEF TypeOK, Copies
<1> QED
  BY <1>1, Constants DEF TypeOK, GetRecord, TagKey

LEMMA StartType ==
  ASSUME TypeOK, NEW p \in Tasks, NEW k \in Keys, NEW b \in BOOLEAN, NEW s \in Steps,
         Start(p, k, s, b)
  PROVE  task' \in [Tasks -> Jobs]
BY NoneType DEF TypeOK, Start, Jobs

LEMMA GoType ==
  ASSUME TypeOK, NEW p \in Tasks, NEW s \in Steps, Go(p, s)
  PROVE  task' \in [Tasks -> Jobs]
BY DEF TypeOK, Go, Jobs

LEMMA RestType ==
  ASSUME TypeOK, NEW p \in Tasks, Rest(p)
  PROVE  task' \in [Tasks -> Jobs]
BY IdleType DEF TypeOK, Rest

LEMMA TypeStep == TypeOK /\ [Next]_vars => TypeOK'
<1> SUFFICES ASSUME TypeOK, [Next]_vars PROVE TypeOK'
  OBVIOUS
<1>1. ASSUME NEW p \in Tasks, NEW k \in Keys, Ask(p, k) PROVE TypeOK'
  <2>1. redis' \in [Keys -> Copies] /\ tagSet' \in SUBSET Keys /\ tagLife' \in Nat
    BY <1>1, GetRecordType DEF Ask
  <2>2. task' \in [Tasks -> Jobs] /\ lock' \in [Keys -> BOOLEAN]
    <3>1. CASE ServeStale(p, k)
      BY <3>1, StartType DEF ServeStale, Steps, TypeOK
    <3>2. CASE Miss(p, k)
      BY <3>2, StartType DEF Miss, Steps, TypeOK
    <3>3. CASE Hit(k)
      BY <3>3 DEF Hit, TypeOK
    <3> QED
      BY <1>1, <3>1, <3>2, <3>3 DEF Ask
  <2> QED
    BY <1>1, <2>1, <2>2 DEF Ask, TypeOK
<1>2. ASSUME NEW p \in Tasks, WaitHit(p) PROVE TypeOK'
  <2>1. Key(p) \in Keys
    BY DEF Key, TypeOK, Jobs
  <2>2. redis' \in [Keys -> Copies] /\ tagSet' \in SUBSET Keys /\ tagLife' \in Nat
    BY <1>2, <2>1, GetRecordType DEF WaitHit
  <2> QED
    BY <1>2, <2>2, RestType DEF WaitHit, TypeOK
<1>3. ASSUME NEW p \in Tasks, GiveUpWaiting(p) PROVE TypeOK'
  BY <1>3, GoType DEF GiveUpWaiting, Steps, TypeOK, clocks
<1>4. ASSUME NEW p \in Tasks, Compute(p) PROVE TypeOK'
  <2>1. Key(p) \in Keys
    BY DEF Key, TypeOK, Jobs
  <2>2. task' \in [Tasks -> Jobs]
    BY <1>4, <2>1, FreshType, ZenonT(60) DEF Compute, TypeOK, Jobs, Steps
  <2> QED
    BY <1>4, <2>2 DEF Compute, TypeOK, clocks
<1>5. ASSUME NEW p \in Tasks, NotCached(p) PROVE TypeOK'
  BY <1>5, RestType DEF NotCached, TypeOK, clocks
<1>6. ASSUME NEW p \in Tasks, RefreshFails(p) PROVE TypeOK'
  <2>1. Key(p) \in Keys
    BY DEF Key, TypeOK, Jobs
  <2>2. redis' \in [Keys -> Copies] /\ tagSet' \in SUBSET Keys /\ tagLife' \in Nat
    BY <1>6, <2>1, GetRecordType DEF RefreshFails
  <2>3. task' \in [Tasks -> Jobs]
    <3>1. Cached(Key(p)) \in Copies
      BY <2>1, CachedType
    <3> QED
      BY <1>6, <3>1, RestType DEF RefreshFails, TypeOK, Jobs, Steps
  <2>4. failures' \in 0 .. MaxFailures
    BY <1>6, Constants DEF RefreshFails, TypeOK
  <2> QED
    BY <1>6, <2>2, <2>3, <2>4 DEF RefreshFails, TypeOK
<1>7. ASSUME NEW p \in Tasks, Extend(p) PROVE TypeOK'
  <2>1. task[p].held \in Copies
    BY DEF TypeOK, Jobs
  <2>2. redis' \in [Keys -> Copies]
    BY <1>7, <2>1, ExtendedType DEF Extend, TypeOK
  <2> QED
    BY <1>7, <2>2, RestType DEF Extend, TypeOK
<1>8. ASSUME NEW p \in Tasks, Store(p) \/ Persist(p) PROVE TypeOK'
  <2>1. task[p].held \in Copies
    BY DEF TypeOK, Jobs
  <2>2. redis' \in [Keys -> Copies] /\ durable' \in [Keys -> Copies]
    BY <1>8, <2>1 DEF Store, Persist, TypeOK
  <2>3. task' \in [Tasks -> Jobs]
    BY <1>8, GoType DEF Store, Persist, Steps
  <2> QED
    BY <1>8, <2>2, <2>3 DEF Store, Persist, TypeOK
<1>9. ASSUME NEW p \in Tasks, Tag(p) PROVE TypeOK'
  <2>1. Key(p) \in Keys
    BY DEF Key, TypeOK, Jobs
  <2>2. tagSet' \in SUBSET Keys /\ tagLife' \in Nat
    BY <1>9, <2>1, Constants DEF Tag, TagKey, TypeOK
  <2> QED
    BY <1>9, <2>2, RestType DEF Tag, TypeOK
<1>10. CASE Update
  <2>1. redis' \in [Keys -> Copies] /\ durable' \in [Keys -> Copies]
    BY <1>10, OutdatedType DEF Update, TypeOK
  <2>2. task' \in [Tasks -> Jobs]
    <3>1. \A p \in Tasks : task[p] \in Jobs /\ Outdated(task[p].held) \in Copies
      BY OutdatedType DEF TypeOK, Jobs
    <3> QED
      BY <1>10, <3>1 DEF Update, Jobs
  <2>3. updates' \in 0 .. MaxUpdates
    BY <1>10, Constants DEF Update, TypeOK
  <2> QED
    BY <1>10, <2>1, <2>2, <2>3 DEF Update, TypeOK
<1>11. CASE SweepDurable
  BY <1>11, NoneType DEF SweepDurable, TypeOK
<1>12. CASE SweepRedis
  BY <1>12, NoneType DEF SweepRedis, TypeOK
<1>13. CASE Tick
  <2>1. redis' \in [Keys -> Copies] /\ durable' \in [Keys -> Copies]
    BY <1>13, OlderType DEF Tick, TypeOK
  <2>2. tagLife' \in Nat /\ tagSet' \in SUBSET Keys
    BY <1>13 DEF Tick, TypeOK
  <2> QED
    BY <1>13, <2>1, <2>2 DEF Tick, TypeOK
<1>14. ASSUME NEW k \in Keys, LockExpires(k) \/ Forget(k) PROVE TypeOK'
  BY <1>14, NoneType DEF LockExpires, Forget, TypeOK, clocks
<1>15. CASE UNCHANGED vars
  BY <1>15 DEF vars, clocks, TypeOK
<1> QED
  BY <1>1, <1>2, <1>3, <1>4, <1>5, <1>6, <1>7, <1>8, <1>9, <1>10, <1>11, <1>12, <1>13,
     <1>14, <1>15 DEF Next

\* Every reachable state of the response cache is well typed: no copy has a negative
\* life and no task is at a step the wrapper does not have.
THEOREM TypeCorrect == Spec => []TypeOK
<1>1. Init => TypeOK
  BY TypeInit
<1>2. TypeOK /\ [Next]_vars => TypeOK'
  BY TypeStep
<1> QED
  BY <1>1, <1>2, PTL DEF Spec

-----------------------------------------------------------------------------
(* The life of a copy.                                                     *)

\* A failure is counted before the extension it pays for is written: whoever is about to
\* extend holds a copy that is on time even when it is extended.
ExtensionPaid ==
  \A p \in Tasks : At(p, "extend") =>
    Live(task[p].held) /\ OnTime(task[p].key, Extended(task[p].held), failures)

LifeInv == TypeOK /\ NoCopyOutstays /\ ExtensionPaid

LEMMA LifeInit == Init => LifeInv
<1> SUFFICES ASSUME Init PROVE LifeInv
  OBVIOUS
<1>1. TypeOK
  BY TypeInit
<1>2. Idle.key \in Keys /\ Idle.held = None /\ Idle.step = "idle"
  BY KeysAssumption DEF Idle
<1>3. NoCopyOutstays
  BY <1>2, NoneOnTime DEF Init, NoCopyOutstays
<1>4. ExtensionPaid
  BY <1>2 DEF Init, ExtensionPaid, At
<1> QED
  BY <1>1, <1>3, <1>4 DEF LifeInv

LEMMA CachedOnTime ==
  ASSUME TypeOK, NoCopyOutstays, NEW k \in Keys
  PROVE  Cached(k) \in Copies /\ OnTime(k, Cached(k), failures)
BY CachedType DEF NoCopyOutstays, Cached

LEMMA GetRecordOnTime ==
  ASSUME TypeOK, NoCopyOutstays, NEW k \in Keys, GetRecord(k)
  PROVE  \A l \in Keys : OnTime(l, redis'[l], failures)
BY DEF TypeOK, NoCopyOutstays, GetRecord

LEMMA HeldOnTime ==
  ASSUME TypeOK, NoCopyOutstays, NEW p \in Tasks
  PROVE  /\ task[p] \in Jobs /\ task[p].key \in Keys /\ task[p].held \in Copies
         /\ OnTime(task[p].key, task[p].held, failures)
BY DEF TypeOK, NoCopyOutstays, Jobs

\* A task that takes no part in a step keeps what it holds; one that stops or starts
\* anew holds nothing.
TaskKept(p) == task'[p] = task[p]
TaskFresh(p) == task'[p].key \in Keys /\ task'[p].held = None /\ task'[p].step # "extend"

LEMMA TasksOnTime ==
  ASSUME TypeOK, NoCopyOutstays, ExtensionPaid, failures' = failures,
         \A p \in Tasks : TaskKept(p) \/ TaskFresh(p)
  PROVE  /\ \A p \in Tasks : OnTime(task'[p].key, task'[p].held, failures')
         /\ ExtensionPaid'
<1>1. failures \in Nat
  BY Constants DEF TypeOK
<1>2. \A p \in Tasks : OnTime(task'[p].key, task'[p].held, failures')
  BY <1>1, NoneOnTime DEF NoCopyOutstays, TaskKept, TaskFresh
<1>3. ExtensionPaid'
  BY DEF ExtensionPaid, At, TaskKept, TaskFresh
<1> QED
  BY <1>2, <1>3

LEMMA RestFresh ==
  ASSUME TypeOK, NEW p \in Tasks, Rest(p)
  PROVE  \A q \in Tasks : TaskKept(q) \/ TaskFresh(q)
BY KeysAssumption DEF TypeOK, Rest, Idle, TaskKept, TaskFresh

LEMMA StartFresh ==
  ASSUME TypeOK, NEW p \in Tasks, NEW k \in Keys, NEW s, s # "extend", NEW b,
         Start(p, k, s, b)
  PROVE  \A q \in Tasks : TaskKept(q) \/ TaskFresh(q)
BY DEF TypeOK, Start, TaskKept, TaskFresh

\* A step that only moves a task on, other than to an extension.
LEMMA GoOnTime ==
  ASSUME TypeOK, NoCopyOutstays, ExtensionPaid, failures' = failures,
         NEW p \in Tasks, NEW s, s # "extend", Go(p, s)
  PROVE  /\ \A q \in Tasks : OnTime(task'[q].key, task'[q].held, failures')
         /\ ExtensionPaid'
<1>1. \A q \in Tasks : task'[q].key = task[q].key /\ task'[q].held = task[q].held
                      /\ (task'[q].step = "extend" => task[q].step = "extend")
  BY DEF Go, TypeOK, Jobs
<1> QED
  BY <1>1 DEF NoCopyOutstays, ExtensionPaid, At

LEMMA LifeStep == LifeInv /\ [Next]_vars => LifeInv'
<1> SUFFICES ASSUME LifeInv, [Next]_vars PROVE LifeInv'
  OBVIOUS
<1>0. TypeOK /\ NoCopyOutstays /\ ExtensionPaid /\ TypeOK' /\ failures \in Nat
  BY TypeStep, Constants DEF LifeInv, TypeOK
<1> DEFINE CopiesOK == /\ \A k \in Keys : OnTime(k, redis'[k], failures')
                       /\ \A k \in Keys : OnTime(k, durable'[k], failures')
           TasksOK == /\ \A p \in Tasks : OnTime(task'[p].key, task'[p].held, failures')
                      /\ ExtensionPaid'
<1>a. CopiesOK /\ TasksOK => LifeInv'
  BY <1>0 DEF LifeInv, NoCopyOutstays
<1>b. UNCHANGED <<redis, durable, failures>> => CopiesOK
  BY <1>0 DEF NoCopyOutstays
<1>c. UNCHANGED <<task, failures>> => TasksOK
  BY <1>0 DEF NoCopyOutstays, ExtensionPaid, At
<1>1. ASSUME NEW p \in Tasks, NEW k \in Keys, Ask(p, k) PROVE LifeInv'
  <2>1. CopiesOK
    BY <1>0, <1>1, GetRecordOnTime DEF Ask, NoCopyOutstays
  <2>2. \A q \in Tasks : TaskKept(q) \/ TaskFresh(q)
    <3>1. CASE ServeStale(p, k)
      BY <1>0, <3>1, StartFresh DEF ServeStale
    <3>2. CASE Miss(p, k)
      BY <1>0, <3>2, StartFresh DEF Miss
    <3>3. CASE Hit(k)
      BY <3>3 DEF Hit, TaskKept
    <3> QED
      BY <1>1, <3>1, <3>2, <3>3 DEF Ask
  <2>3. TasksOK
    BY <1>0, <1>1, <2>2, TasksOnTime DEF Ask
  <2> QED
    BY <1>a, <2>1, <2>3
<1>2. ASSUME NEW p \in Tasks, WaitHit(p) PROVE LifeInv'
  <2>1. CopiesOK
    BY <1>0, <1>2, HeldOnTime, GetRecordOnTime DEF WaitHit, Key, NoCopyOutstays
  <2>2. TasksOK
    BY <1>0, <1>2, RestFresh, TasksOnTime DEF WaitHit
  <2> QED
    BY <1>a, <2>1, <2>2
<1>3. ASSUME NEW p \in Tasks, GiveUpWaiting(p) PROVE LifeInv'
  BY <1>0, <1>3, <1>a, <1>b, GoOnTime DEF GiveUpWaiting, clocks
<1>4. ASSUME NEW p \in Tasks, Compute(p) PROVE LifeInv'
  <2>1. TasksOK
    <3>1. Key(p) \in Keys
      BY <1>0, HeldOnTime DEF Key
    <3>2. \A q \in Tasks :
            \/ TaskKept(q)
            \/ /\ task'[q].key = Key(p) /\ task'[q].step # "extend"
               /\ task'[q].held = [current |-> TRUE, age |-> 0, life |-> HardTtl(Key(p))]
      BY <1>0, <1>4 DEF Compute, TypeOK, Jobs, Key, TaskKept
    <3>3. failures' = failures
      BY <1>4 DEF Compute
    <3>4. \A q \in Tasks : OnTime(task'[q].key, task'[q].held, failures')
      BY <1>0, <3>1, <3>2, <3>3, FreshOnTime DEF NoCopyOutstays, TaskKept
    <3>5. ExtensionPaid'
      BY <1>0, <3>2, <3>3 DEF ExtensionPaid, At, TaskKept
    <3> QED
      BY <3>4, <3>5
  <2> QED
    BY <1>4, <1>a, <1>b, <2>1 DEF Compute, clocks
<1>5. ASSUME NEW p \in Tasks, NotCached(p) PROVE LifeInv'
  BY <1>0, <1>5, <1>a, <1>b, RestFresh, TasksOnTime DEF NotCached, clocks
<1>6. ASSUME NEW p \in Tasks, RefreshFails(p) PROVE LifeInv'
  <2>1. failures' = failures + 1 /\ Key(p) \in Keys
    BY <1>0, <1>6, HeldOnTime DEF RefreshFails, Key
  <2>2. Cached(Key(p)) \in Copies /\ OnTime(Key(p), Cached(Key(p)), failures)
    BY <1>0, <2>1, CachedOnTime
  <2>3. \A k \in Keys : OnTime(k, redis'[k], failures)
    BY <1>0, <1>6, <2>1, GetRecordOnTime DEF RefreshFails
  <2>4. CopiesOK
    <3>1. \A k \in Keys : redis'[k] \in Copies /\ durable[k] \in Copies
                        /\ durable'[k] = durable[k]
      BY <1>0, <1>6 DEF RefreshFails, TypeOK
    <3> QED
      BY <1>0, <2>1, <2>3, <3>1, OneMore DEF NoCopyOutstays
  <2>5. TasksOK
    <3>1. CASE Live(Cached(Key(p)))
      <4>1. \A q \in Tasks :
              \/ TaskKept(q)
              \/ task'[q].key = Key(p) /\ task'[q].held = Cached(Key(p))
        BY <1>0, <1>6, <3>1 DEF RefreshFails, TypeOK, Jobs, Key, TaskKept
      <4>2. \A q \in Tasks : OnTime(task'[q].key, task'[q].held, failures')
        BY <1>0, <2>1, <2>2, <4>1, HeldOnTime, OneMore DEF TaskKept
      <4>3. \A q \in Tasks : task'[q].step = "extend" =>
              Live(task'[q].held) /\ OnTime(task'[q].key, Extended(task'[q].held), failures')
        <5>1. ASSUME NEW q \in Tasks, task'[q].step = "extend", TaskKept(q)
              PROVE  Live(task'[q].held)
                     /\ OnTime(task'[q].key, Extended(task'[q].held), failures')
          <6>1. Live(task[q].held) /\ task[q].key \in Keys /\ task[q].held \in Copies
                /\ OnTime(task[q].key, Extended(task[q].held), failures)
            BY <1>0, <5>1, HeldOnTime DEF ExtensionPaid, At, TaskKept
          <6>2. OnTime(task[q].key, Extended(task[q].held), failures + 1)
            BY <1>0, <6>1, ExtendedType, OneMore
          <6> QED
            BY <2>1, <5>1, <6>1, <6>2 DEF TaskKept
        <5>2. Live(Cached(Key(p)))
              /\ OnTime(Key(p), Extended(Cached(Key(p))), failures + 1)
          BY <1>0, <2>1, <2>2, <3>1, OneMore
        <5> QED
          BY <2>1, <4>1, <5>1, <5>2
      <4> QED
        BY <4>2, <4>3 DEF ExtensionPaid, At
    <3>2. CASE ~Live(Cached(Key(p)))
      <4>1. \A q \in Tasks : TaskKept(q) \/ TaskFresh(q)
        BY <1>0, <1>6, <3>2, RestFresh DEF RefreshFails
      <4>2. \A q \in Tasks : OnTime(task'[q].key, task'[q].held, failures')
        BY <1>0, <2>1, <4>1, HeldOnTime, OneMore, NoneOnTime DEF TaskKept, TaskFresh
      <4>3. ExtensionPaid'
        <5>1. ASSUME NEW q \in Tasks, task'[q].step = "extend"
              PROVE  Live(task'[q].held)
                     /\ OnTime(task'[q].key, Extended(task'[q].held), failures')
          <6>1. Live(task[q].held) /\ task[q].key \in Keys /\ task[q].held \in Copies
                /\ OnTime(task[q].key, Extended(task[q].held), failures) /\ TaskKept(q)
            BY <1>0, <4>1, <5>1, HeldOnTime DEF ExtensionPaid, At, TaskKept, TaskFresh
          <6>2. OnTime(task[q].key, Extended(task[q].held), failures + 1)
            BY <1>0, <6>1, ExtendedType, OneMore
          <6> QED
            BY <2>1, <6>1, <6>2 DEF TaskKept
        <5> QED
          BY <5>1 DEF ExtensionPaid, At
      <4> QED
        BY <4>2, <4>3
    <3> QED
      BY <3>1, <3>2
  <2> QED
    BY <1>a, <2>4, <2>5
<1>7. ASSUME NEW p \in Tasks, Extend(p) PROVE LifeInv'
  <2>1. Key(p) \in Keys /\ OnTime(Key(p), Extended(task[p].held), failures)
    BY <1>0, <1>7, HeldOnTime DEF Extend, ExtensionPaid, Key
  <2>2. CopiesOK
    BY <1>0, <1>7, <2>1 DEF Extend, TypeOK, NoCopyOutstays
  <2>3. TasksOK
    BY <1>0, <1>7, RestFresh, TasksOnTime DEF Extend
  <2> QED
    BY <1>a, <2>2, <2>3
<1>8. ASSUME NEW p \in Tasks, Store(p) \/ Persist(p) PROVE LifeInv'
  <2>1. Key(p) \in Keys /\ OnTime(Key(p), task[p].held, failures)
    BY <1>0, HeldOnTime DEF Key
  <2>2. CopiesOK
    BY <1>0, <1>8, <2>1 DEF Store, Persist, TypeOK, NoCopyOutstays
  <2>3. TasksOK
    BY <1>0, <1>8, GoOnTime DEF Store, Persist
  <2> QED
    BY <1>a, <2>2, <2>3
<1>9. ASSUME NEW p \in Tasks, Tag(p) PROVE LifeInv'
  BY <1>0, <1>9, <1>a, <1>b, RestFresh, TasksOnTime DEF Tag
<1>10. CASE Update
  <2>1. /\ failures' = failures
        /\ \A k \in Keys : redis[k] \in Copies /\ durable[k] \in Copies
        /\ \A k \in Keys : redis'[k] = Outdated(redis[k]) /\ durable'[k] = Outdated(durable[k])
    BY <1>0, <1>10 DEF Update, TypeOK
  <2>2. CopiesOK
    BY <1>0, <2>1, OnTimeKept DEF NoCopyOutstays
  <2>3. \A p \in Tasks : /\ task'[p].key = task[p].key /\ task'[p].step = task[p].step
                        /\ task'[p].held = Outdated(task[p].held)
    BY <1>0, <1>10 DEF Update, TypeOK, Jobs
  <2>4. \A p \in Tasks : OnTime(task'[p].key, task'[p].held, failures')
    BY <1>0, <2>1, <2>3, HeldOnTime, OnTimeKept
  <2>5. ExtensionPaid'
    <3>1. ASSUME NEW p \in Tasks, task'[p].step = "extend"
          PROVE  Live(task'[p].held)
                 /\ OnTime(task'[p].key, Extended(task'[p].held), failures')
      <4>1. Live(task[p].held) /\ task[p].key \in Keys /\ task[p].held \in Copies
            /\ OnTime(task[p].key, Extended(task[p].held), failures)
        BY <1>0, <2>3, <3>1, HeldOnTime DEF ExtensionPaid, At
      <4>2. Live(Outdated(task[p].held))
            /\ Extended(Outdated(task[p].held)) = Outdated(Extended(task[p].held))
        BY <4>1 DEF Outdated, Extended, Live, Copies
      <4>3. OnTime(task[p].key, Outdated(Extended(task[p].held)), failures)
        BY <1>0, <4>1, ExtendedType, OnTimeKept
      <4> QED
        BY <2>1, <2>3, <4>2, <4>3
    <3> QED
      BY <3>1 DEF ExtensionPaid, At
  <2> QED
    BY <1>a, <2>2, <2>4, <2>5
<1>11. CASE SweepDurable
  <2>1. CopiesOK
    BY <1>0, <1>11, NoneOnTime DEF SweepDurable, NoCopyOutstays
  <2> QED
    BY <1>11, <1>a, <1>c, <2>1 DEF SweepDurable
<1>12. CASE SweepRedis
  <2>1. CopiesOK
    BY <1>0, <1>12, NoneOnTime DEF SweepRedis, NoCopyOutstays
  <2> QED
    BY <1>12, <1>a, <1>c, <2>1 DEF SweepRedis
<1>13. CASE Tick
  <2>1. \A k \in Keys : redis[k] \in Copies /\ durable[k] \in Copies
    BY <1>0 DEF TypeOK
  <2>2. CopiesOK
    BY <1>0, <1>13, <2>1, OnTimeKept DEF Tick, NoCopyOutstays
  <2> QED
    BY <1>13, <1>a, <1>c, <2>2 DEF Tick
<1>14. ASSUME NEW k \in Keys, LockExpires(k) PROVE LifeInv'
  BY <1>14, <1>a, <1>b, <1>c DEF LockExpires, clocks
<1>15. ASSUME NEW k \in Keys, Forget(k) PROVE LifeInv'
  <2>1. CopiesOK
    BY <1>0, <1>15, NoneOnTime DEF Forget, TypeOK, NoCopyOutstays
  <2> QED
    BY <1>15, <1>a, <1>c, <2>1 DEF Forget
<1>16. CASE UNCHANGED vars
  BY <1>16, <1>a, <1>b, <1>c DEF vars, clocks
<1> QED
  BY <1>1, <1>2, <1>3, <1>4, <1>5, <1>6, <1>7, <1>8, <1>9, <1>10, <1>11, <1>12, <1>13,
     <1>14, <1>15, <1>16 DEF Next

\* No copy of a response outstays its endpoint's promise, however refreshes, extensions
\* and refills from Postgres interleave: each failed refresh buys one extension.
THEOREM CopiesLeaveOnTime == Spec => []NoCopyOutstays
<1>1. Init => LifeInv
  BY LifeInit
<1>2. LifeInv /\ [Next]_vars => LifeInv'
  BY LifeStep
<1>3. LifeInv => NoCopyOutstays
  BY DEF LifeInv
<1> QED
  BY <1>1, <1>2, <1>3, PTL DEF Spec
=============================================================================
