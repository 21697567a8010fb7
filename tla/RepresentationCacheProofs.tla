--------------------- MODULE RepresentationCacheProofs ---------------------
(***************************************************************************)
(* Proofs about RepresentationCache, for any requests, refreshers and      *)
(* number of versions.                                                     *)
(***************************************************************************)
EXTENDS RepresentationCache, TLAPS

LEMMA TypeInit == Init => TypeOK
BY MaxVersionAssumption DEF Init, TypeOK, Idle, Entries, Steps, Phases, Versions, Copies, None

LEMMA TypeStep == TypeOK /\ [Next]_vars => TypeOK'
<1> SUFFICES ASSUME TypeOK, [Next]_vars PROVE TypeOK'
  OBVIOUS
<1> USE MaxVersionAssumption
<1> USE DEF TypeOK, Entries, Versions, Copies, None
<1>1. ASSUME NEW p \in Requests, Begin(p) PROVE TypeOK'
  <2>1. quiet' \in BOOLEAN
    BY <1>1 DEF Begin
  <2> QED
    BY <1>1, <2>1 DEF Begin, Become, Steps, stores, refreshVars
<1>17. ASSUME NEW p \in Requests, Abandon(p) PROVE TypeOK'
  BY <1>17 DEF Abandon, Finish, Idle, Steps, stores, refreshVars, history
<1>2. ASSUME NEW p \in Requests, ReadRedis(p) PROVE TypeOK'
  BY <1>2 DEF ReadRedis, Deliver, Become, Finish, Level, Idle, Steps, stores, refreshVars, history
<1>3. ASSUME NEW p \in Requests, ReadDurable(p) PROVE TypeOK'
  BY <1>3 DEF ReadDurable, Become, Level, Steps, stores, refreshVars, history
<1>4. ASSUME NEW p \in Requests, LoadRow(p) PROVE TypeOK'
  BY <1>4 DEF LoadRow, Steps, stores, refreshVars, history
<1>5. ASSUME NEW p \in Requests, Build(p) PROVE TypeOK'
  BY <1>5 DEF Build, Become, Steps, stores, refreshVars, history
<1>6. ASSUME NEW p \in Requests, StoreRedis(p) PROVE TypeOK'
  BY <1>6 DEF StoreRedis, Deliver, Become, Finish, Level, Step, Idle, Steps, refreshVars, history
<1>7. ASSUME NEW p \in Requests, StoreDurable(p) PROVE TypeOK'
  BY <1>7 DEF StoreDurable, Become, Level, Steps, refreshVars, history
<1>8. ASSUME NEW p \in Requests, Tag(p) PROVE TypeOK'
  <2>1. index' \in SUBSET Entries
    BY <1>8, ZenonT(60) DEF Tag, Level
  <2> QED
    BY <1>8, <2>1 DEF Tag, Deliver, Become, Finish, Idle, Steps, refreshVars, history
<1>9. ASSUME NEW f \in Refreshers, Update(f) PROVE TypeOK'
  BY <1>9 DEF Update, Enter, Phases, stores, NoRequest, NoRefresh, Indexed
<1>10. ASSUME NEW f \in Refreshers,
              DeleteRepDurable(f) \/ DeleteRepRedis(f) \/ DeleteRespDurable(f)
       PROVE  TypeOK'
  <2>1. intact' \in BOOLEAN
    BY <1>10 DEF DeleteRepDurable, DeleteRepRedis, DeleteRespDurable, Attempt
  <2>2. UNCHANGED <<row, index, request, members, quiet>>
    BY <1>10 DEF DeleteRepDurable, DeleteRepRedis, DeleteRespDurable
  <2>3. phase' \in [Refreshers -> Phases]
    BY <1>10 DEF DeleteRepDurable, DeleteRepRedis, DeleteRespDurable, Enter, Phases
  <2>4. durable' \in [Entries -> Copies] /\ redis' \in [Entries -> Copies]
    BY <1>10 DEF DeleteRepDurable, DeleteRepRedis, DeleteRespDurable, Attempt
  <2> QED
    BY <2>1, <2>2, <2>3, <2>4
<1>11. ASSUME NEW f \in Refreshers, ReadMembers(f) PROVE TypeOK'
  BY <1>11 DEF ReadMembers, Enter, Phases, stores, history
<1>12. ASSUME NEW f \in Refreshers, NEW e \in Entries, Evict(f, e) PROVE TypeOK'
  BY <1>12 DEF Evict, history
<1>13. ASSUME NEW f \in Refreshers, DropIndex(f) \/ Break(f) PROVE TypeOK'
  BY <1>13 DEF DropIndex, Break, Enter, Phases, stores, history
<1>14. ASSUME NEW e \in Entries, ExpireRedis(e) PROVE TypeOK'
  BY <1>14 DEF ExpireRedis, refreshVars, history
<1>15. ASSUME ExpireResponse PROVE TypeOK'
  BY <1>15 DEF ExpireResponse, refreshVars, history
<1>16. ASSUME UNCHANGED vars PROVE TypeOK'
  BY <1>16 DEF vars, stores, refreshVars, history
<1> QED
  BY <1>1, <1>2, <1>3, <1>4, <1>5, <1>6, <1>7, <1>8, <1>9, <1>10, <1>11, <1>12, <1>13,
     <1>14, <1>15, <1>16, <1>17 DEF Next, Proceed, Refresh

\* Every reachable state of the copies and their refresh is well typed.
THEOREM TypeCorrect == Spec => []TypeOK
BY TypeInit, TypeStep, PTL DEF Spec

-----------------------------------------------------------------------------
(* A quiet refresh.  What it has deleted stays deleted while it runs,      *)
(* because no request is there to bring it back; after it, requests carry  *)
(* only what they read from the row or from copies as recent as the row.   *)

Carried(p) == request[p].value \in {None, row} /\ request[p].source \in {None, row}

AllCurrent == RepCurrent /\ RespCurrent /\ \A p \in Requests : Carried(p)

Refreshing(f) ==
  /\ NoRequest
  /\ \A g \in Refreshers : phase[g] # "idle" => g = f
  /\ phase[f] # "repDurable" => durable["rep"] = None
  /\ phase[f] \notin {"repDurable", "repRedis"} => redis["rep"] = None
  /\ phase[f] \notin {"repDurable", "repRedis", "respDurable"} => durable["resp"] = None
  /\ phase[f] # "evict" => Indexed
  /\ phase[f] = "evict" => (redis["resp"] # None => "resp" \in members[f])

QuietInv ==
  quiet /\ intact =>
    /\ NoRefresh => AllCurrent
    /\ \A f \in Refreshers : phase[f] # "idle" => Refreshing(f)

LEMMA QuietInit == Init => QuietInv
BY DEF Init, QuietInv, NoRefresh, AllCurrent, RepCurrent, RespCurrent, Carried, Idle, Entries,
       None

\* A step of a request takes place outside a quiet refresh, and keeps what is current so.
LEMMA RequestStep ==
  ASSUME TypeOK, QuietInv, NEW p \in Requests,
         Begin(p) \/ Proceed(p) \/ Abandon(p)
  PROVE  QuietInv'
<1> SUFFICES ASSUME quiet', intact'
             PROVE  /\ NoRefresh' => AllCurrent'
                    /\ \A f \in Refreshers : phase'[f] # "idle" => Refreshing(f)'
  BY DEF QuietInv
<1>1. /\ quiet /\ intact
      /\ UNCHANGED <<row, refreshVars>>
  BY DEF Begin, Proceed, Abandon, ReadRedis, ReadDurable, LoadRow, Build, StoreRedis,
         StoreDurable, Tag, history
<1>2. NoRefresh
  <2>1. CASE Begin(p)
    BY <2>1 DEF Begin
  <2>2. CASE ~Begin(p)
    <3>1. Step(p) # "idle"
      BY <2>2 DEF Proceed, Abandon, ReadRedis, ReadDurable, LoadRow, Build, StoreRedis,
                  StoreDurable, Tag
    <3>2. ~NoRequest
      BY <3>1 DEF NoRequest, Step, Idle
    <3> QED
      BY <1>1, <3>2 DEF QuietInv, Refreshing, NoRefresh
  <2> QED
    BY <2>1, <2>2
<1>3. NoRefresh'
  BY <1>1, <1>2 DEF NoRefresh, refreshVars
<1>4. AllCurrent
  BY <1>1, <1>2 DEF QuietInv
<1>5. AllCurrent'
  <2> USE <1>1, <1>4
  <2> USE DEF TypeOK, AllCurrent, RepCurrent, RespCurrent, Carried, Entries, None
  <2>1. CASE Begin(p) \/ Abandon(p)
    <3>1. UNCHANGED <<row, stores>>
      BY <2>1 DEF Begin, Abandon
    <3>2. \A q \in Requests : /\ request'[q].value \in {None, request[q].value}
                              /\ request'[q].source \in {None, request[q].source}
      <4>1. CASE Begin(p)
        <5>1. request' = [request EXCEPT ![p] = [step |-> "redis", level |-> "resp",
                            source |-> request[p].source, value |-> 0]]
          BY <4>1 DEF Begin, Become
        <5> QED
          BY <5>1
      <4>2. CASE Abandon(p)
        <5>1. request' = [request EXCEPT ![p] = [step |-> "idle", level |-> "resp",
                            source |-> 0, value |-> 0]]
          BY <4>2 DEF Abandon, Finish, Idle
        <5> QED
          BY <5>1
      <4> QED
        BY <2>1, <4>1, <4>2
    <3>3. RepCurrent' /\ RespCurrent'
      BY <3>1 DEF stores
    <3>4. ASSUME NEW q \in Requests PROVE Carried(q)'
      BY <3>1, <3>2
    <3> QED
      BY <3>3, <3>4
  <2>2. CASE ReadRedis(p)
    BY <2>2 DEF ReadRedis, Deliver, Become, Finish, Idle, Level, stores
  <2>3. CASE ReadDurable(p)
    BY <2>3 DEF ReadDurable, Become, Level, stores
  <2>4. CASE LoadRow(p)
    BY <2>4 DEF LoadRow, stores
  <2>5. CASE Build(p)
    BY <2>5 DEF Build, Become, stores
  <2>6. CASE StoreRedis(p)
    BY <2>6 DEF StoreRedis, Deliver, Become, Finish, Idle, Level, Step
  <2>7. CASE StoreDurable(p)
    BY <2>7 DEF StoreDurable, Become, Level
  <2>8. CASE Tag(p)
    BY <2>8 DEF Tag, Deliver, Become, Finish, Idle, Level
  <2> QED
    BY <2>1, <2>2, <2>3, <2>4, <2>5, <2>6, <2>7, <2>8 DEF Proceed
<1> QED
  BY <1>3, <1>5 DEF NoRefresh

\* A change starts a quiet refresh only when nothing else is going on.
LEMMA UpdateStep ==
  ASSUME TypeOK, NEW f \in Refreshers, Update(f)
  PROVE  QuietInv'
<1> SUFFICES ASSUME quiet', intact'
             PROVE  /\ NoRefresh' => AllCurrent'
                    /\ \A g \in Refreshers : phase'[g] # "idle" => Refreshing(g)'
  BY DEF QuietInv
<1>1. NoRequest /\ NoRefresh /\ Indexed
  BY DEF Update
<1>2. phase' = [phase EXCEPT ![f] = "repDurable"] /\ UNCHANGED <<stores, request, members>>
  BY DEF Update, Enter
<1>3. phase'[f] = "repDurable" /\ \A g \in Refreshers : g # f => phase'[g] = "idle"
  BY <1>1, <1>2 DEF TypeOK, NoRefresh
<1>4. Refreshing(f)'
  BY <1>1, <1>2, <1>3 DEF Refreshing, NoRequest, Indexed, stores
<1> QED
  BY <1>3, <1>4 DEF NoRefresh

\* A quiet refresh goes from deletion to deletion.
LEMMA RefreshStep ==
  ASSUME TypeOK, QuietInv, NEW f \in Refreshers, Refresh(f) \/ Break(f)
  PROVE  QuietInv'
<1> SUFFICES ASSUME quiet', intact'
             PROVE  /\ NoRefresh' => AllCurrent'
                    /\ \A g \in Refreshers : phase'[g] # "idle" => Refreshing(g)'
  BY DEF QuietInv
<1> USE DEF TypeOK, Entries, None
<1>1. ~Break(f)
  BY DEF Break
<1>2. Refreshing(f) /\ phase[f] # "idle" /\ UNCHANGED <<row, request>>
  BY <1>1 DEF QuietInv, Refresh, DeleteRepDurable, DeleteRepRedis, DeleteRespDurable,
              Attempt, ReadMembers, Evict, DropIndex, history
<1>3. \A g \in Refreshers : g # f => phase'[g] = "idle"
  BY <1>1, <1>2 DEF Refreshing, Refresh, DeleteRepDurable, DeleteRepRedis, DeleteRespDurable,
              ReadMembers, Evict, DropIndex, Enter
<1>4. \A p \in Requests : Carried(p)'
  BY <1>2 DEF Refreshing, NoRequest, Carried, Idle
<1>5. CASE DeleteRepDurable(f) \/ DeleteRepRedis(f) \/ DeleteRespDurable(f)
  <2>1. Refreshing(f)' /\ phase'[f] # "idle"
    BY <1>2, <1>3, <1>5 DEF Refreshing, DeleteRepDurable, DeleteRepRedis, DeleteRespDurable,
       Attempt, Enter, NoRequest, Indexed
  <2> QED
    BY <1>3, <2>1 DEF NoRefresh
<1>6. CASE ReadMembers(f)
  <2>1. CASE index = {}
    <3>1. phase'[f] = "idle"
      BY <1>6, <2>1 DEF ReadMembers, Enter
    <3>2. RepCurrent' /\ RespCurrent'
      BY <1>2, <1>6, <2>1 DEF ReadMembers, Refreshing, Indexed, RepCurrent, RespCurrent, stores
    <3> QED
      BY <1>3, <1>4, <3>1, <3>2 DEF AllCurrent
  <2>2. CASE index # {}
    <3>1. phase'[f] = "evict" /\ members'[f] = index /\ UNCHANGED stores
      BY <1>6, <2>2 DEF ReadMembers, Enter
    <3>2. Refreshing(f)'
      BY <1>2, <1>3, <1>6, <3>1 DEF ReadMembers, Refreshing, Indexed, NoRequest, stores
    <3> QED
      BY <1>3, <3>1, <3>2 DEF NoRefresh
  <2> QED
    BY <2>1, <2>2
<1>7. ASSUME NEW e \in Entries, Evict(f, e)
      PROVE  Refreshing(f)' /\ phase'[f] # "idle"
  BY <1>2, <1>3, <1>7 DEF Evict, Refreshing, NoRequest, Indexed
<1>8. CASE DropIndex(f)
  <2>1. phase'[f] = "idle"
    BY <1>8 DEF DropIndex, Enter
  <2>2. RepCurrent' /\ RespCurrent'
    BY <1>2, <1>8 DEF DropIndex, Refreshing, RepCurrent, RespCurrent
  <2> QED
    BY <1>3, <1>4, <2>1, <2>2 DEF AllCurrent
<1> QED
  BY <1>1, <1>3, <1>5, <1>6, <1>7, <1>8 DEF Refresh, NoRefresh

\* Entries that expire are not outdated.
LEMMA ExpireStep ==
  ASSUME TypeOK, QuietInv, (\E e \in Entries : ExpireRedis(e)) \/ ExpireResponse
  PROVE  QuietInv'
<1>1. UNCHANGED <<row, index, request, refreshVars, history>>
  BY DEF ExpireRedis, ExpireResponse
<1>2. /\ \A e \in Entries : durable'[e] \in {None, durable[e]}
      /\ \A e \in Entries : redis'[e] \in {None, redis[e]}
  BY DEF ExpireRedis, ExpireResponse, TypeOK, Entries
<1>3. AllCurrent => AllCurrent'
  BY <1>1, <1>2 DEF AllCurrent, RepCurrent, RespCurrent, Carried, Entries
<1>4. ASSUME NEW f \in Refreshers, Refreshing(f) PROVE Refreshing(f)'
  BY <1>1, <1>2, <1>4 DEF Refreshing, NoRequest, Indexed, Entries, refreshVars
<1> QED
  BY <1>1, <1>3, <1>4 DEF QuietInv, NoRefresh, refreshVars, history

LEMMA QuietStep == TypeOK /\ QuietInv /\ [Next]_vars => QuietInv'
<1> SUFFICES ASSUME TypeOK, QuietInv, [Next]_vars PROVE QuietInv'
  OBVIOUS
<1>1. CASE UNCHANGED vars
  BY <1>1 DEF vars, stores, refreshVars, history, QuietInv, NoRefresh, AllCurrent, RepCurrent,
              RespCurrent, Carried, Refreshing, NoRequest, Indexed
<1>2. CASE Next
  BY <1>2, RequestStep, UpdateStep, RefreshStep, ExpireStep DEF Next
<1> QED
  BY <1>1, <1>2

\* An undisturbed refresh leaves no outdated copy, whatever was stored, lost or left
\* half deleted before it.
THEOREM QuietRefresh == Spec => []QuietRefreshIsComplete
<1>1. QuietInv => QuietRefreshIsComplete
  BY DEF QuietInv, QuietRefreshIsComplete, AllCurrent
<1> QED
  BY <1>1, TypeInit, TypeStep, QuietInit, QuietStep, PTL DEF Spec
=============================================================================
