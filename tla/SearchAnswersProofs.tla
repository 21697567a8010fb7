------------------------ MODULE SearchAnswersProofs -------------------------
(***************************************************************************)
(* Proofs about SearchAnswers, for any questions, contents, caches,        *)
(* lifetimes and concurrent requests: what is cached is young enough and   *)
(* of a version after the last clear (AnswersInv); it is listed in a tag   *)
(* set that lives as long, or it has slipped out of it (HeldInv); and it   *)
(* is what the index answers, at its version, to every question of the     *)
(* name it is cached under (ExactInv).  What the index answers is what the *)
(* question means, about the circle of longitudes, the clauses of the      *)
(* query, the counts of facets and the pages.                              *)
(***************************************************************************)
EXTENDS SearchAnswers, FiniteSetTheorems, TLAPS

-----------------------------------------------------------------------------
(* What is true of results, given the clock, the versions of the index and  *)
(* the last clear.                                                          *)

Moment == [now |-> now, index |-> index, ended |-> ended, cleared |-> cleared]

\* The time up to which a version was that of the index.
Since(v, m) == IF m.ended[v] = None THEN m.now ELSE m.ended[v]
Seen(v, m) == v \in 1 .. m.index /\ v >= m.cleared

MomentOK(m) ==
  /\ m.now \in 0 .. MaxTime /\ m.index \in Versions /\ m.cleared \in 0 .. m.index
  /\ m.ended \in [Versions -> 0 .. MaxTime \cup {None}]
  /\ \A v \in Versions : m.ended[v] # None => m.ended[v] <= m.now
  /\ \A v \in Versions : v >= m.index => m.ended[v] = None

AnswerOK(a, m) ==
  /\ Seen(a.hitsAt, m) /\ Seen(a.facetsAt, m) /\ a.made \in 0 .. m.now
  /\ a.made <= Since(a.hitsAt, m) /\ a.made < Since(a.facetsAt, m) + FacetTtl

\* Counts that were current at a time.
CountsOK(c, time, m) == Seen(c.at, m) /\ time <= Since(c.at, m)

IsEntry(e) == e = [value |-> e.value, made |-> e.made]
Lives(e, ttl, m) == IsEntry(e) /\ e.made \in 0 .. m.now /\ m.now < e.made + ttl

AnswerEntry(e, m) == Lives(e, CoreTtl, m) /\ AnswerOK(e.value, m) /\ e.value.made = e.made
CountsEntry(e, facets, m) ==
  Lives(e, FacetTtl, m) /\ CountsOK(e.value, e.made, m) /\ DOMAIN e.value.counts = facets

Searching == {"facets", "wait", "search", "aggs", "tagAggs", "core", "tagCore"}
Counting == {"values", "count", "store", "tagValues"}

IsRequest(r) == r = [pc |-> r.pc, ask |-> r.ask, aggs |-> r.aggs, answer |-> r.answer]
Lifetime(p) == IF p \in Searches THEN CoreTtl ELSE FacetTtl
RequestOK(r, m) ==
  /\ IsRequest(r) /\ r.ask \in Questions \cup {None}
  /\ r.pc \in Searching => r.ask \in Searches
  /\ r.pc \in Counting => r.ask \in Questions \ Searches
  /\ r.pc = "search" /\ r.aggs # None => Seen(r.aggs.at, m) /\ m.now < Since(r.aggs.at, m) + FacetTtl
  /\ r.pc \in {"aggs", "store", "tagValues"} =>
       CountsOK(r.aggs, m.now, m) /\ DOMAIN r.aggs.counts = Selected(r.ask)
  /\ r.pc \in {"aggs", "tagAggs"} => Selected(r.ask) # {}
  /\ r.pc \in {"aggs", "tagAggs", "core", "tagCore"} => AnswerOK(r.answer, m) /\ r.answer.made = m.now
  /\ r.pc = "done" => r.ask \in Questions
  /\ r.pc = "done" /\ r.answer # Failed =>
       AnswerOK(r.answer, m) /\ m.now < r.answer.made + Lifetime(r.ask)

OnKeys(cache, keys) == cache = [k \in keys |-> cache[k]]

CoresOK == OnKeys(cores, CoreKeys) /\ \A k \in CoreKeys : cores[k] # None => AnswerEntry(cores[k], Moment)
AggsOK == OnKeys(aggs, AggKeys) /\ \A k \in AggKeys : aggs[k] # None => CountsEntry(aggs[k], k.facets, Moment)
ValuesOK ==
  OnKeys(values, ValuesKeys) /\ \A k \in ValuesKeys : values[k] # None => CountsEntry(values[k], {k.facet}, Moment)
RequestsOK == OnKeys(req, Tasks) /\ \A t \in Tasks : RequestOK(req[t], Moment)
RestOK == asks \in Seq(Questions) /\ locks \subseteq CoreKeys /\ faults \in 0 .. MaxFaults

AnswersInv == MomentOK(Moment) /\ CoresOK /\ AggsOK /\ ValuesOK /\ RequestsOK /\ RestOK

\* An entry that lives up to end has slipped, or its tagging is still to come, or it is listed in
\* a tag set that lives as long.
Held(name, end) ==
  \/ name \in slips
  \/ \E t \in Tasks : name \in ToTag(t)
  \/ name \in tagged /\ end <= expires

NamesKnown == tagged \subseteq KnownNames /\ slips \subseteq KnownNames /\ expires \in Nat
CoresHeld == \A k \in CoreKeys : cores[k] # None => Held(<<"core", k>>, cores[k].made + CoreTtl)
AggsHeld == \A k \in AggKeys : aggs[k] # None => Held(<<"aggs", k>>, aggs[k].made + FacetTtl)
ValuesHeld == \A k \in ValuesKeys : values[k] # None => Held(<<"values", k>>, values[k].made + FacetTtl)

HeldInv == NamesKnown /\ CoresHeld /\ AggsHeld /\ ValuesHeld

-----------------------------------------------------------------------------
(* Versions, times and results.                                             *)

LEMMA Numbers == Versions = 1 .. Len(Contents) /\ Len(Contents) \in Nat \ {0}
BY AnswersAssumption DEF Versions

LEMMA SinceNow ==
  ASSUME NEW m, MomentOK(m)
  PROVE  Seen(m.index, m) /\ Since(m.index, m) = m.now
BY Numbers DEF MomentOK, Seen, Since

LEMMA SinceTyped ==
  ASSUME NEW m, MomentOK(m), NEW v \in 1 .. m.index
  PROVE  v \in Versions /\ Since(v, m) \in Nat /\ Since(v, m) <= m.now
BY Numbers, AnswersAssumption DEF MomentOK, Since

\* Time goes on, versions follow one another.
Later(m, n) ==
  /\ n.index >= m.index /\ n.now >= m.now /\ n.cleared = m.cleared
  /\ \A v \in 1 .. m.index : Since(v, n) >= Since(v, m)

LEMMA SeenLater ==
  ASSUME NEW m, NEW n, MomentOK(m), MomentOK(n), Later(m, n), NEW v, Seen(v, m)
  PROVE  Seen(v, n) /\ Since(v, n) >= Since(v, m) /\ Since(v, n) \in Nat /\ Since(v, m) \in Nat
<1>1. v \in 1 .. m.index
  BY DEF Seen
<1>2. v \in 1 .. n.index
  BY <1>1, Numbers DEF Later, MomentOK
<1> QED
  BY <1>1, <1>2, SinceTyped DEF Seen, Later

LEMMA AnswerLater ==
  ASSUME NEW m, NEW n, MomentOK(m), MomentOK(n), Later(m, n), NEW a, AnswerOK(a, m)
  PROVE  AnswerOK(a, n)
<1>1. a.made \in Nat /\ m.now \in Nat /\ n.now \in Nat /\ n.now >= m.now /\ FacetTtl \in Nat
  BY AnswersAssumption DEF AnswerOK, MomentOK, Later
<1>2. /\ Seen(a.hitsAt, n) /\ Seen(a.facetsAt, n)
      /\ Since(a.hitsAt, n) >= Since(a.hitsAt, m) /\ Since(a.facetsAt, n) >= Since(a.facetsAt, m)
      /\ {Since(a.hitsAt, n), Since(a.hitsAt, m), Since(a.facetsAt, n), Since(a.facetsAt, m)} \subseteq Nat
  BY SeenLater DEF AnswerOK
<1> QED
  BY <1>1, <1>2 DEF AnswerOK

LEMMA CountsLater ==
  ASSUME NEW m, NEW n, MomentOK(m), MomentOK(n), Later(m, n), NEW c, NEW time \in Nat, CountsOK(c, time, m)
  PROVE  CountsOK(c, time, n)
BY SeenLater DEF CountsOK

\* An answer made now with counts that are young enough.
LEMMA AnswerNow ==
  ASSUME NEW m, MomentOK(m), NEW a, a.hitsAt = m.index, a.made = m.now,
         Seen(a.facetsAt, m), m.now < Since(a.facetsAt, m) + FacetTtl
  PROVE  AnswerOK(a, m)
BY SinceNow DEF AnswerOK, MomentOK

\* An answer made of counts says when these were made.
LEMMA FacetAnswerOK ==
  ASSUME NEW m, MomentOK(m), NEW c, NEW p, NEW time \in 0 .. m.now, CountsOK(c, time, m),
         NEW a, a = FacetAnswer(p, [counts |-> c.counts, at |-> c.at, made |-> time])
  PROVE  AnswerOK(a, m) /\ a.made = time
<1>1. a.hitsAt = c.at /\ a.facetsAt = c.at /\ a.made = time
  BY DEF FacetAnswer
<1>2. c.at \in 1 .. m.index /\ Since(c.at, m) \in Nat
  BY SinceTyped DEF CountsOK, Seen
<1> QED
  BY <1>1, <1>2, AnswersAssumption DEF AnswerOK, CountsOK, MomentOK

-----------------------------------------------------------------------------
(* Requests and caches.                                                     *)

LEMMA OneRequest ==
  ASSUME RequestsOK, Moment' = Moment, NEW t \in Tasks, NEW r, req' = [req EXCEPT ![t] = r],
         RequestOK(r, Moment)
  PROVE  RequestsOK'
<1>1. OnKeys(req, Tasks)'
  BY DEF RequestsOK, OnKeys
<1>2. ASSUME NEW u \in Tasks PROVE RequestOK(req'[u], Moment')
  BY DEF RequestsOK, OnKeys
<1> QED
  BY <1>1, <1>2 DEF RequestsOK

LEMMA PcField ==
  ASSUME NEW r, IsRequest(r), NEW pc
  PROVE  [r EXCEPT !.pc = pc] = [pc |-> pc, ask |-> r.ask, aggs |-> r.aggs, answer |-> r.answer]
BY DEF IsRequest

LEMMA AskFields ==
  ASSUME NEW r, IsRequest(r), NEW pc, NEW p
  PROVE  [r EXCEPT !.pc = pc, !.ask = p] = [pc |-> pc, ask |-> p, aggs |-> r.aggs, answer |-> r.answer]
<1> DEFINE s == [r EXCEPT !.pc = pc]
<1>1. [r EXCEPT !.pc = pc, !.ask = p] = [s EXCEPT !.ask = p]
  BY DEF IsRequest
<1>2. s = [pc |-> pc, ask |-> r.ask, aggs |-> r.aggs, answer |-> r.answer]
  BY PcField
<1> HIDE DEF s
<1>3. [s EXCEPT !.ask = p] = [pc |-> pc, ask |-> p, aggs |-> r.aggs, answer |-> r.answer]
  BY <1>2
<1> QED
  BY <1>1, <1>3

LEMMA AnswerField ==
  ASSUME NEW r, IsRequest(r), NEW pc, NEW a
  PROVE  [r EXCEPT !.pc = pc, !.answer = a] = [pc |-> pc, ask |-> r.ask, aggs |-> r.aggs, answer |-> a]
<1> DEFINE s == [r EXCEPT !.pc = pc]
<1>1. [r EXCEPT !.pc = pc, !.answer = a] = [s EXCEPT !.answer = a]
  BY DEF IsRequest
<1>2. s = [pc |-> pc, ask |-> r.ask, aggs |-> r.aggs, answer |-> r.answer]
  BY PcField
<1> HIDE DEF s
<1>3. [s EXCEPT !.answer = a] = [pc |-> pc, ask |-> r.ask, aggs |-> r.aggs, answer |-> a]
  BY <1>2
<1> QED
  BY <1>1, <1>3

LEMMA CountsField ==
  ASSUME NEW r, IsRequest(r), NEW pc, NEW c
  PROVE  [r EXCEPT !.pc = pc, !.aggs = c] = [pc |-> pc, ask |-> r.ask, aggs |-> c, answer |-> r.answer]
<1> DEFINE s == [r EXCEPT !.pc = pc]
<1>1. [r EXCEPT !.pc = pc, !.aggs = c] = [s EXCEPT !.aggs = c]
  BY DEF IsRequest
<1>2. s = [pc |-> pc, ask |-> r.ask, aggs |-> r.aggs, answer |-> r.answer]
  BY PcField
<1> HIDE DEF s
<1>3. [s EXCEPT !.aggs = c] = [pc |-> pc, ask |-> r.ask, aggs |-> c, answer |-> r.answer]
  BY <1>2
<1> QED
  BY <1>1, <1>3

\* A request that goes on takes what it has with it.
LEMMA Goes ==
  ASSUME RequestsOK, NEW t \in Tasks, NEW pc, Go(t, pc)
  PROVE  \E r : /\ req' = [req EXCEPT ![t] = r] /\ IsRequest(r)
                /\ r.pc = pc /\ r.ask = req[t].ask /\ r.aggs = req[t].aggs /\ r.answer = req[t].answer
<1> DEFINE r == [req[t] EXCEPT !.pc = pc]
<1>1. req' = [req EXCEPT ![t] = r]
  BY DEF Go
<1>2. IsRequest(req[t])
  BY DEF RequestsOK, RequestOK
<1>3. r = [pc |-> pc, ask |-> req[t].ask, aggs |-> req[t].aggs, answer |-> req[t].answer]
  BY <1>2, PcField
<1> HIDE DEF r
<1>4. IsRequest(r) /\ r.pc = pc /\ r.ask = req[t].ask /\ r.aggs = req[t].aggs /\ r.answer = req[t].answer
  BY <1>3 DEF IsRequest
<1> QED
  BY <1>1, <1>4

LEMMA Answers ==
  ASSUME RequestsOK, NEW t \in Tasks, NEW a, Answer(t, a)
  PROVE  \E r : /\ req' = [req EXCEPT ![t] = r] /\ IsRequest(r)
                /\ r.pc = "done" /\ r.ask = req[t].ask /\ r.answer = a
<1> DEFINE r == [pc |-> "done", ask |-> req[t].ask, aggs |-> req[t].aggs, answer |-> a]
<1>1. IsRequest(req[t])
  BY DEF RequestsOK, RequestOK
<1>2. req' = [req EXCEPT ![t] = [req[t] EXCEPT !.pc = "done", !.answer = a]]
  BY <1>1 DEF Answer, RequestsOK, OnKeys
<1>3. [req[t] EXCEPT !.pc = "done", !.answer = a] = r
  BY <1>1, AnswerField
<1>4. req' = [req EXCEPT ![t] = r]
  BY <1>2, <1>3
<1> HIDE DEF r
<1>5. r = [pc |-> "done", ask |-> req[t].ask, aggs |-> req[t].aggs, answer |-> a]
  BY DEF r
<1>6. IsRequest(r) /\ r.pc = "done" /\ r.ask = req[t].ask /\ r.answer = a
  BY <1>5 DEF IsRequest
<1> QED
  BY <1>4, <1>6

\* Who answers does so with a result that is in order, or fails.
LEMMA AnswersInOrder ==
  ASSUME RequestsOK, Moment' = Moment, NEW t \in Tasks, NEW a, Answer(t, a), req[t].ask \in Questions,
         a = Failed \/ (AnswerOK(a, Moment) /\ now < a.made + Lifetime(req[t].ask))
  PROVE  RequestsOK'
<1>1. PICK r : /\ req' = [req EXCEPT ![t] = r] /\ IsRequest(r)
               /\ r.pc = "done" /\ r.ask = req[t].ask /\ r.answer = a
  BY Answers
<1>2. Moment.now = now
  BY DEF Moment
<1>3. RequestOK(r, Moment)
  BY <1>1, <1>2 DEF RequestOK, Searching, Counting
<1> QED
  BY <1>1, <1>3, OneRequest

LEMMA StoredAt ==
  ASSUME NEW keys, NEW cache, OnKeys(cache, keys), NEW k, NEW value
  PROVE  /\ OnKeys(Stored(cache, k, value), keys)
         /\ \A j \in keys : j # k => Stored(cache, k, value)[j] = cache[j]
         /\ k \in keys => Stored(cache, k, value)[k] = [value |-> value, made |-> now]
<1> DEFINE e == [value |-> value, made |-> now]
<1>1. Stored(cache, k, value) = [cache EXCEPT ![k] = e]
  BY DEF Stored, Entry
<1> HIDE DEF e
<1>2. /\ OnKeys(Stored(cache, k, value), keys)
      /\ \A j \in keys : j # k => Stored(cache, k, value)[j] = cache[j]
      /\ k \in keys => Stored(cache, k, value)[k] = e
  BY <1>1 DEF OnKeys
<1> QED
  BY <1>2 DEF e

-----------------------------------------------------------------------------
(* The steps of a search.                                                   *)

LEMMA Stays ==
  ASSUME AnswersInv, UNCHANGED world
  PROVE  /\ Moment' = Moment /\ MomentOK(Moment)'
         /\ cores' = cores => CoresOK'
         /\ aggs' = aggs => AggsOK'
         /\ values' = values => ValuesOK'
<1>1. Moment' = Moment
  BY DEF world, Moment
<1>2. MomentOK(Moment')
  BY <1>1 DEF AnswersInv
<1>3. cores' = cores => CoresOK'
  BY <1>1 DEF AnswersInv, CoresOK, OnKeys
<1>4. aggs' = aggs => AggsOK'
  BY <1>1 DEF AnswersInv, AggsOK, OnKeys
<1>5. values' = values => ValuesOK'
  BY <1>1 DEF AnswersInv, ValuesOK, OnKeys
<1> QED
  BY <1>1, <1>2, <1>3, <1>4, <1>5

LEMMA AskStep ==
  ASSUME AnswersInv, NEW t \in Tasks, Ask(t)
  PROVE  AnswersInv'
<1> DEFINE p == Head(asks)
           asked(pc) == [Idle EXCEPT !.pc = pc, !.ask = p]
           k == CoreKey(p)
<1>1. /\ p \in Questions /\ asks' \in Seq(Questions)
      /\ UNCHANGED <<world, caches, faults>>
  BY DEF Ask, AnswersInv, RestOK
<1>2. /\ Moment' = Moment /\ MomentOK(Moment)' /\ CoresOK' /\ AggsOK' /\ ValuesOK'
  BY <1>1, Stays DEF caches
<1>3. RequestsOK /\ CoresOK /\ Moment.now = now
  BY DEF AnswersInv, Moment
<1>4. ASSUME NEW pc
      PROVE  asked(pc) = [pc |-> pc, ask |-> p, aggs |-> None, answer |-> NoAnswer]
  <2>1. IsRequest(Idle) /\ Idle.aggs = None /\ Idle.answer = NoAnswer
    BY DEF Idle, IsRequest
  <2> QED
    BY <2>1, AskFields
<1>5. CASE p \notin Searches
  <2>1. req' = [req EXCEPT ![t] = asked("values")] /\ UNCHANGED locks
    BY <1>5 DEF Ask
  <2>2. RequestOK([pc |-> "values", ask |-> p, aggs |-> None, answer |-> NoAnswer], Moment)
    BY <1>1, <1>5 DEF RequestOK, IsRequest, Searching, Counting
  <2>3. RequestsOK'
    BY <1>2, <1>3, <1>4, <2>1, <2>2, OneRequest
  <2> QED
    BY <1>1, <1>2, <2>1, <2>3 DEF AnswersInv, RestOK
<1>6. CASE p \in Searches /\ cores[k] # None
  <2>1. k \in CoreKeys
    BY <1>6 DEF CoreKeys
  <2>2. AnswerEntry(cores[k], Moment)
    BY <1>3, <1>6, <2>1 DEF CoresOK
  <2> DEFINE r == [asked("done") EXCEPT !.answer = cores[k].value]
  <2>3. req' = [req EXCEPT ![t] = r] /\ UNCHANGED locks
    BY <1>6 DEF Ask
  <2>4. r = [pc |-> "done", ask |-> p, aggs |-> None, answer |-> cores[k].value]
    <3> DEFINE s == asked("done")
    <3>1. s = [pc |-> "done", ask |-> p, aggs |-> None, answer |-> NoAnswer]
      BY <1>4
    <3> HIDE DEF s
    <3>2. [s EXCEPT !.answer = cores[k].value] = [pc |-> "done", ask |-> p, aggs |-> None, answer |-> cores[k].value]
      BY <3>1
    <3> QED
      BY <3>2 DEF s
  <2> HIDE DEF r
  <2>5. RequestOK(r, Moment)
    BY <1>1, <1>6, <2>2, <2>4 DEF RequestOK, IsRequest, Searching, Counting, AnswerEntry, Lives, Lifetime
  <2>6. RequestsOK'
    BY <1>2, <1>3, <2>3, <2>5, OneRequest
  <2> QED
    BY <1>1, <1>2, <2>3, <2>6 DEF AnswersInv, RestOK
<1>7. CASE p \in Searches /\ cores[k] = None
  <2>1. PICK pc \in {"facets", "wait"} : req' = [req EXCEPT ![t] = asked(pc)]
    BY <1>7 DEF Ask
  <2>2. locks' \subseteq CoreKeys
    BY <1>7 DEF Ask, CoreKeys, AnswersInv, RestOK
  <2>3. RequestOK([pc |-> pc, ask |-> p, aggs |-> None, answer |-> NoAnswer], Moment)
    BY <1>1, <1>7 DEF RequestOK, IsRequest, Searching, Counting
  <2>4. RequestsOK'
    BY <1>2, <1>3, <1>4, <2>1, <2>3, OneRequest
  <2> QED
    BY <1>1, <1>2, <2>2, <2>4 DEF AnswersInv, RestOK
<1> QED
  BY <1>5, <1>6, <1>7

LEMMA WaitHitStep ==
  ASSUME AnswersInv, NEW t \in Tasks, WaitHit(t)
  PROVE  AnswersInv'
<1> DEFINE k == CoreKey(ask(t))
<1>1. /\ Moment' = Moment /\ MomentOK(Moment)' /\ CoresOK' /\ AggsOK' /\ ValuesOK'
  BY Stays DEF WaitHit, caches
<1>2. RequestsOK /\ CoresOK /\ Moment.now = now /\ RequestOK(req[t], Moment)
  BY DEF AnswersInv, RequestsOK, Moment
<1>3. ask(t) \in Searches /\ ask(t) \in Questions
  BY <1>2 DEF RequestOK, Searching, WaitHit, At, ask, Searches
<1>4. AnswerEntry(cores[k], Moment)
  BY <1>2, <1>3 DEF CoresOK, CoreKeys, WaitHit
<1>5. AnswerOK(cores[k].value, Moment) /\ now < cores[k].value.made + Lifetime(ask(t))
  BY <1>2, <1>3, <1>4 DEF AnswerEntry, Lives, Lifetime
<1>6. RequestsOK'
  BY <1>1, <1>2, <1>3, <1>5, AnswersInOrder DEF WaitHit, ask
<1> QED
  BY <1>1, <1>6 DEF AnswersInv, RestOK, WaitHit

LEMMA GiveUpStep ==
  ASSUME AnswersInv, NEW t \in Tasks, GiveUp(t)
  PROVE  AnswersInv'
<1>1. /\ Moment' = Moment /\ MomentOK(Moment)' /\ CoresOK' /\ AggsOK' /\ ValuesOK'
  BY Stays DEF GiveUp, caches
<1>2. RequestsOK /\ RequestOK(req[t], Moment)
  BY DEF AnswersInv, RequestsOK
<1>3. PICK r : /\ req' = [req EXCEPT ![t] = r] /\ IsRequest(r)
               /\ r.pc = "facets" /\ r.ask = req[t].ask /\ r.aggs = req[t].aggs /\ r.answer = req[t].answer
  BY <1>2, Goes DEF GiveUp
<1>4. RequestOK(r, Moment)
  BY <1>2, <1>3 DEF RequestOK, Searching, Counting, GiveUp, At
<1>5. RequestsOK'
  BY <1>1, <1>2, <1>3, <1>4, OneRequest
<1> QED
  BY <1>1, <1>5 DEF AnswersInv, RestOK, GiveUp

LEMMA LookupAggsStep ==
  ASSUME AnswersInv, NEW t \in Tasks, LookupAggs(t)
  PROVE  AnswersInv'
<1> DEFINE k == AggKey(ask(t))
           c == IF Selected(ask(t)) = {} \/ aggs[k] = None THEN None ELSE aggs[k].value
           r == [req[t] EXCEPT !.pc = "search", !.aggs = c]
<1>1. /\ Moment' = Moment /\ MomentOK(Moment)' /\ CoresOK' /\ AggsOK' /\ ValuesOK'
  BY Stays DEF LookupAggs, caches
<1>2. RequestsOK /\ AggsOK /\ Moment.now = now /\ RequestOK(req[t], Moment) /\ MomentOK(Moment)
  BY DEF AnswersInv, RequestsOK, Moment
<1>3. ask(t) \in Searches /\ req[t].ask = ask(t)
  BY <1>2 DEF RequestOK, Searching, LookupAggs, At, ask
<1>4. req' = [req EXCEPT ![t] = r]
  BY <1>2 DEF LookupAggs, RequestsOK, OnKeys
<1>5. c # None => Seen(c.at, Moment) /\ now < Since(c.at, Moment) + FacetTtl
  <2> SUFFICES ASSUME c # None PROVE Seen(c.at, Moment) /\ now < Since(c.at, Moment) + FacetTtl
    OBVIOUS
  <2>1. k \in AggKeys /\ aggs[k] # None /\ c = aggs[k].value
    BY <1>3 DEF AggKeys
  <2>2. CountsEntry(aggs[k], k.facets, Moment)
    BY <1>2, <2>1 DEF AggsOK
  <2>3. /\ Seen(c.at, Moment) /\ aggs[k].made <= Since(c.at, Moment)
        /\ aggs[k].made \in Nat /\ now < aggs[k].made + FacetTtl
    BY <1>2, <2>1, <2>2 DEF CountsEntry, CountsOK, Lives, MomentOK
  <2>4. Since(c.at, Moment) \in Nat /\ now \in Nat /\ FacetTtl \in Nat
    BY <1>2, <2>3, SinceTyped, AnswersAssumption DEF Seen, MomentOK
  <2> HIDE DEF c, k
  <2> QED
    BY <2>3, <2>4
<1> HIDE DEF c, k
<1>6. r = [pc |-> "search", ask |-> req[t].ask, aggs |-> c, answer |-> req[t].answer]
  BY <1>2, CountsField DEF RequestOK
<1> HIDE DEF r
<1>7. RequestOK(r, Moment)
  BY <1>2, <1>3, <1>5, <1>6 DEF RequestOK, IsRequest, Searching, Counting
<1>8. RequestsOK'
  BY <1>1, <1>2, <1>4, <1>7, OneRequest
<1> QED
  BY <1>1, <1>8 DEF AnswersInv, RestOK, LookupAggs

\* Aggregations that were cached are young enough; those counted now are of this moment, and
\* are stored only if they are of the facets asked for.
LEMMA SearchStep ==
  ASSUME AnswersInv, NEW t \in Tasks, Search(t)
  PROVE  AnswersInv'
<1> DEFINE p == ask(t)
           found == IF Contents[index] = Missing THEN {} ELSE FoundBy[p][index]
           c == Counted(p, req[t].aggs)
           pc == IF StoresAggs(req[t].aggs, c) THEN "aggs" ELSE "core"
           a == Response(p, found, c)
           r == [req[t] EXCEPT !.pc = pc, !.aggs = c, !.answer = a]
<1>1. /\ Moment' = Moment /\ MomentOK(Moment)' /\ CoresOK' /\ AggsOK' /\ ValuesOK'
  BY Stays DEF Search, caches
<1>2. /\ RequestsOK /\ RequestOK(req[t], Moment) /\ MomentOK(Moment)
      /\ Moment.now = now /\ Moment.index = index
  BY DEF AnswersInv, RequestsOK, Moment
<1>3. p \in Searches /\ req[t].ask = p /\ req[t].pc = "search"
  BY <1>2 DEF RequestOK, Searching, Search, At, ask
<1>4. req' = [req EXCEPT ![t] = r]
  BY <1>2 DEF Search, RequestsOK, OnKeys
<1>5. now \in Nat /\ FacetTtl \in Nat \ {0} /\ Seen(index, Moment) /\ Since(index, Moment) = now
  BY <1>2, SinceNow, AnswersAssumption DEF MomentOK
<1>6. Seen(c.at, Moment) /\ now < Since(c.at, Moment) + FacetTtl
  <2>1. CASE req[t].aggs # None
    BY <1>2, <1>3, <2>1 DEF Counted, RequestOK
  <2>2. CASE req[t].aggs = None
    <3>1. c.at = index
      BY <2>2 DEF Counted
    <3> HIDE DEF c
    <3> QED
      BY <1>5, <3>1
  <2> QED
    BY <2>1, <2>2
<1>7. pc = "aggs" => CountsOK(c, now, Moment) /\ DOMAIN c.counts = Selected(p) /\ Selected(p) # {}
  <2> SUFFICES ASSUME req[t].aggs = None, c.counts # <<>>
               PROVE  CountsOK(c, now, Moment) /\ DOMAIN c.counts = Selected(p) /\ Selected(p) # {}
    BY DEF StoresAggs
  <2>1. c = [counts |-> IF Contents[index] = Missing \/ Selected(p) = {} THEN <<>> ELSE CountsOf(p, index),
             at |-> index]
    BY DEF Counted
  <2>2. c.at = index /\ c.counts = CountsOf(p, index) /\ Selected(p) # {}
    BY <2>1
  <2>3. DOMAIN c.counts = Selected(p)
    BY <2>2 DEF CountsOf
  <2> HIDE DEF c
  <2> QED
    BY <1>5, <2>2, <2>3 DEF CountsOK
<1>8. AnswerOK(a, Moment) /\ a.made = now
  <2>1. a.hitsAt = index /\ a.facetsAt = c.at /\ a.made = now
    BY DEF Response
  <2> HIDE DEF a, c
  <2> QED
    BY <1>2, <1>6, <2>1, AnswerNow
<1>9. pc \in {"aggs", "core"}
  OBVIOUS
<1> HIDE DEF a, c, pc
<1>10. r = [pc |-> pc, ask |-> req[t].ask, aggs |-> c, answer |-> a]
  <2>1. IsRequest(req[t])
    BY <1>2 DEF RequestOK
  <2> DEFINE s == [req[t] EXCEPT !.pc = pc, !.aggs = c]
  <2>2. r = [s EXCEPT !.answer = a]
    BY <2>1 DEF IsRequest
  <2>3. s = [pc |-> pc, ask |-> req[t].ask, aggs |-> c, answer |-> req[t].answer]
    BY <2>1, CountsField
  <2> HIDE DEF s
  <2>4. [s EXCEPT !.answer = a] = [pc |-> pc, ask |-> req[t].ask, aggs |-> c, answer |-> a]
    BY <2>3
  <2> QED
    BY <2>2, <2>4
<1> HIDE DEF r
<1>11. RequestOK(r, Moment)
  <2>1. r.pc = pc /\ r.ask = p /\ r.aggs = c /\ r.answer = a /\ IsRequest(r)
    BY <1>3, <1>10 DEF IsRequest
  <2>2. r.ask \in Questions \cup {None}
    BY <1>2, <1>3, <2>1 DEF RequestOK
  <2> QED
    BY <1>2, <1>3, <1>7, <1>8, <1>9, <2>1, <2>2 DEF RequestOK, Searching, Counting
<1>12. RequestsOK'
  BY <1>1, <1>2, <1>4, <1>11, OneRequest
<1>13. faults' \in 0 .. MaxFaults
  BY AnswersAssumption DEF Search, AnswersInv, RestOK
<1> QED
  BY <1>1, <1>12, <1>13 DEF AnswersInv, RestOK, Search

LEMMA SearchFailsStep ==
  ASSUME AnswersInv, NEW t \in Tasks, SearchFails(t)
  PROVE  AnswersInv'
<1>1. /\ Moment' = Moment /\ MomentOK(Moment)' /\ CoresOK' /\ AggsOK' /\ ValuesOK'
  BY Stays DEF SearchFails, caches
<1>2. RequestsOK /\ RequestOK(req[t], Moment)
  BY DEF AnswersInv, RequestsOK
<1>3. req[t].ask \in Questions
  BY <1>2 DEF RequestOK, Searching, Counting, SearchFails, At, Searches
<1>4. RequestsOK'
  BY <1>1, <1>2, <1>3, AnswersInOrder DEF SearchFails
<1>5. faults' \in 0 .. MaxFaults
  BY AnswersAssumption DEF SearchFails, AnswersInv, RestOK
<1> QED
  BY <1>1, <1>4, <1>5 DEF AnswersInv, RestOK, SearchFails

\* A request that goes on to the next of these steps has what it needs there.
LEMMA NextStep ==
  ASSUME AnswersInv, UNCHANGED world, NEW t \in Tasks, NEW pc, Go(t, pc),
         \/ req[t].pc = "aggs" /\ pc = "tagAggs"
         \/ req[t].pc \in {"aggs", "tagAggs", "core"} /\ pc \in {"core", "tagCore"}
         \/ req[t].pc = "store" /\ pc = "tagValues"
         \/ req[t].pc = "values" /\ pc = "count"
  PROVE  RequestsOK'
<1>1. Moment' = Moment
  BY Stays
<1>2. RequestsOK /\ RequestOK(req[t], Moment)
  BY DEF AnswersInv, RequestsOK
<1>3. PICK r : /\ req' = [req EXCEPT ![t] = r] /\ IsRequest(r)
               /\ r.pc = pc /\ r.ask = req[t].ask /\ r.aggs = req[t].aggs /\ r.answer = req[t].answer
  BY <1>2, Goes
<1>4. RequestOK(r, Moment)
  <2>0. CASE req[t].pc = "aggs" /\ pc = "tagAggs"
    BY <1>2, <1>3, <2>0 DEF RequestOK, Searching, Counting
  <2>1. CASE req[t].pc \in {"aggs", "tagAggs", "core"} /\ pc \in {"core", "tagCore"}
    BY <1>2, <1>3, <2>1 DEF RequestOK, Searching, Counting
  <2>2. CASE req[t].pc = "store" /\ pc = "tagValues"
    BY <1>2, <1>3, <2>2 DEF RequestOK, Searching, Counting
  <2>3. CASE req[t].pc = "values" /\ pc = "count"
    BY <1>2, <1>3, <2>3 DEF RequestOK, Searching, Counting
  <2> QED
    BY <2>0, <2>1, <2>2, <2>3
<1> QED
  BY <1>1, <1>2, <1>3, <1>4, OneRequest

\* What is stored now is alive.
LEMMA StoredLives ==
  ASSUME MomentOK(Moment), NEW e, NEW value, NEW ttl \in Nat \ {0},
         e = [value |-> value, made |-> now]
  PROVE  Lives(e, ttl, Moment) /\ e.value = value /\ e.made = now
BY DEF Lives, IsEntry, MomentOK, Moment

LEMMA StoreAggsStep ==
  ASSUME AnswersInv, NEW t \in Tasks, StoreAggs(t)
  PROVE  AnswersInv'
<1> DEFINE k == AggKey(ask(t))
           value == req[t].aggs
<1>1. /\ Moment' = Moment /\ MomentOK(Moment)' /\ CoresOK' /\ ValuesOK'
  BY Stays DEF StoreAggs
<1>2. RequestsOK'
  BY NextStep DEF StoreAggs, At
<1>3. /\ RequestOK(req[t], Moment) /\ req[t].pc = "aggs" /\ req[t].ask = ask(t)
      /\ MomentOK(Moment) /\ AggsOK /\ Moment.now = now /\ FacetTtl \in Nat \ {0}
  BY AnswersAssumption DEF AnswersInv, RequestsOK, StoreAggs, At, ask, Moment
<1>4. CountsOK(value, now, Moment) /\ DOMAIN value.counts = k.facets
  BY <1>3 DEF RequestOK, AggKey
<1>5. aggs' = Stored(aggs, k, value)
  BY DEF StoreAggs
<1> HIDE DEF k, value
<1>6. /\ OnKeys(aggs', AggKeys) /\ \A j \in AggKeys : j # k => aggs'[j] = aggs[j]
      /\ k \in AggKeys => aggs'[k] = [value |-> value, made |-> now]
  BY <1>3, <1>5, StoredAt DEF AggsOK
<1>7. ASSUME k \in AggKeys PROVE CountsEntry(aggs'[k], k.facets, Moment)
  <2>1. Lives(aggs'[k], FacetTtl, Moment) /\ aggs'[k].value = value /\ aggs'[k].made = now
    BY <1>3, <1>6, <1>7, StoredLives
  <2> QED
    BY <1>4, <2>1 DEF CountsEntry
<1>8. AggsOK'
  BY <1>1, <1>3, <1>6, <1>7 DEF AggsOK
<1> QED
  BY <1>1, <1>2, <1>8 DEF AnswersInv, RestOK, StoreAggs

LEMMA TagAggsStep ==
  ASSUME AnswersInv, NEW t \in Tasks, TagAggs(t)
  PROVE  AnswersInv'
<1>1. /\ Moment' = Moment /\ MomentOK(Moment)' /\ CoresOK' /\ AggsOK' /\ ValuesOK'
  BY Stays DEF TagAggs, caches
<1>2. RequestsOK'
  BY NextStep DEF TagAggs, At
<1> QED
  BY <1>1, <1>2 DEF AnswersInv, RestOK, TagAggs

LEMMA StoreCoreStep ==
  ASSUME AnswersInv, NEW t \in Tasks, StoreCore(t)
  PROVE  AnswersInv'
<1> DEFINE k == CoreKey(ask(t))
           value == req[t].answer
<1>1. /\ Moment' = Moment /\ MomentOK(Moment)' /\ AggsOK' /\ ValuesOK'
  BY Stays DEF StoreCore
<1>2. RequestsOK'
  BY NextStep DEF StoreCore, At
<1>3. /\ RequestOK(req[t], Moment) /\ req[t].pc = "core"
      /\ MomentOK(Moment) /\ CoresOK /\ Moment.now = now /\ CoreTtl \in Nat \ {0}
  BY AnswersAssumption DEF AnswersInv, RequestsOK, StoreCore, At, Moment
<1>4. AnswerOK(value, Moment) /\ value.made = now
  BY <1>3 DEF RequestOK
<1>5. cores' = Stored(cores, k, value)
  BY DEF StoreCore
<1> HIDE DEF k, value
<1>6. /\ OnKeys(cores', CoreKeys) /\ \A j \in CoreKeys : j # k => cores'[j] = cores[j]
      /\ k \in CoreKeys => cores'[k] = [value |-> value, made |-> now]
  BY <1>3, <1>5, StoredAt DEF CoresOK
<1>7. ASSUME k \in CoreKeys PROVE AnswerEntry(cores'[k], Moment)
  <2>1. Lives(cores'[k], CoreTtl, Moment) /\ cores'[k].value = value /\ cores'[k].made = now
    BY <1>3, <1>6, <1>7, StoredLives
  <2> QED
    BY <1>4, <2>1 DEF AnswerEntry
<1>8. CoresOK'
  BY <1>1, <1>3, <1>6, <1>7 DEF CoresOK
<1> QED
  BY <1>1, <1>2, <1>8 DEF AnswersInv, RestOK, StoreCore

\* Who has stored an answer, or not, answers with it.
LEMMA FoundAnswers ==
  ASSUME AnswersInv, UNCHANGED world, NEW t \in Tasks, req[t].pc \in {"core", "tagCore"},
         Answer(t, req[t].answer)
  PROVE  RequestsOK'
<1>1. Moment' = Moment
  BY Stays
<1>2. /\ RequestsOK /\ RequestOK(req[t], Moment)
      /\ Moment.now = now /\ now \in Nat /\ CoreTtl \in Nat \ {0}
  BY AnswersAssumption DEF AnswersInv, RequestsOK, Moment, MomentOK
<1>3. req[t].ask \in Searches /\ req[t].ask \in Questions
  BY <1>2 DEF RequestOK, Searching, Searches
<1>4. AnswerOK(req[t].answer, Moment) /\ now < req[t].answer.made + Lifetime(req[t].ask)
  BY <1>2, <1>3 DEF RequestOK, Lifetime
<1> QED
  BY <1>1, <1>2, <1>3, <1>4, AnswersInOrder

LEMMA TagCoreStep ==
  ASSUME AnswersInv, NEW t \in Tasks, TagCore(t)
  PROVE  AnswersInv'
<1>1. /\ Moment' = Moment /\ MomentOK(Moment)' /\ CoresOK' /\ AggsOK' /\ ValuesOK'
  BY Stays DEF TagCore, caches
<1>2. RequestsOK'
  BY FoundAnswers DEF TagCore, At
<1> QED
  BY <1>1, <1>2 DEF AnswersInv, RestOK, TagCore

-----------------------------------------------------------------------------
(* The steps of a facet.                                                    *)

LEMMA LookupValuesStep ==
  ASSUME AnswersInv, NEW t \in Tasks, LookupValues(t)
  PROVE  AnswersInv'
<1> DEFINE k == ValuesKey(ask(t))
           e == values[k]
<1>1. /\ Moment' = Moment /\ MomentOK(Moment)' /\ CoresOK' /\ AggsOK' /\ ValuesOK'
  BY Stays DEF LookupValues, caches
<1>2. /\ RequestsOK /\ ValuesOK /\ RequestOK(req[t], Moment) /\ req[t].pc = "values" /\ req[t].ask = ask(t)
      /\ MomentOK(Moment) /\ Moment.now = now
  BY DEF AnswersInv, RequestsOK, LookupValues, At, ask, Moment
<1>3. ask(t) \in Questions \ Searches
  BY <1>2 DEF RequestOK, Counting
<1>4. RequestsOK'
  <2>1. CASE e = None
    BY <2>1, NextStep DEF LookupValues, At
  <2>2. CASE e # None
    <3> DEFINE a == FacetAnswer(ask(t), [counts |-> e.value.counts, at |-> e.value.at, made |-> e.made])
    <3>1. CountsEntry(e, {k.facet}, Moment)
      BY <1>2, <1>3, <2>2 DEF ValuesOK, ValuesKeys
    <3>2. Answer(t, a)
      BY <2>2 DEF LookupValues
    <3>3. CountsOK(e.value, e.made, Moment) /\ e.made \in 0 .. Moment.now /\ now < e.made + FacetTtl
      BY <1>2, <3>1 DEF CountsEntry, Lives
    <3>4. AnswerOK(a, Moment) /\ a.made = e.made
      BY <1>2, <3>3, FacetAnswerOK
    <3> HIDE DEF a, e, k
    <3>5. now < a.made + Lifetime(ask(t))
      BY <1>3, <3>3, <3>4 DEF Lifetime
    <3> QED
      BY <1>1, <1>2, <1>3, <3>2, <3>4, <3>5, AnswersInOrder
  <2> QED
    BY <2>1, <2>2
<1> QED
  BY <1>1, <1>4 DEF AnswersInv, RestOK, LookupValues

LEMMA SearchValuesStep ==
  ASSUME AnswersInv, NEW t \in Tasks, SearchValues(t)
  PROVE  AnswersInv'
<1> DEFINE c == [counts |-> CountsOf(ask(t), index), at |-> index]
           r == [req[t] EXCEPT !.pc = "store", !.aggs = c]
<1>1. /\ Moment' = Moment /\ MomentOK(Moment)' /\ CoresOK' /\ AggsOK' /\ ValuesOK'
  BY Stays DEF SearchValues, caches
<1>2. /\ RequestsOK /\ RequestOK(req[t], Moment) /\ req[t].pc = "count" /\ req[t].ask = ask(t)
      /\ MomentOK(Moment) /\ Moment.now = now /\ Moment.index = index
  BY DEF AnswersInv, RequestsOK, SearchValues, At, ask, Moment
<1>3. ask(t) \in Questions \ Searches
  BY <1>2 DEF RequestOK, Counting
<1>4. RequestsOK'
  <2>1. CASE Contents[index] = Missing
    BY <1>1, <1>2, <1>3, <2>1, AnswersInOrder DEF SearchValues
  <2>2. CASE Contents[index] # Missing
    <3>1. req' = [req EXCEPT ![t] = r]
      BY <1>2, <2>2 DEF SearchValues, RequestsOK, OnKeys
    <3>2. c.at = index /\ DOMAIN c.counts = Selected(ask(t))
      BY DEF CountsOf
    <3>3. CountsOK(c, now, Moment)
      <4>1. now \in Nat /\ Seen(index, Moment) /\ Since(index, Moment) = now
        BY <1>2, SinceNow DEF MomentOK
      <4> HIDE DEF c
      <4> QED
        BY <3>2, <4>1 DEF CountsOK
    <3> HIDE DEF c
    <3>4. r = [pc |-> "store", ask |-> req[t].ask, aggs |-> c, answer |-> req[t].answer]
      BY <1>2, CountsField DEF RequestOK
    <3> HIDE DEF r
    <3>5. RequestOK(r, Moment)
      BY <1>2, <1>3, <3>2, <3>3, <3>4 DEF RequestOK, IsRequest, Searching, Counting
    <3> QED
      BY <1>1, <1>2, <3>1, <3>5, OneRequest
  <2> QED
    BY <2>1, <2>2
<1> QED
  BY <1>1, <1>4 DEF AnswersInv, RestOK, SearchValues

\* One facet is asked for, so its name says which values there are.
LEMMA FacetOfKey ==
  ASSUME NEW p \in Questions \ Searches
  PROVE  Selected(p) = {ValuesKey(p).facet}
<1>1. PICK f \in Facets : p.facets = {f}
  BY FacetAssumption
<1>2. Selected(p) = {f}
  BY <1>1 DEF Selected
<1> QED
  BY <1>2 DEF ValuesKey

LEMMA StoreValuesStep ==
  ASSUME AnswersInv, NEW t \in Tasks, StoreValues(t)
  PROVE  AnswersInv'
<1> DEFINE k == ValuesKey(ask(t))
           value == req[t].aggs
<1>1. /\ Moment' = Moment /\ MomentOK(Moment)' /\ CoresOK' /\ AggsOK'
  BY Stays DEF StoreValues
<1>2. RequestsOK'
  BY NextStep DEF StoreValues, At
<1>3. /\ RequestOK(req[t], Moment) /\ req[t].pc = "store" /\ req[t].ask = ask(t)
      /\ MomentOK(Moment) /\ ValuesOK /\ Moment.now = now /\ FacetTtl \in Nat \ {0}
  BY AnswersAssumption DEF AnswersInv, RequestsOK, StoreValues, At, ask, Moment
<1>4. CountsOK(value, now, Moment) /\ DOMAIN value.counts = {k.facet}
  <2>1. ask(t) \in Questions \ Searches
    BY <1>3 DEF RequestOK, Counting
  <2> QED
    BY <1>3, <2>1, FacetOfKey DEF RequestOK
<1>5. values' = Stored(values, k, value)
  BY DEF StoreValues
<1> HIDE DEF k, value
<1>6. /\ OnKeys(values', ValuesKeys) /\ \A j \in ValuesKeys : j # k => values'[j] = values[j]
      /\ k \in ValuesKeys => values'[k] = [value |-> value, made |-> now]
  BY <1>3, <1>5, StoredAt DEF ValuesOK
<1>7. ASSUME k \in ValuesKeys PROVE CountsEntry(values'[k], {k.facet}, Moment)
  <2>1. Lives(values'[k], FacetTtl, Moment) /\ values'[k].value = value /\ values'[k].made = now
    BY <1>3, <1>6, <1>7, StoredLives
  <2> QED
    BY <1>4, <2>1 DEF CountsEntry
<1>8. ValuesOK'
  BY <1>1, <1>3, <1>6, <1>7 DEF ValuesOK
<1> QED
  BY <1>1, <1>2, <1>8 DEF AnswersInv, RestOK, StoreValues

\* Who has counted answers with what was counted, stored or not.
LEMMA CountedAnswers ==
  ASSUME AnswersInv, UNCHANGED world, NEW t \in Tasks, req[t].pc \in {"store", "tagValues"},
         ValuesAnswer(t)
  PROVE  RequestsOK'
<1> DEFINE a == FacetAnswer(ask(t), [counts |-> req[t].aggs.counts, at |-> req[t].aggs.at, made |-> now])
<1>1. Moment' = Moment
  BY Stays
<1>2. /\ RequestsOK /\ RequestOK(req[t], Moment) /\ req[t].ask = ask(t)
      /\ MomentOK(Moment) /\ Moment.now = now
  BY DEF AnswersInv, RequestsOK, ask, Moment
<1>3. ask(t) \in Questions \ Searches /\ CountsOK(req[t].aggs, now, Moment)
  BY <1>2 DEF RequestOK, Counting
<1>4. now \in 0 .. Moment.now
  BY <1>2 DEF MomentOK
<1>5. AnswerOK(a, Moment) /\ a.made = now
  BY <1>2, <1>3, <1>4, FacetAnswerOK
<1>6. Answer(t, a)
  BY DEF ValuesAnswer
<1> HIDE DEF a
<1>7. now < a.made + Lifetime(ask(t))
  BY <1>3, <1>4, <1>5, AnswersAssumption DEF Lifetime
<1> QED
  BY <1>1, <1>2, <1>3, <1>5, <1>6, <1>7, AnswersInOrder

LEMMA TagValuesStep ==
  ASSUME AnswersInv, NEW t \in Tasks, TagValues(t)
  PROVE  AnswersInv'
<1>1. /\ Moment' = Moment /\ MomentOK(Moment)' /\ CoresOK' /\ AggsOK' /\ ValuesOK'
  BY Stays DEF TagValues, caches
<1>2. RequestsOK'
  BY CountedAnswers DEF TagValues, At
<1> QED
  BY <1>1, <1>2 DEF AnswersInv, RestOK, TagValues

-----------------------------------------------------------------------------
(* Failures, and what goes on around the requests.                          *)

LEMMA StoreFailsStep ==
  ASSUME AnswersInv, NEW t \in Tasks, StoreFails(t) \/ TagFails(t)
  PROVE  AnswersInv'
<1>1. UNCHANGED world
  BY DEF StoreFails, TagFails
<1>2. /\ Moment' = Moment /\ MomentOK(Moment)' /\ CoresOK' /\ AggsOK' /\ ValuesOK'
  BY Stays DEF StoreFails, TagFails, caches
<1>3. RequestsOK'
  <2>1. CASE (At(t, "aggs") \/ At(t, "tagAggs")) /\ Go(t, "core")
    BY <1>1, <2>1, NextStep DEF At
  <2>2. CASE (At(t, "core") \/ At(t, "tagCore")) /\ Answer(t, req[t].answer)
    BY <1>1, <2>2, FoundAnswers DEF At
  <2>3. CASE (At(t, "store") \/ At(t, "tagValues")) /\ ValuesAnswer(t)
    BY <1>1, <2>3, CountedAnswers DEF At
  <2> QED
    BY <2>1, <2>2, <2>3 DEF StoreFails, TagFails
<1>4. faults' \in 0 .. MaxFaults
  BY AnswersAssumption DEF StoreFails, TagFails, AnswersInv, RestOK
<1> QED
  BY <1>2, <1>3, <1>4 DEF AnswersInv, RestOK, StoreFails, TagFails

LEMMA RestStep ==
  ASSUME AnswersInv, NEW t \in Tasks, Die(t) \/ Finish(t)
  PROVE  AnswersInv'
<1>1. /\ Moment' = Moment /\ MomentOK(Moment)' /\ CoresOK' /\ AggsOK' /\ ValuesOK'
  BY Stays DEF Die, Finish, caches
<1>2. RequestOK(Idle, Moment)
  BY DEF RequestOK, IsRequest, Idle, Searching, Counting
<1>3. RequestsOK'
  BY <1>1, <1>2, OneRequest DEF Die, Finish, AnswersInv
<1>4. faults' \in 0 .. MaxFaults
  BY AnswersAssumption DEF Die, Finish, AnswersInv, RestOK
<1> QED
  BY <1>1, <1>3, <1>4 DEF AnswersInv, RestOK, Die, Finish

LEMMA OthersTagStep ==
  ASSUME AnswersInv, NEW ttl, OthersTag(ttl)
  PROVE  AnswersInv'
<1>1. /\ Moment' = Moment /\ MomentOK(Moment)' /\ CoresOK' /\ AggsOK' /\ ValuesOK'
  BY Stays DEF OthersTag, caches
<1>2. RequestsOK'
  BY <1>1 DEF OthersTag, AnswersInv, RequestsOK, OnKeys
<1>3. faults' \in 0 .. MaxFaults
  BY AnswersAssumption DEF OthersTag, AnswersInv, RestOK
<1> QED
  BY <1>1, <1>2, <1>3 DEF AnswersInv, RestOK, OthersTag

LEMMA ChangeIndexStep ==
  ASSUME AnswersInv, ChangeIndex
  PROVE  AnswersInv'
<1> DEFINE m == Moment
           n == [now |-> now, index |-> index + 1, ended |-> [ended EXCEPT ![index] = now], cleared |-> cleared]
<1>1. Moment' = n /\ UNCHANGED <<caches, locks, req, asks, faults>> /\ index + 1 \in Versions
  BY DEF ChangeIndex, Moment
<1>2. /\ MomentOK(m) /\ m.now = now /\ m.index = index /\ m.ended = ended /\ m.cleared = cleared
      /\ n.now = now /\ n.index = index + 1 /\ n.ended = [ended EXCEPT ![index] = now] /\ n.cleared = cleared
  BY DEF AnswersInv, Moment
<1>3. index \in Versions /\ index \in Nat \ {0} /\ now \in 0 .. MaxTime /\ cleared \in 0 .. index
  BY <1>2, Numbers DEF MomentOK
<1> HIDE DEF m, n
<1>4. \A v \in Versions : n.ended[v] = IF v = index THEN now ELSE ended[v]
  BY <1>2, <1>3 DEF MomentOK
<1>5. MomentOK(n)
  <2>1. n.ended \in [Versions -> 0 .. MaxTime \cup {None}]
    BY <1>2, <1>3 DEF MomentOK
  <2>2. \A v \in Versions : n.ended[v] # None => n.ended[v] <= n.now
    BY <1>2, <1>3, <1>4 DEF MomentOK
  <2>3. \A v \in Versions : v >= n.index => n.ended[v] = None
    <3> SUFFICES ASSUME NEW v \in Versions, v >= index + 1 PROVE n.ended[v] = None
      BY <1>2
    <3>1. v # index /\ v >= index
      BY <1>3, Numbers
    <3> QED
      BY <1>2, <1>4, <3>1 DEF MomentOK
  <2>4. n.now \in 0 .. MaxTime /\ n.index \in Versions /\ n.cleared \in 0 .. n.index
    BY <1>1, <1>2, <1>3
  <2> QED
    BY <2>1, <2>2, <2>3, <2>4 DEF MomentOK
<1>6. \A v \in 1 .. index : Since(v, n) = Since(v, m)
  <2> SUFFICES ASSUME NEW v \in 1 .. index PROVE Since(v, n) = Since(v, m)
    OBVIOUS
  <2>1. v \in Versions
    BY <1>2, SinceTyped
  <2>2. CASE v = index
    <3>1. ended[v] = None
      BY <1>2, <1>3, <2>2 DEF MomentOK
    <3> QED
      BY <1>2, <1>4, <2>1, <2>2, <3>1 DEF Since
  <2>3. CASE v # index
    BY <1>2, <1>4, <2>1, <2>3 DEF Since
  <2> QED
    BY <2>2, <2>3
<1>7. Later(m, n)
  <2>1. n.index >= m.index /\ n.now >= m.now /\ n.cleared = m.cleared
    BY <1>2, <1>3
  <2>2. \A v \in 1 .. m.index : Since(v, n) >= Since(v, m)
    BY <1>2, <1>6, SinceTyped
  <2> QED
    BY <2>1, <2>2 DEF Later
<1>8. ASSUME NEW e, NEW ttl, Lives(e, ttl, m) PROVE Lives(e, ttl, n) /\ e.made \in Nat
  BY <1>2, <1>8 DEF Lives, MomentOK
<1>9. CoresOK'
  <2>1. \A k \in CoreKeys : cores[k] # None => AnswerEntry(cores[k], n)
    BY <1>2, <1>5, <1>7, <1>8, AnswerLater DEF AnswersInv, CoresOK, AnswerEntry, m
  <2> QED
    BY <1>1, <2>1 DEF AnswersInv, CoresOK, OnKeys, caches
<1>10. ASSUME NEW e, NEW facets, CountsEntry(e, facets, m) PROVE CountsEntry(e, facets, n)
  BY <1>2, <1>5, <1>7, <1>8, <1>10, CountsLater DEF CountsEntry
<1>11. AggsOK' /\ ValuesOK'
  BY <1>1, <1>10 DEF AnswersInv, AggsOK, ValuesOK, OnKeys, caches, m
<1>12. ASSUME NEW r, RequestOK(r, m) PROVE RequestOK(r, n)
  <2>1. \A c : CountsOK(c, now, m) => CountsOK(c, now, n)
    BY <1>2, <1>3, <1>5, <1>7, CountsLater
  <2>2. \A a : AnswerOK(a, m) => AnswerOK(a, n)
    BY <1>2, <1>5, <1>7, AnswerLater
  <2>3. ASSUME r.pc = "search", r.aggs # None PROVE Seen(r.aggs.at, n) /\ now < Since(r.aggs.at, n) + FacetTtl
    <3>1. Seen(r.aggs.at, m) /\ now < Since(r.aggs.at, m) + FacetTtl
      BY <1>2, <1>12, <2>3 DEF RequestOK
    <3>2. Seen(r.aggs.at, n) /\ Since(r.aggs.at, n) = Since(r.aggs.at, m)
      BY <1>2, <1>5, <1>6, <1>7, <3>1, SeenLater DEF Seen
    <3> QED
      BY <3>1, <3>2
  <2> QED
    BY <1>2, <1>12, <2>1, <2>2, <2>3 DEF RequestOK
<1>13. RequestsOK'
  BY <1>1, <1>12 DEF AnswersInv, RequestsOK, OnKeys, m
<1> QED
  BY <1>1, <1>5, <1>9, <1>11, <1>13 DEF AnswersInv, RestOK

\* While nobody asks, nothing is at stake but what is cached.
LEMMA QuietRequests ==
  ASSUME RequestsOK, Quiet, req' = req
  PROVE  RequestsOK'
<1>1. ASSUME NEW t \in Tasks PROVE RequestOK(req'[t], Moment')
  BY DEF RequestsOK, RequestOK, Quiet, At, Searching, Counting
<1> QED
  BY <1>1 DEF RequestsOK, OnKeys

LEMMA NothingToTag ==
  ASSUME Quiet, NEW t \in Tasks
  PROVE  ToTag(t) = {}
BY DEF Quiet, ToTag, At

\* A clear leaves only entries there were and that the tag set does not list.
LEMMA UnclearedAt ==
  ASSUME NEW keys, NEW cache, OnKeys(cache, keys), NEW kind
  PROVE  /\ OnKeys(Uncleared(kind, cache), keys)
         /\ \A k \in keys : Uncleared(kind, cache)[k] # None =>
              cache[k] # None /\ <<kind, k>> \notin tagged /\ Uncleared(kind, cache)[k] = cache[k]
<1>1. DOMAIN cache = keys
  BY DEF OnKeys
<1> QED
  BY <1>1 DEF Uncleared, OnKeys

LEMMA AliveAt ==
  ASSUME NEW keys, NEW cache, OnKeys(cache, keys), NEW ttl, NEW time
  PROVE  /\ OnKeys(Alive(cache, ttl, time), keys)
         /\ \A k \in keys : Alive(cache, ttl, time)[k] # None =>
              cache[k] # None /\ ~(cache[k].made + ttl <= time) /\ Alive(cache, ttl, time)[k] = cache[k]
<1>1. DOMAIN cache = keys
  BY DEF OnKeys
<1> QED
  BY <1>1 DEF Alive, OnKeys

\* The clear that counts leaves no entry.
LEMMA ClearSearchStep ==
  ASSUME AnswersInv, HeldInv, ClearSearch
  PROVE  AnswersInv'
<1> DEFINE thorough == Quiet /\ slips = {}
<1>1. /\ CoresOK /\ AggsOK /\ ValuesOK /\ RequestsOK /\ MomentOK(Moment)
      /\ UNCHANGED <<now, index, ended, locks, req, asks, faults>>
      /\ cores' = Uncleared("core", cores) /\ aggs' = Uncleared("aggs", aggs)
      /\ values' = Uncleared("values", values)
      /\ cleared' = IF thorough THEN index ELSE cleared
  BY DEF AnswersInv, ClearSearch
<1>2. /\ OnKeys(cores', CoreKeys) /\ OnKeys(aggs', AggKeys) /\ OnKeys(values', ValuesKeys)
      /\ \A k \in CoreKeys : cores'[k] # None =>
           cores[k] # None /\ <<"core", k>> \notin tagged /\ cores'[k] = cores[k]
      /\ \A k \in AggKeys : aggs'[k] # None =>
           aggs[k] # None /\ <<"aggs", k>> \notin tagged /\ aggs'[k] = aggs[k]
      /\ \A k \in ValuesKeys : values'[k] # None =>
           values[k] # None /\ <<"values", k>> \notin tagged /\ values'[k] = values[k]
  BY <1>1, UnclearedAt DEF CoresOK, AggsOK, ValuesOK
<1>3. MomentOK(Moment')
  BY <1>1, Numbers DEF MomentOK, Moment
<1>4. CASE thorough
  <2>1. \A name, end : Held(name, end) => name \in tagged
    BY <1>4, NothingToTag DEF Held
  <2>2. \A k \in CoreKeys : cores'[k] = None
    BY <1>2, <2>1 DEF HeldInv, CoresHeld
  <2>3. \A k \in AggKeys : aggs'[k] = None
    BY <1>2, <2>1 DEF HeldInv, AggsHeld
  <2>4. \A k \in ValuesKeys : values'[k] = None
    BY <1>2, <2>1 DEF HeldInv, ValuesHeld
  <2>5. CoresOK' /\ AggsOK' /\ ValuesOK'
    BY <1>2, <2>2, <2>3, <2>4 DEF CoresOK, AggsOK, ValuesOK
  <2>6. RequestsOK'
    BY <1>1, <1>4, QuietRequests
  <2> QED
    BY <1>1, <1>3, <2>5, <2>6 DEF AnswersInv, RestOK
<1>5. CASE ~thorough
  <2>1. Moment' = Moment
    BY <1>1, <1>5 DEF Moment
  <2>2. CoresOK' /\ AggsOK' /\ ValuesOK'
    BY <1>1, <1>2, <2>1 DEF CoresOK, AggsOK, ValuesOK
  <2>3. RequestsOK'
    BY <1>1, <2>1 DEF RequestsOK, OnKeys
  <2> QED
    BY <1>1, <1>3, <2>2, <2>3 DEF AnswersInv, RestOK
<1> QED
  BY <1>4, <1>5

LEMMA TickStep ==
  ASSUME AnswersInv, Tick
  PROVE  AnswersInv'
<1> DEFINE m == Moment
           n == [now |-> now + 1, index |-> index, ended |-> ended, cleared |-> cleared]
<1>1. /\ Moment' = n /\ UNCHANGED <<req, asks, faults>> /\ locks' = {} /\ Quiet /\ now < MaxTime
      /\ cores' = Alive(cores, CoreTtl, now + 1)
      /\ aggs' = Alive(aggs, FacetTtl, now + 1) /\ values' = Alive(values, FacetTtl, now + 1)
  BY DEF Tick, Moment
<1>2. /\ MomentOK(m) /\ m.now = now /\ m.index = index /\ m.ended = ended /\ m.cleared = cleared
      /\ n.now = now + 1 /\ n.index = index /\ n.ended = ended /\ n.cleared = cleared
  BY DEF AnswersInv, Moment
<1>3. /\ CoresOK /\ AggsOK /\ ValuesOK /\ RequestsOK
      /\ index \in Versions /\ index \in Nat /\ now \in 0 .. MaxTime /\ MaxTime \in Nat
      /\ CoreTtl \in Nat /\ FacetTtl \in Nat
  BY <1>2, Numbers, AnswersAssumption DEF MomentOK, AnswersInv
<1> HIDE DEF n
<1>4. MomentOK(n)
  <2>1. n.now \in 0 .. MaxTime
    BY <1>1, <1>2, <1>3
  <2>2. \A v \in Versions : n.ended[v] # None => n.ended[v] <= n.now
    <3> SUFFICES ASSUME NEW v \in Versions, ended[v] # None PROVE ended[v] <= now + 1
      BY <1>2
    <3>1. ended[v] \in 0 .. MaxTime /\ ended[v] <= now
      BY <1>2 DEF MomentOK
    <3> QED
      BY <1>3, <3>1
  <2> HIDE DEF m
  <2> QED
    BY <1>2, <2>1, <2>2 DEF MomentOK
<1>5. Later(m, n)
  <2>1. ASSUME NEW v \in 1 .. index PROVE Since(v, n) >= Since(v, m)
    <3>1. v \in Versions /\ Since(v, m) \in Nat /\ Since(v, m) <= now
      BY <1>2, SinceTyped
    <3>2. Since(v, n) = IF ended[v] = None THEN now + 1 ELSE ended[v]
      BY <1>2 DEF Since
    <3>3. Since(v, m) = IF ended[v] = None THEN now ELSE ended[v]
      BY <1>2 DEF Since
    <3> QED
      BY <1>3, <3>1, <3>2, <3>3
  <2> HIDE DEF m
  <2> QED
    BY <1>2, <1>3, <2>1 DEF Later
<1>6. ASSUME NEW e, NEW ttl \in Nat, Lives(e, ttl, m), ~(e.made + ttl <= now + 1)
      PROVE  Lives(e, ttl, n) /\ e.made \in Nat
  <2>1. e.made \in 0 .. now
    BY <1>2, <1>6 DEF Lives
  <2>2. e.made \in 0 .. n.now /\ n.now < e.made + ttl
    BY <1>2, <1>3, <1>6, <2>1
  <2> QED
    BY <1>6, <2>1, <2>2 DEF Lives
<1>7. CoresOK'
  <2>1. /\ OnKeys(cores', CoreKeys)
        /\ \A k \in CoreKeys : cores'[k] # None =>
             cores[k] # None /\ ~(cores[k].made + CoreTtl <= now + 1) /\ cores'[k] = cores[k]
    BY <1>1, <1>3, AliveAt DEF CoresOK
  <2>2. ASSUME NEW k \in CoreKeys, cores'[k] # None PROVE AnswerEntry(cores[k], n)
    <3>1. AnswerEntry(cores[k], m)
      BY <1>3, <2>1, <2>2 DEF CoresOK
    <3> HIDE DEF m
    <3> QED
      BY <1>2, <1>3, <1>4, <1>5, <1>6, <2>1, <2>2, <3>1, AnswerLater DEF AnswerEntry
  <2> QED
    BY <1>1, <2>1, <2>2 DEF CoresOK
<1>8. ASSUME NEW e, NEW facets, CountsEntry(e, facets, m), ~(e.made + FacetTtl <= now + 1)
      PROVE  CountsEntry(e, facets, n)
  <2> HIDE DEF m
  <2> QED
    BY <1>2, <1>3, <1>4, <1>5, <1>6, <1>8, CountsLater DEF CountsEntry
<1>9. AggsOK'
  <2>1. /\ OnKeys(aggs', AggKeys)
        /\ \A k \in AggKeys : aggs'[k] # None =>
             aggs[k] # None /\ ~(aggs[k].made + FacetTtl <= now + 1) /\ aggs'[k] = aggs[k]
    BY <1>1, <1>3, AliveAt DEF AggsOK
  <2> QED
    BY <1>1, <1>3, <1>8, <2>1 DEF AggsOK
<1>10. ValuesOK'
  <2>1. /\ OnKeys(values', ValuesKeys)
        /\ \A k \in ValuesKeys : values'[k] # None =>
             values[k] # None /\ ~(values[k].made + FacetTtl <= now + 1) /\ values'[k] = values[k]
    BY <1>1, <1>3, AliveAt DEF ValuesOK
  <2> QED
    BY <1>1, <1>3, <1>8, <2>1 DEF ValuesOK
<1>11. RequestsOK'
  BY <1>1, <1>3, QuietRequests
<1> QED
  BY <1>1, <1>4, <1>7, <1>9, <1>10, <1>11 DEF AnswersInv, RestOK

-----------------------------------------------------------------------------
(* Types, ages and clears.                                                  *)

LEMMA AnswersInit == Init => AnswersInv
<1> SUFFICES ASSUME Init PROVE AnswersInv
  OBVIOUS
<1>1. 1 \in Versions /\ MaxTime \in Nat /\ MaxFaults \in Nat
  BY Numbers, AnswersAssumption
<1>2. MomentOK(Moment)
  BY <1>1 DEF Init, MomentOK, Moment
<1>3. CoresOK /\ AggsOK /\ ValuesOK
  BY DEF Init, CoresOK, AggsOK, ValuesOK, OnKeys
<1>4. RequestOK(Idle, Moment)
  BY DEF RequestOK, IsRequest, Idle, Searching, Counting
<1>5. RequestsOK
  BY <1>4 DEF Init, RequestsOK, OnKeys
<1>6. asks \in Seq(Questions)
  <2>1. asks \in Scripts /\ asks \in Seq(ToSet(asks))
    BY AnswersAssumption DEF Init
  <2>2. ToSet(asks) \subseteq Questions
    BY <2>1 DEF Questions
  <2> QED
    BY <2>1, <2>2
<1>7. RestOK
  BY <1>1, <1>6 DEF Init, RestOK
<1> QED
  BY <1>2, <1>3, <1>5, <1>7 DEF AnswersInv

LEMMA AnswersStep == AnswersInv /\ HeldInv /\ [Next]_vars => AnswersInv'
<1> SUFFICES ASSUME AnswersInv, HeldInv, [Next]_vars PROVE AnswersInv'
  OBVIOUS
<1>1. CASE UNCHANGED vars
  <2>1. /\ Moment' = Moment /\ MomentOK(Moment)' /\ CoresOK' /\ AggsOK' /\ ValuesOK'
    BY <1>1, Stays DEF vars, world
  <2>2. RequestsOK'
    BY <1>1, <2>1 DEF vars, AnswersInv, RequestsOK, OnKeys
  <2> QED
    BY <1>1, <2>1, <2>2 DEF vars, AnswersInv, RestOK
<1>2. CASE Next
  <2>1. ASSUME NEW t \in Tasks,
               Ask(t) \/ WaitHit(t) \/ GiveUp(t) \/ LookupAggs(t) \/ Search(t) \/ SearchFails(t)
        PROVE  AnswersInv'
    BY <2>1, AskStep, WaitHitStep, GiveUpStep, LookupAggsStep, SearchStep, SearchFailsStep
  <2>2. ASSUME NEW t \in Tasks, StoreAggs(t) \/ TagAggs(t) \/ StoreCore(t) \/ TagCore(t)
        PROVE  AnswersInv'
    BY <2>2, StoreAggsStep, TagAggsStep, StoreCoreStep, TagCoreStep
  <2>3. ASSUME NEW t \in Tasks, LookupValues(t) \/ SearchValues(t) \/ StoreValues(t) \/ TagValues(t)
        PROVE  AnswersInv'
    BY <2>3, LookupValuesStep, SearchValuesStep, StoreValuesStep, TagValuesStep
  <2>4. ASSUME NEW t \in Tasks, StoreFails(t) \/ TagFails(t) \/ Die(t) \/ Finish(t)
        PROVE  AnswersInv'
    BY <2>4, StoreFailsStep, RestStep
  <2> QED
    BY <1>2, <2>1, <2>2, <2>3, <2>4, OthersTagStep, ChangeIndexStep, ClearSearchStep, TickStep DEF Next
<1> QED
  BY <1>1, <1>2

-----------------------------------------------------------------------------
(* What the tag set lists (HeldInv).                                        *)

LEMMA NamesToTag ==
  ASSUME AnswersInv, NEW t \in Tasks
  PROVE  ToTag(t) \subseteq KnownNames
<1>1. RequestOK(req[t], Moment) /\ ask(t) = req[t].ask
  BY DEF AnswersInv, RequestsOK, ask
<1>2. ASSUME At(t, "tagAggs") PROVE <<"aggs", AggKey(ask(t))>> \in KnownNames
  <2>1. AggKey(ask(t)) \in AggKeys
    BY <1>1, <1>2 DEF RequestOK, At, Searching, AggKeys
  <2> QED
    BY <2>1 DEF KnownNames
<1>3. ASSUME At(t, "tagCore") PROVE <<"core", CoreKey(ask(t))>> \in KnownNames
  <2>1. CoreKey(ask(t)) \in CoreKeys
    BY <1>1, <1>3 DEF RequestOK, At, Searching, CoreKeys
  <2> QED
    BY <2>1 DEF KnownNames
<1>4. ASSUME At(t, "tagValues") PROVE <<"values", ValuesKey(ask(t))>> \in KnownNames
  <2>1. ValuesKey(ask(t)) \in ValuesKeys
    BY <1>1, <1>4 DEF RequestOK, At, Counting, ValuesKeys
  <2> QED
    BY <2>1 DEF KnownNames
<1> QED
  BY <1>2, <1>3, <1>4 DEF ToTag

\* A step of one request: the others have to tag what they had.
LEMMA OthersToTag ==
  ASSUME RequestsOK, NEW t \in Tasks, NEW r, req' = [req EXCEPT ![t] = r], NEW u \in Tasks, u # t
  PROVE  ToTag(u)' = ToTag(u)
<1>1. req'[u] = req[u]
  BY DEF RequestsOK, OnKeys
<1> QED
  BY <1>1 DEF ToTag, At, ask

LEMMA SetsOneRequest ==
  ASSUME RequestsOK, NEW t \in Tasks, NEW pc, NEW a, Go(t, pc) \/ Answer(t, a)
  PROVE  \E r : req' = [req EXCEPT ![t] = r]
<1>1. CASE Go(t, pc)
  BY <1>1, Goes
<1>2. CASE Answer(t, a)
  BY <1>2, Answers
<1> QED
  BY <1>1, <1>2


\* How long an entry under a name may live at most.
Ends(name) == now + (IF name[1] = "core" THEN CoreTtl ELSE FacetTtl)

\* Where entries stay as they are, they are held as long as each is held by name.
LEMMA EntriesHeld ==
  ASSUME AnswersInv, HeldInv, \A name \in KnownNames : \A end \in 0 .. Ends(name) : Held(name, end) => Held(name, end)'
  PROVE  /\ cores' = cores => CoresHeld'
         /\ aggs' = aggs => AggsHeld'
         /\ values' = values => ValuesHeld'
<1>1. CoreTtl \in Nat /\ FacetTtl \in Nat /\ now \in Nat /\ Moment.now = now
  BY AnswersAssumption DEF AnswersInv, MomentOK, Moment
<1>2. ASSUME cores' = cores, NEW k \in CoreKeys, cores[k] # None
      PROVE  Held(<<"core", k>>, cores[k].made + CoreTtl)'
  <2>1. cores[k].made \in 0 .. now
    BY <1>1, <1>2 DEF AnswersInv, CoresOK, AnswerEntry, Lives
  <2>2. PICK end : end = cores[k].made + CoreTtl
    OBVIOUS
  <2>3. <<"core", k>> \in KnownNames /\ Ends(<<"core", k>>) = now + CoreTtl
    BY DEF KnownNames, Ends
  <2>4. end \in 0 .. Ends(<<"core", k>>)
    BY <1>1, <2>1, <2>2, <2>3
  <2>5. Held(<<"core", k>>, end)'
    BY <1>2, <2>2, <2>3, <2>4 DEF HeldInv, CoresHeld
  <2> QED
    BY <1>2, <2>2, <2>5
<1>3. ASSUME aggs' = aggs, NEW k \in AggKeys, aggs[k] # None
      PROVE  Held(<<"aggs", k>>, aggs[k].made + FacetTtl)'
  <2>1. aggs[k].made \in 0 .. now
    BY <1>1, <1>3 DEF AnswersInv, AggsOK, CountsEntry, Lives
  <2>2. PICK end : end = aggs[k].made + FacetTtl
    OBVIOUS
  <2>3. <<"aggs", k>> \in KnownNames /\ Ends(<<"aggs", k>>) = now + FacetTtl
    BY DEF KnownNames, Ends
  <2>4. end \in 0 .. Ends(<<"aggs", k>>)
    BY <1>1, <2>1, <2>2, <2>3
  <2>5. Held(<<"aggs", k>>, end)'
    BY <1>3, <2>2, <2>3, <2>4 DEF HeldInv, AggsHeld
  <2> QED
    BY <1>3, <2>2, <2>5
<1>4. ASSUME values' = values, NEW k \in ValuesKeys, values[k] # None
      PROVE  Held(<<"values", k>>, values[k].made + FacetTtl)'
  <2>1. values[k].made \in 0 .. now
    BY <1>1, <1>4 DEF AnswersInv, ValuesOK, CountsEntry, Lives
  <2>2. PICK end : end = values[k].made + FacetTtl
    OBVIOUS
  <2>3. <<"values", k>> \in KnownNames /\ Ends(<<"values", k>>) = now + FacetTtl
    BY DEF KnownNames, Ends
  <2>4. end \in 0 .. Ends(<<"values", k>>)
    BY <1>1, <2>1, <2>2, <2>3
  <2>5. Held(<<"values", k>>, end)'
    BY <1>4, <2>2, <2>3, <2>4 DEF HeldInv, ValuesHeld
  <2> QED
    BY <1>4, <2>2, <2>5
<1> QED
  BY <1>2, <1>3, <1>4 DEF CoresHeld, AggsHeld, ValuesHeld

\* What is not tagged any more has slipped.
LEMMA KeptHeld ==
  ASSUME UNCHANGED <<tagged, expires>>, slips \subseteq slips', \A u \in Tasks : ToTag(u) \subseteq ToTag(u)' \cup slips',
         NEW name, NEW end, Held(name, end)
  PROVE  Held(name, end)'
BY DEF Held

\* What is tagged is listed for as long as it lives, and what was listed for longer than that
\* slips.
LEMMA TaggedHeld ==
  ASSUME NEW names, NEW tags, "search" \in tags, NEW ttl \in Nat, Tagged(names, tags, ttl),
         \A u \in Tasks : ToTag(u) \subseteq ToTag(u)' \cup names,
         now \in Nat, expires \in Nat, NEW name, NEW end \in Nat, Held(name, end),
         name \in names => end <= now + ttl
  PROVE  Held(name, end)'
<1>1. PICK last \in Nat : last = now + ttl + Padding /\ now + ttl <= last
  BY AnswersAssumption
<1>2. /\ tagged' = tagged \cup names /\ expires' = last
      /\ slips' = (slips \cup (IF last < expires THEN tagged ELSE {})) \ names
  BY <1>1 DEF Tagged
<1>3. CASE name \in names
  <2>1. end <= last
    BY <1>1, <1>3
  <2> QED
    BY <1>2, <1>3, <2>1 DEF Held
<1>4. CASE name \notin names
  <2>1. CASE name \in slips
    BY <1>2, <1>4, <2>1 DEF Held
  <2>2. CASE \E u \in Tasks : name \in ToTag(u)
    BY <1>4, <2>2 DEF Held
  <2>3. CASE name \in tagged /\ end <= expires
    BY <1>2, <1>4, <2>3 DEF Held
  <2> QED
    BY <2>1, <2>2, <2>3 DEF Held
<1> QED
  BY <1>3, <1>4

\* Requests that neither store nor tag.
LEMMA HeldPassing ==
  ASSUME AnswersInv, HeldInv, NEW t \in Tasks,
         \/ Ask(t) \/ WaitHit(t) \/ GiveUp(t) \/ LookupAggs(t) \/ Search(t) \/ SearchFails(t)
         \/ LookupValues(t) \/ SearchValues(t) \/ StoreFails(t) \/ Finish(t)
  PROVE  HeldInv'
<1>1. RequestsOK
  BY DEF AnswersInv
<1>2. UNCHANGED <<caches, tagSet>> /\ ToTag(t) = {}
  BY DEF Ask, WaitHit, GiveUp, LookupAggs, Search, SearchFails, LookupValues, SearchValues,
         StoreFails, Finish, ToTag, At
<1>3. \E r : req' = [req EXCEPT ![t] = r]
  <2>1. CASE \E a : Answer(t, a)
    BY <1>1, <2>1, SetsOneRequest
  <2>2. CASE \E pc : Go(t, pc)
    BY <1>1, <2>2, SetsOneRequest
  <2>3. CASE Ask(t)
    BY <2>3 DEF Ask
  <2>4. CASE Search(t) \/ LookupAggs(t)
    BY <1>1, <2>4 DEF Search, LookupAggs, RequestsOK, OnKeys
  <2>5. CASE SearchValues(t)
    BY <1>1, <2>1, <2>5 DEF SearchValues, RequestsOK, OnKeys
  <2>6. CASE Finish(t)
    BY <2>6 DEF Finish
  <2>7. CASE WaitHit(t) \/ GiveUp(t) \/ SearchFails(t)
    BY <2>1, <2>2, <2>7 DEF WaitHit, GiveUp, SearchFails
  <2>8. CASE LookupValues(t) \/ StoreFails(t)
    BY <2>1, <2>2, <2>8 DEF LookupValues, StoreFails, ValuesAnswer
  <2> QED
    BY <2>3, <2>4, <2>5, <2>6, <2>7, <2>8
<1>4. \A u \in Tasks : ToTag(u) \subseteq ToTag(u)' \cup slips'
  BY <1>1, <1>2, <1>3, OthersToTag
<1>5. \A name \in KnownNames : \A end \in 0 .. Ends(name) : Held(name, end) => Held(name, end)'
  BY <1>2, <1>4, KeptHeld DEF tagSet
<1> QED
  BY <1>2, <1>5, EntriesHeld DEF HeldInv, NamesKnown, caches, tagSet

\* Who stores is going to tag.
LEMMA HeldStoring ==
  ASSUME AnswersInv, HeldInv, NEW t \in Tasks, NEW pc, Go(t, pc), UNCHANGED tagSet, ToTag(t) = {}
  PROVE  /\ At(t, pc)' /\ ask(t)' = ask(t) /\ NamesKnown'
         /\ \A name, end : Held(name, end) => Held(name, end)'
<1>1. RequestsOK
  BY DEF AnswersInv
<1>2. PICK r : /\ req' = [req EXCEPT ![t] = r] /\ IsRequest(r)
               /\ r.pc = pc /\ r.ask = req[t].ask /\ r.aggs = req[t].aggs /\ r.answer = req[t].answer
  BY <1>1, Goes
<1>3. At(t, pc)' /\ ask(t)' = ask(t)
  BY <1>1, <1>2 DEF RequestsOK, OnKeys, ask, At
<1>4. \A u \in Tasks : ToTag(u) \subseteq ToTag(u)' \cup slips'
  BY <1>1, <1>2, OthersToTag
<1>5. \A name, end : Held(name, end) => Held(name, end)'
  BY <1>4, KeptHeld DEF tagSet
<1> QED
  BY <1>3, <1>5 DEF HeldInv, NamesKnown, tagSet

LEMMA HeldStoreAggs ==
  ASSUME AnswersInv, HeldInv, NEW t \in Tasks, StoreAggs(t)
  PROVE  HeldInv'
<1> DEFINE k == AggKey(ask(t))
<1>1. Go(t, "tagAggs") /\ UNCHANGED tagSet /\ ToTag(t) = {} /\ UNCHANGED <<cores, values>>
  BY DEF StoreAggs, ToTag, At
<1>2. /\ At(t, "tagAggs")' /\ ask(t)' = ask(t) /\ NamesKnown'
      /\ \A name, end : Held(name, end) => Held(name, end)'
  BY <1>1, HeldStoring
<1>3. <<"aggs", k>> \in ToTag(t)'
  BY <1>2 DEF ToTag, At
<1>4. PICK value : OnKeys(aggs, AggKeys) /\ aggs' = Stored(aggs, k, value)
  BY DEF AnswersInv, AggsOK, StoreAggs
<1> HIDE DEF k
<1>5. /\ OnKeys(aggs', AggKeys) /\ \A j \in AggKeys : j # k => aggs'[j] = aggs[j]
      /\ k \in AggKeys => aggs'[k] = [value |-> value, made |-> now]
  BY <1>4, StoredAt
<1>6. ASSUME NEW j \in AggKeys, aggs'[j] # None PROVE Held(<<"aggs", j>>, aggs[j].made + FacetTtl)'
  <2>1. CASE j = k
    BY <1>3, <2>1 DEF Held
  <2>2. CASE j # k
    BY <1>2, <1>5, <1>6, <2>2 DEF HeldInv, AggsHeld
  <2> QED
    BY <2>1, <2>2
<1>7. AggsHeld'
  BY <1>6 DEF AggsHeld
<1> QED
  BY <1>1, <1>2, <1>7, EntriesHeld DEF HeldInv

LEMMA HeldStoreCore ==
  ASSUME AnswersInv, HeldInv, NEW t \in Tasks, StoreCore(t)
  PROVE  HeldInv'
<1> DEFINE k == CoreKey(ask(t))
<1>1. Go(t, "tagCore") /\ UNCHANGED tagSet /\ ToTag(t) = {} /\ UNCHANGED <<aggs, values>>
  BY DEF StoreCore, ToTag, At
<1>2. /\ At(t, "tagCore")' /\ ask(t)' = ask(t) /\ NamesKnown'
      /\ \A name, end : Held(name, end) => Held(name, end)'
  BY <1>1, HeldStoring
<1>3. <<"core", k>> \in ToTag(t)'
  BY <1>2 DEF ToTag, At
<1>4. PICK value : OnKeys(cores, CoreKeys) /\ cores' = Stored(cores, k, value)
  BY DEF AnswersInv, CoresOK, StoreCore
<1> HIDE DEF k
<1>5. /\ OnKeys(cores', CoreKeys) /\ \A j \in CoreKeys : j # k => cores'[j] = cores[j]
      /\ k \in CoreKeys => cores'[k] = [value |-> value, made |-> now]
  BY <1>4, StoredAt
<1>6. ASSUME NEW j \in CoreKeys, cores'[j] # None PROVE Held(<<"core", j>>, cores[j].made + CoreTtl)'
  <2>1. CASE j = k
    BY <1>3, <2>1 DEF Held
  <2>2. CASE j # k
    BY <1>2, <1>5, <1>6, <2>2 DEF HeldInv, CoresHeld
  <2> QED
    BY <2>1, <2>2
<1>7. CoresHeld'
  BY <1>6 DEF CoresHeld
<1> QED
  BY <1>1, <1>2, <1>7, EntriesHeld DEF HeldInv

LEMMA HeldStoreValues ==
  ASSUME AnswersInv, HeldInv, NEW t \in Tasks, StoreValues(t)
  PROVE  HeldInv'
<1> DEFINE k == ValuesKey(ask(t))
<1>1. Go(t, "tagValues") /\ UNCHANGED tagSet /\ ToTag(t) = {} /\ UNCHANGED <<cores, aggs>>
  BY DEF StoreValues, ToTag, At
<1>2. /\ At(t, "tagValues")' /\ ask(t)' = ask(t) /\ NamesKnown'
      /\ \A name, end : Held(name, end) => Held(name, end)'
  BY <1>1, HeldStoring
<1>3. <<"values", k>> \in ToTag(t)'
  BY <1>2 DEF ToTag, At
<1>4. PICK value : OnKeys(values, ValuesKeys) /\ values' = Stored(values, k, value)
  BY DEF AnswersInv, ValuesOK, StoreValues
<1> HIDE DEF k
<1>5. /\ OnKeys(values', ValuesKeys) /\ \A j \in ValuesKeys : j # k => values'[j] = values[j]
      /\ k \in ValuesKeys => values'[k] = [value |-> value, made |-> now]
  BY <1>4, StoredAt
<1>6. ASSUME NEW j \in ValuesKeys, values'[j] # None PROVE Held(<<"values", j>>, values[j].made + FacetTtl)'
  <2>1. CASE j = k
    BY <1>3, <2>1 DEF Held
  <2>2. CASE j # k
    BY <1>2, <1>5, <1>6, <2>2 DEF HeldInv, ValuesHeld
  <2> QED
    BY <2>1, <2>2
<1>7. ValuesHeld'
  BY <1>6 DEF ValuesHeld
<1> QED
  BY <1>1, <1>2, <1>7, EntriesHeld DEF HeldInv

\* Who tags moves the names it had to tag into the set.
LEMMA HeldTagging ==
  ASSUME AnswersInv, HeldInv, UNCHANGED caches, NEW t \in Tasks, NEW tags, NEW ttl \in Nat,
         Tagged(ToTag(t), tags, ttl), "search" \in tags, \A name \in ToTag(t) : Ends(name) = now + ttl,
         \E r : req' = [req EXCEPT ![t] = r]
  PROVE  HeldInv'
<1>1. /\ RequestsOK /\ NamesKnown
      /\ Moment.now = now /\ now \in Nat /\ CoreTtl \in Nat /\ FacetTtl \in Nat /\ Padding \in Nat
  BY AnswersAssumption DEF AnswersInv, HeldInv, MomentOK, Moment
<1>2. PICK names : names = ToTag(t)
  OBVIOUS
<1>3. \A u \in Tasks : ToTag(u) \subseteq ToTag(u)' \cup names
  BY <1>1, <1>2, OthersToTag
<1>4. ASSUME NEW name \in KnownNames, NEW end \in 0 .. Ends(name), Held(name, end) PROVE Held(name, end)'
  <2>1. end \in Nat
    BY <1>1 DEF Ends
  <2>2. name \in names => end <= now + ttl
    <3> SUFFICES ASSUME name \in names PROVE end <= now + ttl
      OBVIOUS
    <3>1. Ends(name) = now + ttl
      BY <1>2
    <3> QED
      BY <1>1, <3>1
  <2>3. Tagged(names, tags, ttl) /\ now \in Nat /\ expires \in Nat
    BY <1>1, <1>2 DEF NamesKnown
  <2> QED
    BY <1>3, <1>4, <2>1, <2>2, <2>3, TaggedHeld
<1>5. NamesKnown'
  <2>1. names \subseteq KnownNames
    BY <1>2, NamesToTag
  <2>2. PICK last \in Nat : last = now + ttl + Padding
    BY <1>1
  <2>3. /\ tagged' = tagged \cup names /\ expires' = last
        /\ slips' = (slips \cup (IF last < expires THEN tagged ELSE {})) \ names
    BY <1>2, <2>2 DEF Tagged
  <2> QED
    BY <1>1, <2>1, <2>3 DEF NamesKnown
<1> QED
  BY <1>4, <1>5, EntriesHeld DEF HeldInv, caches

LEMMA HeldTag ==
  ASSUME AnswersInv, HeldInv, NEW t \in Tasks, TagAggs(t) \/ TagCore(t) \/ TagValues(t)
  PROVE  HeldInv'
<1>1. RequestsOK /\ CoreTtl \in Nat /\ FacetTtl \in Nat
  BY AnswersAssumption DEF AnswersInv
<1>2. CASE TagAggs(t)
  <2>1. \A name \in ToTag(t) : Ends(name) = now + FacetTtl
    BY <1>2 DEF TagAggs, ToTag, At, Ends
  <2>2. \E r : req' = [req EXCEPT ![t] = r]
    BY <1>1, <1>2, SetsOneRequest DEF TagAggs
  <2>3. PICK tags : "search" \in tags /\ Tagged(ToTag(t), tags, FacetTtl) /\ UNCHANGED caches
    BY <1>2 DEF TagAggs, AggTags
  <2> QED
    BY <1>1, <2>1, <2>2, <2>3, HeldTagging
<1>3. CASE TagCore(t)
  <2>1. \A name \in ToTag(t) : Ends(name) = now + CoreTtl
    BY <1>3 DEF TagCore, ToTag, At, Ends
  <2>2. \E r : req' = [req EXCEPT ![t] = r]
    BY <1>1, <1>3, SetsOneRequest DEF TagCore
  <2>3. PICK tags : "search" \in tags /\ Tagged(ToTag(t), tags, CoreTtl) /\ UNCHANGED caches
    BY <1>3 DEF TagCore, CoreTags
  <2> QED
    BY <1>1, <2>1, <2>2, <2>3, HeldTagging
<1>4. CASE TagValues(t)
  <2>1. \A name \in ToTag(t) : Ends(name) = now + FacetTtl
    BY <1>4 DEF TagValues, ToTag, At, Ends
  <2>2. \E r : req' = [req EXCEPT ![t] = r]
    BY <1>1, <1>4, SetsOneRequest DEF TagValues, ValuesAnswer
  <2>3. PICK tags : "search" \in tags /\ Tagged(ToTag(t), tags, FacetTtl) /\ UNCHANGED caches
    BY <1>4 DEF TagValues, ValuesTags
  <2> QED
    BY <1>1, <2>1, <2>2, <2>3, HeldTagging
<1> QED
  BY <1>2, <1>3, <1>4

\* What somebody dies before tagging, or fails to tag, has slipped.
LEMMA HeldSlip ==
  ASSUME AnswersInv, HeldInv, NEW t \in Tasks, TagFails(t) \/ Die(t)
  PROVE  HeldInv'
<1>1. /\ RequestsOK /\ NamesKnown /\ UNCHANGED <<caches, tagged, expires>>
      /\ slips' = slips \cup ToTag(t)
  BY DEF AnswersInv, HeldInv, TagFails, Die
<1>2. \E r : req' = [req EXCEPT ![t] = r]
  <2>1. CASE TagFails(t)
    BY <1>1, <2>1, SetsOneRequest DEF TagFails, ValuesAnswer
  <2>2. CASE Die(t)
    BY <2>2 DEF Die
  <2> QED
    BY <2>1, <2>2
<1>3. \A u \in Tasks : ToTag(u) \subseteq ToTag(u)' \cup slips'
  BY <1>1, <1>2, OthersToTag
<1>4. \A name \in KnownNames : \A end \in 0 .. Ends(name) : Held(name, end) => Held(name, end)'
  BY <1>1, <1>3, KeptHeld
<1>5. NamesKnown'
  BY <1>1, NamesToTag DEF NamesKnown
<1> QED
  BY <1>1, <1>4, <1>5, EntriesHeld DEF HeldInv, caches

LEMMA HeldOthers ==
  ASSUME AnswersInv, HeldInv, NEW ttl \in OtherTtls, OthersTag(ttl)
  PROVE  HeldInv'
<1>1. /\ NamesKnown /\ UNCHANGED <<caches, req>> /\ ttl \in Nat /\ Padding \in Nat
      /\ Tagged({}, {"search"}, ttl) /\ Moment.now = now /\ now \in Nat /\ CoreTtl \in Nat /\ FacetTtl \in Nat
  BY AnswersAssumption DEF AnswersInv, HeldInv, MomentOK, Moment, OthersTag
<1>2. \A u \in Tasks : ToTag(u)' = ToTag(u)
  BY <1>1 DEF ToTag, At, ask
<1>3. PICK names, tags : names = {} /\ tags = {"search"} /\ Tagged(names, tags, ttl)
  BY <1>1
<1>4. \A name \in KnownNames : \A end \in 0 .. Ends(name) : Held(name, end) => Held(name, end)'
  <2> SUFFICES ASSUME NEW name \in KnownNames, NEW end \in 0 .. Ends(name), Held(name, end)
               PROVE  Held(name, end)'
    OBVIOUS
  <2>1. end \in Nat
    BY <1>1 DEF Ends
  <2> QED
    BY <1>1, <1>2, <1>3, <2>1, TaggedHeld DEF NamesKnown
<1>5. NamesKnown'
  BY <1>1 DEF Tagged, NamesKnown
<1> QED
  BY <1>1, <1>4, <1>5, EntriesHeld DEF HeldInv, caches

\* What a clear leaves was not listed, and what slipped without being listed has still slipped.
LEMMA HeldClear ==
  ASSUME AnswersInv, HeldInv, ClearSearch
  PROVE  HeldInv'
<1>1. /\ CoresOK /\ AggsOK /\ ValuesOK /\ NamesKnown /\ req' = req
      /\ cores' = Uncleared("core", cores) /\ aggs' = Uncleared("aggs", aggs)
      /\ values' = Uncleared("values", values)
      /\ tagged' = {} /\ expires' = 0 /\ slips' = slips \ tagged
  BY DEF AnswersInv, HeldInv, ClearSearch
<1>2. \A u \in Tasks : ToTag(u)' = ToTag(u)
  BY <1>1 DEF ToTag, At, ask
<1>3. \A name, end : Held(name, end) /\ name \notin tagged => Held(name, end)'
  BY <1>1, <1>2 DEF Held
<1>4. CoresHeld'
  <2>1. \A k \in CoreKeys : cores'[k] # None =>
          cores[k] # None /\ <<"core", k>> \notin tagged /\ cores'[k] = cores[k]
    BY <1>1, UnclearedAt DEF CoresOK
  <2> QED
    BY <1>3, <2>1 DEF HeldInv, CoresHeld
<1>5. AggsHeld'
  <2>1. \A k \in AggKeys : aggs'[k] # None =>
          aggs[k] # None /\ <<"aggs", k>> \notin tagged /\ aggs'[k] = aggs[k]
    BY <1>1, UnclearedAt DEF AggsOK
  <2> QED
    BY <1>3, <2>1 DEF HeldInv, AggsHeld
<1>6. ValuesHeld'
  <2>1. \A k \in ValuesKeys : values'[k] # None =>
          values[k] # None /\ <<"values", k>> \notin tagged /\ values'[k] = values[k]
    BY <1>1, UnclearedAt DEF ValuesOK
  <2> QED
    BY <1>3, <2>1 DEF HeldInv, ValuesHeld
<1>7. NamesKnown'
  BY <1>1 DEF NamesKnown
<1> QED
  BY <1>4, <1>5, <1>6, <1>7 DEF HeldInv

\* What lives on after a tick is listed in a set that does, or has slipped and is still there.
LEMMA HeldTick ==
  ASSUME AnswersInv, HeldInv, Tick
  PROVE  HeldInv'
<1>1. /\ CoresOK /\ AggsOK /\ ValuesOK /\ NamesKnown /\ Quiet
      /\ cores' = Alive(cores, CoreTtl, now + 1)
      /\ aggs' = Alive(aggs, FacetTtl, now + 1) /\ values' = Alive(values, FacetTtl, now + 1)
      /\ IF expires <= now + 1 THEN tagged' = {} /\ expires' = 0 ELSE UNCHANGED <<tagged, expires>>
      /\ slips' = slips \cap Names'
      /\ Moment.now = now /\ now \in Nat /\ CoreTtl \in Nat /\ FacetTtl \in Nat
  BY AnswersAssumption DEF AnswersInv, HeldInv, MomentOK, Moment, Tick
<1>2. ASSUME NEW name, NEW end \in Nat, Held(name, end), ~(end <= now + 1), name \in Names'
      PROVE  Held(name, end)'
  <2>1. CASE name \in slips
    BY <1>1, <1>2, <2>1 DEF Held
  <2>2. CASE name \in tagged /\ end <= expires
    <3>1. ~(expires <= now + 1)
      BY <1>1, <1>2, <2>2 DEF NamesKnown
    <3> QED
      BY <1>1, <2>2, <3>1 DEF Held
  <2> QED
    BY <1>1, <1>2, <2>1, <2>2, NothingToTag DEF Held
<1>3. CoresHeld'
  <2>1. \A k \in CoreKeys : cores'[k] # None =>
          cores[k] # None /\ ~(cores[k].made + CoreTtl <= now + 1) /\ cores'[k] = cores[k]
    BY <1>1, AliveAt DEF CoresOK
  <2> SUFFICES ASSUME NEW k \in CoreKeys, cores'[k] # None PROVE Held(<<"core", k>>, cores[k].made + CoreTtl)'
    BY DEF CoresHeld
  <2>2. PICK end : end = cores[k].made + CoreTtl
    OBVIOUS
  <2>3. end \in Nat
    BY <1>1, <2>1, <2>2 DEF CoresOK, AnswerEntry, Lives
  <2>4. Held(<<"core", k>>, end)
    BY <2>1, <2>2 DEF HeldInv, CoresHeld
  <2>5. <<"core", k>> \in Names'
    BY DEF Names
  <2>6. Held(<<"core", k>>, end)'
    BY <1>2, <2>1, <2>2, <2>3, <2>4, <2>5
  <2> QED
    BY <2>1, <2>2, <2>6
<1>4. AggsHeld'
  <2>1. \A k \in AggKeys : aggs'[k] # None =>
          aggs[k] # None /\ ~(aggs[k].made + FacetTtl <= now + 1) /\ aggs'[k] = aggs[k]
    BY <1>1, AliveAt DEF AggsOK
  <2> SUFFICES ASSUME NEW k \in AggKeys, aggs'[k] # None PROVE Held(<<"aggs", k>>, aggs[k].made + FacetTtl)'
    BY DEF AggsHeld
  <2>2. PICK end : end = aggs[k].made + FacetTtl
    OBVIOUS
  <2>3. end \in Nat
    BY <1>1, <2>1, <2>2 DEF AggsOK, CountsEntry, Lives
  <2>4. Held(<<"aggs", k>>, end)
    BY <2>1, <2>2 DEF HeldInv, AggsHeld
  <2>5. <<"aggs", k>> \in Names'
    BY DEF Names
  <2>6. Held(<<"aggs", k>>, end)'
    BY <1>2, <2>1, <2>2, <2>3, <2>4, <2>5
  <2> QED
    BY <2>1, <2>2, <2>6
<1>5. ValuesHeld'
  <2>1. \A k \in ValuesKeys : values'[k] # None =>
          values[k] # None /\ ~(values[k].made + FacetTtl <= now + 1) /\ values'[k] = values[k]
    BY <1>1, AliveAt DEF ValuesOK
  <2> SUFFICES ASSUME NEW k \in ValuesKeys, values'[k] # None PROVE Held(<<"values", k>>, values[k].made + FacetTtl)'
    BY DEF ValuesHeld
  <2>2. PICK end : end = values[k].made + FacetTtl
    OBVIOUS
  <2>3. end \in Nat
    BY <1>1, <2>1, <2>2 DEF ValuesOK, CountsEntry, Lives
  <2>4. Held(<<"values", k>>, end)
    BY <2>1, <2>2 DEF HeldInv, ValuesHeld
  <2>5. <<"values", k>> \in Names'
    BY DEF Names
  <2>6. Held(<<"values", k>>, end)'
    BY <1>2, <2>1, <2>2, <2>3, <2>4, <2>5
  <2> QED
    BY <2>1, <2>2, <2>6
<1>6. NamesKnown'
  BY <1>1 DEF NamesKnown
<1> QED
  BY <1>3, <1>4, <1>5, <1>6 DEF HeldInv

LEMMA HeldStep == AnswersInv /\ HeldInv /\ [Next]_vars => HeldInv'
<1> SUFFICES ASSUME AnswersInv, HeldInv, [Next]_vars PROVE HeldInv'
  OBVIOUS
<1>1. ASSUME UNCHANGED <<caches, tagSet, req>> PROVE HeldInv'
  <2>1. \A u \in Tasks : ToTag(u)' = ToTag(u)
    BY <1>1 DEF ToTag, At, ask
  <2>2. \A name \in KnownNames : \A end \in 0 .. Ends(name) : Held(name, end) => Held(name, end)'
    BY <1>1, <2>1, KeptHeld DEF tagSet
  <2> QED
    BY <1>1, <2>2, EntriesHeld DEF HeldInv, NamesKnown, caches, tagSet
<1>2. CASE UNCHANGED vars
  BY <1>1, <1>2 DEF vars, caches, tagSet
<1>3. CASE ChangeIndex
  BY <1>1, <1>3 DEF ChangeIndex
<1>4. ASSUME NEW t \in Tasks,
             \/ Ask(t) \/ WaitHit(t) \/ GiveUp(t) \/ LookupAggs(t) \/ Search(t) \/ SearchFails(t)
             \/ LookupValues(t) \/ SearchValues(t) \/ StoreFails(t) \/ Finish(t)
      PROVE  HeldInv'
  BY <1>4, HeldPassing
<1>5. ASSUME NEW t \in Tasks,
             \/ StoreAggs(t) \/ StoreCore(t) \/ StoreValues(t)
             \/ TagAggs(t) \/ TagCore(t) \/ TagValues(t) \/ TagFails(t) \/ Die(t)
      PROVE  HeldInv'
  BY <1>5, HeldStoreAggs, HeldStoreCore, HeldStoreValues, HeldTag, HeldSlip
<1> QED
  BY <1>2, <1>3, <1>4, <1>5, HeldOthers, HeldClear, HeldTick DEF Next


LEMMA HeldInit == Init => HeldInv
BY DEF Init, HeldInv, NamesKnown, CoresHeld, AggsHeld, ValuesHeld

LEMMA BothInvariants == Spec => [](AnswersInv /\ HeldInv)
<1>1. Init => AnswersInv /\ HeldInv
  BY AnswersInit, HeldInit
<1>2. AnswersInv /\ HeldInv /\ [Next]_vars => (AnswersInv /\ HeldInv)'
  BY AnswersStep, HeldStep
<1> QED
  BY <1>1, <1>2, PTL DEF Spec

LEMMA AnswersInvariant == Spec => []AnswersInv
BY BothInvariants, PTL

\* Every reachable state of the caches and requests is well typed, and no aggregation is stored
\* empty or under the name of other facets.
THEOREM TypeCorrect == Spec => []TypeOK
<1>1. AnswersInv /\ HeldInv => TypeOK
  <2> SUFFICES ASSUME AnswersInv, HeldInv PROVE TypeOK
    OBVIOUS
  <2>1. /\ MomentOK(Moment) /\ Moment.now = now /\ Moment.index = index
        /\ Moment.ended = ended /\ Moment.cleared = cleared
    BY DEF AnswersInv, Moment
  <2>2. \A k \in CoreKeys : cores[k] # None => EntryOK(cores[k]) /\ cores[k].value.hitsAt \in 1 .. index
    BY <2>1 DEF AnswersInv, CoresOK, AnswerEntry, AnswerOK, Lives, Seen, EntryOK
  <2>3. \A k \in AggKeys : aggs[k] # None =>
          EntryOK(aggs[k]) /\ DOMAIN aggs[k].value.counts = k.facets /\ aggs[k].value.at \in 1 .. index
    BY <2>1 DEF AnswersInv, AggsOK, CountsEntry, CountsOK, Lives, Seen, EntryOK
  <2>4. \A k \in ValuesKeys : values[k] # None =>
          EntryOK(values[k]) /\ DOMAIN values[k].value.counts = {k.facet} /\ values[k].value.at \in 1 .. index
    BY <2>1 DEF AnswersInv, ValuesOK, CountsEntry, CountsOK, Lives, Seen, EntryOK
  <2>5. \A t \in Tasks : req[t].ask \in Questions \cup {None}
    BY DEF AnswersInv, RequestsOK, RequestOK
  <2>6. /\ now \in 0 .. MaxTime /\ index \in Versions /\ cleared \in 0 .. index
        /\ ended \in [Versions -> 0 .. MaxTime \cup {None}]
    BY <2>1 DEF MomentOK
  <2>7. tagged \cup slips \subseteq KnownNames /\ expires \in Nat
    BY DEF HeldInv, NamesKnown
  <2> QED
    BY <2>2, <2>3, <2>4, <2>5, <2>6, <2>7 DEF TypeOK, AnswersInv, RestOK
<1> QED
  BY <1>1, BothInvariants, PTL

\* However requests share and store results, and whatever fails, an answer shows what was
\* current less than the lifetime of answers ago, and facets less than both lifetimes ago.
THEOREM Recent == Spec => []AnswersAreRecent
<1>1. AnswersInv => AnswersAreRecent
  <2> SUFFICES ASSUME AnswersInv, NEW t \in Tasks, Answered(t)
               PROVE  LET a == req[t].answer
                          ttl == IF ask(t) \in Searches THEN CoreTtl ELSE FacetTtl
                          since(v) == IF ended[v] = None THEN now ELSE ended[v]
                      IN /\ now < a.made + ttl /\ a.made <= since(a.hitsAt)
                         /\ a.made < since(a.facetsAt) + FacetTtl
    BY DEF AnswersAreRecent
  <2>1. /\ RequestOK(req[t], Moment) /\ req[t].pc = "done" /\ req[t].answer # Failed /\ req[t].ask = ask(t)
        /\ Moment.now = now /\ Moment.ended = ended
    BY DEF AnswersInv, RequestsOK, Answered, At, ask, Moment
  <2>2. AnswerOK(req[t].answer, Moment) /\ now < req[t].answer.made + Lifetime(ask(t))
    BY <2>1 DEF RequestOK
  <2> QED
    BY <2>1, <2>2 DEF AnswerOK, Since, Lifetime
<1> QED
  BY <1>1, AnswersInvariant, PTL

\* After a clear at a time when no request was under way and no entry had slipped out of the tag
\* set, nothing is answered from before it, for any requests, questions, versions and lifetimes:
\* the set then outlives whatever it lists (HeldInv), although every tagging sets its expiry anew.
THEOREM ClearsClear == Spec => []ClearedIsCleared
<1>1. AnswersInv => ClearedIsCleared
  <2> SUFFICES ASSUME AnswersInv, NEW t \in Tasks, Answered(t)
               PROVE  req[t].answer.hitsAt >= cleared /\ req[t].answer.facetsAt >= cleared
    BY DEF ClearedIsCleared
  <2>1. /\ RequestOK(req[t], Moment) /\ req[t].pc = "done" /\ req[t].answer # Failed
        /\ Moment.cleared = cleared
    BY DEF AnswersInv, RequestsOK, Answered, At, Moment
  <2>2. AnswerOK(req[t].answer, Moment)
    BY <2>1 DEF RequestOK
  <2> QED
    BY <2>1, <2>2 DEF AnswerOK, Seen
<1> QED
  BY <1>1, AnswersInvariant, PTL

-----------------------------------------------------------------------------
(* Questions of the same name are answered alike.                           *)

\* What Elasticsearch finds and counts at a version, and the answers made of it.
Hits(p, v) == IF Contents[v] = Missing THEN {} ELSE FoundBy[p][v]
Tally(p, v) == IF Contents[v] = Missing \/ Selected(p) = {} THEN <<>> ELSE CountsOf(p, v)

CountsFor(c, p) == c.counts = Tally(p, c.at)

SearchAnswer(a, p) ==
  /\ a.items = HitPage(Hits(p, a.hitsAt), p) /\ a.total = Cardinality(Hits(p, a.hitsAt))
  /\ a.facets \in {<<>>, Tally(p, a.facetsAt)}

FacetsAnswer(a, p) ==
  /\ Contents[a.facetsAt] # Missing
  /\ a = FacetAnswer(p, [counts |-> Tally(p, a.facetsAt), at |-> a.facetsAt, made |-> a.made])

\* The flags of a question agree.
OneFlag == \A p \in Questions : \A i, j \in DOMAIN p.global : p.global[i] = p.global[j]

LEMMA SameBag ==
  ASSUME NEW s, s \in Seq(ToSet(s)), NEW u, u \in Seq(ToSet(u)), Canonical(s) = Canonical(u)
  PROVE  ToSet(s) = ToSet(u) /\ (s = <<>> <=> u = <<>>)
<1>1. DOMAIN Canonical(s) = ToSet(s) /\ DOMAIN Canonical(u) = ToSet(u)
  BY DEF Canonical, ToBag, ToSet, Range
<1>2. ToSet(s) = ToSet(u)
  BY <1>1
<1>3. ASSUME NEW w, w \in Seq(ToSet(w)) PROVE w = <<>> <=> ToSet(w) = {}
  <2>1. w = <<>> <=> DOMAIN w = {}
    BY <1>3
  <2> QED
    BY <2>1 DEF ToSet
<1> QED
  BY <1>2, <1>3

LEMMA SameFlags ==
  ASSUME OneFlag, NEW p \in Questions, NEW q \in Questions, Canonical(p.global) = Canonical(q.global)
  PROVE  /\ p.global = <<>> <=> q.global = <<>>
         /\ p.global # <<>> => p.global[1] = q.global[1]
<1>1. p.global \in Seq(ToSet(p.global)) /\ q.global \in Seq(ToSet(q.global))
  BY QuestionsAssumption
<1>2. ToSet(p.global) = ToSet(q.global) /\ (p.global = <<>> <=> q.global = <<>>)
  BY <1>1, SameBag
<1>3. ASSUME p.global # <<>> PROVE p.global[1] = q.global[1]
  <2>1. 1 \in DOMAIN p.global
    BY <1>1, <1>3
  <2>2. p.global[1] \in ToSet(q.global)
    BY <1>2, <2>1 DEF ToSet
  <2>3. PICK i \in DOMAIN q.global : p.global[1] = q.global[i]
    BY <2>2 DEF ToSet
  <2>4. 1 \in DOMAIN q.global
    BY <1>1, <1>2, <1>3
  <2> QED
    BY <2>3, <2>4 DEF OneFlag
<1> QED
  BY <1>2, <1>3

\* What a filter asks depends on the set of its values.
LEMMA SameFilter ==
  ASSUME NEW s, s \in Seq(ToSet(s)), NEW u, u \in Seq(ToSet(u)), Canonical(s) = Canonical(u), NEW op
  PROVE  ExactClauses(s, op) = ExactClauses(u, op)
BY SameBag DEF ExactClauses

\* Searches of one name look for the same, and show the same page of it.
LEMMA CoreNamesakes ==
  ASSUME OneFlag, NEW p \in Searches, NEW q \in Searches, CoreKey(p) = CoreKey(q)
  PROVE  /\ FoundBy[p] = FoundBy[q] /\ Selected(p) = Selected(q)
         /\ p.page = q.page /\ p.size = q.size
<1>1. /\ p.field = q.field /\ p.op = q.op /\ p.years = q.years /\ p.box = q.box /\ p.adv = q.adv
      /\ p.facets = q.facets /\ p.page = q.page /\ p.size = q.size
      /\ Canonical(p.fq) = Canonical(q.fq) /\ Canonical(p.include) = Canonical(q.include)
      /\ Canonical(p.exclude) = Canonical(q.exclude) /\ Canonical(p.global) = Canonical(q.global)
      /\ (IF p.q = None THEN <<>> ELSE <<p.q>>) = (IF q.q = None THEN <<>> ELSE <<q.q>>)
  BY DEF CoreKey
<1>2. p.q = q.q
  BY <1>1
<1>3. p \in Questions /\ q \in Questions /\ p.kind = "search" /\ q.kind = "search"
  BY DEF Searches
<1>4. \A s \in {p.fq, p.include, p.exclude, q.fq, q.include, q.exclude} : s \in Seq(ToSet(s))
  BY <1>3, QuestionsAssumption
<1>5. /\ ExactClauses(p.fq, p.op) = ExactClauses(q.fq, q.op)
      /\ ExactClauses(p.include, p.op) = ExactClauses(q.include, q.op)
  BY <1>1, <1>4, SameFilter
<1>6. Excluded(p) = Excluded(q)
  BY <1>1, <1>4, SameBag DEF Excluded
<1>7. (p.global # <<>> /\ p.global[1]) <=> (q.global # <<>> /\ q.global[1])
  BY <1>1, <1>3, SameFlags
<1>8. Filters(p) = Filters(q)
  BY <1>1, <1>5, <1>7 DEF Filters
<1>9. SearchQueryOf(p) = SearchQueryOf(q)
  BY <1>1, <1>2, <1>6, <1>8 DEF SearchQueryOf, Bool, Scored, OverlapFilter
<1>10. FoundBy[p] = FoundBy[q]
  BY <1>3, <1>9 DEF FoundBy
<1> QED
  BY <1>1, <1>10 DEF Selected

LEMMA SameContext ==
  ASSUME NEW p, NEW q, Context(p) = Context(q)
  PROVE  /\ p.q = q.q /\ p.box = q.box /\ p.adv = q.adv
         /\ Filters(p) = Filters(q) /\ Excluded(p) = Excluded(q)
<1>1. /\ p.q = q.q /\ p.fq = q.fq /\ p.include = q.include /\ p.op = q.op /\ p.years = q.years
      /\ p.global = q.global /\ p.exclude = q.exclude /\ p.box = q.box /\ p.adv = q.adv
  BY DEF Context
<1> QED
  BY <1>1 DEF Filters, Excluded

LEMMA AggNamesakes ==
  ASSUME NEW p \in Searches, NEW q \in Searches, AggKey(p) = AggKey(q)
  PROVE  FoundBy[p] = FoundBy[q] /\ Selected(p) = Selected(q)
<1>1. Context(p) = Context(q) /\ p.field = q.field /\ Selected(p) = Selected(q)
  BY DEF AggKey
<1>2. p \in Questions /\ q \in Questions /\ p.kind = "search" /\ q.kind = "search"
  BY DEF Searches
<1>3. SearchQueryOf(p) = SearchQueryOf(q)
  BY <1>1, SameContext DEF SearchQueryOf, Bool, Scored, OverlapFilter
<1> QED
  BY <1>1, <1>2, <1>3 DEF FoundBy

LEMMA OneFacet ==
  ASSUME NEW p \in Questions \ Searches
  PROVE  \E f \in Facets : Selected(p) = {f}
<1>1. PICK f \in Facets : p.facets = {f}
  BY FacetAssumption
<1>2. Selected(p) = {f}
  BY <1>1 DEF Selected
<1> QED
  BY <1>2

LEMMA ValuesNamesakes ==
  ASSUME NEW p \in Questions \ Searches, NEW q \in Questions \ Searches, ValuesKey(p) = ValuesKey(q)
  PROVE  FoundBy[p] = FoundBy[q] /\ Selected(p) = Selected(q)
<1>1. Context(p) = Context(q) /\ (CHOOSE f \in Selected(p) : TRUE) = (CHOOSE f \in Selected(q) : TRUE)
  BY DEF ValuesKey
<1>2. p.kind # "search" /\ q.kind # "search"
  BY DEF Searches
<1>3. FacetQueryOf(p) = FacetQueryOf(q)
  BY <1>1, SameContext DEF FacetQueryOf, Bool
<1>4. Selected(p) = Selected(q)
  BY <1>1, OneFacet
<1> QED
  BY <1>2, <1>3, <1>4 DEF FoundBy

\* What answers one question answers another of the same name.
LEMMA SameTally ==
  ASSUME NEW p, NEW q, FoundBy[p] = FoundBy[q], Selected(p) = Selected(q), NEW v
  PROVE  Tally(p, v) = Tally(q, v) /\ Hits(p, v) = Hits(q, v)
BY DEF Tally, Hits, CountsOf

-----------------------------------------------------------------------------
(* Every result is the one of the question it is kept for, at its version.  *)

Exact(r) ==
  /\ r.pc = "search" /\ r.aggs # None => CountsFor(r.aggs, r.ask)
  /\ r.pc \in {"aggs", "store", "tagValues"} => CountsFor(r.aggs, r.ask)
  /\ r.pc \in {"aggs", "tagAggs", "core", "tagCore"} => SearchAnswer(r.answer, r.ask)
  /\ r.pc = "done" /\ r.answer # Failed =>
       IF r.ask \in Searches THEN SearchAnswer(r.answer, r.ask) ELSE FacetsAnswer(r.answer, r.ask)

ExactCores == \A p \in Searches : cores[CoreKey(p)] # None => SearchAnswer(cores[CoreKey(p)].value, p)
ExactAggs ==
  \A p \in Searches : Selected(p) # {} /\ aggs[AggKey(p)] # None => CountsFor(aggs[AggKey(p)].value, p)
ExactValues ==
  \A p \in Questions \ Searches : values[ValuesKey(p)] # None => CountsFor(values[ValuesKey(p)].value, p)
ExactRequests == \A t \in Tasks : Exact(req[t])

ExactInv == ExactCores /\ ExactAggs /\ ExactValues /\ ExactRequests

\* Entries that are kept or dropped stay exact.
Keeps(old, new, keys) ==
  \A k \in keys : new[k] # None => old[k] # None /\ new[k].value = old[k].value

LEMMA KeepsExact ==
  ASSUME ExactInv
  PROVE  /\ Keeps(cores, cores', CoreKeys) => ExactCores'
         /\ Keeps(aggs, aggs', AggKeys) => ExactAggs'
         /\ Keeps(values, values', ValuesKeys) => ExactValues'
<1>1. Keeps(cores, cores', CoreKeys) => ExactCores'
  BY DEF ExactInv, ExactCores, Keeps, CoreKeys
<1>2. Keeps(aggs, aggs', AggKeys) => ExactAggs'
  BY DEF ExactInv, ExactAggs, Keeps, AggKeys
<1>3. Keeps(values, values', ValuesKeys) => ExactValues'
  BY DEF ExactInv, ExactValues, Keeps, ValuesKeys
<1> QED
  BY <1>1, <1>2, <1>3

LEMMA SameExact ==
  ASSUME ExactInv
  PROVE  /\ cores' = cores => ExactCores'
         /\ aggs' = aggs => ExactAggs'
         /\ values' = values => ExactValues'
BY DEF ExactInv, ExactCores, ExactAggs, ExactValues

LEMMA OneExact ==
  ASSUME ExactInv, RequestsOK, NEW t \in Tasks, NEW r, req' = [req EXCEPT ![t] = r], Exact(r)
  PROVE  ExactRequests'
<1>1. ASSUME NEW u \in Tasks PROVE Exact(req'[u])
  BY DEF ExactInv, ExactRequests, RequestsOK, OnKeys
<1> QED
  BY <1>1 DEF ExactRequests

\* A request goes on with what it has, or answers.
LEMMA GoesExact ==
  ASSUME ExactInv, AnswersInv, NEW t \in Tasks, NEW pc, Go(t, pc),
         pc \in {"aggs", "store", "tagValues"} => CountsFor(req[t].aggs, req[t].ask),
         pc \in {"aggs", "tagAggs", "core", "tagCore"} => SearchAnswer(req[t].answer, req[t].ask),
         pc \notin {"search", "done"}
  PROVE  ExactRequests'
<1>1. RequestsOK
  BY DEF AnswersInv
<1>2. PICK r : /\ req' = [req EXCEPT ![t] = r] /\ IsRequest(r)
               /\ r.pc = pc /\ r.ask = req[t].ask /\ r.aggs = req[t].aggs /\ r.answer = req[t].answer
  BY <1>1, Goes
<1>3. Exact(r)
  BY <1>2 DEF Exact
<1> QED
  BY <1>1, <1>2, <1>3, OneExact

LEMMA AnswersExact ==
  ASSUME ExactInv, AnswersInv, NEW t \in Tasks, NEW a, Answer(t, a),
         a = Failed \/ IF req[t].ask \in Searches THEN SearchAnswer(a, req[t].ask)
                       ELSE FacetsAnswer(a, req[t].ask)
  PROVE  ExactRequests'
<1>1. RequestsOK
  BY DEF AnswersInv
<1>2. PICK r : /\ req' = [req EXCEPT ![t] = r] /\ IsRequest(r)
               /\ r.pc = "done" /\ r.ask = req[t].ask /\ r.answer = a
  BY <1>1, Answers
<1>3. Exact(r)
  BY <1>2 DEF Exact
<1> QED
  BY <1>1, <1>2, <1>3, OneExact

LEMMA CountedExact ==
  ASSUME NEW p, NEW c, NEW time, CountsFor(c, p), DOMAIN c.counts # {}
  PROVE  FacetsAnswer(FacetAnswer(p, [counts |-> c.counts, at |-> c.at, made |-> time]), p)
<1> DEFINE a == FacetAnswer(p, [counts |-> c.counts, at |-> c.at, made |-> time])
<1>1. a.facetsAt = c.at /\ a.made = time
  BY DEF FacetAnswer
<1>2. c.counts = Tally(p, c.at)
  BY DEF CountsFor
<1>3. Contents[c.at] # Missing
  BY <1>2 DEF Tally
<1> QED
  BY <1>1, <1>2, <1>3 DEF FacetsAnswer

LEMMA SameAnswer ==
  ASSUME NEW p, NEW q, FoundBy[p] = FoundBy[q], Selected(p) = Selected(q)
  PROVE  /\ \A c : CountsFor(c, p) => CountsFor(c, q)
         /\ p.page = q.page /\ p.size = q.size => \A a : SearchAnswer(a, p) => SearchAnswer(a, q)
<1>1. \A v : Tally(p, v) = Tally(q, v) /\ Hits(p, v) = Hits(q, v)
  BY SameTally
<1>2. p.page = q.page /\ p.size = q.size => \A found : HitPage(found, p) = HitPage(found, q)
  BY DEF HitPage, Page, Skip
<1> QED
  BY <1>1, <1>2 DEF CountsFor, SearchAnswer

LEMMA ExactAsk ==
  ASSUME OneFlag, ExactInv, AnswersInv, NEW t \in Tasks, Ask(t)
  PROVE  ExactInv'
<1> DEFINE p == Head(asks)
           asked(pc) == [Idle EXCEPT !.pc = pc, !.ask = p]
           k == CoreKey(p)
<1>1. ExactCores' /\ ExactAggs' /\ ExactValues' /\ RequestsOK
  BY SameExact DEF Ask, caches, AnswersInv
<1>2. ASSUME NEW pc
      PROVE  asked(pc) = [pc |-> pc, ask |-> p, aggs |-> None, answer |-> NoAnswer]
  <2>1. IsRequest(Idle) /\ Idle.aggs = None /\ Idle.answer = NoAnswer
    BY DEF Idle, IsRequest
  <2> QED
    BY <2>1, AskFields
<1>3. ASSUME NEW pc \in {"values", "facets", "wait"}, req' = [req EXCEPT ![t] = asked(pc)]
      PROVE  ExactRequests'
  <2>1. Exact([pc |-> pc, ask |-> p, aggs |-> None, answer |-> NoAnswer])
    BY <1>3 DEF Exact
  <2> QED
    BY <1>1, <1>2, <1>3, <2>1, OneExact
<1>4. ASSUME p \in Searches, cores[k] # None,
             req' = [req EXCEPT ![t] = [asked("done") EXCEPT !.answer = cores[k].value]]
      PROVE  ExactRequests'
  <2> DEFINE r == [asked("done") EXCEPT !.answer = cores[k].value]
             s == asked("done")
  <2>1. s = [pc |-> "done", ask |-> p, aggs |-> None, answer |-> NoAnswer]
    BY <1>2
  <2>2. r = [s EXCEPT !.answer = cores[k].value]
    OBVIOUS
  <2>3. req' = [req EXCEPT ![t] = r]
    BY <1>4
  <2>4. SearchAnswer(cores[k].value, p)
    BY <1>4 DEF ExactInv, ExactCores
  <2> HIDE DEF r, s
  <2>5. r = [pc |-> "done", ask |-> p, aggs |-> None, answer |-> cores[k].value]
    BY <2>1, <2>2
  <2>6. Exact(r)
    BY <1>4, <2>4, <2>5 DEF Exact
  <2> QED
    BY <1>1, <2>3, <2>6, OneExact
<1>5. ExactRequests'
  BY <1>3, <1>4 DEF Ask
<1> QED
  BY <1>1, <1>5 DEF ExactInv

LEMMA ExactLookup ==
  ASSUME ExactInv, AnswersInv, NEW t \in Tasks, WaitHit(t) \/ GiveUp(t) \/ LookupAggs(t) \/ LookupValues(t)
  PROVE  ExactInv'
<1>1. ExactCores' /\ ExactAggs' /\ ExactValues' /\ RequestsOK /\ RequestOK(req[t], Moment) /\ ask(t) = req[t].ask
  BY SameExact DEF WaitHit, GiveUp, LookupAggs, LookupValues, caches, AnswersInv, RequestsOK, ask
<1>2. CASE WaitHit(t)
  <2>1. ask(t) \in Searches /\ cores[CoreKey(ask(t))] # None /\ Answer(t, cores[CoreKey(ask(t))].value)
    BY <1>1, <1>2 DEF WaitHit, At, RequestOK, Searching
  <2>2. SearchAnswer(cores[CoreKey(ask(t))].value, ask(t))
    BY <2>1 DEF ExactInv, ExactCores
  <2>3. ExactRequests'
    BY <1>1, <2>1, <2>2, AnswersExact
  <2> QED
    BY <1>1, <2>3 DEF ExactInv
<1>3. CASE GiveUp(t)
  <2>1. ExactRequests'
    BY <1>3, GoesExact DEF GiveUp
  <2> QED
    BY <1>1, <2>1 DEF ExactInv
<1>4. CASE LookupAggs(t)
  <2> DEFINE k == AggKey(ask(t))
             c == IF Selected(ask(t)) = {} \/ aggs[k] = None THEN None ELSE aggs[k].value
             r == [req[t] EXCEPT !.pc = "search", !.aggs = c]
  <2>1. ask(t) \in Searches
    BY <1>1, <1>4 DEF LookupAggs, At, RequestOK, Searching
  <2>2. req' = [req EXCEPT ![t] = r]
    BY <1>1, <1>4 DEF LookupAggs, RequestsOK, OnKeys
  <2>3. c # None => CountsFor(c, ask(t))
    BY <2>1 DEF ExactInv, ExactAggs
  <2> HIDE DEF c, k
  <2>4. r = [pc |-> "search", ask |-> req[t].ask, aggs |-> c, answer |-> req[t].answer]
    BY <1>1, CountsField DEF RequestOK
  <2> HIDE DEF r
  <2>5. Exact(r)
    BY <1>1, <2>3, <2>4 DEF Exact
  <2>6. ExactRequests'
    BY <1>1, <2>2, <2>5, OneExact
  <2> QED
    BY <1>1, <2>6 DEF ExactInv
<1>5. CASE LookupValues(t)
  <2> DEFINE e == values[ValuesKey(ask(t))]
             a == FacetAnswer(ask(t), [counts |-> e.value.counts, at |-> e.value.at, made |-> e.made])
  <2>1. ask(t) \in Questions \ Searches
    BY <1>1, <1>5 DEF LookupValues, At, RequestOK, Counting
  <2>2. CASE e = None
    <3>1. ExactRequests'
      BY <1>5, <2>2, GoesExact DEF LookupValues
    <3> QED
      BY <1>1, <3>1 DEF ExactInv
  <2>3. CASE e # None
    <3>1. Answer(t, a)
      BY <1>5, <2>3 DEF LookupValues
    <3>2. CountsFor(e.value, ask(t))
      BY <2>1, <2>3 DEF ExactInv, ExactValues
    <3>5. DOMAIN e.value.counts # {}
      <4>1. ValuesKey(ask(t)) \in ValuesKeys
        BY <2>1 DEF ValuesKeys
      <4>2. DOMAIN e.value.counts = {ValuesKey(ask(t)).facet}
        BY <2>3, <4>1 DEF AnswersInv, ValuesOK, CountsEntry
      <4> QED
        BY <4>2
    <3>3. FacetsAnswer(a, ask(t))
      BY <3>2, <3>5, CountedExact
    <3> HIDE DEF a, e
    <3>4. ExactRequests'
      BY <1>1, <2>1, <3>1, <3>3, AnswersExact
    <3> QED
      BY <1>1, <3>4 DEF ExactInv
  <2> QED
    BY <2>2, <2>3
<1> QED
  BY <1>2, <1>3, <1>4, <1>5

\* What is counted or found now is that of the version that is there now.
LEMMA ExactSearch ==
  ASSUME ExactInv, AnswersInv, NEW t \in Tasks, Search(t)
  PROVE  ExactInv'
<1> DEFINE p == ask(t)
           found == IF Contents[index] = Missing THEN {} ELSE FoundBy[p][index]
           c == Counted(p, req[t].aggs)
           pc == IF StoresAggs(req[t].aggs, c) THEN "aggs" ELSE "core"
           a == Response(p, found, c)
           r == [req[t] EXCEPT !.pc = pc, !.aggs = c, !.answer = a]
<1>1. ExactCores' /\ ExactAggs' /\ ExactValues'
  BY SameExact DEF Search, caches
<1>2. /\ RequestsOK /\ RequestOK(req[t], Moment) /\ IsRequest(req[t]) /\ Exact(req[t])
      /\ req[t].ask = p /\ req[t].pc = "search"
  BY DEF AnswersInv, RequestsOK, RequestOK, ExactInv, ExactRequests, Search, At, ask
<1>3. req' = [req EXCEPT ![t] = r]
  BY <1>2 DEF Search, RequestsOK, OnKeys
<1>4. CountsFor(c, p)
  <2>1. CASE req[t].aggs # None
    BY <1>2, <2>1 DEF Counted, Exact
  <2>2. CASE req[t].aggs = None
    <3>1. c = [counts |-> Tally(p, index), at |-> index]
      BY <2>2 DEF Counted, Tally
    <3> HIDE DEF c, p
    <3> QED
      BY <3>1 DEF CountsFor
  <2> QED
    BY <2>1, <2>2
<1>5. SearchAnswer(a, p)
  <2>1. /\ found = Hits(p, index) /\ a.items = HitPage(found, p) /\ a.total = Cardinality(found)
        /\ a.facets \in {<<>>, c.counts} /\ a.hitsAt = index /\ a.facetsAt = c.at
    BY DEF Hits, Response
  <2> HIDE DEF a, c, p, found
  <2> QED
    BY <1>4, <2>1 DEF SearchAnswer, CountsFor
<1>6. pc \in {"aggs", "core"}
  OBVIOUS
<1> HIDE DEF a, c, pc, p
<1>7. r = [pc |-> pc, ask |-> req[t].ask, aggs |-> c, answer |-> a]
  <2> DEFINE s == [req[t] EXCEPT !.pc = pc, !.aggs = c]
  <2>1. r = [s EXCEPT !.answer = a]
    BY <1>2 DEF IsRequest
  <2>2. s = [pc |-> pc, ask |-> req[t].ask, aggs |-> c, answer |-> req[t].answer]
    BY <1>2, CountsField
  <2> HIDE DEF s
  <2>3. [s EXCEPT !.answer = a] = [pc |-> pc, ask |-> req[t].ask, aggs |-> c, answer |-> a]
    BY <2>2
  <2> QED
    BY <2>1, <2>3
<1> HIDE DEF r
<1>8. Exact(r)
  BY <1>2, <1>4, <1>5, <1>6, <1>7 DEF Exact
<1>9. ExactRequests'
  BY <1>2, <1>3, <1>8, OneExact
<1> QED
  BY <1>1, <1>9 DEF ExactInv

LEMMA ExactSearchValues ==
  ASSUME ExactInv, AnswersInv, NEW t \in Tasks, SearchValues(t)
  PROVE  ExactInv'
<1> DEFINE c == [counts |-> CountsOf(ask(t), index), at |-> index]
           r == [req[t] EXCEPT !.pc = "store", !.aggs = c]
<1>1. ExactCores' /\ ExactAggs' /\ ExactValues'
  BY SameExact DEF SearchValues, caches
<1>2. RequestsOK /\ RequestOK(req[t], Moment) /\ IsRequest(req[t]) /\ req[t].ask = ask(t) /\ req[t].pc = "count"
  BY DEF AnswersInv, RequestsOK, RequestOK, SearchValues, At, ask
<1>3. ask(t) \in Questions \ Searches
  BY <1>2 DEF RequestOK, Counting
<1>4. CASE Contents[index] = Missing
  <2>1. ExactRequests'
    BY <1>4, AnswersExact DEF SearchValues
  <2> QED
    BY <1>1, <2>1 DEF ExactInv
<1>5. CASE Contents[index] # Missing
  <2>1. req' = [req EXCEPT ![t] = r]
    BY <1>2, <1>5 DEF SearchValues, RequestsOK, OnKeys
  <2>2. CountsFor(c, ask(t))
    <3>1. Selected(ask(t)) # {}
      BY <1>3, OneFacet
    <3> QED
      BY <1>5, <3>1 DEF CountsFor, Tally
  <2> HIDE DEF c
  <2>3. r = [pc |-> "store", ask |-> req[t].ask, aggs |-> c, answer |-> req[t].answer]
    BY <1>2, CountsField
  <2> HIDE DEF r
  <2>4. Exact(r)
    BY <1>2, <2>2, <2>3 DEF Exact
  <2>5. ExactRequests'
    BY <1>2, <2>1, <2>4, OneExact
  <2> QED
    BY <1>1, <2>5 DEF ExactInv
<1> QED
  BY <1>4, <1>5

LEMMA StoredValue ==
  ASSUME NEW keys, NEW cache, OnKeys(cache, keys), NEW k, NEW value
  PROVE  /\ \A j \in keys : j # k => Stored(cache, k, value)[j] = cache[j]
         /\ k \in keys => Stored(cache, k, value)[k].value = value
<1>1. /\ \A j \in keys : j # k => Stored(cache, k, value)[j] = cache[j]
      /\ k \in keys => Stored(cache, k, value)[k] = [value |-> value, made |-> now]
  BY StoredAt
<1> QED
  BY <1>1

\* What is stored answers every question of the name.
LEMMA ExactStore ==
  ASSUME OneFlag, ExactInv, AnswersInv, NEW t \in Tasks, StoreAggs(t) \/ StoreCore(t) \/ StoreValues(t)
  PROVE  ExactInv'
<1>1. /\ RequestsOK /\ RequestOK(req[t], Moment) /\ Exact(req[t]) /\ ask(t) = req[t].ask
      /\ OnKeys(cores, CoreKeys) /\ OnKeys(aggs, AggKeys) /\ OnKeys(values, ValuesKeys)
  BY DEF AnswersInv, RequestsOK, CoresOK, AggsOK, ValuesOK, ExactInv, ExactRequests, ask
<1>2. CASE StoreAggs(t)
  <2> DEFINE k == AggKey(ask(t))
  <2>0. aggs' = Stored(aggs, k, req[t].aggs)
    BY <1>2 DEF StoreAggs
  <2>1. ask(t) \in Searches /\ CountsFor(req[t].aggs, ask(t)) /\ SearchAnswer(req[t].answer, ask(t))
    BY <1>1, <1>2 DEF StoreAggs, At, RequestOK, Searching, Exact
  <2>2. /\ \A j \in AggKeys : j # k => aggs'[j] = aggs[j]
        /\ k \in AggKeys => aggs'[k].value = req[t].aggs
    BY <1>1, <2>0, StoredValue
  <2>3. ASSUME NEW p \in Searches, Selected(p) # {}, aggs'[AggKey(p)] # None
        PROVE  CountsFor(aggs'[AggKey(p)].value, p)
    <3>1. AggKey(p) \in AggKeys
      BY <2>3 DEF AggKeys
    <3>2. CASE AggKey(p) = k
      BY <2>1, <2>2, <3>1, <3>2, AggNamesakes, SameAnswer
    <3>3. CASE AggKey(p) # k
      BY <2>2, <2>3, <3>1, <3>3 DEF ExactInv, ExactAggs
    <3> QED
      BY <3>2, <3>3
  <2>4. ExactRequests'
    BY <1>1, <1>2, <2>1, GoesExact DEF StoreAggs
  <2>5. ExactAggs'
    BY <2>3 DEF ExactAggs
  <2>6. ExactCores' /\ ExactValues'
    BY <1>2, SameExact DEF StoreAggs, ExactInv
  <2> QED
    BY <2>4, <2>5, <2>6 DEF ExactInv
<1>3. CASE StoreCore(t)
  <2> DEFINE k == CoreKey(ask(t))
  <2>0. cores' = Stored(cores, k, req[t].answer)
    BY <1>3 DEF StoreCore
  <2>1. ask(t) \in Searches /\ SearchAnswer(req[t].answer, ask(t))
    BY <1>1, <1>3 DEF StoreCore, At, RequestOK, Searching, Exact
  <2>2. /\ \A j \in CoreKeys : j # k => cores'[j] = cores[j]
        /\ k \in CoreKeys => cores'[k].value = req[t].answer
    BY <1>1, <2>0, StoredValue
  <2>3. ASSUME NEW p \in Searches, cores'[CoreKey(p)] # None
        PROVE  SearchAnswer(cores'[CoreKey(p)].value, p)
    <3>1. CoreKey(p) \in CoreKeys
      BY DEF CoreKeys
    <3>2. CASE CoreKey(p) = k
      BY <2>1, <2>2, <3>1, <3>2, CoreNamesakes, SameAnswer
    <3>3. CASE CoreKey(p) # k
      BY <2>2, <2>3, <3>1, <3>3 DEF ExactInv, ExactCores
    <3> QED
      BY <3>2, <3>3
  <2>4. ExactRequests'
    BY <1>1, <1>3, <2>1, GoesExact DEF StoreCore
  <2>5. ExactCores'
    BY <2>3 DEF ExactCores
  <2>6. ExactAggs' /\ ExactValues'
    BY <1>3, SameExact DEF StoreCore, ExactInv
  <2> QED
    BY <2>4, <2>5, <2>6 DEF ExactInv
<1>4. CASE StoreValues(t)
  <2> DEFINE k == ValuesKey(ask(t))
  <2>0. values' = Stored(values, k, req[t].aggs)
    BY <1>4 DEF StoreValues
  <2>1. ask(t) \in Questions \ Searches /\ CountsFor(req[t].aggs, ask(t))
    BY <1>1, <1>4 DEF StoreValues, At, RequestOK, Counting, Exact
  <2>2. /\ \A j \in ValuesKeys : j # k => values'[j] = values[j]
        /\ k \in ValuesKeys => values'[k].value = req[t].aggs
    BY <1>1, <2>0, StoredValue
  <2>3. ASSUME NEW p \in Questions \ Searches, values'[ValuesKey(p)] # None
        PROVE  CountsFor(values'[ValuesKey(p)].value, p)
    <3>1. ValuesKey(p) \in ValuesKeys
      BY DEF ValuesKeys
    <3>2. CASE ValuesKey(p) = k
      BY <2>1, <2>2, <3>1, <3>2, ValuesNamesakes, SameAnswer
    <3>3. CASE ValuesKey(p) # k
      BY <2>2, <2>3, <3>1, <3>3 DEF ExactInv, ExactValues
    <3> QED
      BY <3>2, <3>3
  <2>4. ExactRequests'
    BY <1>1, <1>4, <2>1, GoesExact DEF StoreValues
  <2>5. ExactValues'
    BY <2>3 DEF ExactValues
  <2>6. ExactCores' /\ ExactAggs'
    BY <1>4, SameExact DEF StoreValues, ExactInv
  <2> QED
    BY <2>4, <2>5, <2>6 DEF ExactInv
<1> QED
  BY <1>2, <1>3, <1>4

LEMMA ExactTag ==
  ASSUME ExactInv, AnswersInv, NEW t \in Tasks,
         TagAggs(t) \/ TagCore(t) \/ TagValues(t) \/ StoreFails(t) \/ TagFails(t)
  PROVE  ExactInv'
<1>1. /\ RequestsOK /\ RequestOK(req[t], Moment) /\ Exact(req[t]) /\ ask(t) = req[t].ask
  BY DEF AnswersInv, RequestsOK, ExactInv, ExactRequests, ask
<1>2. ExactCores' /\ ExactAggs' /\ ExactValues'
  BY SameExact DEF TagAggs, TagCore, TagValues, StoreFails, TagFails, caches
<1>3. CASE (At(t, "aggs") \/ At(t, "tagAggs")) /\ Go(t, "core")
  BY <1>1, <1>2, <1>3, GoesExact DEF At, Exact, ExactInv
<1>4. CASE (At(t, "core") \/ At(t, "tagCore")) /\ Answer(t, req[t].answer)
  <2>1. ExactRequests'
    BY <1>1, <1>4, AnswersExact DEF At, Exact, RequestOK, Searching
  <2> QED
    BY <1>2, <2>1 DEF ExactInv
<1>5. CASE (At(t, "store") \/ At(t, "tagValues")) /\ ValuesAnswer(t)
  <2>1. CountsFor(req[t].aggs, ask(t)) /\ ask(t) \in Questions \ Searches
    BY <1>1, <1>5 DEF At, Exact, RequestOK, Counting
  <2>2. DOMAIN req[t].aggs.counts # {}
    BY <1>1, <1>5, <2>1, OneFacet DEF At, RequestOK
  <2>3. ExactRequests'
    BY <1>1, <1>5, <2>1, <2>2, CountedExact, AnswersExact DEF ValuesAnswer
  <2> QED
    BY <1>2, <2>3 DEF ExactInv
<1> QED
  BY <1>3, <1>4, <1>5 DEF TagAggs, TagCore, TagValues, StoreFails, TagFails

\* Where nobody is answered, and nothing is stored, all stays as it was.
LEMMA ExactRest ==
  ASSUME ExactInv, AnswersInv,
         \/ \E t \in Tasks : SearchFails(t) \/ Die(t) \/ Finish(t)
         \/ \E ttl \in OtherTtls : OthersTag(ttl)
         \/ ChangeIndex \/ ClearSearch \/ Tick
  PROVE  ExactInv'
<1>1. RequestsOK /\ OnKeys(cores, CoreKeys) /\ OnKeys(aggs, AggKeys) /\ OnKeys(values, ValuesKeys)
  BY DEF AnswersInv, CoresOK, AggsOK, ValuesOK
<1>2. ASSUME NEW t \in Tasks, SearchFails(t) PROVE ExactInv'
  <2>1. ExactRequests'
    BY <1>2, AnswersExact DEF SearchFails
  <2> QED
    BY <1>2, <2>1, SameExact DEF SearchFails, caches, ExactInv
<1>3. ASSUME NEW t \in Tasks, Die(t) \/ Finish(t) PROVE ExactInv'
  <2>1. Exact(Idle)
    BY DEF Exact, Idle
  <2>2. ExactRequests'
    BY <1>1, <1>3, <2>1, OneExact DEF Die, Finish
  <2> QED
    BY <1>3, <2>2, SameExact DEF Die, Finish, caches, ExactInv
<1>4. req' = req => ExactRequests'
  BY DEF ExactInv, ExactRequests
<1>5. CASE ChangeIndex
  BY <1>4, <1>5, SameExact DEF ChangeIndex, caches, ExactInv
<1>6. CASE ClearSearch
  <2>1. /\ \A k \in CoreKeys : cores'[k] # None =>
             cores[k] # None /\ <<"core", k>> \notin tagged /\ cores'[k] = cores[k]
        /\ \A k \in AggKeys : aggs'[k] # None =>
             aggs[k] # None /\ <<"aggs", k>> \notin tagged /\ aggs'[k] = aggs[k]
        /\ \A k \in ValuesKeys : values'[k] # None =>
             values[k] # None /\ <<"values", k>> \notin tagged /\ values'[k] = values[k]
    <3>1. /\ cores' = Uncleared("core", cores) /\ aggs' = Uncleared("aggs", aggs)
          /\ values' = Uncleared("values", values)
      BY <1>6 DEF ClearSearch
    <3> QED
      BY <1>1, <3>1, UnclearedAt
  <2>2. Keeps(cores, cores', CoreKeys) /\ Keeps(aggs, aggs', AggKeys) /\ Keeps(values, values', ValuesKeys)
    BY <2>1 DEF Keeps
  <2> QED
    BY <1>4, <1>6, <2>2, KeepsExact DEF ClearSearch, ExactInv
<1>7. CASE Tick
  <2>1. Keeps(cores, cores', CoreKeys) /\ Keeps(aggs, aggs', AggKeys) /\ Keeps(values, values', ValuesKeys)
    BY <1>1, <1>7, AliveAt DEF Tick, Keeps
  <2> QED
    BY <1>4, <1>7, <2>1, KeepsExact DEF Tick, ExactInv
<1>8. ASSUME NEW ttl, OthersTag(ttl) PROVE ExactInv'
  BY <1>4, <1>8, SameExact DEF OthersTag, caches, ExactInv
<1> QED
  BY <1>2, <1>3, <1>5, <1>6, <1>7, <1>8

LEMMA ExactInit == Init => ExactInv
<1> SUFFICES ASSUME Init PROVE ExactInv
  OBVIOUS
<1>1. Exact(Idle)
  BY DEF Exact, Idle
<1> QED
  BY <1>1 DEF Init, ExactInv, ExactCores, ExactAggs, ExactValues, ExactRequests, CoreKeys, AggKeys, ValuesKeys

LEMMA ExactStep == OneFlag /\ AnswersInv /\ ExactInv /\ [Next]_vars => ExactInv'
<1> SUFFICES ASSUME OneFlag, AnswersInv, ExactInv, [Next]_vars PROVE ExactInv'
  OBVIOUS
<1>1. CASE UNCHANGED vars
  <2>1. req' = req => ExactRequests'
    BY DEF ExactInv, ExactRequests
  <2> QED
    BY <1>1, <2>1, SameExact DEF vars, ExactInv
<1>2. ASSUME NEW t \in Tasks,
             \/ Ask(t) \/ WaitHit(t) \/ GiveUp(t) \/ LookupAggs(t) \/ Search(t)
             \/ LookupValues(t) \/ SearchValues(t)
      PROVE  ExactInv'
  BY <1>2, ExactAsk, ExactLookup, ExactSearch, ExactSearchValues
<1>3. ASSUME NEW t \in Tasks,
             \/ StoreAggs(t) \/ StoreCore(t) \/ StoreValues(t)
             \/ TagAggs(t) \/ TagCore(t) \/ TagValues(t) \/ StoreFails(t) \/ TagFails(t)
      PROVE  ExactInv'
  BY <1>3, ExactStore, ExactTag
<1> QED
  BY <1>1, <1>2, <1>3, ExactRest DEF Next

LEMMA ExactInvariant == ASSUME OneFlag PROVE Spec => []ExactInv
<1>1. AnswersInv /\ ExactInv /\ [Next]_vars => ExactInv'
  BY ExactStep
<1> QED
  BY <1>1, ExactInit, AnswersInvariant, PTL DEF Spec

-----------------------------------------------------------------------------
(* The circle of longitudes.                                                *)

Turn == 2 * Half
Res(x) == x % (2 * Half)

LEMMA TurnNumber == Half \in Nat /\ Half > 0 /\ Turn \in Nat /\ Turn > 0 /\ Turn = 2 * Half /\ Turn = Half + Half
BY QueryAssumption DEF Turn

LEMMA ResTyped ==
  ASSUME NEW x \in Int
  PROVE  Res(x) \in 0 .. Turn - 1 /\ \E k \in Int : x = k * Turn + Res(x)
<1> DEFINE k == x \div Turn
<1>1. k \in Int /\ x % Turn \in 0 .. Turn - 1 /\ x = Turn * k + (x % Turn)
  BY TurnNumber
<1> QED
  BY <1>1, TurnNumber DEF Res, Turn

\* Less than a turn apart, and whole turns apart, is the same.
LEMMA NoTurn ==
  ASSUME NEW k \in Int, NEW t \in Nat, t > 0, k * t < t, k * t > -t
  PROVE  k = 0
<1>1. CASE k >= 1
  <2>1. k * t >= 1 * t
    BY <1>1
  <2> QED BY <2>1
<1>2. CASE k <= -1
  <2>1. k * t <= (-1) * t
    BY <1>2
  <2> QED BY <2>1
<1> QED
  BY <1>1, <1>2

LEMMA SameRes ==
  ASSUME NEW x \in Int, NEW y \in Int
  PROVE  /\ Res(x) = Res(y) /\ x - y < Turn /\ y - x < Turn => x = y
         /\ \A k \in Int : x - y = k * Turn => Res(x) = Res(y)
<1>1. PICK i \in Int : x = i * Turn + Res(x)
  BY ResTyped
<1>2. PICK j \in Int : y = j * Turn + Res(y)
  BY ResTyped
<1>3. Res(x) \in 0 .. Turn - 1 /\ Res(y) \in 0 .. Turn - 1 /\ Turn \in Nat /\ Turn > 0
  BY ResTyped, TurnNumber
<1> HIDE DEF Res, Turn
<1>4. ASSUME Res(x) = Res(y), x - y < Turn, y - x < Turn PROVE x = y
  <2>1. (i - j) * Turn = i * Turn - j * Turn
    BY <1>3
  <2>2. (i - j) * Turn = x - y
    <3>1. x - y = i * Turn - j * Turn
      <4>1. i * Turn \in Int /\ j * Turn \in Int /\ Res(x) \in Int
        BY <1>3
      <4>2. \A m, n, r \in Int : x = m + r /\ y = n + r => x - y = m - n
        OBVIOUS
      <4> QED
        BY <1>1, <1>2, <1>4, <4>1, <4>2
    <3> QED BY <2>1, <3>1
  <2>3. i - j = 0
    BY <1>3, <1>4, <2>2, NoTurn
  <2> QED
    BY <1>1, <1>2, <1>3, <1>4, <2>3
<1>5. ASSUME NEW k \in Int, x - y = k * Turn PROVE Res(x) = Res(y)
  <2>1. (k + j - i) * Turn = k * Turn + j * Turn - i * Turn
    BY <1>3
  <2>2. (k + j - i) * Turn = Res(x) - Res(y)
    BY <1>1, <1>2, <1>3, <1>5, <2>1
  <2>3. k + j - i = 0
    BY <1>3, <2>2, NoTurn
  <2>4. (k + j - i) * Turn = 0
    BY <1>3, <2>3
  <2> QED
    BY <1>3, <2>2, <2>4
<1> QED
  BY <1>4, <1>5

LEMMA MoveRes ==
  ASSUME NEW x \in Int, NEW y \in Int, NEW n \in Int, Res(x) = Res(y)
  PROVE  Res(x + n) = Res(y + n)
<1>1. PICK i \in Int : x = i * Turn + Res(x)
  BY ResTyped
<1>2. PICK j \in Int : y = j * Turn + Res(y)
  BY ResTyped
<1>3. Res(x) \in Int /\ Turn \in Nat
  BY ResTyped, TurnNumber
<1> HIDE DEF Res, Turn
<1>4. (i - j) * Turn = i * Turn - j * Turn
  BY <1>3
<1>5. (x + n) - (y + n) = (i - j) * Turn
  BY <1>1, <1>2, <1>3, <1>4
<1> QED
  BY <1>5, SameRes

\* The same, for longitudes that are as far from one another.
LEMMA AlikeRes ==
  ASSUME NEW x \in Int, NEW y \in Int, NEW u \in Int, NEW v \in Int, Res(x) = Res(y), u - x = v - y
  PROVE  Res(u) = Res(v)
<1> DEFINE n == u - x
<1>1. n \in Int /\ x + n = u /\ y + n = v
  OBVIOUS
<1> HIDE DEF n
<1>2. Res(x + n) = Res(y + n)
  BY <1>1, MoveRes, ZenonT(30)
<1> QED
  BY <1>1, <1>2

LEMMA MinusRes ==
  ASSUME NEW x \in Int, NEW y \in Int, NEW u \in Int, NEW v \in Int, Res(x) = Res(y), Res(u) = Res(v),
         NEW m \in Int, NEW n \in Int, m = u - x, n = v - y
  PROVE  Res(m) = Res(n)
<1>1. u - x \in Int /\ v - x \in Int /\ v - y \in Int
  OBVIOUS
<1>2. Res(u - x) = Res(v - x)
  <2>1. (u - x) - u = (v - x) - v
    OBVIOUS
  <2> QED
    BY <1>1, <2>1, AlikeRes
<1>3. PICK k \in Int : x = k * Turn + Res(x)
  BY ResTyped
<1>4. PICK l \in Int : y = l * Turn + Res(y)
  BY ResTyped
<1>5. Res(x) \in Int /\ Turn \in Nat
  BY ResTyped, TurnNumber
<1> HIDE DEF Res, Turn
<1>6. (l - k) * Turn = l * Turn - k * Turn /\ l * Turn \in Int /\ k * Turn \in Int
  BY <1>5
<1>7. \A i, j, r \in Int : x = i + r /\ y = j + r => (v - x) - (v - y) = j - i
  OBVIOUS
<1>8. (v - x) - (v - y) = (l - k) * Turn
  BY <1>3, <1>4, <1>5, <1>6, <1>7
<1>9. Res(v - x) = Res(v - y)
  BY <1>1, <1>8, SameRes
<1> QED
  BY <1>2, <1>9

LEMMA TurnRes ==
  ASSUME NEW x \in Int
  PROVE  Res(x + Turn) = Res(x) /\ Res(x - Turn) = Res(x) /\ Res(Res(x)) = Res(x)
<1>1. (x + Turn) - x = 1 * Turn /\ (x - Turn) - x = (-1) * Turn /\ x + Turn \in Int /\ x - Turn \in Int
  BY TurnNumber
<1>2. PICK i \in Int : x = i * Turn + Res(x)
  BY ResTyped
<1>3. Res(x) \in Int /\ Turn \in Nat
  BY ResTyped, TurnNumber
<1>4. x - Res(x) = i * Turn
  BY <1>2, <1>3
<1> HIDE DEF Res, Turn
<1> QED
  BY <1>1, <1>3, <1>4, SameRes

LEMMA SmallRes ==
  ASSUME NEW x \in 0 .. Turn - 1
  PROVE  Res(x) = x
<1>1. x \in Int /\ Res(x) \in 0 .. Turn - 1 /\ Res(Res(x)) = Res(x) /\ Turn \in Nat
  BY ResTyped, TurnRes, TurnNumber
<1> HIDE DEF Res, Turn
<1> QED
  BY <1>1, SameRes

-----------------------------------------------------------------------------
(* Arcs of the circle.                                                      *)

LEMMA StepsAre ==
  ASSUME NEW a \in Int, NEW b \in Int
  PROVE  \A y : y \in Steps(a, b) <=> \E x \in Int : a <= x /\ x < b /\ y = Res(x)
BY DEF Steps, Res

LEMMA StepsMove ==
  ASSUME NEW a \in Int, NEW b \in Int, NEW n \in Int, Res(a) = Res(b)
  PROVE  Steps(a, a + n) \subseteq Steps(b, b + n)
<1> SUFFICES ASSUME NEW y \in Steps(a, a + n) PROVE y \in Steps(b, b + n)
  OBVIOUS
<1>1. PICK x \in Int : a <= x /\ x < a + n /\ y = Res(x)
  BY StepsAre
<1>2. Res(a + (x - a)) = Res(b + (x - a)) /\ a + (x - a) = x
  <2>1. x - a \in Int /\ a + (x - a) = x
    OBVIOUS
  <2> QED
    BY <2>1, MoveRes
<1>3. b <= b + (x - a) /\ b + (x - a) < b + n /\ y = Res(b + (x - a))
  BY <1>1, <1>2
<1> QED
  BY <1>3, StepsAre

LEMMA StepsJoin ==
  ASSUME NEW a \in Int, NEW b \in Int, NEW c \in Int, a <= c, c <= b
  PROVE  Steps(a, b) = Steps(a, c) \cup Steps(c, b)
<1>1. \A x \in Int : (a <= x /\ x < b) <=> ((a <= x /\ x < c) \/ (c <= x /\ x < b))
  OBVIOUS
<1> QED
  BY <1>1, StepsAre

LEMMA AllSteps ==
  ASSUME NEW a \in Int
  PROVE  Steps(a, a + Turn) = 0 .. Turn - 1
<1>1. ASSUME NEW y \in Steps(a, a + Turn) PROVE y \in 0 .. Turn - 1
  <2>1. PICK x \in Int : y = Res(x)
    BY StepsAre, TurnNumber
  <2> QED
    BY <2>1, ResTyped
<1>2. ASSUME NEW y \in 0 .. Turn - 1 PROVE y \in Steps(a, a + Turn)
  <2> DEFINE x == a + Res(y - a)
  <2>1. Res(y - a) \in 0 .. Turn - 1 /\ y \in Int /\ Turn \in Nat
    BY ResTyped, TurnNumber
  <2>2. Res(Res(y - a) + a) = Res((y - a) + a)
    <3>1. y - a \in Int /\ Res(y - a) \in Int
      BY <2>1
    <3>2. Res(Res(y - a)) = Res(y - a)
      BY <3>1, TurnRes
    <3> QED
      BY <3>1, <3>2, MoveRes
  <2>3. x \in Int /\ a <= x /\ x < a + Turn /\ x = Res(y - a) + a /\ (y - a) + a = y
    BY <2>1
  <2>4. y = Res(x)
    BY <2>2, <2>3, SmallRes
  <2> QED
    BY <2>1, <2>3, <2>4, StepsAre
<1> QED
  BY <1>1, <1>2

-----------------------------------------------------------------------------
(* The ranges of a box are the arc the box means.                           *)

LEMMA Normal ==
  ASSUME NEW x \in Int
  PROVE  /\ NormalizeLongitude(x) \in -Half .. Half /\ Res(NormalizeLongitude(x)) = Res(x)
         /\ x \in -Half .. Half => NormalizeLongitude(x) = x
<1> DEFINE n == Res(x + Half) - Half
<1>1. Half \in Int /\ Turn = 2 * Half /\ Half > 0 /\ Turn = Half + Half
  BY TurnNumber
<1>2. x + Half \in Int /\ Res(x + Half) \in 0 .. Turn - 1
  BY <1>1, ResTyped
<1>3. Res(Res(x + Half) - Half) = Res((x + Half) - Half)
  <2>1. -Half \in Int /\ Res(x + Half) \in Int /\ Res(Res(x + Half)) = Res(x + Half)
    BY <1>1, <1>2, TurnRes
  <2>2. Res(Res(x + Half) + (-Half)) = Res((x + Half) + (-Half))
    BY <1>2, <2>1, MoveRes
  <2>3. Res(x + Half) + (-Half) = Res(x + Half) - Half /\ (x + Half) + (-Half) = (x + Half) - Half
    BY <1>1, <1>2
  <2> QED BY <2>2, <2>3
<1>4. n \in -Half .. Half - 1 /\ Res(n) = Res(x) /\ (x + Half) - Half = x
  BY <1>1, <1>2, <1>3
<1>5. NormalizeLongitude(x) = IF n = -Half /\ x > 0 THEN Half ELSE n
  BY DEF NormalizeLongitude, Res
<1>6. Res(-Half + Turn) = Res(-Half) /\ -Half + Turn = Half
  BY <1>1, TurnRes
<1>7. ASSUME x \in -Half .. Half - 1 PROVE n = x
  <2>1. x + Half \in 0 .. Turn - 1
    BY <1>1, <1>7
  <2>2. Res(x + Half) = x + Half
    BY <2>1, SmallRes
  <2> QED
    BY <1>1, <2>2
<1>8. ASSUME x = Half PROVE n = -Half
  <2>1. -Half \in Int /\ -Half - n < Turn /\ n - (-Half) < Turn
    BY <1>1, <1>4
  <2> QED
    BY <1>4, <1>6, <1>1, <1>8, <2>1, SameRes
<1> HIDE DEF n, Res, Turn
<1>9. x \in -Half .. Half => NormalizeLongitude(x) = x
  BY <1>1, <1>5, <1>7, <1>8
<1> QED
  BY <1>1, <1>4, <1>5, <1>6, <1>9

\* Ranges of any width.
Real(ranges) == {r \in ranges : r[1] < r[2]}
RangeSteps(ranges) == UNION {Steps(r[1], r[2]) : r \in ranges}

LEMMA NoSteps ==
  ASSUME NEW a \in Int, NEW b \in Int, b <= a
  PROVE  Steps(a, b) = {}
BY DEF Steps

LEMMA OneRange ==
  ASSUME NEW a \in Int, NEW b \in Int, NEW ranges, ranges = {<<a, b>>}
  PROVE  RangeSteps(Real(ranges)) = Steps(a, b)
<1>1. CASE a < b
  <2>1. Real(ranges) = {<<a, b>>}
    BY <1>1 DEF Real
  <2>2. {Steps(r[1], r[2]) : r \in {<<a, b>>}} = {Steps(a, b)}
    OBVIOUS
  <2> QED
    BY <2>1, <2>2 DEF RangeSteps
<1>2. CASE b <= a
  <2>1. Real(ranges) = {}
    BY <1>2 DEF Real
  <2> QED
    BY <1>2, <2>1, NoSteps DEF RangeSteps
<1> QED
  BY <1>1, <1>2

LEMMA TwoRanges ==
  ASSUME NEW a \in Int, NEW b \in Int, NEW c \in Int, NEW d \in Int,
         NEW ranges, ranges = {<<a, b>>, <<c, d>>}
  PROVE  RangeSteps(Real(ranges)) = Steps(a, b) \cup Steps(c, d)
<1>1. PICK first : first = {<<a, b>>}
  OBVIOUS
<1>2. PICK second : second = {<<c, d>>}
  OBVIOUS
<1>3. RangeSteps(Real(first)) = Steps(a, b) /\ RangeSteps(Real(second)) = Steps(c, d)
  BY <1>1, <1>2, OneRange
<1>4. Real(ranges) = Real(first) \cup Real(second)
  BY <1>1, <1>2 DEF Real
<1>5. RangeSteps(Real(first) \cup Real(second)) = RangeSteps(Real(first)) \cup RangeSteps(Real(second))
  BY DEF RangeSteps
<1> QED
  BY <1>3, <1>4, <1>5

LEMMA StepsMoveBoth ==
  ASSUME NEW a \in Int, NEW b \in Int, NEW c \in Int, NEW d \in Int, Res(a) = Res(b), c - a = d - b
  PROVE  Steps(a, c) = Steps(b, d)
<1> DEFINE n == c - a
<1>1. n \in Int /\ a + n = c /\ b + n = d
  OBVIOUS
<1> HIDE DEF n
<1>2. Steps(a, a + n) \subseteq Steps(b, b + n)
  BY <1>1, StepsMove
<1>3. Steps(b, b + n) \subseteq Steps(a, a + n)
  BY <1>1, StepsMove
<1> QED
  BY <1>1, <1>2, <1>3

\* The ranges of a box and the arc it means, piece by piece.
LEMMA BoxIs ==
  ASSUME NEW box, box.west \in Int, box.east \in Int
  PROVE  /\ BoxSteps(box) = RangeSteps(LonRanges(box.west, box.east))
         /\ \A r \in LonRanges(box.west, box.east) :
              r[1] \in -Half .. Half /\ r[2] \in -Half .. Half /\ r[1] < r[2]
<1> DEFINE west == box.west
           east == box.east
           w == NormalizeLongitude(west)
           e == NormalizeLongitude(east)
           inside == {west, east} \subseteq -Half .. Half
           swapped == inside /\ west > east /\ west - east <= Half
           span == (east - west) % (2 * Half)
           far == east - west >= 2 * Half \/ west - east >= 2 * Half
           ranges == IF far THEN {World}
                     ELSE IF w = e THEN (IF west = east THEN {} ELSE {World})
                     ELSE IF w < e THEN {<<w, e>>}
                     ELSE IF inside /\ w - e <= Half THEN {<<e, w>>}
                     ELSE {<<w, Half>>, <<-Half, e>>}
<1>1. /\ west \in Int /\ east \in Int /\ w \in -Half .. Half /\ e \in -Half .. Half
      /\ Res(w) = Res(west) /\ Res(e) = Res(east)
      /\ Half \in Int /\ Turn = 2 * Half /\ Half > 0 /\ Turn = Half + Half
  BY Normal, TurnNumber
<1>2. LonRanges(box.west, box.east) = Real(ranges)
  BY DEF LonRanges, Real
<1>3. BoxSteps(box) = IF far THEN Steps(0, 2 * Half)
                      ELSE IF swapped THEN Steps(east, west) ELSE Steps(west, west + span)
  BY DEF BoxSteps
<1>4. \A r \in ranges : r[1] \in -Half .. Half /\ r[2] \in -Half .. Half
  BY <1>1 DEF World
<1> SUFFICES BoxSteps(box) = RangeSteps(LonRanges(box.west, box.east))
  BY <1>2, <1>4 DEF Real
<1>5. span = Res(east - west) /\ span \in 0 .. Turn - 1
  <2>1. east - west \in Int
    BY <1>1
  <2> QED
    BY <2>1, ResTyped DEF Res
<1>15. w \in Int /\ e \in Int /\ -w \in Int /\ -west \in Int /\ span \in Int
  BY <1>1, <1>5
<1>16. west = east => w = e
  OBVIOUS
<1> HIDE DEF span, w, e, Res
<1>17. /\ far => ranges = {World}
       /\ ~far /\ w = e /\ west = east => ranges = {}
       /\ ~far /\ w < e => ranges = {<<w, e>>}
       /\ ~far /\ w > e /\ inside /\ w - e <= Half => ranges = {<<e, w>>}
       /\ ~far /\ w > e /\ ~(inside /\ w - e <= Half) => ranges = {<<w, Half>>, <<-Half, e>>}
  BY <1>15
<1>18. /\ far => BoxSteps(box) = Steps(0, 2 * Half)
       /\ ~far /\ swapped => BoxSteps(box) = Steps(east, west)
       /\ ~far /\ ~swapped => BoxSteps(box) = Steps(west, west + span)
  BY <1>3
<1> HIDE DEF ranges
<1>6. inside => w = west /\ e = east
  BY <1>1, Normal DEF w, e
<1>7. CASE far
  <2>1. Steps(0, 0 + Turn) = 0 .. Turn - 1 /\ Steps(-Half, -Half + Turn) = 0 .. Turn - 1
    BY <1>1, AllSteps
  <2>2. 0 + Turn = 2 * Half /\ -Half + Turn = Half
    BY <1>1
  <2>3. RangeSteps(Real(ranges)) = Steps(-Half, Half)
    <3>1. -Half \in Int /\ ranges = {<<-Half, Half>>}
      BY <1>1, <1>7, <1>17 DEF World
    <3> QED
      BY <1>1, <3>1, OneRange
  <2> QED
    BY <1>2, <1>7, <1>18, <2>1, <2>2, <2>3
<1>8. CASE ~far /\ w = e
  <2>1. west = east
    BY <1>1, <1>8, SameRes
  <2>2. span = 0
    <3>1. Res(0) = 0 /\ east - west = 0
      BY <1>1, <2>1, SmallRes
    <3> QED
      BY <1>5, <3>1
  <2>3. Steps(west, west + 0) = {}
    BY <1>1, NoSteps
  <2>4. LonRanges(box.west, box.east) = {} /\ ~swapped
    BY <1>1, <1>2, <1>8, <1>17, <2>1 DEF Real
  <2> QED
    BY <1>3, <1>8, <2>2, <2>3, <2>4 DEF RangeSteps
\* The way from west to east, once around at most.
<1>9. ASSUME ~far, w # e
      PROVE  /\ west # east
             /\ w < e => span = e - w
             /\ w > e => span = e + Turn - w
             /\ Steps(west, west + span) = Steps(w, w + span)
  <2>1. Steps(west, west + span) = Steps(w, w + span)
    <3>1. west + span \in Int /\ w + span \in Int /\ (west + span) - west = (w + span) - w
      BY <1>1, <1>15
    <3> QED
      BY <1>1, <1>15, <3>1, StepsMoveBoth
  <2>2. Res(e - w) = Res(east - west)
    <3>1. Res(w) = Res(west) /\ Res(e) = Res(east)
      BY <1>1
    <3>2. PICK m \in Int : m = e - w
      BY <1>15
    <3>3. PICK n \in Int : n = east - west
      BY <1>1
    <3>4. Res(m) = Res(n)
      <4>1. w \in Int /\ west \in Int /\ e \in Int /\ east \in Int
        BY <1>1, <1>15
      <4> HIDE DEF west, east
      <4> QED
        BY <3>1, <3>2, <3>3, <4>1, MinusRes
    <3> QED
      BY <3>2, <3>3, <3>4
  <2>3. west # east
    BY <1>9, <1>16
  <2>4. ASSUME w < e PROVE span = e - w
    <3>1. CASE e - w < Turn
      BY <1>1, <1>5, <2>2, <2>4, <3>1, SmallRes
    <3>2. CASE e - w >= Turn
      <4>1. w = -Half /\ e = Half
        BY <1>1, <3>2
      <4>2. Res(-Half + Turn) = Res(-Half) /\ -Half + Turn = Half
        BY <1>1, TurnRes
      <4>3. Res(west) = Res(east)
        BY <1>1, <4>1, <4>2
      <4> QED
        BY <1>1, <1>9, <2>3, <4>3, SameRes
    <3> QED
      BY <1>1, <3>1, <3>2
  <2>5. ASSUME w > e PROVE span = e + Turn - w
    <3>1. CASE w - e < Turn
      <4>1. Res((e - w) + Turn) = Res(e - w) /\ (e - w) + Turn \in 0 .. Turn - 1 /\ e + Turn - w = (e - w) + Turn
        BY <1>1, <2>5, <3>1, TurnRes
      <4> QED
        BY <1>5, <2>2, <4>1, SmallRes
    <3>2. CASE w - e >= Turn
      <4>1. e = -Half /\ w = Half
        BY <1>1, <3>2
      <4>2. Res(-Half + Turn) = Res(-Half) /\ -Half + Turn = Half
        BY <1>1, TurnRes
      <4>3. Res(west) = Res(east)
        BY <1>1, <4>1, <4>2
      <4> QED
        BY <1>1, <1>9, <2>3, <4>3, SameRes
    <3> QED
      BY <1>1, <3>1, <3>2
  <2> QED
    BY <2>1, <2>3, <2>4, <2>5
<1>10. CASE ~far /\ w < e
  <2>1. ranges = {<<w, e>>}
    BY <1>10, <1>17
  <2>2. RangeSteps(Real(ranges)) = Steps(w, e)
    <3>1. -Half \in Int
      BY <1>1
    <3> QED
      BY <1>1, <1>15, <2>1, <3>1, OneRange
  <2>3. CASE ~swapped
    <3>1. w + (e - w) = e
      BY <1>1
    <3> QED
      BY <1>2, <1>9, <1>10, <1>15, <1>18, <2>1, <2>2, <2>3, <3>1
  <2> QED
    BY <1>1, <1>6, <1>10, <2>3
<1>11. CASE ~far /\ w > e /\ inside /\ w - e <= Half
  <2>1. ranges = {<<e, w>>}
    BY <1>11, <1>17
  <2>2. RangeSteps(Real(ranges)) = Steps(e, w)
    <3>1. -Half \in Int
      BY <1>1
    <3> QED
      BY <1>1, <1>15, <2>1, <3>1, OneRange
  <2>3. swapped /\ w = west /\ e = east
    BY <1>1, <1>6, <1>11
  <2> QED
    BY <1>2, <1>11, <1>18, <2>1, <2>2, <2>3
<1>12. CASE ~far /\ w > e /\ ~(inside /\ w - e <= Half)
  <2>1. ranges = {<<w, Half>>, <<-Half, e>>}
    BY <1>12, <1>17
  <2>2. RangeSteps(Real(ranges)) = Steps(w, Half) \cup Steps(-Half, e)
    <3>1. -Half \in Int
      BY <1>1
    <3> QED
      BY <1>1, <1>15, <2>1, <3>1, TwoRanges
  <2>3. ~swapped
    BY <1>1, <1>6, <1>12
  <2>4. Steps(west, west + span) = Steps(w, e + Turn)
    <3>1. w + (e + Turn - w) = e + Turn
      BY <1>1
    <3> QED
      BY <1>1, <1>9, <1>12, <3>1
  <2>5. Steps(w, e + Turn) = Steps(w, Half) \cup Steps(Half, e + Turn)
    BY <1>1, StepsJoin
  <2>6. Steps(Half, e + Turn) = Steps(-Half, e)
    <3>1. Res(-Half + Turn) = Res(-Half) /\ -Half + Turn = Half /\ -Half \in Int
      BY <1>1, TurnRes
    <3>2. (e + Turn) - Half = e - (-Half) /\ e + Turn \in Int
      BY <1>1, <1>15
    <3> QED
      BY <1>1, <1>15, <3>1, <3>2, StepsMoveBoth
  <2> QED
    BY <1>2, <1>12, <1>18, <2>1, <2>2, <2>3, <2>4, <2>5, <2>6
<1>13. w < e \/ w = e \/ w > e
  BY <1>1
<1> QED
  BY <1>7, <1>8, <1>10, <1>11, <1>12, <1>13

\* The extent of a document: some way along the world.
IsExtent(extent) ==
  extent[1] \in -Half .. Half /\ extent[2] \in -Half .. Half /\ extent[1] < extent[2]

\* A step of the world is in an arc of it where it is on the way.
LEMMA StepIn ==
  ASSUME NEW r, IsExtent(r), NEW x \in -Half .. Half - 1, Res(x) \in Steps(r[1], r[2])
  PROVE  r[1] <= x /\ x < r[2]
<1>1. r[1] \in Int /\ r[2] \in Int /\ x \in Int /\ Half \in Int /\ Turn = Half + Half
      /\ -Half <= r[1] /\ r[2] <= Half /\ -Half <= x /\ x < Half
  BY TurnNumber DEF IsExtent
<1>2. PICK y \in Int : r[1] <= y /\ y < r[2] /\ Res(x) = Res(y)
  BY <1>1, StepsAre
<1>3. y - x < Turn /\ x - y < Turn
  BY <1>1, <1>2
<1>4. y = x
  BY <1>1, <1>2, <1>3, SameRes
<1> QED
  BY <1>2, <1>4

LEMMA ExtentRes ==
  ASSUME NEW r, IsExtent(r), NEW x \in Int, r[1] <= x, x < r[2]
  PROVE  Res(x) \in Steps(r[1], r[2]) /\ x \in -Half .. Half - 1
<1>1. r[1] \in Int /\ r[2] \in Int /\ Half \in Int /\ -Half <= r[1] /\ r[2] <= Half
  BY TurnNumber DEF IsExtent
<1>2. Res(x) \in Steps(r[1], r[2])
  BY <1>1, StepsAre
<1> QED
  BY <1>1, <1>2

\* What lies in the box is touched by its ranges, and lies in the range if it is the only one.
LEMMA InTheBox ==
  ASSUME NEW ranges, \A r \in ranges : IsExtent(r), NEW d, IsExtent(d),
         Steps(d[1], d[2]) \subseteq RangeSteps(ranges)
  PROVE  /\ \E r \in ranges : r[1] <= d[2] /\ d[1] <= r[2]
         /\ \A r : ranges = {r} => r[1] <= d[1] /\ d[2] <= r[2]
<1>1. /\ d[1] \in Int /\ d[2] \in Int /\ d[1] < d[2] /\ d[2] - 1 \in Int
      /\ \A r \in ranges : r[1] \in Int /\ r[2] \in Int
  BY TurnNumber DEF IsExtent
<1>2. ASSUME NEW x \in Int, d[1] <= x, x < d[2] PROVE \E r \in ranges : r[1] <= x /\ x < r[2]
  <2>1. Res(x) \in Steps(d[1], d[2]) /\ x \in -Half .. Half - 1
    BY <1>2, ExtentRes
  <2>2. PICK r \in ranges : Res(x) \in Steps(r[1], r[2])
    BY <2>1 DEF RangeSteps
  <2> QED
    BY <2>1, <2>2, StepIn
<1>3. PICK r \in ranges : r[1] <= d[1] /\ d[1] < r[2]
  BY <1>1, <1>2
<1>4. r[1] <= d[2] /\ d[1] <= r[2]
  BY <1>1, <1>3
<1>5. ASSUME NEW s, ranges = {s} PROVE s[1] <= d[1] /\ d[2] <= s[2]
  <2>1. \E t \in ranges : t[1] <= d[2] - 1 /\ d[2] - 1 < t[2]
    <3>1. d[1] <= d[2] - 1 /\ d[2] - 1 < d[2]
      BY <1>1
    <3> QED
      BY <1>1, <1>2, <3>1
  <2>2. s[1] <= d[1] /\ d[2] - 1 < s[2] /\ s[1] \in Int /\ s[2] \in Int
    BY <1>1, <1>3, <1>5, <2>1
  <2> QED
    BY <1>1, <2>2
<1> QED
  BY <1>3, <1>4, <1>5

\* The edges of an arc are its steps and its end.
LEMMA EdgesAre ==
  ASSUME NEW r, IsExtent(r), NEW x \in Int, r[1] <= x, x <= r[2]
  PROVE  Res(x) \in Edges(Steps(r[1], r[2]))
<1>1. r[1] \in Int /\ r[2] \in Int /\ r[1] < r[2]
  BY TurnNumber DEF IsExtent
<1>2. CASE x < r[2]
  BY <1>2, ExtentRes DEF Edges
<1>3. CASE x = r[2]
  <2>1. x - 1 \in Int /\ r[1] <= x - 1 /\ x - 1 < r[2]
    BY <1>1, <1>3
  <2>2. Res(x - 1) \in Steps(r[1], r[2])
    BY <2>1, ExtentRes
  <2>3. Res(Res(x - 1) + 1) = Res(x)
    <3>1. Res(x - 1) \in Int /\ Res(Res(x - 1)) = Res(x - 1)
      BY <2>1, ResTyped, TurnRes
    <3>2. (Res(x - 1) + 1) - Res(x - 1) = x - (x - 1) /\ Res(x - 1) + 1 \in Int
      BY <2>1, <3>1
    <3> QED
      BY <2>1, <3>1, <3>2, AlikeRes
  <2> QED
    BY <2>2, <2>3 DEF Edges, Res
<1> QED
  BY <1>1, <1>2, <1>3

\* What its ranges touch the box touches.
LEMMA TouchesTheBox ==
  ASSUME NEW ranges, NEW r \in ranges, IsExtent(r), NEW d, IsExtent(d), r[1] <= d[2], d[1] <= r[2]
  PROVE  Edges(Steps(d[1], d[2])) \cap Edges(RangeSteps(ranges)) # {}
<1>1. /\ d[1] \in Int /\ d[2] \in Int /\ d[1] < d[2] /\ r[1] \in Int /\ r[2] \in Int /\ r[1] < r[2]
  BY TurnNumber DEF IsExtent
<1>2. PICK x \in Int : d[1] <= x /\ x <= d[2] /\ r[1] <= x /\ x <= r[2]
  <2>1. CASE d[1] <= r[1]
    BY <1>1, <2>1
  <2>2. CASE r[1] <= d[1]
    BY <1>1, <2>2
  <2> QED
    BY <1>1, <2>1, <2>2
<1>3. Res(x) \in Edges(Steps(d[1], d[2])) /\ Res(x) \in Edges(Steps(r[1], r[2]))
  BY <1>2, EdgesAre
<1>4. Edges(Steps(r[1], r[2])) \subseteq Edges(RangeSteps(ranges))
  <2>1. Steps(r[1], r[2]) \subseteq RangeSteps(ranges)
    BY DEF RangeSteps
  <2> QED
    BY <2>1 DEF Edges
<1> QED
  BY <1>3, <1>4

LEMMA NoRanges ==
  ASSUME NEW ranges, \A r \in ranges : IsExtent(r)
  PROVE  RangeSteps(ranges) = {} <=> ranges = {}
<1>1. ASSUME NEW r \in ranges PROVE Res(r[1]) \in RangeSteps(ranges)
  <2>1. r[1] \in Int /\ r[1] < r[2] /\ r[1] <= r[1]
    BY TurnNumber DEF IsExtent
  <2>2. Res(r[1]) \in Steps(r[1], r[2])
    BY <2>1, ExtentRes
  <2> QED
    BY <2>2 DEF RangeSteps
<1>2. ranges = {} => RangeSteps(ranges) = {}
  BY DEF RangeSteps
<1> QED
  BY <1>1, <1>2

LEMMA OneLess ==
  ASSUME NEW a \in Int, NEW b \in Int, a <= b
  PROVE  Min({a, b}) = a /\ Max({a, b}) = b /\ Min({b, a}) = a /\ Max({b, a}) = b
<1>1. ASSUME NEW S, S = {a, b} PROVE Min(S) = a /\ Max(S) = b
  <2>1. \E x \in S : \A y \in S : x <= y
    BY <1>1
  <2>2. \E x \in S : \A y \in S : x >= y
    BY <1>1
  <2>3. Min(S) \in S /\ \A y \in S : Min(S) <= y
    BY <2>1 DEF Min
  <2>4. Max(S) \in S /\ \A y \in S : Max(S) >= y
    BY <2>2 DEF Max
  <2> QED
    BY <1>1, <2>3, <2>4
<1>2. {a, b} = {b, a}
  OBVIOUS
<1> QED
  BY <1>1, <1>2

LEMMA AllOfIt ==
  ASSUME NEW r, IsExtent(r), NEW d, IsExtent(d), r[1] <= d[1], d[2] <= r[2], NEW least \in 0 .. 100
  PROVE  LET common == Min({r[2], d[2]}) - Max({r[1], d[1]})
         IN  common > 0 /\ 100 * common >= least * (d[2] - d[1])
<1>1. d[1] \in Int /\ d[2] \in Int /\ d[1] < d[2] /\ r[1] \in Int /\ r[2] \in Int
  BY TurnNumber DEF IsExtent
<1>2. Min({r[2], d[2]}) = d[2] /\ Max({r[1], d[1]}) = d[1]
  BY <1>1, OneLess
<1>3. PICK n \in Nat : n = d[2] - d[1] /\ n > 0
  BY <1>1
<1>4. 100 * n >= least * n
  <2>1. (100 - least) * n >= 0 /\ (100 - least) * n = 100 * n - least * n
    BY <1>3
  <2>2. least * n \in Int
    BY <1>3
  <2> QED
    BY <1>3, <2>1, <2>2
<1> QED
  BY <1>2, <1>3, <1>4

-----------------------------------------------------------------------------
(* What the clauses of a query mean.                                        *)

LEMMA Means ==
  ASSUME NEW d
  PROVE  /\ \A vs : Matches(Terms(vs), d) <=> vs \cap d.subjects # {}
         /\ \A a, b : Matches(YearIn(a, b), d) <=>
              d.year # None /\ (a # None => a <= d.year) /\ (b # None => d.year <= b)
         /\ Matches(IsGlobal, d) <=> d.global
         /\ \A word, field : Matches(Says(word, field), d) <=> word \in d.words[field]
         /\ \A ranges : Matches(Touches(ranges), d) <=>
              d.box # None /\ \E r \in ranges : r[1] <= d.box[2] /\ d.box[1] <= r[2]
         /\ \A r, least : Matches(Covers(r, least), d) <=>
              d.box # None /\ LET common == Min({r[2], d.box[2]}) - Max({r[1], d.box[1]})
                              IN common > 0 /\ 100 * common >= least * (d.box[2] - d.box[1])
<1>1. \A vs : Matches(Terms(vs), d) <=> vs \cap d.subjects # {}
  BY DEF Matches, Terms
<1>2. \A a, b : Matches(YearIn(a, b), d) <=>
              d.year # None /\ (a # None => a <= d.year) /\ (b # None => d.year <= b)
  BY DEF Matches, YearIn
<1>3. Matches(IsGlobal, d) <=> d.global
  BY DEF Matches, IsGlobal
<1>4. \A word, field : Matches(Says(word, field), d) <=> word \in d.words[field]
  BY DEF Matches, Says
<1>5. \A ranges : Matches(Touches(ranges), d) <=>
              d.box # None /\ \E r \in ranges : r[1] <= d.box[2] /\ d.box[1] <= r[2]
  BY DEF Matches, Touches
<1>6. \A r, least : Matches(Covers(r, least), d) <=>
              d.box # None /\ LET common == Min({r[2], d.box[2]}) - Max({r[1], d.box[1]})
                              IN common > 0 /\ 100 * common >= least * (d.box[2] - d.box[1])
  BY DEF Matches, Covers
<1> QED
  BY <1>1, <1>2, <1>3, <1>4, <1>5, <1>6

AllMatch(clauses, d) == \A c \in clauses : Matches(c, d)
NoneMatches(clauses, d) == \A c \in clauses : ~Matches(c, d)

LEMMA ValuesMean ==
  ASSUME NEW d, NEW s, s \in Seq(ToSet(s)), NEW op
  PROVE  AllMatch(ExactClauses(s, op), d) <=>
           (s = <<>> \/ IF op = "and" THEN ToSet(s) \subseteq d.subjects ELSE ToSet(s) \cap d.subjects # {})
<1>1. CASE s = <<>>
  BY <1>1 DEF AllMatch, ExactClauses
<1>2. CASE s # <<>> /\ op = "and"
  <2>1. ExactClauses(s, op) = {Terms({v}) : v \in ToSet(s)}
    BY <1>2 DEF ExactClauses
  <2>2. AllMatch(ExactClauses(s, op), d) <=> \A v \in ToSet(s) : Matches(Terms({v}), d)
    BY <2>1 DEF AllMatch
  <2>3. \A v : Matches(Terms({v}), d) <=> v \in d.subjects
    <3>1. \A v : Matches(Terms({v}), d) <=> {v} \cap d.subjects # {}
      BY Means
    <3> QED
      BY <3>1
  <2> QED
    BY <1>2, <2>2, <2>3
<1>3. CASE s # <<>> /\ op # "and"
  <2>1. ExactClauses(s, op) = {Terms(ToSet(s))}
    BY <1>3 DEF ExactClauses
  <2> QED
    BY <1>3, <2>1, Means DEF AllMatch
<1> QED
  BY <1>1, <1>2, <1>3

LEMMA YearsMean ==
  ASSUME NEW d, NEW years, years = <<years[1], years[2]>>
  PROVE  AllMatch(YearRange(years), d) <=>
           /\ years # <<None, None>> => d.year # None
           /\ years[1] # None => years[1] <= d.year
           /\ years[2] # None => d.year <= years[2]
<1>1. CASE years = <<None, None>>
  BY <1>1 DEF AllMatch, YearRange
<1>2. CASE years # <<None, None>>
  <2>1. YearRange(years) = {YearIn(years[1], years[2])}
    BY <1>2 DEF YearRange
  <2>2. AllMatch(YearRange(years), d) <=> Matches(YearIn(years[1], years[2]), d)
    BY <2>1 DEF AllMatch
  <2> QED
    BY <1>2, <2>2, Means
<1> QED
  BY <1>1, <1>2

\* Clauses of the advanced query, by what they ask.
LEMMA AdvancedMeans ==
  ASSUME NEW d, NEW p, p.adv \in Seq(ToSet(p.adv)), \A c \in ToSet(p.adv) : c.op \in {"AND", "OR", "NOT"}
  PROVE  LET adv == Advanced(p.adv) IN
         /\ AllMatch(adv.must, d) /\ (adv.should = {} \/ \E c \in adv.should : Matches(c, d)) <=> Said(p, d)
         /\ NoneMatches(adv.mustNot, d) <=>
              \A c \in ToSet(p.adv) : c.op = "NOT" => c.word \notin d.words[c.field]
<1> DEFINE cs == {c \in ToSet(p.adv) : c.op # "NOT"}
           ors == {c \in cs : c.op = "OR"}
           loose == (\E c \in cs : c.op = "OR") /\ \A a, b \in cs : a.field = b.field
           says(c) == c.word \in d.words[c.field]
           clauses(some) == {Says(c.word, c.field) : c \in some}
           ands == IF ors # {} /\ Cardinality({c.field : c \in cs}) = 1 THEN {} ELSE cs \ ors
           musts == {c \in cs : ~loose /\ c.op = "AND"}
           shoulds == {c \in cs : loose \/ c.op = "OR"}
           nots == ToSet(p.adv) \ cs
<1>0. PICK n \in Nat : DOMAIN p.adv = 1 .. n
  <2>1. PICK s : s = p.adv /\ s \in Seq(ToSet(s))
    OBVIOUS
  <2>2. Len(s) \in Nat /\ DOMAIN s = 1 .. Len(s)
    BY <2>1
  <2> QED
    BY <2>1, <2>2
<1>1. Advanced(p.adv) = [must |-> clauses(musts), should |-> clauses(shoulds), mustNot |-> clauses(nots)]
  BY DEF Advanced
<1>2. Said(p, d) <=> (\A c \in ands : says(c)) /\ (ors = {} \/ \E c \in cs \ ands : says(c))
  BY DEF Said
<1>3. ASSUME ors # {} PROVE Cardinality({c.field : c \in cs}) = 1 <=> loose
  <2>1. PICK o \in ors : TRUE
    BY <1>3
  <2>2. PICK fields : fields = {c.field : c \in cs}
    OBVIOUS
  <2>3. ASSUME loose PROVE Cardinality(fields) = 1
    <3>1. fields = {o.field}
      BY <2>1, <2>2, <2>3
    <3> QED
      BY <3>1, FS_Singleton
  <2>4. ASSUME Cardinality(fields) = 1 PROVE \A a, b \in cs : a.field = b.field
    <3> DEFINE places == {i \in DOMAIN p.adv : p.adv[i].op # "NOT"}
               at == [i \in places |-> p.adv[i].field]
    <3>1. at \in Surjection(places, fields)
      BY <2>2 DEF Surjection, ToSet
    <3>2. IsFiniteSet(places)
      <4>1. IsFiniteSet(1 .. n)
        BY FS_Interval
      <4>2. places \in SUBSET (1 .. n)
        BY <1>0
      <4> QED
        BY <4>1, <4>2, FS_Subset
    <3>3. IsFiniteSet(fields)
      BY <3>1, <3>2, FS_Surjection
    <3>4. PICK x : fields = {x}
      BY <2>4, <3>3, FS_Singleton
    <3>5. \A c \in cs : c.field \in fields
      BY <2>2
    <3> QED
      BY <3>4, <3>5
  <2> QED
    BY <2>1, <2>2, <2>3, <2>4
<1>4. ands = musts /\ cs \ ands = shoulds /\ (ors = {} <=> shoulds = {})
  BY <1>3
<1> HIDE DEF musts, shoulds, ands, cs, ors, loose, nots
<1>5. \A some : AllMatch(clauses(some), d) <=> \A c \in some : says(c)
  BY Means DEF AllMatch
<1>6. \A some : NoneMatches(clauses(some), d) <=> \A c \in some : ~says(c)
  BY Means DEF NoneMatches
<1>7. \A some : (\E c \in clauses(some) : Matches(c, d)) <=> \E c \in some : says(c)
  BY Means
<1>8. clauses(shoulds) = {} <=> shoulds = {}
  OBVIOUS
<1>9. NoneMatches(clauses(nots), d) <=>
        \A c \in ToSet(p.adv) : c.op = "NOT" => c.word \notin d.words[c.field]
  <2>1. \A c : c \in nots <=> c \in ToSet(p.adv) /\ c.op = "NOT"
    BY DEF nots, cs
  <2>2. NoneMatches(clauses(nots), d) <=> \A c \in nots : ~says(c)
    BY <1>6
  <2> QED
    BY <2>1, <2>2
<1> QED
  BY <1>1, <1>2, <1>4, <1>5, <1>7, <1>8, <1>9

LEMMA FewAreFinite ==
  ASSUME NEW a, NEW b, NEW c, NEW d, NEW e
  PROVE  IsFiniteSet({a, b, c, d, e})
<1>1. IsFiniteSet({a})
  BY FS_Singleton
<1>2. IsFiniteSet({a} \cup {b})
  BY <1>1, FS_AddElement
<1>3. IsFiniteSet(({a} \cup {b}) \cup {c})
  BY <1>2, FS_AddElement
<1>4. IsFiniteSet((({a} \cup {b}) \cup {c}) \cup {d})
  BY <1>3, FS_AddElement
<1>5. IsFiniteSet(((({a} \cup {b}) \cup {c}) \cup {d}) \cup {e})
  BY <1>4, FS_AddElement
<1>6. {a, b, c, d, e} = ((({a} \cup {b}) \cup {c}) \cup {d}) \cup {e}
  OBVIOUS
<1> QED
  BY <1>5, <1>6

\* A document that must match the geographic filters lies near the box, and one in it does.
LEMMA BoxMeans ==
  ASSUME NEW d, d.box # None => IsExtent(d.box), NEW p,
         p.box # None => p.box.west \in Int /\ p.box.east \in Int /\ p.box.least \in 0 .. 100
  PROVE  /\ Within(p, d) => AllMatch(GeoFilter(p.box), d)
         /\ Within(p, d) /\ Scored(p) => AllMatch(OverlapFilter(p), d)
         /\ AllMatch(GeoFilter(p.box), d) => Touching(p, d)
<1>1. CASE p.box = None
  BY <1>1 DEF AllMatch, GeoFilter, Touching, Scored
<1>2. CASE p.box # None
  <2> DEFINE ranges == LonRanges(p.box.west, p.box.east)
  <2>1. BoxSteps(p.box) = RangeSteps(ranges) /\ \A r \in ranges : IsExtent(r)
    BY <1>2, BoxIs DEF IsExtent
  <2> HIDE DEF ranges
  <2>2. ranges # {} => GeoFilter(p.box) = {Touches(ranges)}
    BY <1>2 DEF GeoFilter, ranges
  <2>3. ranges = {} => GeoFilter(p.box) = {} /\ BoxSteps(p.box) = {}
    <3>1. ranges = {} => GeoFilter(p.box) = {}
      BY DEF GeoFilter, ranges
    <3> QED
      BY <2>1, <3>1, NoRanges
  <2>4. ASSUME Within(p, d)
        PROVE  /\ d.box # None
               /\ \E r \in ranges : r[1] <= d.box[2] /\ d.box[1] <= r[2]
               /\ \A r : ranges = {r} => r[1] <= d.box[1] /\ d.box[2] <= r[2]
    <3>1. d.box # None /\ Steps(d.box[1], d.box[2]) \subseteq RangeSteps(ranges)
      BY <1>2, <2>1, <2>4 DEF Within
    <3> QED
      BY <2>1, <3>1, InTheBox
  <2>5. Within(p, d) => AllMatch(GeoFilter(p.box), d)
    BY <2>2, <2>3, <2>4, Means DEF AllMatch
  <2>6. ASSUME Within(p, d), Scored(p) PROVE AllMatch(OverlapFilter(p), d)
    <3>1. Cardinality(ranges) = 1
      BY <2>6 DEF Scored, ranges
    <3>2. IsFiniteSet(ranges)
      <4> DEFINE w == NormalizeLongitude(p.box.west)
                 e == NormalizeLongitude(p.box.east)
      <4>1. ranges \subseteq {World, <<w, e>>, <<e, w>>, <<w, Half>>, <<-Half, e>>}
        BY DEF ranges, LonRanges
      <4> HIDE DEF w, e
      <4> QED
        BY <4>1, FewAreFinite, FS_Subset
    <3>3. PICK r : ranges = {r}
      BY <3>1, <3>2, FS_Singleton
    <3>4. r[1] <= d.box[1] /\ d.box[2] <= r[2] /\ d.box # None /\ IsExtent(r) /\ IsExtent(d.box)
      BY <2>1, <2>4, <2>6, <3>3
    <3>5. Matches(Covers(r, p.box.least), d)
      BY <1>2, <3>4, AllOfIt, Means
    <3>6. OverlapFilter(p) = {Covers(r, p.box.least)}
      BY <3>3 DEF OverlapFilter, ranges
    <3> QED
      BY <3>5, <3>6 DEF AllMatch
  <2>7. ASSUME AllMatch(GeoFilter(p.box), d) PROVE Touching(p, d)
    <3>1. CASE ranges = {}
      BY <2>3, <3>1 DEF Touching
    <3>2. CASE ranges # {}
      <4>1. Matches(Touches(ranges), d)
        BY <2>2, <2>7, <3>2 DEF AllMatch
      <4>2. PICK r \in ranges : d.box # None /\ r[1] <= d.box[2] /\ d.box[1] <= r[2]
        BY <4>1, Means
      <4>3. Edges(Steps(d.box[1], d.box[2])) \cap Edges(RangeSteps(ranges)) # {}
        BY <2>1, <4>2, TouchesTheBox
      <4> QED
        BY <2>1, <4>2, <4>3 DEF Touching
    <3> QED
      BY <3>1, <3>2
  <2> QED
    BY <2>5, <2>6, <2>7
<1> QED
  BY <1>1, <1>2

-----------------------------------------------------------------------------
(* What is found.                                                           *)

\* A facet is not asked for with a query of blanks, which it would look for.
NoBlankFacet == \A p \in Questions \ Searches : p.q # Blank

\* Extents have a width: one without lies in a box by no part of it.
Wide ==
  \A v \in Versions : Contents[v] # Missing =>
    \A i \in Ids : Contents[v][i] # None /\ Contents[v][i].box # None =>
      Contents[v][i].box[1] < Contents[v][i].box[2]

QueryOf(p) == IF p.kind = "search" THEN SearchQueryOf(p) ELSE FacetQueryOf(p)

LEMMA TextMeans ==
  ASSUME NoBlankFacet, NEW p \in Questions, NEW d
  PROVE  LET text == IF p.kind = "search" THEN IF p.q \in {None, Blank} THEN {} ELSE {Says(p.q, p.field)}
                     ELSE IF p.q = None THEN {} ELSE {Says(p.q, "all_fields")}
         IN AllMatch(text, d) <=> (p.q \notin {None, Blank} => p.q \in d.words[p.field])
<1>1. CASE p.kind = "search"
  BY <1>1, Means DEF AllMatch
<1>2. CASE p.kind # "search"
  <2>1. p \in Questions \ Searches
    BY <1>2 DEF Searches
  <2>2. p.q # Blank /\ p.field = "all_fields"
    BY <2>1, QuestionsAssumption DEF NoBlankFacet
  <2> QED
    BY <1>2, <2>2, Means DEF AllMatch
<1> QED
  BY <1>1, <1>2

\* A document is found if it matches all filters but those of the box, and these.
Fits(p, d) ==
  LET query == QueryOf(p) IN
  /\ AllMatch(query.filter \cup query.must, d)
  /\ query.should = {} \/ \E c \in query.should : Matches(c, d)
  /\ NoneMatches(query.mustNot, d)

LEMMA FoundMeans ==
  ASSUME NoBlankFacet, NEW p \in Questions, NEW d
  PROVE  Fits(p, d) <=>
           /\ Wanted(p, d) /\ Said(p, d)
           /\ AllMatch(GeoFilter(p.box), d)
           /\ p.kind = "search" /\ Scored(p) => AllMatch(OverlapFilter(p), d)
<1> DEFINE adv == Advanced(p.adv)
           text == IF p.kind = "search" THEN IF p.q \in {None, Blank} THEN {} ELSE {Says(p.q, p.field)}
                   ELSE IF p.q = None THEN {} ELSE {Says(p.q, "all_fields")}
           least == IF p.kind = "search" /\ Scored(p) THEN OverlapFilter(p) ELSE {}
           marks == IF p.global # <<>> /\ p.global[1] THEN {IsGlobal} ELSE {}
<1>1. QueryOf(p) = [filter |-> Filters(p) \cup least, must |-> text \cup adv.must, should |-> adv.should,
                    mustNot |-> Excluded(p) \cup adv.mustNot]
  BY DEF QueryOf, SearchQueryOf, FacetQueryOf, Bool
<1>2. Filters(p) = ExactClauses(p.fq, p.op) \cup ExactClauses(p.include, p.op)
                     \cup YearRange(p.years) \cup GeoFilter(p.box) \cup marks
  BY DEF Filters
<1>3. AllMatch(text, d) <=> (p.q \notin {None, Blank} => p.q \in d.words[p.field])
  BY TextMeans
<1>4. AllMatch(marks, d) <=> ((p.global # <<>> /\ p.global[1]) => d.global)
  BY Means DEF AllMatch
<1>5. /\ p.fq \in Seq(ToSet(p.fq)) /\ p.include \in Seq(ToSet(p.include)) /\ p.exclude \in Seq(ToSet(p.exclude))
      /\ p.adv \in Seq(ToSet(p.adv)) /\ p.years = <<p.years[1], p.years[2]>>
      /\ \A c \in ToSet(p.adv) : c.op \in {"AND", "OR", "NOT"}
  BY QuestionsAssumption
<1>6. NoneMatches(Excluded(p), d) <=> \A v \in ToSet(p.exclude) : v \notin d.subjects
  <2>1. p.exclude = <<>> => ToSet(p.exclude) = {}
    BY DEF ToSet
  <2>2. Excluded(p) = IF p.exclude = <<>> THEN {} ELSE {Terms(ToSet(p.exclude))}
    BY DEF Excluded
  <2>3. Matches(Terms(ToSet(p.exclude)), d) <=> ToSet(p.exclude) \cap d.subjects # {}
    BY Means
  <2> QED
    BY <2>1, <2>2, <2>3 DEF NoneMatches
<1>8. AllMatch(least, d) <=> (p.kind = "search" /\ Scored(p) => AllMatch(OverlapFilter(p), d))
  BY DEF AllMatch
<1>9. /\ AllMatch(adv.must, d) /\ (adv.should = {} \/ \E c \in adv.should : Matches(c, d)) <=> Said(p, d)
      /\ NoneMatches(adv.mustNot, d) <=>
           \A c \in ToSet(p.adv) : c.op = "NOT" => c.word \notin d.words[c.field]
  BY <1>5, AdvancedMeans
<1>10. Wanted(p, d) <=>
         /\ AllMatch(ExactClauses(p.fq, p.op), d) /\ AllMatch(ExactClauses(p.include, p.op), d)
         /\ NoneMatches(Excluded(p), d) /\ AllMatch(YearRange(p.years), d) /\ AllMatch(marks, d)
         /\ AllMatch(text, d) /\ NoneMatches(adv.mustNot, d)
  <2>1. /\ AllMatch(ExactClauses(p.fq, p.op), d) <=>
             (p.fq = <<>> \/ IF p.op = "and" THEN ToSet(p.fq) \subseteq d.subjects
                             ELSE ToSet(p.fq) \cap d.subjects # {})
        /\ AllMatch(ExactClauses(p.include, p.op), d) <=>
             (p.include = <<>> \/ IF p.op = "and" THEN ToSet(p.include) \subseteq d.subjects
                                  ELSE ToSet(p.include) \cap d.subjects # {})
    BY <1>5, ValuesMean
  <2>2. AllMatch(YearRange(p.years), d) <=>
           /\ p.years # <<None, None>> => d.year # None
           /\ p.years[1] # None => p.years[1] <= d.year
           /\ p.years[2] # None => d.year <= p.years[2]
    BY <1>5, YearsMean
  <2> HIDE DEF text, marks, adv
  <2> QED
    BY <1>3, <1>4, <1>6, <1>9, <2>1, <2>2 DEF Wanted
<1>11. AllMatch(QueryOf(p).filter \cup QueryOf(p).must, d) <=>
         /\ AllMatch(ExactClauses(p.fq, p.op), d) /\ AllMatch(ExactClauses(p.include, p.op), d)
         /\ AllMatch(YearRange(p.years), d) /\ AllMatch(GeoFilter(p.box), d) /\ AllMatch(marks, d)
         /\ AllMatch(least, d) /\ AllMatch(text, d) /\ AllMatch(adv.must, d)
  <2> HIDE DEF text, marks, adv, least
  <2>1. QueryOf(p).filter = Filters(p) \cup least /\ QueryOf(p).must = text \cup adv.must
    BY <1>1
  <2>2. AllMatch(QueryOf(p).filter \cup QueryOf(p).must, d) <=>
          AllMatch(Filters(p), d) /\ AllMatch(least, d) /\ AllMatch(text, d) /\ AllMatch(adv.must, d)
    BY <2>1 DEF AllMatch
  <2>3. AllMatch(Filters(p), d) <=>
          /\ AllMatch(ExactClauses(p.fq, p.op), d) /\ AllMatch(ExactClauses(p.include, p.op), d)
          /\ AllMatch(YearRange(p.years), d) /\ AllMatch(GeoFilter(p.box), d) /\ AllMatch(marks, d)
    BY <1>2 DEF AllMatch
  <2> QED
    BY <2>2, <2>3
<1> HIDE DEF text, marks, adv, least
<1>12. /\ QueryOf(p).should = adv.should
       /\ NoneMatches(QueryOf(p).mustNot, d) <=> NoneMatches(Excluded(p), d) /\ NoneMatches(adv.mustNot, d)
  <2>1. QueryOf(p).should = adv.should /\ QueryOf(p).mustNot = Excluded(p) \cup adv.mustNot
    BY <1>1
  <2> QED
    BY <2>1 DEF NoneMatches
<1> QED
  BY <1>8, <1>9, <1>10, <1>11, <1>12 DEF Fits

\* A document in the index, and whether it is found by what is asked of it.
LEMMA FoundHere ==
  ASSUME NEW p \in Questions, NEW v \in Versions, Contents[v] # Missing
  PROVE  /\ FoundBy[p][v] = {i \in Ids : Contents[v][i] # None /\ Fits(p, Contents[v][i])}
         /\ Hits(p, v) = FoundBy[p][v]
<1>1. FoundBy[p][v] = Found(QueryOf(p), Contents[v])
  BY DEF FoundBy, QueryOf
<1>2. Found(QueryOf(p), Contents[v]) = {i \in Ids : Contents[v][i] # None /\ Fits(p, Contents[v][i])}
  BY DEF Found, Fits, AllMatch, NoneMatches
<1> QED
  BY <1>1, <1>2 DEF Hits

\* Elasticsearch finds all that must be found and none that may not be.
LEMMA FoundIsRight ==
  ASSUME NoBlankFacet, Wide, NEW p \in Questions, NEW v \in Versions
  PROVE  MustFind[p][v] \subseteq Hits(p, v) /\ Hits(p, v) \subseteq MayFind[p][v]
<1>1. /\ MustFind[p][v] = IF Contents[v] = Missing THEN {}
           ELSE {i \in Ids : Contents[v][i] # None /\ Wanted(p, Contents[v][i]) /\ Said(p, Contents[v][i])
                               /\ Within(p, Contents[v][i])}
      /\ MayFind[p][v] = IF Contents[v] = Missing THEN {}
           ELSE {i \in Ids : Contents[v][i] # None /\ Wanted(p, Contents[v][i]) /\ Said(p, Contents[v][i])
                               /\ Touching(p, Contents[v][i])}
  BY DEF MustFind, MayFind, Asked
<1>2. CASE Contents[v] = Missing
  BY <1>1, <1>2 DEF Hits
<1>3. CASE Contents[v] # Missing
  <2>1. Hits(p, v) = {i \in Ids : Contents[v][i] # None /\ Fits(p, Contents[v][i])}
    BY <1>3, FoundHere
  <2>2. ASSUME NEW i \in Ids, Contents[v][i] # None
        PROVE  /\ Fits(p, Contents[v][i]) => Wanted(p, Contents[v][i]) /\ Said(p, Contents[v][i])
                                                 /\ Touching(p, Contents[v][i])
               /\ Wanted(p, Contents[v][i]) /\ Said(p, Contents[v][i]) /\ Within(p, Contents[v][i])
                    => Fits(p, Contents[v][i])
    <3> DEFINE d == Contents[v][i]
    <3>1. d.box # None => IsExtent(d.box)
      <4>1. d.box # None => d.box[1] \in -Half .. Half /\ d.box[2] \in d.box[1] .. Half
        BY <1>3, <2>2, DocumentsAssumption
      <4>2. d.box # None => d.box[1] < d.box[2]
        BY <1>3, <2>2 DEF Wide
      <4>3. Half \in Nat
        BY TurnNumber
      <4> HIDE DEF d
      <4> QED
        BY <4>1, <4>2, <4>3 DEF IsExtent
    <3>2. p.box # None => p.box.west \in Int /\ p.box.east \in Int /\ p.box.least \in 0 .. 100
      BY QuestionsAssumption
    <3> HIDE DEF d
    <3>3. /\ Within(p, d) => AllMatch(GeoFilter(p.box), d)
          /\ Within(p, d) /\ Scored(p) => AllMatch(OverlapFilter(p), d)
          /\ AllMatch(GeoFilter(p.box), d) => Touching(p, d)
      BY <3>1, <3>2, BoxMeans
    <3>4. Fits(p, d) <=>
           /\ Wanted(p, d) /\ Said(p, d)
           /\ AllMatch(GeoFilter(p.box), d)
           /\ p.kind = "search" /\ Scored(p) => AllMatch(OverlapFilter(p), d)
      BY FoundMeans
    <3>5. /\ Fits(p, d) => Wanted(p, d) /\ Said(p, d) /\ Touching(p, d)
          /\ Wanted(p, d) /\ Said(p, d) /\ Within(p, d) => Fits(p, d)
      BY <3>3, <3>4
    <3> QED
      BY <3>5 DEF d
  <2> QED
    BY <1>1, <1>3, <2>1, <2>2
<1> QED
  BY <1>2, <1>3

-----------------------------------------------------------------------------
(* Members in order, page by page.                                          *)

\* Members of a set that are all apart by the order.
Orders(before, set) ==
  /\ \A u \in set : <<u, u>> \notin before
  /\ \A u, v \in set : u = v \/ <<u, v>> \in before \/ <<v, u>> \in before
  /\ \A u, v, w \in set : <<u, v>> \in before /\ <<v, w>> \in before => <<u, w>> \in before

Below(set, before, v) == {u \in set : <<u, v>> \in before}

LEMMA RankedIs ==
  ASSUME NEW set, IsFiniteSet(set), NEW before, Orders(before, set)
  PROVE  LET s == Ranked(set, before)
             n == Cardinality(set)
         IN /\ n \in Nat /\ s \in [1 .. n -> set]
            /\ \A i \in 1 .. n : Cardinality(Below(set, before, s[i])) = i - 1
            /\ \A i, j \in 1 .. n : s[i] = s[j] => i = j
            /\ \A v \in set : \E i \in 1 .. n : s[i] = v
<1> DEFINE n == Cardinality(set)
           rank == [v \in set |-> Cardinality(Below(set, before, v)) + 1]
           s == Ranked(set, before)
<1>1. n \in Nat
  BY FS_CardinalityType
<1>2. \A v \in set : IsFiniteSet(Below(set, before, v)) /\ Cardinality(Below(set, before, v)) \in Nat
  <2> TAKE v \in set
  <2>1. Below(set, before, v) \in SUBSET set
    BY DEF Below
  <2> QED
    BY <2>1, FS_Subset, FS_CardinalityType
<1>3. ASSUME NEW v \in set PROVE rank[v] \in 1 .. n
  <2>1. Below(set, before, v) \in SUBSET (set \ {v})
    BY DEF Below, Orders
  <2>2. IsFiniteSet(set \ {v}) /\ Cardinality(set \ {v}) = n - 1
    BY FS_RemoveElement
  <2>3. Cardinality(Below(set, before, v)) <= n - 1
    BY <2>1, <2>2, FS_Subset
  <2> QED
    BY <1>1, <1>2, <2>3
<1>4. ASSUME NEW u \in set, NEW v \in set, <<u, v>> \in before PROVE rank[u] < rank[v]
  <2>1. Below(set, before, u) \in SUBSET Below(set, before, v)
    BY <1>4 DEF Below, Orders
  <2>2. u \in Below(set, before, v) /\ u \notin Below(set, before, u)
    BY <1>4 DEF Below, Orders
  <2>3. Cardinality(Below(set, before, u)) <= Cardinality(Below(set, before, v))
        /\ Cardinality(Below(set, before, u)) # Cardinality(Below(set, before, v))
    BY <1>2, <2>1, <2>2, FS_Subset
  <2> QED
    BY <1>2, <2>3
<1>5. rank \in Injection(set, 1 .. n)
  <2>1. rank \in [set -> 1 .. n]
    BY <1>3
  <2>2. ASSUME NEW u \in set, NEW v \in set, rank[u] = rank[v] PROVE u = v
    <3>1. rank[u] \in Int /\ rank[v] \in Int
      BY <1>3
    <3>2. u = v \/ <<u, v>> \in before \/ <<v, u>> \in before
      BY DEF Orders
    <3>3. \A x, y \in set : <<x, y>> \in before => rank[x] < rank[y]
      BY <1>4
    <3> HIDE DEF rank
    <3> QED
      BY <2>2, <3>1, <3>2, <3>3
  <2> HIDE DEF rank
  <2> QED
    BY <2>1, <2>2 DEF Injection, IsInjective
<1>6. rank \in Surjection(set, 1 .. n)
  <2>1. IsFiniteSet(1 .. n) /\ Cardinality(1 .. n) = n
    BY <1>1, FS_Interval
  <2> HIDE DEF rank
  <2> QED
    BY <1>5, <2>1, FS_Injection
<1>7. \A i \in 1 .. n : \E v \in set : Cardinality(Below(set, before, v)) = i - 1
  <2> TAKE i \in 1 .. n
  <2>1. PICK v \in set : rank[v] = i
    <3> HIDE DEF rank
    <3> QED
      BY <1>6 DEF Surjection
  <2>2. Cardinality(Below(set, before, v)) = i - 1
    BY <1>2, <2>1
  <2> QED
    BY <2>2
<1>8. s = [i \in 1 .. n |-> CHOOSE v \in set : Cardinality(Below(set, before, v)) = i - 1]
  BY DEF Ranked, Below
<1>9. \A i \in 1 .. n : s[i] \in set /\ Cardinality(Below(set, before, s[i])) = i - 1
  <2> TAKE i \in 1 .. n
  <2>1. s[i] = CHOOSE v \in set : Cardinality(Below(set, before, v)) = i - 1
    BY <1>8
  <2> HIDE DEF s
  <2> QED
    BY <1>7, <2>1
<1>10. s \in [1 .. n -> set]
  BY <1>8, <1>9
<1> HIDE DEF s
<1>11. ASSUME NEW i \in 1 .. n, NEW j \in 1 .. n, s[i] = s[j] PROVE i = j
  <2>1. i - 1 = j - 1
    BY <1>9, <1>11
  <2> QED
    BY <1>1, <2>1
<1>12. ASSUME NEW v \in set PROVE \E i \in 1 .. n : s[i] = v
  <2>1. rank[v] \in 1 .. n
    BY <1>3
  <2>2. Cardinality(Below(set, before, s[rank[v]])) = rank[v] - 1 /\ s[rank[v]] \in set
    BY <1>9, <2>1
  <2>3. rank[s[rank[v]]] = rank[v]
    BY <1>2, <2>2
  <2>4. s[rank[v]] = v
    <3> HIDE DEF rank
    <3> QED
      BY <1>5, <2>2, <2>3 DEF Injection, IsInjective
  <2> QED
    BY <2>1, <2>4
<1> QED
  BY <1>1, <1>9, <1>10, <1>11, <1>12 DEF s

LEMMA PartIs ==
  ASSUME NEW S, NEW s \in Seq(S), NEW a \in Nat \ {0}, NEW b \in 0 .. Len(s)
  PROVE  /\ Len(SubSeq(s, a, b)) = IF a <= b THEN b - a + 1 ELSE 0
         /\ SubSeq(s, a, b) \in Seq(S)
         /\ \A i \in 1 .. Len(SubSeq(s, a, b)) : SubSeq(s, a, b)[i] = s[a + i - 1]
<1>1. CASE a <= b
  BY <1>1
<1>2. CASE b < a
  BY <1>2
<1> QED
  BY <1>1, <1>2

\* The least and the greatest of two, in other words.
LEMMA LeastIs ==
  ASSUME NEW a \in Int, NEW b \in Int
  PROVE  Min({a, b}) = (IF a <= b THEN a ELSE b) /\ Max({a, b}) = (IF a <= b THEN b ELSE a)
<1>1. CASE a <= b
  BY <1>1, OneLess
<1>2. CASE b <= a
  <2>1. Min({a, b}) = b /\ Max({a, b}) = a
    BY <1>2, OneLess
  <2> QED
    BY <1>2, <2>1
<1> QED
  BY <1>1, <1>2

LEMMA PageIs ==
  ASSUME NEW n \in Nat, NEW set, NEW s \in [1 .. n -> set], NEW p, p.page \in Nat \ {0}, p.size \in Nat
  PROVE  LET q == Page(s, p)
             skip == (p.page - 1) * p.size
         IN /\ q \in Seq(set) /\ skip \in Nat
            /\ Len(q) = Max({0, Min({p.size, n - skip})})
            /\ Len(q) = IF n <= skip THEN 0 ELSE IF n - skip <= p.size THEN n - skip ELSE p.size
            /\ \A i \in 1 .. Len(q) : skip + i \in 1 .. n /\ q[i] = s[skip + i]
<1> DEFINE skip == (p.page - 1) * p.size
           size == p.size
           len == IF n <= skip THEN 0 ELSE IF n - skip <= size THEN n - skip ELSE size
           last == Min({skip + size, n})
           q == SubSeq(s, skip + 1, last)
<1>1. skip \in Nat /\ Skip(p) = skip /\ size \in Nat
  <2>1. PICK a \in Nat : a = p.page - 1
    OBVIOUS
  <2>2. a * size \in Nat /\ size \in Nat
    OBVIOUS
  <2> QED
    BY <2>1, <2>2 DEF Skip
<1>2. Len(s) = n /\ s \in Seq(set)
  OBVIOUS
<1>3. Page(s, p) = q
  BY <1>1, <1>2 DEF Page
<1> HIDE DEF skip, size
<1>4. last = IF skip + size <= n THEN skip + size ELSE n
  BY <1>1, LeastIs
<1>5. len = Max({0, Min({size, n - skip})})
  <2>1. PICK m \in Int : m = n - skip
    BY <1>1
  <2>2. PICK l \in Int : l = Min({size, m}) /\ l = IF size <= m THEN size ELSE m
    BY <1>1, LeastIs
  <2>3. Max({0, l}) = IF 0 <= l THEN l ELSE 0
    <3>1. PICK z \in Int : z = 0
      OBVIOUS
    <3>2. Max({z, l}) = IF z <= l THEN l ELSE z
      BY LeastIs
    <3> QED
      BY <3>1, <3>2
  <2>4. len = IF 0 <= l THEN l ELSE 0
    <3>1. n <= skip <=> m <= 0
      BY <1>1, <2>1
    <3>2. len = IF m <= 0 THEN 0 ELSE IF m <= size THEN m ELSE size
      BY <2>1, <3>1
    <3>3. l = IF size <= m THEN size ELSE m
      BY <2>2
    <3> QED
      BY <1>1, <3>2, <3>3
  <2> QED
    BY <2>1, <2>2, <2>3, <2>4
<1> HIDE DEF last
<1>6. last \in 0 .. Len(s) /\ skip + 1 \in Nat \ {0}
  BY <1>1, <1>2, <1>4
<1>7. /\ Len(q) = IF skip + 1 <= last THEN last - (skip + 1) + 1 ELSE 0
      /\ q \in Seq(set)
      /\ \A i \in 1 .. Len(q) : q[i] = s[(skip + 1) + i - 1]
  BY <1>2, <1>6, PartIs
<1> HIDE DEF q
<1>8. Len(q) = len
  BY <1>1, <1>4, <1>7
<1>9. \A i \in 1 .. Len(q) : skip + i \in 1 .. n /\ q[i] = s[skip + i]
  <2> TAKE i \in 1 .. Len(q)
  <2>1. (skip + 1) + i - 1 = skip + i /\ skip + i \in 1 .. n
    BY <1>1, <1>8
  <2> QED
    BY <1>7, <2>1
<1> QED
  BY <1>1, <1>3, <1>5, <1>7, <1>8, <1>9 DEF skip, size

-----------------------------------------------------------------------------
(* Counts.                                                                  *)

\* The values of a facet are numbers, few in each document.
LEMMA FacetValuesAre ==
  ASSUME NEW v \in Versions, Contents[v] # Missing, NEW i \in Ids, Contents[v][i] # None, NEW f
  PROVE  /\ FacetValues(Contents[v][i], f) \subseteq Int
         /\ IsFiniteSet(FacetValues(Contents[v][i], f))
<1> DEFINE d == Contents[v][i]
<1>1. d.subjects \subseteq Int /\ IsFiniteSet(d.subjects) /\ d.year \in Int \cup {None}
  BY DocumentsAssumption
<1>2. IsFiniteSet({}) /\ IsFiniteSet({d.year})
  BY FS_EmptySet, FS_Singleton
<1> HIDE DEF d
<1>3. FacetValues(d, f) \subseteq Int /\ IsFiniteSet(FacetValues(d, f))
  BY <1>1, <1>2 DEF FacetValues
<1> QED
  BY <1>3 DEF d

ValuesIn(found, v, f) == UNION {FacetValues(Contents[v][i], f) : i \in found}
Having(found, v, f, x) == {i \in found : x \in FacetValues(Contents[v][i], f)}
InIndex(v) == {i \in Ids : Contents[v][i] # None}

\* What is counted, over any documents of the index.
LEMMA CountsAre ==
  ASSUME NEW v \in Versions, Contents[v] # Missing, NEW found, found \subseteq InIndex(v), NEW f
  PROVE  LET counts == Counts(found, Contents[v], f) IN
         /\ DOMAIN counts = ValuesIn(found, v, f)
         /\ DOMAIN counts \subseteq Int /\ IsFiniteSet(DOMAIN counts)
         /\ \A x \in DOMAIN counts :
              /\ counts[x] = Cardinality(Having(found, v, f, x))
              /\ counts[x] \in Nat
<1> DEFINE counts == Counts(found, Contents[v], f)
           all == {FacetValues(Contents[v][i], f) : i \in found}
<1>1. IsFiniteSet(found) /\ found \subseteq Ids
  BY QueryAssumption, FS_Subset DEF InIndex
<1>2. \A i \in found : FacetValues(Contents[v][i], f) \subseteq Int /\ IsFiniteSet(FacetValues(Contents[v][i], f))
  BY FacetValuesAre DEF InIndex
<1>3. counts = [x \in UNION all |-> Cardinality({i \in found : x \in FacetValues(Contents[v][i], f)})]
  BY DEF Counts
<1>4. IsFiniteSet(all)
  <2> DEFINE of == [i \in found |-> FacetValues(Contents[v][i], f)]
  <2>1. of \in Surjection(found, all)
    BY DEF Surjection
  <2> HIDE DEF of, all
  <2> QED
    BY <1>1, <2>1, FS_Surjection
<1>5. UNION all \subseteq Int /\ IsFiniteSet(UNION all)
  <2>1. \A T \in all : IsFiniteSet(T) /\ T \subseteq Int
    BY <1>2
  <2> HIDE DEF all
  <2> QED
    BY <1>4, <2>1, FS_UNION
<1>6. \A x : Cardinality({i \in found : x \in FacetValues(Contents[v][i], f)}) \in Nat
  <2> TAKE x
  <2>1. {i \in found : x \in FacetValues(Contents[v][i], f)} \in SUBSET found
    OBVIOUS
  <2> QED
    BY <1>1, <2>1, FS_Subset, FS_CardinalityType
<1> HIDE DEF counts
<1>7. DOMAIN counts = UNION all
  BY <1>3
<1>8. \A x \in DOMAIN counts : counts[x] = Cardinality({i \in found : x \in FacetValues(Contents[v][i], f)})
  BY <1>3
<1> QED
  BY <1>5, <1>6, <1>7, <1>8 DEF counts, ValuesIn, Having

\* More documents have more values, and more of each.
LEMMA MoreCount ==
  ASSUME NEW v \in Versions, Contents[v] # Missing, NEW some, NEW more, some \subseteq more,
         more \subseteq InIndex(v), NEW f
  PROVE  LET least == Counts(some, Contents[v], f)
             most == Counts(more, Contents[v], f)
         IN DOMAIN least \subseteq DOMAIN most /\ \A x \in DOMAIN least : least[x] <= most[x]
<1> DEFINE least == Counts(some, Contents[v], f)
           most == Counts(more, Contents[v], f)
<1>0. some \subseteq InIndex(v)
  OBVIOUS
<1>1. DOMAIN least = ValuesIn(some, v, f) /\ \A x \in DOMAIN least : least[x] = Cardinality(Having(some, v, f, x))
  BY <1>0, CountsAre
<1>2. DOMAIN most = ValuesIn(more, v, f) /\ \A x \in DOMAIN most : most[x] = Cardinality(Having(more, v, f, x))
  BY CountsAre
<1> HIDE DEF least, most
<1>3. DOMAIN least \subseteq DOMAIN most
  BY <1>1, <1>2 DEF ValuesIn
<1>4. ASSUME NEW x \in DOMAIN least PROVE least[x] <= most[x]
  <2>1. Having(some, v, f, x) \in SUBSET Having(more, v, f, x) /\ Having(more, v, f, x) \in SUBSET Ids
    BY DEF InIndex, Having
  <2>2. IsFiniteSet(Having(more, v, f, x))
    BY <2>1, QueryAssumption, FS_Subset
  <2>3. Cardinality(Having(some, v, f, x)) <= Cardinality(Having(more, v, f, x))
    BY <2>1, <2>2, FS_Subset
  <2>4. least[x] = Cardinality(Having(some, v, f, x)) /\ most[x] = Cardinality(Having(more, v, f, x))
    BY <1>1, <1>2, <1>3
  <2> QED
    BY <2>3, <2>4
<1> QED
  BY <1>3, <1>4 DEF least, most

LEMMA FoundAmong ==
  ASSUME NoBlankFacet, Wide, NEW p \in Questions, NEW v \in Versions
  PROVE  /\ MustFind[p][v] \subseteq Hits(p, v) /\ Hits(p, v) \subseteq MayFind[p][v]
         /\ MayFind[p][v] \subseteq Ids
         /\ Contents[v] # Missing => MayFind[p][v] \subseteq InIndex(v) /\ Hits(p, v) = FoundBy[p][v]
<1>1. MayFind[p][v] \subseteq Ids /\ (Contents[v] # Missing => MayFind[p][v] \subseteq InIndex(v))
  BY DEF MayFind, Asked, InIndex
<1>2. Contents[v] # Missing => Hits(p, v) = FoundBy[p][v]
  BY DEF Hits
<1> QED
  BY <1>1, <1>2, FoundIsRight

\* The counts that Elasticsearch makes are plausible.
LEMMA TallyIsRight ==
  ASSUME NoBlankFacet, Wide, NEW p \in Questions, NEW v \in Versions, Tally(p, v) # <<>>
  PROVE  /\ DOMAIN Tally(p, v) = Selected(p)
         /\ \A f \in Selected(p) : Plausible(Tally(p, v)[f], f, p, v)
<1>1. /\ Contents[v] # Missing /\ Tally(p, v) = CountsOf(p, v)
  BY DEF Tally
<1>2. DOMAIN Tally(p, v) = Selected(p) /\
      \A f \in Selected(p) : Tally(p, v)[f] = Counts(FoundBy[p][v], Contents[v], f)
  BY <1>1 DEF CountsOf
<1>3. /\ MustFind[p][v] \subseteq FoundBy[p][v] /\ FoundBy[p][v] \subseteq MayFind[p][v]
      /\ MayFind[p][v] \subseteq InIndex(v)
  BY <1>1, FoundAmong
<1>4. ASSUME NEW f \in Selected(p) PROVE Plausible(Tally(p, v)[f], f, p, v)
  <2> DEFINE counts == Counts(FoundBy[p][v], Contents[v], f)
             least == Counts(MustFind[p][v], Contents[v], f)
             most == Counts(MayFind[p][v], Contents[v], f)
  <2>1. DOMAIN least \subseteq DOMAIN counts /\ \A x \in DOMAIN least : least[x] <= counts[x]
    BY <1>1, <1>3, MoreCount
  <2>2. DOMAIN counts \subseteq DOMAIN most /\ \A x \in DOMAIN counts : counts[x] <= most[x]
    BY <1>1, <1>3, MoreCount
  <2>3. Tally(p, v)[f] = counts
    BY <1>2
  <2> HIDE DEF counts, least, most
  <2>4. Plausible(counts, f, p, v)
    BY <2>1, <2>2 DEF Plausible, least, most
  <2> QED
    BY <2>3, <2>4
<1> QED
  BY <1>2, <1>4

-----------------------------------------------------------------------------
(* Answers.                                                                 *)

LEMMA ByNumber ==
  ASSUME NEW set, set \subseteq Int, NEW before, before = {r \in set \X set : r[1] < r[2]}
  PROVE  Orders(before, set)
<1>1. \A u, v \in set : <<u, v>> \in before <=> u < v
  OBVIOUS
<1> QED
  BY <1>1 DEF Orders

\* A page of the members in order: none twice, each in its place, and all of them where the page
\* has as many as there are.
IsPage(q, set, before, p) ==
  /\ q \in Seq(set) /\ IsInjective(q)
  /\ Len(q) = Max({0, Min({p.size, Cardinality(set) - (p.page - 1) * p.size})})
  /\ Cardinality(set) = Len(q) => set \subseteq ToSet(q)
  /\ \A i \in DOMAIN q : q[i] \in set /\ Cardinality(Below(set, before, q[i])) = (p.page - 1) * p.size + i - 1

LEMMA RankedPageIs ==
  ASSUME NEW set, IsFiniteSet(set), NEW before, Orders(before, set), NEW p \in Questions
  PROVE  IsPage(Page(Ranked(set, before), p), set, before, p)
<1> DEFINE s == Ranked(set, before)
           q == Page(s, p)
           n == Cardinality(set)
<1>1. /\ n \in Nat /\ s \in [1 .. n -> set]
      /\ \A i \in 1 .. n : Cardinality(Below(set, before, s[i])) = i - 1
      /\ \A i, j \in 1 .. n : s[i] = s[j] => i = j
      /\ \A v \in set : \E i \in 1 .. n : s[i] = v
  BY RankedIs
<1> HIDE DEF s, n
<1>2. p.page \in Nat \ {0} /\ p.size \in Nat
  BY QuestionsAssumption
<1>3. PICK skip : skip = (p.page - 1) * p.size /\ skip \in Nat
  BY <1>2
<1>4. /\ q \in Seq(set)
      /\ Len(q) = Max({0, Min({p.size, n - skip})})
      /\ Len(q) = IF n <= skip THEN 0 ELSE IF n - skip <= p.size THEN n - skip ELSE p.size
      /\ \A i \in 1 .. Len(q) : skip + i \in 1 .. n /\ q[i] = s[skip + i]
  <2>1. LET r == Page(s, p)
            more == (p.page - 1) * p.size
        IN /\ r \in Seq(set) /\ more \in Nat
           /\ Len(r) = Max({0, Min({p.size, n - more})})
           /\ Len(r) = IF n <= more THEN 0 ELSE IF n - more <= p.size THEN n - more ELSE p.size
           /\ \A i \in 1 .. Len(r) : more + i \in 1 .. n /\ r[i] = s[more + i]
    BY <1>1, <1>2, PageIs
  <2> QED
    BY <1>3, <2>1
<1> HIDE DEF q
<1>5. DOMAIN q = 1 .. Len(q)
  BY <1>4
<1>6. IsInjective(q)
  <2> SUFFICES ASSUME NEW i \in 1 .. Len(q), NEW j \in 1 .. Len(q), q[i] = q[j] PROVE i = j
    BY <1>5 DEF IsInjective
  <2>1. skip + i \in 1 .. n /\ skip + j \in 1 .. n /\ s[skip + i] = s[skip + j]
    BY <1>4
  <2>2. skip + i = skip + j
    BY <1>1, <2>1
  <2> QED
    BY <1>3, <2>2
<1>7. ASSUME n = Len(q) PROVE set \subseteq ToSet(q)
  <2>1. n = 0 \/ skip = 0
    <3>1. PICK m : m = Len(q)
      OBVIOUS
    <3>2. m = IF n <= skip THEN 0 ELSE IF n - skip <= p.size THEN n - skip ELSE p.size
      BY <1>4, <3>1
    <3>3. m = n /\ p.size \in Nat /\ n \in Nat /\ skip \in Nat
      BY <1>1, <1>2, <1>3, <1>7, <3>1
    <3> QED
      BY <3>2, <3>3
  <2>2. \A i \in 1 .. n : q[i] = s[i]
    <3>1. \A i \in 1 .. n : q[i] = s[skip + i]
      BY <1>4, <1>7
    <3>2. ASSUME NEW i \in 1 .. n PROVE skip + i = i
      BY <1>1, <2>1
    <3> QED
      BY <3>1, <3>2
  <2>3. \A v \in set : \E i \in 1 .. n : q[i] = v
    BY <1>1, <2>2
  <2>4. ToSet(q) = {q[i] : i \in 1 .. n}
    BY <1>5, <1>7 DEF ToSet
  <2> QED
    BY <2>3, <2>4
<1>8. ASSUME NEW i \in DOMAIN q
      PROVE  q[i] \in set /\ Cardinality(Below(set, before, q[i])) = skip + i - 1
  <2>1. PICK j \in 1 .. n : j = skip + i /\ q[i] = s[j]
    BY <1>4, <1>5
  <2>2. s[j] \in set /\ Cardinality(Below(set, before, s[j])) = j - 1
    BY <1>1
  <2> QED
    BY <1>3, <1>5, <2>1, <2>2
<1> QED
  BY <1>3, <1>4, <1>6, <1>7, <1>8 DEF IsPage, q, s, n

LEMMA HitPageIs ==
  ASSUME NEW found, found \subseteq Ids, NEW p \in Questions
  PROVE  LET q == HitPage(found, p) IN
         /\ q \in Seq(found) /\ IsInjective(q)
         /\ Len(q) = Max({0, Min({p.size, Cardinality(found) - (p.page - 1) * p.size})})
         /\ Cardinality(found) = Len(q) => found \subseteq ToSet(q)
<1> DEFINE before == {r \in found \X found : r[1] < r[2]}
<1>1. HitPage(found, p) = Page(Ranked(found, before), p)
  BY DEF HitPage
<1>2. IsFiniteSet(found)
  <2>1. found \in SUBSET Ids
    OBVIOUS
  <2> QED
    BY <2>1, QueryAssumption, FS_Subset
<1>3. found \subseteq Int
  BY QueryAssumption
<1>4. Orders(before, found)
  BY <1>3, ByNumber
<1> HIDE DEF before
<1>5. IsPage(HitPage(found, p), found, before, p)
  BY <1>1, <1>2, <1>4, RankedPageIs
<1> QED
  BY <1>5 DEF IsPage

Right(a, p) ==
  /\ Len(a.items) = Max({0, Min({p.size, a.total - (p.page - 1) * p.size})})
  /\ p \in Searches =>
       /\ ToSet(a.items) \subseteq MayFind[p][a.hitsAt] /\ IsInjective(a.items)
       /\ Cardinality(MustFind[p][a.hitsAt]) <= a.total
       /\ a.total <= Cardinality(MayFind[p][a.hitsAt])
       /\ a.total = Len(a.items) => MustFind[p][a.hitsAt] \subseteq ToSet(a.items)
  /\ p \notin Searches =>
       \A f \in Selected(p) : InPlace(a.items, p, a.facets[f]) /\ a.total = Cardinality(DOMAIN a.facets[f])
  /\ a.facets # <<>> =>
       /\ DOMAIN a.facets = Selected(p)
       /\ \A f \in DOMAIN a.facets : Plausible(a.facets[f], f, p, a.facetsAt)

LEMMA SearchIsRight ==
  ASSUME NoBlankFacet, Wide, NEW p \in Searches, NEW a, SearchAnswer(a, p),
         a.hitsAt \in Versions, a.facetsAt \in Versions
  PROVE  Right(a, p)
<1>1. p \in Questions
  BY DEF Searches
<1>2. PICK found : found = Hits(p, a.hitsAt)
  OBVIOUS
<1>3. PICK must : must = MustFind[p][a.hitsAt]
  OBVIOUS
<1>4. PICK may : may = MayFind[p][a.hitsAt]
  OBVIOUS
<1>5. must \subseteq found /\ found \subseteq may /\ may \subseteq Ids
  BY <1>1, <1>2, <1>3, <1>4, FoundAmong
<1>6. IsFiniteSet(may) /\ IsFiniteSet(found)
  BY <1>5, QueryAssumption, FS_Subset
<1>7. Cardinality(must) <= Cardinality(found) /\ Cardinality(found) <= Cardinality(may)
  BY <1>5, <1>6, FS_Subset
<1>8. a.items = HitPage(found, p) /\ a.total = Cardinality(found) /\ a.facets \in {<<>>, Tally(p, a.facetsAt)}
  BY <1>2 DEF SearchAnswer
<1>9. PICK q : q = HitPage(found, p)
  OBVIOUS
<1>10. /\ q \in Seq(found) /\ IsInjective(q)
       /\ Len(q) = Max({0, Min({p.size, Cardinality(found) - (p.page - 1) * p.size})})
       /\ Cardinality(found) = Len(q) => found \subseteq ToSet(q)
  BY <1>1, <1>5, <1>9, HitPageIs
<1>11. ToSet(q) \subseteq found
  BY <1>10 DEF ToSet
<1>12. a.facets # <<>> =>
         /\ DOMAIN a.facets = Selected(p)
         /\ \A f \in DOMAIN a.facets : Plausible(a.facets[f], f, p, a.facetsAt)
  BY <1>1, <1>8, TallyIsRight
<1> QED
  BY <1>3, <1>4, <1>5, <1>7, <1>8, <1>9, <1>10, <1>11, <1>12 DEF Right

\* Values in any of the orders that can be asked for.
LEMMA SortsApart ==
  ASSUME NEW counts, DOMAIN counts \subseteq Int, \A x \in DOMAIN counts : counts[x] \in Nat,
         NEW p \in Questions \ Searches, NEW before,
         \A v, w \in DOMAIN counts : <<v, w>> \in before <=> Precedes(p, counts, v, w)
  PROVE  Orders(before, DOMAIN counts)
<1>1. PICK all : all = DOMAIN counts
  OBVIOUS
<1>2. \A v \in all : v \in Int /\ counts[v] \in Int
  BY <1>1
<1>3. CASE p.sort = "alpha_asc"
  <2>1. \A v, w \in all : <<v, w>> \in before <=> v < w
    BY <1>1, <1>3 DEF Precedes
  <2> QED
    BY <1>1, <1>2, <2>1 DEF Orders
<1>4. CASE p.sort = "alpha_desc"
  <2>1. \A v, w \in all : <<v, w>> \in before <=> w < v
    BY <1>1, <1>4 DEF Precedes
  <2> QED
    BY <1>1, <1>2, <2>1 DEF Orders
<1>5. CASE p.sort = "count_asc"
  <2>1. \A v, w \in all : <<v, w>> \in before <=> counts[v] < counts[w] \/ (counts[v] = counts[w] /\ v < w)
    BY <1>1, <1>5 DEF Precedes
  <2> QED
    BY <1>1, <1>2, <2>1 DEF Orders
<1>6. CASE p.sort = "count_desc"
  <2>1. \A v, w \in all : <<v, w>> \in before <=> counts[w] < counts[v] \/ (counts[v] = counts[w] /\ v < w)
    BY <1>1, <1>6 DEF Precedes
  <2> QED
    BY <1>1, <1>2, <2>1 DEF Orders
<1> QED
  BY <1>3, <1>4, <1>5, <1>6, QuestionsAssumption

\* A page of values has as many before it as it skips.
LEMMA FacetPageIs ==
  ASSUME NEW counts, DOMAIN counts \subseteq Int, IsFiniteSet(DOMAIN counts),
         \A x \in DOMAIN counts : counts[x] \in Nat, NEW p \in Questions \ Searches
  PROVE  LET q == FacetPage(counts, p) IN
         /\ Len(q) = Max({0, Min({p.size, Cardinality(DOMAIN counts) - (p.page - 1) * p.size})})
         /\ InPlace(q, p, counts)
<1> DEFINE all == DOMAIN counts
           comes(v, w) ==
             CASE p.sort = "count_desc" -> counts[v] > counts[w] \/ (counts[v] = counts[w] /\ v < w)
               [] p.sort = "count_asc"  -> counts[v] < counts[w] \/ (counts[v] = counts[w] /\ v < w)
               [] p.sort = "alpha_asc"  -> v < w
               [] p.sort = "alpha_desc" -> v > w
           before == {r \in all \X all : comes(r[1], r[2])}
           q == FacetPage(counts, p)
<1>1. q = Page(Ranked(all, before), p)
  BY DEF FacetPage
<1>2. \A v, w \in all : <<v, w>> \in before <=> Precedes(p, counts, v, w)
  <2>1. \A v, w \in all : <<v, w>> \in before <=> comes(v, w)
    <3> HIDE DEF comes
    <3> QED
      OBVIOUS
  <2>2. \A v, w \in all : comes(v, w) <=> Precedes(p, counts, v, w)
    <3> TAKE v, w \in all
    <3>1. v \in Int /\ w \in Int /\ counts[v] \in Int /\ counts[w] \in Int
      OBVIOUS
    <3>2. p.sort \in {"count_desc", "count_asc", "alpha_asc", "alpha_desc"}
      BY QuestionsAssumption
    <3> QED
      BY <3>1, <3>2 DEF Precedes
  <2> QED
    BY <2>1, <2>2
<1> HIDE DEF before, comes, q
<1>3. Orders(before, DOMAIN counts)
  BY <1>2, SortsApart
<1>4. /\ Len(q) = Max({0, Min({p.size, Cardinality(DOMAIN counts) - (p.page - 1) * p.size})})
      /\ \A i \in DOMAIN q : q[i] \in DOMAIN counts
           /\ Cardinality(Below(DOMAIN counts, before, q[i])) = (p.page - 1) * p.size + i - 1
  <2>1. IsPage(q, DOMAIN counts, before, p)
    BY <1>1, <1>3, RankedPageIs
  <2> QED
    BY <2>1 DEF IsPage
<1>5. ASSUME NEW i \in DOMAIN q
      PROVE  Below(DOMAIN counts, before, q[i]) = {v \in DOMAIN counts : Precedes(p, counts, v, q[i])}
  <2>1. \A v \in DOMAIN counts : <<v, q[i]>> \in before <=> Precedes(p, counts, v, q[i])
    BY <1>2, <1>4
  <2> QED
    BY <2>1 DEF Below
<1>6. InPlace(q, p, counts)
  BY <1>4, <1>5 DEF InPlace
<1> QED
  BY <1>4, <1>6 DEF q

LEMMA FacetIsRight ==
  ASSUME NoBlankFacet, Wide, NEW p \in Questions \ Searches, NEW a, FacetsAnswer(a, p), a.facetsAt \in Versions
  PROVE  Right(a, p)
<1>1. PICK f \in Facets : Selected(p) = {f}
  BY OneFacet
<1>2. PICK v \in Versions : v = a.facetsAt
  OBVIOUS
<1>3. Contents[v] # Missing /\ Tally(p, v) = CountsOf(p, v)
  BY <1>1, <1>2 DEF FacetsAnswer, Tally
<1>4. PICK counts : counts = Tally(p, v)[f]
  OBVIOUS
<1>5. counts = Counts(FoundBy[p][v], Contents[v], f)
  BY <1>1, <1>3, <1>4 DEF CountsOf
<1>6. FoundBy[p][v] \subseteq InIndex(v)
  BY <1>3, FoundAmong
<1>7. DOMAIN counts \subseteq Int /\ IsFiniteSet(DOMAIN counts) /\ \A x \in DOMAIN counts : counts[x] \in Nat
  BY <1>3, <1>5, <1>6, CountsAre
<1>8. (CHOOSE g \in Selected(p) : TRUE) = f
  BY <1>1
<1>9. a.items = FacetPage(counts, p) /\ a.total = Cardinality(DOMAIN counts) /\ a.facets = Tally(p, v)
  <2>1. PICK c : c = [counts |-> Tally(p, v), at |-> v, made |-> a.made]
    OBVIOUS
  <2>2. a = FacetAnswer(p, c)
    BY <1>2, <2>1 DEF FacetsAnswer
  <2>3. c.counts = Tally(p, v)
    BY <2>1
  <2>4. c.counts[CHOOSE g \in Selected(p) : TRUE] = counts
    BY <1>4, <1>8, <2>3
  <2>5. a.items = FacetPage(counts, p) /\ a.total = Cardinality(DOMAIN counts) /\ a.facets = c.counts
    BY <2>2, <2>4 DEF FacetAnswer
  <2> QED
    BY <2>3, <2>5
<1>10. PICK q : q = FacetPage(counts, p)
  OBVIOUS
<1>11. /\ Len(q) = Max({0, Min({p.size, Cardinality(DOMAIN counts) - (p.page - 1) * p.size})})
       /\ InPlace(q, p, counts)
  BY <1>7, <1>10, FacetPageIs
<1>12. Tally(p, v) # <<>> =>
         /\ DOMAIN a.facets = Selected(p)
         /\ \A g \in DOMAIN a.facets : Plausible(a.facets[g], g, p, v)
  BY <1>9, TallyIsRight
<1> QED
  BY <1>1, <1>2, <1>4, <1>9, <1>10, <1>11, <1>12 DEF Right

\* Every answer is one to the question that was asked, for any questions, documents, versions
\* and requests: the same name is only given to questions that find the same, whatever is
\* cached under it.
THEOREM AnswersRight ==
  ASSUME OneFlag, NoBlankFacet, Wide
  PROVE  Spec => []AnswersAreRight
<1>1. AnswersInv /\ ExactInv => AnswersAreRight
  <2> SUFFICES ASSUME AnswersInv, ExactInv, NEW t \in Tasks, Answered(t) PROVE Right(req[t].answer, ask(t))
    BY DEF AnswersAreRight, Right
  <2>1. /\ RequestOK(req[t], Moment) /\ req[t].pc = "done" /\ req[t].answer # Failed /\ req[t].ask = ask(t)
        /\ Exact(req[t])
    BY DEF AnswersInv, RequestsOK, Answered, At, ask, ExactInv, ExactRequests
  <2>2. AnswerOK(req[t].answer, Moment) /\ ask(t) \in Questions
    BY <2>1 DEF RequestOK
  <2>3. Moment.index = index /\ index \in Versions
    BY DEF AnswersInv, MomentOK, Moment
  <2>4. req[t].answer.hitsAt \in Versions /\ req[t].answer.facetsAt \in Versions
    BY <2>2, <2>3, Numbers DEF AnswerOK, Seen
  <2>5. CASE ask(t) \in Searches
    BY <2>1, <2>4, <2>5, SearchIsRight DEF Exact
  <2>6. CASE ask(t) \notin Searches
    BY <2>1, <2>2, <2>4, <2>6, FacetIsRight DEF Exact
  <2> QED
    BY <2>5, <2>6
<1> QED
  BY <1>1, ExactInvariant, AnswersInvariant, PTL
=============================================================================
