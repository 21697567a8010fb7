--------------------------- MODULE SearchAnswers ---------------------------
(***************************************************************************)
(* How searches are answered: _handle_search and get_facet look in the     *)
(* caches of whole answers, of aggregations and of facet values, search    *)
(* Elasticsearch for what is missing and cache it again, while documents   *)
(* change, an administrator clears the caches and processes die.           *)
(*                                                                         *)
(* Abstractions: requests take less than a tick of the clock, which the    *)
(* lifetimes of the caches are counted in.  A lookup that fails, which     *)
(* counts as a miss, is left out; a clear is one step.  So are left out    *)
(* the representations of the hits and the cache of whole responses around *)
(* both handlers, the subjects of RepresentationCache and ResponseCache;   *)
(* of the latter only its hold on the tag set that all caches share stays. *)
(* What happens between two awaits is a step.                              *)
(***************************************************************************)
EXTENDS SearchQuery

CONSTANTS Tasks,     \* requests that can be open at a time
          Contents,  \* what the index holds, version after version
          Missing,   \* a version in which the index does not exist
          Scripts,   \* bound: what is asked, one request after the other
          CoreTtl,   \* SEARCH_RESULT_CACHE_TTL, in ticks
          FacetTtl,  \* SEARCH_FACET_CACHE_TTL, in ticks
          Padding,   \* TAG_INDEX_TTL_PADDING_SECONDS, in ticks
          OtherTtls, \* lives for which the cache of responses tags its own entries
          MaxTime,   \* bound: ticks
          MaxFaults  \* bound: failures of Redis, of Elasticsearch, of a process, and taggings by others

ASSUME AnswersAssumption ==
  /\ Contents \in Seq(ToSet(Contents)) /\ Contents # <<>> /\ Missing \notin [Ids -> {None}]
  /\ \A s \in Scripts : s \in Seq(ToSet(s))
  /\ CoreTtl \in Nat \ {0} /\ FacetTtl \in Nat \ {0} /\ Padding \in Nat /\ OtherTtls \subseteq Nat
  /\ MaxTime \in Nat /\ MaxFaults \in Nat

VARIABLES
  now,     \* the clock
  index,   \* the version of the index
  ended,   \* history: when each version was replaced
  cores,   \* cached answers of searches, by name
  aggs,    \* cached aggregations, by name
  values,  \* cached values of facets, by name
  tagged,  \* the tag set "search": the names it lists
  expires, \* the time at which it expires
  slips,   \* history: entries whose tagging failed, or was listed when the expiry was moved up
  locks,   \* names whose answer somebody is looking for
  req,     \* req[t]: the request of task t
  asks,    \* what is still going to be asked
  cleared, \* history: the version at the last clear that nothing escaped
  faults   \* how many of these there have been

vars == <<now, index, ended, cores, aggs, values, tagged, expires, slips, locks, req, cleared, asks, faults>>
caches == <<cores, aggs, values>>
tagSet == <<tagged, expires, slips>>
world == <<now, index, ended, cleared>>

Versions == DOMAIN Contents
Questions == UNION {ToSet(s) : s \in Scripts}
Searches == {p \in Questions : p.kind = "search"}

\* The values of one facet are asked for (the path of get_facet).
ASSUME FacetAssumption == \A p \in Questions \ Searches : \E f \in Facets : p.facets = {f}

\* Questions are in the form the endpoints hand on: repeated parameters are lists, pages are
\* counted from 1, boxes are numbers, the clauses of an advanced search have one of three
\* operators, and values of a facet are asked for in one of four orders, over all fields.
ASSUME QuestionsAssumption ==
  \A p \in Questions :
    /\ \A s \in {p.fq, p.include, p.exclude, p.global, p.adv} : s \in Seq(ToSet(s))
    /\ p.page \in Nat \ {0} /\ p.size \in Nat
    /\ p.years = <<p.years[1], p.years[2]>>
    /\ p.box # None => p.box.west \in Int /\ p.box.east \in Int /\ p.box.least \in 0 .. 100
    /\ \A c \in ToSet(p.adv) : c.op \in {"AND", "OR", "NOT"}
    /\ p \notin Searches =>
         p.field = "all_fields" /\ p.sort \in {"count_desc", "count_asc", "alpha_asc", "alpha_desc"}

\* Names stand for their places in the order of names; an extent goes eastwards.
ASSUME DocumentsAssumption ==
  \A v \in Versions : Contents[v] # Missing => \A i \in Ids : Contents[v][i] # None =>
    LET d == Contents[v][i] IN
    /\ d.subjects \subseteq Int /\ IsFiniteSet(d.subjects) /\ d.year \in Int \cup {None}
    /\ d.box # None => d.box[1] \in -Half .. Half /\ d.box[2] \in d.box[1] .. Half

CoreKeys == {CoreKey(p) : p \in Searches}
AggKeys == {AggKey(p) : p \in {s \in Searches : Selected(s) # {}}}
ValuesKeys == {ValuesKey(p) : p \in Questions \ Searches}
KnownNames == ({"core"} \X CoreKeys) \cup ({"aggs"} \X AggKeys) \cup ({"values"} \X ValuesKeys)

\* Elasticsearch's answer to each question at each version.
FoundBy ==
  [p \in Questions |-> [v \in {w \in Versions : Contents[w] # Missing} |->
    Found(IF p.kind = "search" THEN SearchQueryOf(p) ELSE FacetQueryOf(p), Contents[v])]]

CountsOf(p, v) == [f \in Selected(p) |-> Counts(FoundBy[p][v], Contents[v], f)]

----------------------------------------------------------------------------
(* Caches.                                                                  *)

NoAnswer == [items |-> <<>>, total |-> 0, facets |-> <<>>, hitsAt |-> 0, facetsAt |-> 0, made |-> 0]
Failed == [NoAnswer EXCEPT !.total = -1]
Idle == [pc |-> "idle", ask |-> None, aggs |-> None, answer |-> NoAnswer]

CoreTags == {"search", "search_results"}
\* Mutant: aggregations are tagged by their facets only.
AggTagsOfFacets == {"facet"}
AggTags == {"search", "facet"}
ValuesTags == {"search", "facet"}

Entry(value) == [value |-> value, made |-> now]
Stored(cache, k, value) == [cache EXCEPT ![k] = Entry(value)]

Go(t, pc) == req' = [req EXCEPT ![t].pc = pc]
At(t, pc) == req[t].pc = pc
Answer(t, a) == req' = [req EXCEPT ![t].pc = "done", ![t].answer = a]
ask(t) == req[t].ask

\* The names under which the caches are filled, and what task t is about to tag.
Names ==
  ({"core"} \X {k \in CoreKeys : cores[k] # None}) \cup ({"aggs"} \X {k \in AggKeys : aggs[k] # None})
    \cup ({"values"} \X {k \in ValuesKeys : values[k] # None})
ToTag(t) ==
  CASE At(t, "tagAggs")   -> {<<"aggs", AggKey(ask(t))>>}
    [] At(t, "tagCore")   -> {<<"core", CoreKey(ask(t))>>}
    [] At(t, "tagValues") -> {<<"values", ValuesKey(ask(t))>>}
    [] OTHER              -> {}

\* tag_cache_key: the names join the tag set, and whatever it lists, its expiry is set anew.
Tagged(names, tags, ttl) ==
  IF "search" \notin tags THEN UNCHANGED tagSet
  ELSE LET end == now + ttl + Padding
           cut == IF end < expires THEN tagged ELSE {}
       IN tagged' = tagged \cup names /\ expires' = end /\ slips' = (slips \cup cut) \ names

Init ==
  /\ now = 0 /\ index = 1 /\ ended = [v \in Versions |-> None] /\ cleared = 0
  /\ cores = [k \in CoreKeys |-> None] /\ aggs = [k \in AggKeys |-> None]
  /\ values = [k \in ValuesKeys |-> None]
  /\ tagged = {} /\ expires = 0 /\ slips = {}
  /\ locks = {} /\ req = [t \in Tasks |-> Idle] /\ asks \in Scripts /\ faults = 0

----------------------------------------------------------------------------
(* _handle_search                                                           *)

\* A cached answer is taken; else who gets the lock looks for one, and who does not waits.
Ask(t) ==
  /\ At(t, "idle") /\ asks # <<>> /\ asks' = Tail(asks)
  /\ LET p == Head(asks)
         asked(pc) == [Idle EXCEPT !.pc = pc, !.ask = p]
         k == CoreKey(p)
     IN \/ /\ p \notin Searches
           /\ req' = [req EXCEPT ![t] = asked("values")] /\ UNCHANGED locks
        \/ /\ p \in Searches /\ cores[k] # None
           /\ req' = [req EXCEPT ![t] = [asked("done") EXCEPT !.answer = cores[k].value]]
           /\ UNCHANGED locks
        \/ /\ p \in Searches /\ cores[k] = None /\ k \notin locks /\ locks' = locks \cup {k}
           /\ req' = [req EXCEPT ![t] = asked("facets")]
        \/ /\ p \in Searches /\ cores[k] = None /\ k \in locks
           /\ req' = [req EXCEPT ![t] = asked("wait")] /\ UNCHANGED locks
  /\ UNCHANGED <<world, caches, tagSet, faults>>

\* Another request has found it, or the wait is over.
WaitHit(t) ==
  /\ At(t, "wait") /\ cores[CoreKey(ask(t))] # None
  /\ Answer(t, cores[CoreKey(ask(t))].value)
  /\ UNCHANGED <<world, caches, tagSet, locks, asks, faults>>

GiveUp(t) ==
  /\ At(t, "wait") /\ cores[CoreKey(ask(t))] = None /\ Go(t, "facets")
  /\ UNCHANGED <<world, caches, tagSet, locks, asks, faults>>

\* FacetService.prepare: cached aggregations are not asked for again.
LookupAggs(t) ==
  /\ At(t, "facets")
  /\ req' = [req EXCEPT ![t].pc = "search",
       ![t].aggs = IF Selected(ask(t)) = {} \/ aggs[AggKey(ask(t))] = None THEN None
                   ELSE aggs[AggKey(ask(t))].value]
  /\ UNCHANGED <<world, caches, tagSet, locks, asks, faults>>

\* What the response says: facets only beside hits, and no pages without hits.
Response(p, found, counted) ==
  [items |-> HitPage(found, p), total |-> Cardinality(found),
   facets |-> IF HitPage(found, p) = <<>> THEN <<>> ELSE counted.counts,
   hitsAt |-> index, facetsAt |-> counted.at, made |-> now]

\* What apply_to_response hands on: aggregations that were cached, or those counted now.
Counted(p, held) ==
  IF held # None THEN held
  ELSE [counts |-> IF Contents[index] = Missing \/ Selected(p) = {} THEN <<>> ELSE CountsOf(p, index),
        at |-> index]

\* Mutant: aggregations that were cached are stored again.
StoresAgain(held, counted) == counted.counts # <<>>

\* Mutant: aggregations are stored even if there are none.
StoresNone(held, counted) == held = None

\* Only what was counted now is stored, if anything was.
StoresAggs(held, counted) == held = None /\ counted.counts # <<>>

\* SearchExecutor.execute: an index that is not there finds nothing; a script that fails is
\* left away, with the scores it computes.
Search(t) ==
  LET p == ask(t)
      missing == Contents[index] = Missing
      found == IF missing THEN {} ELSE FoundBy[p][index]
      counted == Counted(p, req[t].aggs)
  IN /\ At(t, "search")
     /\ req' = [req EXCEPT ![t] = [@ EXCEPT
          !.pc = IF StoresAggs(req[t].aggs, counted) THEN "aggs" ELSE "core",
          !.aggs = counted, !.answer = Response(p, found, counted)]]
     /\ \/ UNCHANGED faults
        \/ Scored(p) /\ ~missing /\ faults < MaxFaults /\ faults' = faults + 1
     /\ UNCHANGED <<world, caches, tagSet, locks, asks>>

\* Any other error is answered and not cached; the lock stays.
SearchFails(t) ==
  /\ At(t, "search") \/ At(t, "count")
  /\ faults < MaxFaults /\ faults' = faults + 1 /\ Answer(t, Failed)
  /\ UNCHANGED <<world, caches, tagSet, locks, asks>>

StoreAggs(t) ==
  /\ At(t, "aggs") /\ aggs' = Stored(aggs, AggKey(ask(t)), req[t].aggs) /\ Go(t, "tagAggs")
  /\ UNCHANGED <<world, cores, values, tagSet, locks, asks, faults>>

TagAggs(t) ==
  /\ At(t, "tagAggs") /\ Tagged(ToTag(t), AggTags, FacetTtl) /\ Go(t, "core")
  /\ UNCHANGED <<world, caches, locks, asks, faults>>

StoreCore(t) ==
  /\ At(t, "core") /\ cores' = Stored(cores, CoreKey(ask(t)), req[t].answer) /\ Go(t, "tagCore")
  /\ UNCHANGED <<world, aggs, values, tagSet, locks, asks, faults>>

TagCore(t) ==
  /\ At(t, "tagCore") /\ Tagged(ToTag(t), CoreTags, CoreTtl) /\ Answer(t, req[t].answer)
  /\ UNCHANGED <<world, caches, locks, asks, faults>>

----------------------------------------------------------------------------
(* get_facet                                                                *)

\* process_facet_response
FacetAnswer(p, counted) ==
  LET counts == counted.counts[CHOOSE f \in Selected(p) : TRUE] IN
  [items |-> FacetPage(counts, p), total |-> Cardinality(DOMAIN counts), facets |-> counted.counts,
   hitsAt |-> counted.at, facetsAt |-> counted.at, made |-> counted.made]

LookupValues(t) ==
  LET e == values[ValuesKey(ask(t))] IN
  /\ At(t, "values")
  /\ IF e = None THEN Go(t, "count")
     ELSE Answer(t, FacetAnswer(ask(t), [counts |-> e.value.counts, at |-> e.value.at, made |-> e.made]))
  /\ UNCHANGED <<world, caches, tagSet, locks, asks, faults>>

\* An index that is not there is an error here.
SearchValues(t) ==
  /\ At(t, "count")
  /\ IF Contents[index] = Missing THEN Answer(t, Failed)
     ELSE req' = [req EXCEPT ![t].pc = "store",
            ![t].aggs = [counts |-> CountsOf(ask(t), index), at |-> index]]
  /\ UNCHANGED <<world, caches, tagSet, locks, asks, faults>>

StoreValues(t) ==
  /\ At(t, "store") /\ values' = Stored(values, ValuesKey(ask(t)), req[t].aggs) /\ Go(t, "tagValues")
  /\ UNCHANGED <<world, cores, aggs, tagSet, locks, asks, faults>>

ValuesAnswer(t) ==
  Answer(t, FacetAnswer(ask(t), [counts |-> req[t].aggs.counts, at |-> req[t].aggs.at, made |-> now]))

TagValues(t) ==
  /\ At(t, "tagValues") /\ Tagged(ToTag(t), ValuesTags, FacetTtl) /\ ValuesAnswer(t)
  /\ UNCHANGED <<world, caches, locks, asks, faults>>

----------------------------------------------------------------------------
(* Redis and processes that fail, and what goes on around the requests.     *)

\* What is not stored is not tagged.
StoreFails(t) ==
  /\ faults < MaxFaults /\ faults' = faults + 1
  /\ \/ At(t, "aggs") /\ Go(t, "core")
     \/ At(t, "core") /\ Answer(t, req[t].answer)
     \/ At(t, "store") /\ ValuesAnswer(t)
  /\ UNCHANGED <<world, caches, tagSet, locks, asks>>

\* An entry is stored and its tagging fails, which is logged and passed over.
TagFails(t) ==
  /\ faults < MaxFaults /\ faults' = faults + 1
  /\ \/ At(t, "tagAggs") /\ Go(t, "core")
     \/ At(t, "tagCore") /\ Answer(t, req[t].answer)
     \/ At(t, "tagValues") /\ ValuesAnswer(t)
  /\ slips' = slips \cup ToTag(t)
  /\ UNCHANGED <<world, caches, tagged, expires, locks, asks>>

Die(t) ==
  /\ req[t].pc \notin {"idle", "done"} /\ faults < MaxFaults /\ faults' = faults + 1
  /\ req' = [req EXCEPT ![t] = Idle]
  /\ slips' = slips \cup ToTag(t)
  /\ UNCHANGED <<world, caches, tagged, expires, locks, asks>>

Finish(t) ==
  /\ At(t, "done") /\ req' = [req EXCEPT ![t] = Idle]
  /\ UNCHANGED <<world, caches, tagSet, locks, asks, faults>>

ChangeIndex ==
  /\ index + 1 \in Versions /\ index' = index + 1 /\ ended' = [ended EXCEPT ![index] = now]
  /\ UNCHANGED <<now, cleared, caches, tagSet, locks, req, asks, faults>>

\* The cache of responses tags an entry of its own, new or refilled: the set is set to expire
\* with it.  (When an empty set expires makes no difference, since the next tagging says so anew.)
OthersTag(ttl) ==
  /\ tagged # {} /\ Tagged({}, {"search"}, ttl)
  /\ faults < MaxFaults /\ faults' = faults + 1
  /\ UNCHANGED <<world, caches, locks, req, asks>>

Quiet == \A t \in Tasks : At(t, "idle")

\* invalidate_tags: what the tag set lists is deleted.
Uncleared(kind, cache) == [k \in DOMAIN cache |-> IF <<kind, k>> \in tagged THEN None ELSE cache[k]]

\* An administrator clears the search caches.  The clear is thorough if no request is under way
\* and no entry has slipped out of the tag set.
ClearSearch ==
  /\ cores' = Uncleared("core", cores) /\ aggs' = Uncleared("aggs", aggs)
  /\ values' = Uncleared("values", values)
  /\ tagged' = {} /\ expires' = 0 /\ slips' = slips \ tagged
  /\ cleared' = IF Quiet /\ slips = {} THEN index ELSE cleared
  /\ UNCHANGED <<now, index, ended, locks, req, asks, faults>>

Alive(cache, ttl, time) ==
  [k \in DOMAIN cache |-> IF cache[k] # None /\ cache[k].made + ttl <= time THEN None ELSE cache[k]]

\* A lock is never given back: it outlives the request that took it, but not the tick.
Tick ==
  /\ Quiet /\ now < MaxTime /\ now' = now + 1
  /\ cores' = Alive(cores, CoreTtl, now + 1)
  /\ aggs' = Alive(aggs, FacetTtl, now + 1) /\ values' = Alive(values, FacetTtl, now + 1)
  /\ IF expires <= now + 1 THEN tagged' = {} /\ expires' = 0 ELSE UNCHANGED <<tagged, expires>>
  /\ slips' = slips \cap Names'
  /\ locks' = {}
  /\ UNCHANGED <<index, ended, req, cleared, asks, faults>>

Next ==
  \/ \E t \in Tasks :
       \/ Ask(t) \/ WaitHit(t) \/ GiveUp(t) \/ LookupAggs(t) \/ Search(t)
       \/ SearchFails(t) \/ StoreAggs(t) \/ TagAggs(t) \/ StoreCore(t) \/ TagCore(t)
       \/ LookupValues(t) \/ SearchValues(t) \/ StoreValues(t) \/ TagValues(t)
       \/ StoreFails(t) \/ TagFails(t) \/ Die(t) \/ Finish(t)
  \/ \E ttl \in OtherTtls : OthersTag(ttl)
  \/ ChangeIndex \/ ClearSearch \/ Tick

Spec == Init /\ [][Next]_vars

----------------------------------------------------------------------------
(* Properties.                                                              *)

\* TypeOK: the caches hold entries that can be answered from; an aggregation is never stored
\* empty, so that a missing index is not remembered as one without values.
EntryOK(e) == e.made \in 0 .. now
TypeOK ==
  /\ now \in 0 .. MaxTime /\ index \in Versions /\ cleared \in 0 .. index
  /\ ended \in [Versions -> 0 .. MaxTime \cup {None}]
  /\ \A k \in CoreKeys : cores[k] # None => EntryOK(cores[k]) /\ cores[k].value.hitsAt \in 1 .. index
  /\ \A k \in AggKeys : aggs[k] # None =>
       EntryOK(aggs[k]) /\ DOMAIN aggs[k].value.counts = k.facets /\ aggs[k].value.at \in 1 .. index
  /\ \A k \in ValuesKeys : values[k] # None =>
       EntryOK(values[k]) /\ DOMAIN values[k].value.counts = {k.facet} /\ values[k].value.at \in 1 .. index
  /\ tagged \cup slips \subseteq KnownNames
  /\ expires \in Nat /\ locks \subseteq CoreKeys /\ faults \in 0 .. MaxFaults
  /\ \A t \in Tasks : req[t].ask \in Questions \cup {None}

\* The unit steps of the circle of longitudes that lie east of one meridian and west of another.
Steps(west, east) == {x % (2 * Half) : x \in west .. (east - 1)}
BoxSteps(box) ==
  LET swapped == {box.west, box.east} \subseteq -Half .. Half /\ box.west > box.east
                   /\ box.west - box.east <= Half
      span == (box.east - box.west) % (2 * Half)
  IN IF box.east - box.west >= 2 * Half \/ box.west - box.east >= 2 * Half THEN Steps(0, 2 * Half)
     ELSE IF swapped THEN Steps(box.east, box.west) ELSE Steps(box.west, box.west + span)
Edges(steps) == steps \cup {(x + 1) % (2 * Half) : x \in steps}

\* What a document must say to be asked for, but for the box.
Wanted(p, d) ==
  /\ \A vs \in {p.fq, p.include} : vs = <<>> \/
       IF p.op = "and" THEN ToSet(vs) \subseteq d.subjects ELSE ToSet(vs) \cap d.subjects # {}
  /\ \A v \in ToSet(p.exclude) : v \notin d.subjects
  /\ p.years # <<None, None>> => d.year # None
  /\ p.years[1] # None => p.years[1] <= d.year
  /\ p.years[2] # None => d.year <= p.years[2]
  /\ (p.global # <<>> /\ p.global[1]) => d.global
  /\ p.q \notin {None, Blank} => p.q \in d.words[p.field]
  /\ \A c \in ToSet(p.adv) : c.op = "NOT" => c.word \notin d.words[c.field]

\* Advanced clauses that are not negated: all that are joined by and, one of those joined by
\* or - one of all, if all ask the same field and one of them is joined by or.
Said(p, d) ==
  LET says(c) == c.word \in d.words[c.field]
      cs == {c \in ToSet(p.adv) : c.op # "NOT"}
      ors == {c \in cs : c.op = "OR"}
      ands == IF ors # {} /\ Cardinality({c.field : c \in cs}) = 1 THEN {} ELSE cs \ ors
  IN (\A c \in ands : says(c)) /\ (ors = {} \/ \E c \in cs \ ands : says(c))

\* Documents that lie in the box are found; those that do not touch it are not.
Within(p, d) == p.box = None \/
  (d.box # None /\ Steps(d.box[1], d.box[2]) \subseteq BoxSteps(p.box))
Touching(p, d) == p.box = None \/ BoxSteps(p.box) = {} \/
  (d.box # None /\ Edges(Steps(d.box[1], d.box[2])) \cap Edges(BoxSteps(p.box)) # {})

Asked(p, v, near(_, _)) ==
  IF Contents[v] = Missing THEN {}
  ELSE {i \in Ids : Contents[v][i] # None
          /\ Wanted(p, Contents[v][i]) /\ Said(p, Contents[v][i]) /\ near(p, Contents[v][i])}

MustFind == [p \in Questions |-> [v \in Versions |-> Asked(p, v, Within)]]
MayFind == [p \in Questions |-> [v \in Versions |-> Asked(p, v, Touching)]]

\* Each value that is counted counts no less than must be found with it and no more than may be.
Plausible(counts, f, p, v) ==
  LET least == Counts(MustFind[p][v], Contents[v], f)
      most == Counts(MayFind[p][v], Contents[v], f)
  IN /\ DOMAIN least \subseteq DOMAIN counts /\ DOMAIN counts \subseteq DOMAIN most
     /\ \A x \in DOMAIN counts : counts[x] <= most[x] /\ (x \in DOMAIN least => least[x] <= counts[x])

\* A page of values: as many come before its first as the pages before it hold.
Precedes(p, counts, v, w) ==
  CASE p.sort = "alpha_asc"  -> v < w
    [] p.sort = "alpha_desc" -> w < v
    [] p.sort = "count_asc"  -> counts[v] < counts[w] \/ (counts[v] = counts[w] /\ v < w)
    [] p.sort = "count_desc" -> counts[w] < counts[v] \/ (counts[v] = counts[w] /\ v < w)
InPlace(items, p, counts) ==
  \A i \in DOMAIN items :
    Cardinality({v \in DOMAIN counts : Precedes(p, counts, v, items[i])}) = (p.page - 1) * p.size + i - 1

Answered(t) == At(t, "done") /\ req[t].answer # Failed

\* AnswersAreRight: every answer, found or cached under whatever name, is one to the question
\* that was asked: its hits are documents of the index as it was, all that had to be found and
\* none that could not be, page by page, and its facets count the same documents.  This is
\* about the names of cached results (_build_semantic_search_cache_key and the keys of facets)
\* and the query that is built (SearchQueryBuilder, _normalize_geo_bbox_bounds).
AnswersAreRight ==
  \A t \in {s \in Tasks : Answered(s)} :
    LET p == ask(t)
        a == req[t].answer
    IN /\ Len(a.items) = Max({0, Min({p.size, a.total - (p.page - 1) * p.size})})
       /\ p \in Searches =>
            /\ ToSet(a.items) \subseteq MayFind[p][a.hitsAt] /\ IsInjective(a.items)
            /\ Cardinality(MustFind[p][a.hitsAt]) <= a.total
            /\ a.total <= Cardinality(MayFind[p][a.hitsAt])
            /\ a.total = Len(a.items) => MustFind[p][a.hitsAt] \subseteq ToSet(a.items)
       /\ p \notin Searches =>
            \A f \in Selected(p) : InPlace(a.items, p, a.facets[f]) /\ a.total = Cardinality(DOMAIN a.facets[f])
       /\ a.facets # <<>> =>
            /\ DOMAIN a.facets = Selected(p)
            /\ \A f \in DOMAIN a.facets : Plausible(a.facets[f], f, p, a.facetsAt)

\* AnswersAreRecent: what an answer shows was current less than the lifetime of answers ago, and
\* its facets less than both lifetimes ago: an answer made with cached aggregations is cached
\* in its turn, but the aggregations are not made younger by it.
AnswersAreRecent ==
  \A t \in {s \in Tasks : Answered(s)} :
    LET a == req[t].answer
        ttl == IF ask(t) \in Searches THEN CoreTtl ELSE FacetTtl
        since(v) == IF ended[v] = None THEN now ELSE ended[v]
    IN /\ now < a.made + ttl /\ a.made <= since(a.hitsAt)
       /\ a.made < since(a.facetsAt) + FacetTtl

\* ClearedIsCleared: after a clear nothing is answered from before it, neither hits nor facets,
\* in whatever entry they were kept, if no request was under way and no entry had slipped: no
\* tagging had failed, died on the way or moved the expiry of the shared tag set up since the
\* entry was listed there (tag_cache_key, invalidate_tags "search").
ClearedIsCleared ==
  \A t \in {s \in Tasks : Answered(s)} :
    req[t].answer.hitsAt >= cleared /\ req[t].answer.facetsAt >= cleared

\* The same of every clear while no request is under way, which the code does not keep even if
\* nothing fails: an entry that is tagged for a shorter time takes the tag set with it, and a
\* later clear does not find the others (tag_cache_key, "Expire tag sets around the same time").
ClearFindsAll == [][ClearSearch /\ Quiet => Names' = {}]_vars
=============================================================================
