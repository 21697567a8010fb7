---------------------------- MODULE SearchQuery ----------------------------
(***************************************************************************)
(* What a search asks for and finds: the Elasticsearch query built from    *)
(* the parameters of a search (elasticsearch/search.py), which documents   *)
(* it finds, the facets that are counted over them, and the names under    *)
(* which the results are cached.                                           *)
(*                                                                         *)
(* A document is reduced to one many-valued field with exact values, its   *)
(* year, the words of its title and of all its text, the mark of global    *)
(* resources and the longitudes of its extent.  Latitudes, which are       *)
(* clamped and never wrap, other geometries than a bounding box of         *)
(* dcat_bbox, scores, phrases, suggestions and the sizes of facets are     *)
(* left out.                                                               *)
(***************************************************************************)
EXTENDS Integers, Sequences, SequencesExt

CONSTANTS Ids,   \* documents, in the order of their scores
          Half,  \* half the circle of longitudes (180 degrees)
          None,  \* no document, year, bound, box or word
          Blank  \* a query of blanks only

ASSUME QueryAssumption == Ids \subseteq Nat /\ IsFiniteSet(Ids) /\ Half \in Nat \ {0}

----------------------------------------------------------------------------
(* The box.                                                                 *)

World == <<-Half, Half>>

NormalizeLongitude(x) ==
  LET n == ((x + Half) % (2 * Half)) - Half IN IF n = -Half /\ x > 0 THEN Half ELSE n

\* The parts of the world between two meridians.  Corners that were swapped are taken as
\* meant if they are at most half the world apart; otherwise the box crosses the antimeridian.
LonRanges(west, east) ==
  LET w == NormalizeLongitude(west)
      e == NormalizeLongitude(east)
      inside == {west, east} \subseteq -Half .. Half
      ranges == IF east - west >= 2 * Half \/ west - east >= 2 * Half THEN {World}
                ELSE IF w = e THEN (IF west = east THEN {} ELSE {World})
                ELSE IF w < e THEN {<<w, e>>}
                ELSE IF inside /\ w - e <= Half THEN {<<e, w>>}
                ELSE {<<w, Half>>, <<-Half, e>>}
  IN {r \in ranges : r[1] < r[2]}

----------------------------------------------------------------------------
(* The clauses of a query.                                                  *)

Terms(values) == [is |-> "terms", values |-> values]
YearIn(from, to) == [is |-> "year", from |-> from, to |-> to]
IsGlobal == [is |-> "global"]
Touches(ranges) == [is |-> "box", ranges |-> ranges]
Covers(range, least) == [is |-> "overlap", range |-> range, least |-> least]
Says(word, field) == [is |-> "text", word |-> word, field |-> field]

\* Repeated values of a filter: each must be there (and), or one of them (or).
ExactClauses(values, op) ==
  IF values = <<>> THEN {}
  ELSE IF op = "and" THEN {Terms({v}) : v \in ToSet(values)}
  ELSE {Terms(ToSet(values))}

\* A bound that is no number is ignored.
YearRange(years) == IF years = <<None, None>> THEN {} ELSE {YearIn(years[1], years[2])}

\* A box without any longitude is ignored.
GeoFilter(box) ==
  IF box = None \/ LonRanges(box.west, box.east) = {} THEN {}
  ELSE {Touches(LonRanges(box.west, box.east))}

\* Where the box is one range, a document must lie in it by a least part of its extent.
Scored(p) == p.box # None /\ Cardinality(LonRanges(p.box.west, p.box.east)) = 1
OverlapFilter(p) == {Covers(r, p.box.least) : r \in LonRanges(p.box.west, p.box.east)}

Filters(p) ==
  ExactClauses(p.fq, p.op) \cup ExactClauses(p.include, p.op)
    \cup YearRange(p.years) \cup GeoFilter(p.box)
    \cup (IF p.global # <<>> /\ p.global[1] THEN {IsGlobal} ELSE {})

Excluded(p) == IF p.exclude = <<>> THEN {} ELSE {Terms(ToSet(p.exclude))}

\* Clauses of the advanced query.  If some are alternatives and all that are not negated ask
\* the same field, all of these are alternatives.
Advanced(adv) ==
  LET positive == {c \in ToSet(adv) : c.op # "NOT"}
      loose == /\ \E c \in positive : c.op = "OR"
               /\ \A c, d \in positive : c.field = d.field
      clauses(cs) == {Says(c.word, c.field) : c \in cs}
  IN [must |-> clauses({c \in positive : ~loose /\ c.op = "AND"}),
      should |-> clauses({c \in positive : loose \/ c.op = "OR"}),
      mustNot |-> clauses(ToSet(adv) \ positive)]

Bool(p, filters, text) ==
  LET adv == Advanced(p.adv) IN
  [filter |-> filters, must |-> text \cup adv.must, should |-> adv.should,
   mustNot |-> Excluded(p) \cup adv.mustNot]

\* The query of a search; the fallback after a failing script is the same but for its scores.
SearchQueryOf(p) ==
  Bool(p, Filters(p) \cup (IF Scored(p) THEN OverlapFilter(p) ELSE {}),
       IF p.q \in {None, Blank} THEN {} ELSE {Says(p.q, p.field)})

\* The query of a facet: no least part, always all fields, and blanks are searched for.
FacetQueryOf(p) == Bool(p, Filters(p), IF p.q = None THEN {} ELSE {Says(p.q, "all_fields")})

----------------------------------------------------------------------------
(* Elasticsearch.                                                           *)

Matches(c, d) ==
  CASE c.is = "terms"   -> c.values \cap d.subjects # {}
    [] c.is = "year"    -> /\ d.year # None
                           /\ c.from # None => c.from <= d.year
                           /\ c.to # None => d.year <= c.to
    [] c.is = "global"  -> d.global
    [] c.is = "box"     -> d.box # None /\ \E r \in c.ranges : r[1] <= d.box[2] /\ d.box[1] <= r[2]
    [] c.is = "overlap" -> /\ d.box # None
                           /\ LET common == Min({c.range[2], d.box[2]}) - Max({c.range[1], d.box[1]})
                              IN common > 0 /\ 100 * common >= c.least * (d.box[2] - d.box[1])
    [] c.is = "text"    -> c.word \in d.words[c.field]

Found(query, content) ==
  {i \in Ids : content[i] # None /\
    LET d == content[i] IN
    /\ \A c \in query.filter \cup query.must : Matches(c, d)
    /\ query.should = {} \/ \E c \in query.should : Matches(c, d)
    /\ \A c \in query.mustNot : ~Matches(c, d)}

\* The values of a facet in a document, and how many documents have each.
FacetValues(d, facet) ==
  IF facet = "subject" THEN d.subjects ELSE IF d.year = None THEN {} ELSE {d.year}

Counts(found, content, facet) ==
  [v \in UNION {FacetValues(content[i], facet) : i \in found} |->
    Cardinality({i \in found : v \in FacetValues(content[i], facet)})]

----------------------------------------------------------------------------
(* What is asked for, counted and shown.                                    *)

Facets == {"subject", "year"}

\* The facets to count: those asked for by name, or all.
Selected(p) == IF p.facets = {} THEN Facets ELSE p.facets \cap Facets

Skip(p) == (p.page - 1) * p.size
Page(s, p) == SubSeq(s, Skip(p) + 1, Min({Skip(p) + p.size, Len(s)}))

\* The members of a set in an order, given by who comes before whom.
Ranked(set, before) ==
  [i \in 1 .. Cardinality(set) |->
    CHOOSE v \in set : Cardinality({u \in set : <<u, v>> \in before}) = i - 1]

\* A page of the hits, best first.
HitPage(found, p) == Page(Ranked(found, {r \in found \X found : r[1] < r[2]}), p)

\* A page of the values of a facet; values with the same count stay in the order of
\* Elasticsearch, which is that of the values.
FacetPage(counts, p) ==
  LET values == DOMAIN counts
      before(v, w) ==
        CASE p.sort = "count_desc" -> counts[v] > counts[w] \/ (counts[v] = counts[w] /\ v < w)
          [] p.sort = "count_asc"  -> counts[v] < counts[w] \/ (counts[v] = counts[w] /\ v < w)
          [] p.sort = "alpha_asc"  -> v < w
          [] p.sort = "alpha_desc" -> v > w
  IN Page(Ranked(values, {r \in values \X values : before(r[1], r[2])}), p)

----------------------------------------------------------------------------
(* The names of cached results.  They are records here, so that different   *)
(* values make different names; generate_cache_key joins k=v strings with   *)
(* colons and does not quote text, so two questions of which one has ":k="  *)
(* in a text can share a name.                                              *)

\* Lists of a filter are sorted before they are part of the name of a response.
Canonical(s) == ToBag(s)

\* Mutant: the name of a response says nothing of how repeated values combine.
CoreKeyWithoutOp(p) ==
  [q |-> IF p.q = None THEN <<>> ELSE <<p.q>>, field |-> p.field, fq |-> Canonical(p.fq),
   include |-> Canonical(p.include), years |-> p.years, global |-> Canonical(p.global),
   exclude |-> Canonical(p.exclude), box |-> p.box, adv |-> p.adv, facets |-> p.facets,
   page |-> p.page, size |-> p.size, sort |-> p.sort]

CoreKey(p) ==
  [q |-> IF p.q = None THEN <<>> ELSE <<p.q>>, field |-> p.field, fq |-> Canonical(p.fq),
   include |-> Canonical(p.include), op |-> p.op, years |-> p.years,
   global |-> Canonical(p.global), exclude |-> Canonical(p.exclude), box |-> p.box,
   adv |-> p.adv, facets |-> p.facets, page |-> p.page, size |-> p.size, sort |-> p.sort]

Context(p) ==
  [q |-> p.q, fq |-> p.fq, include |-> p.include, op |-> p.op, years |-> p.years,
   global |-> p.global, exclude |-> p.exclude, box |-> p.box, adv |-> p.adv]

AggKey(p) == [context |-> Context(p), field |-> p.field, facets |-> Selected(p)]
ValuesKey(p) == [context |-> Context(p), facet |-> CHOOSE f \in Selected(p) : TRUE]
=============================================================================
