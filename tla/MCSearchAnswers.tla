-------------------------- MODULE MCSearchAnswers --------------------------
(* Three documents, an index that changes twice, and questions that differ *)
(* in one respect each.                                                    *)
EXTENDS SearchAnswers

Doc(subjects, year, title, text, box) ==
  [subjects |-> subjects, year |-> year, global |-> box = <<-6, 6>>, box |-> box,
   words |-> [field \in {"title", "all_fields"} |-> IF field = "title" THEN title ELSE title \cup text]]

Plan == Doc({1}, 3, {"plan"}, {}, <<5, 6>>)
Atlas == Doc({1, 2}, 5, {"atlas"}, {"plan"}, <<-6, 6>>)
Chart == Doc({2}, 2, {"atlas", "chart"}, {"plan"}, <<-6, -4>>)

Changing ==
  <<[i \in Ids |-> IF i = 1 THEN Plan ELSE IF i = 2 THEN Atlas ELSE None],
    [i \in Ids |-> IF i = 1 THEN Plan ELSE IF i = 2 THEN Atlas ELSE Chart],
    Missing>>

All ==
  [kind |-> "search", q |-> None, field |-> "all_fields", fq |-> <<>>, include |-> <<>>,
   exclude |-> <<>>, op |-> "or", years |-> <<None, None>>, global |-> <<>>, box |-> None,
   adv |-> <<>>, facets |-> {"subject"}, page |-> 1, size |-> 2, sort |-> "count_desc"]

Either == [All EXCEPT !.include = <<1, 2>>]
Both == [Either EXCEPT !.op = "and"]
Second == [Either EXCEPT !.page = 2]
AcrossTheLine == [All EXCEPT !.box = [west |-> 4, east |-> -3, least |-> 50], !.facets = {},
                            !.exclude = <<1>>]
Around == [All EXCEPT !.box = [west |-> 16, east |-> 18, least |-> 50], !.q = "plan"]
Words == [All EXCEPT !.adv = <<[op |-> "AND", field |-> "title", word |-> "plan"],
                               [op |-> "OR", field |-> "title", word |-> "atlas"],
                               [op |-> "NOT", field |-> "title", word |-> "chart"]>>,
                     !.fq = <<1, 2>>]
Subjects == [All EXCEPT !.kind = "facet", !.q = "plan"]
Years == [Subjects EXCEPT !.facets = {"year"}, !.years = <<3, None>>, !.sort = "alpha_desc",
                          !.page = 2, !.size = 1]

TaskSymmetry == Permutations(Tasks)

\* Flags whose order matters in the query and not in the name of its answer.
Mixed == {<<[All EXCEPT !.global = <<TRUE, FALSE>>], [All EXCEPT !.global = <<FALSE, TRUE>>]>>}

\* A facet asked for with a query of blanks.
Blanks == {<<[Subjects EXCEPT !.q = Blank]>>}

\* A box around an extent that has no width.
Thin == <<[i \in Ids |-> IF i = 1 THEN [Plan EXCEPT !.box = <<5, 5>>] ELSE None]>>
Inside == {<<Around>>}

Some ==
  {<<Either, Second, Either>>, <<Both, Either>>, <<Words>>, <<AcrossTheLine>>, <<Around>>,
   <<Subjects, Years, Years>>}
=============================================================================
