------------------------ MODULE SearchIndexProofs ---------------------------
(***************************************************************************)
(* Proofs about SearchIndex, for any records, builders, refreshes, pages,  *)
(* rounds and bounds.  What depends on builds following one another names  *)
(* OneBuilder as its hypothesis.                                           *)
(***************************************************************************)
EXTENDS SearchIndex, FiniteSetTheorems, WellFoundedInduction, TLAPS

-----------------------------------------------------------------------------
(* Finite sets of naturals have a least and a largest element.              *)

\* A minimal set without a largest element would have one: what it is without any of its
\* elements has.
LEMMA HasMax ==
  ASSUME NEW S \in SUBSET Nat, IsFiniteSet(S), S # {}
  PROVE  /\ Max(S) \in S
         /\ \A y \in S : Max(S) >= y
<1> DEFINE Odd == {T \in FiniteSubsetsOf(S) : T # {} /\ \A x \in T : \E y \in T : ~(x >= y)}
<1>1. Odd = {}
  <2> SUFFICES ASSUME Odd # {} PROVE FALSE
    OBVIOUS
  <2>1. PICK T \in Odd : \A U \in Odd : <<U, T>> \notin StrictSubsetOrdering(S)
    <3>1. IsWellFoundedOn(StrictSubsetOrdering(S), FiniteSubsetsOf(S))
      BY FS_StrictSubsetOrderingWellFounded
    <3>2. Odd \subseteq FiniteSubsetsOf(S)
      OBVIOUS
    <3> HIDE DEF Odd
    <3> QED
      BY <3>1, <3>2, WFMin
  <2>2. T \subseteq S /\ IsFiniteSet(T)
    BY DEF FiniteSubsetsOf
  <2>3. PICK x \in T : TRUE
    OBVIOUS
  <2> DEFINE U == T \ {x}
  <2>4. IsFiniteSet(U) /\ U \subseteq S
    BY <2>2, FS_Subset
  <2>5. U \notin Odd
    BY <2>1, <2>2, <2>4 DEF StrictSubsetOrdering, FiniteSubsetsOf
  <2>6. U = {} \/ \E m \in U : \A y \in U : m >= y
    BY <2>4, <2>5 DEF FiniteSubsetsOf
  <2>7. CASE U = {}
    BY <2>2, <2>3, <2>7
  <2>8. CASE \E m \in U : \A y \in U : m >= y
    <3>1. PICK m \in U : \A y \in U : m >= y
      BY <2>8
    <3>2. m \in Nat /\ x \in Nat /\ T \subseteq Nat
      BY <2>2, <2>3
    <3>3. \A y \in T : x >= y \/ m >= y
      BY <3>1, <3>2
    <3>4. (\A y \in T : x >= y) \/ (\A y \in T : m >= y)
      BY <3>1, <3>2
    <3> QED
      BY <2>3, <3>4
  <2> QED
    BY <2>6, <2>7, <2>8
<1>2. S \in FiniteSubsetsOf(S)
  BY DEF FiniteSubsetsOf
<1>3. \E x \in S : \A y \in S : x >= y
  BY <1>1, <1>2
<1> QED
  BY <1>3 DEF Max

\* The least element is the distance of the largest distance from an upper bound.
LEMMA HasMin ==
  ASSUME NEW S \in SUBSET Nat, IsFiniteSet(S), S # {}
  PROVE  /\ Min(S) \in S
         /\ \A y \in S : Min(S) =< y
<1> DEFINE top == Max(S)
           D == {top - y : y \in S}
<1>1. top \in S /\ \A y \in S : top >= y
  BY HasMax
<1>2. top \in Nat /\ D \subseteq 0 .. top /\ D # {}
  <2>1. top \in Nat
    BY <1>1
  <2>2. \A y \in S : y \in Nat /\ y =< top
    BY <1>1, <2>1
  <2> HIDE DEF top
  <2>3. \A y \in S : top - y \in 0 .. top
    BY <2>1, <2>2
  <2>4. D \subseteq 0 .. top
    BY <2>3
  <2>5. D # {}
    OBVIOUS
  <2> QED
    BY <2>1, <2>4, <2>5
<1>3. IsFiniteSet(D) /\ D \in SUBSET Nat
  <2>1. IsFiniteSet(0 .. top)
    BY <1>2, FS_Interval
  <2>2. D \in SUBSET (0 .. top) /\ 0 .. top \subseteq Nat
    BY <1>2
  <2> HIDE DEF top, D
  <2>3. IsFiniteSet(D)
    BY <2>1, <2>2, FS_Subset
  <2> QED
    BY <2>2, <2>3
<1>4. Max(D) \in D /\ \A d \in D : Max(D) >= d
  BY <1>2, <1>3, HasMax
<1>5. PICK x \in S : Max(D) = top - x
  BY <1>4
<1>6. \A y \in S : x =< y
  <2> TAKE y \in S
  <2>1. top - x >= top - y
    BY <1>4, <1>5
  <2>2. x \in Nat /\ y \in Nat
    OBVIOUS
  <2> HIDE DEF top
  <2> QED
    BY <1>2, <2>1, <2>2
<1> QED
  BY <1>6 DEF Min

-----------------------------------------------------------------------------
(* The operators of the model.                                              *)

LEMMA NoDocsType == NoDocs \in Docs /\ 0 \in Versions /\ 0 \in Indices
BY IndexAssumption DEF NoDocs, Docs, Versions, Indices

LEMMA FiniteIds ==
  ASSUME NEW S \in SUBSET Ids
  PROVE  S \in SUBSET Nat /\ IsFiniteSet(S) /\ Cardinality(S) \in 0 .. Cardinality(Ids)
<1>1. S \in SUBSET Nat /\ IsFiniteSet(Ids)
  BY IndexAssumption
<1>2. IsFiniteSet(S) /\ Cardinality(S) =< Cardinality(Ids)
  BY <1>1, FS_Subset
<1>3. Cardinality(S) \in Nat /\ Cardinality(Ids) \in Nat
  BY <1>1, <1>2, FS_CardinalityType
<1> QED
  BY <1>1, <1>2, <1>3

\* A page holds rows of S after the last id, and all of them up to the id it ends with; it is
\* empty only at the end.
LEMMA Page ==
  ASSUME row \in Docs, NEW last \in Ids \cup {0}, NEW S \in SUBSET Ids, \A r \in S : row[r] # 0,
         NEW c, c = Chunk(last, S), NEW next, next = After(last, c)
  PROVE  /\ c \in Docs /\ next \in Ids \cup {0} /\ next >= last
         /\ \A r \in Members(c) : r \in S /\ r > last /\ r =< next /\ c[r] = row[r]
         /\ \A r \in S : r > last /\ r =< next => r \in Members(c)
         /\ Members(c) = {} => \A r \in S : r =< last
<1> DEFINE rest == {r \in S : r > last}
           upto(r) == {s \in rest : s =< r}
           page == {r \in rest : Cardinality(upto(r)) =< ChunkSize}
<1>0. Ids \subseteq Nat /\ 0 \notin Ids /\ ChunkSize \in Nat /\ ChunkSize >= 1
  BY IndexAssumption
<1>1. c = [r \in Ids |-> IF r \in page THEN row[r] ELSE 0]
  BY DEF Chunk
<1>2. page \subseteq S /\ page \subseteq Ids /\ page \subseteq Nat /\ last \in Nat
  <2>1. page \subseteq S /\ S \subseteq Ids
    OBVIOUS
  <2> HIDE DEF page
  <2> QED
    BY <1>0, <2>1
<1>3. c \in Docs
  BY <1>1, NoDocsType DEF Docs
<1>4. Members(c) = page /\ \A r \in page : c[r] = row[r]
  <2> HIDE DEF page
  <2> QED
    BY <1>1, <1>2 DEF Members
<1>5. IsFiniteSet(page)
  BY <1>2, FiniteIds
<1>6. CASE page = {}
  <2>1. next = last
    BY <1>4, <1>6 DEF After
  <2>2. rest = {}
    <3> SUFFICES ASSUME rest # {} PROVE FALSE
      OBVIOUS
    <3>1. rest \in SUBSET Nat /\ IsFiniteSet(rest)
      BY FiniteIds
    <3>2. Min(rest) \in rest /\ \A y \in rest : Min(rest) =< y
      BY <3>1, HasMin
    <3>3. upto(Min(rest)) = {Min(rest)}
      BY <3>1, <3>2
    <3>4. Cardinality(upto(Min(rest))) = 1
      BY <3>3, FS_Singleton
    <3> QED
      BY <1>0, <1>6, <3>2, <3>4
  <2>3. \A r \in S : r =< last
    BY <1>2, <2>2
  <2> HIDE DEF page, rest
  <2> QED
    BY <1>2, <1>3, <1>4, <1>6, <2>1, <2>3
<1>7. CASE page # {}
  <2>1. next = Max(page)
    BY <1>4, <1>7 DEF After
  <2>2. Max(page) \in page /\ \A y \in page : Max(page) >= y
    BY <1>2, <1>5, <1>7, HasMax
  <2>3. next \in page /\ \A y \in page : y =< next
    BY <1>2, <2>1, <2>2
  <2>4. next \in Ids /\ next > last /\ next \in Nat
    BY <1>2, <2>3
  <2>5. ASSUME NEW r \in S, r > last, r =< next PROVE r \in page
    <3>0. r \in Nat
      BY <1>0
    <3>1. upto(r) \subseteq upto(next)
      <4>1. \A s \in rest : s \in Nat /\ (s =< r => s =< next)
        BY <1>0, <2>4, <2>5, <3>0
      <4> HIDE DEF rest
      <4> QED
        BY <4>1
    <3>2. IsFiniteSet(upto(next)) /\ Cardinality(upto(next)) \in Nat
      BY FiniteIds
    <3>3. Cardinality(upto(r)) =< Cardinality(upto(next))
      BY <3>1, <3>2, FS_Subset
    <3>4. Cardinality(upto(r)) \in Nat
      BY FiniteIds
    <3>5. Cardinality(upto(next)) =< ChunkSize
      BY <2>3
    <3> QED
      BY <1>0, <2>5, <3>2, <3>3, <3>4, <3>5
  <2>6. \A r \in page : r > last /\ r \in S /\ r \in Nat
    BY <1>2
  <2>7. next >= last /\ next \in Ids \cup {0}
    BY <1>2, <2>4
  <2> HIDE DEF page, rest
  <2> QED
    BY <1>3, <1>4, <1>7, <2>3, <2>5, <2>6, <2>7
<1> QED
  BY <1>6, <1>7

-----------------------------------------------------------------------------
(* Types, and what holds of the indices whoever is at work.                 *)

Builds == [pc : BuildSteps, index : Indices, last : Ids \cup {0}, chunk : Docs,
           total : 0 .. Cardinality(Ids), failed : BOOLEAN,
           targets : SUBSET Indices, legacy : BOOLEAN, since : Docs]
Refreshes == [pc : {"idle", "read", "write"}, ids : SUBSET Ids, todo : SUBSET Ids, read : Docs]
Rebuilds == [pc : RebuildSteps, kind : {"none"} \cup Kinds, last : Ids \cup {0}, chunk : Docs,
             round : 0 .. VerifyRounds]
IndexStates == [state : {"none", "mapped", "bare"}, docs : Docs]

\* Versions grow with the changes.
RowsOK ==
  /\ row \in Docs /\ withheld \subseteq Ids /\ changes \in 0 .. MaxChanges
  /\ \A r \in Ids : row[r] =< changes + 1

\* What has the alias exists, and no index bears its name as well; what does not exist holds
\* nothing; indices exist only up to the number of builds.
IndicesFit(ix, names, n) ==
  /\ ix \in [Indices -> IndexStates] /\ n \in 0 .. MaxBuilds
  /\ names \subseteq Indices \ {0} /\ \A i \in names : ix[i].state # "none"
  /\ names # {} => ix[0].state = "none"
  /\ \A i \in Indices : /\ ix[i].state = "none" => ix[i].docs = NoDocs
                        /\ ix[i].state # "none" => i =< n
IndicesOK == IndicesFit(index, alias, used.builds)

BuildsOK ==
  /\ build \in [Builders -> Builds]
  /\ \A b \in Builders : build[b].pc # "idle" => build[b].index \in 1 .. used.builds
DeltasOK == delta \in [Deltas -> Refreshes]
RebuildOK == rebuild \in Rebuilds
CountsOK ==
  /\ used \in [builds : 0 .. MaxBuilds, refreshes : 0 .. MaxRefreshes, rebuilds : 0 .. MaxRebuilds]
  /\ faults \in 0 .. MaxFaults /\ calm \in BOOLEAN

IndexInv == RowsOK /\ IndicesOK /\ BuildsOK /\ DeltasOK /\ RebuildOK /\ CountsOK

LEMMA InvTypes == IndexInv => TypeOK
<1> SUFFICES ASSUME IndexInv PROVE TypeOK
  OBVIOUS
<1>1. alias \subseteq Indices \ {0} /\ index \in [Indices -> IndexStates]
  BY DEF IndexInv, IndicesOK, IndicesFit
<1> QED
  BY <1>1 DEF IndexInv, RowsOK, BuildsOK, DeltasOK, RebuildOK, CountsOK, TypeOK, IndexStates, Builds,
     Refreshes, Rebuilds

LEMMA Blank ==
  /\ NoBuild \in Builds /\ NoDelta \in Refreshes /\ NoRebuild \in Rebuilds
  /\ NoIndex \in IndexStates /\ NewIndex \in IndexStates
  /\ NoIndex.state = "none" /\ NoIndex.docs = NoDocs
  /\ NewIndex.state = "mapped" /\ NewIndex.docs = NoDocs
  /\ NoBuild.pc = "idle" /\ NoDelta.pc = "idle" /\ NoRebuild.pc = "idle"
<1>1. 0 \in 0 .. Cardinality(Ids)
  <2>1. Cardinality({}) = 0
    BY FS_EmptySet
  <2> QED
    BY <2>1, FiniteIds
<1>2. 0 \in 0 .. VerifyRounds
  BY IndexAssumption
<1> QED
  BY <1>1, <1>2, NoDocsType DEF NoBuild, NoDelta, NoRebuild, NoIndex, NewIndex, Builds, Refreshes,
     Rebuilds, IndexStates, BuildSteps, RebuildSteps

LEMMA PublishedRows == Published \in SUBSET Ids /\ \A r \in Published : row[r] # 0
BY DEF Published

\* The one index that is written under the name of the alias.
Target == CHOOSE i \in Indices : i \in (IF alias = {} THEN {0} ELSE alias)

LEMMA TargetIs ==
  ASSUME IndicesOK
  PROVE  /\ Target \in Indices
         /\ alias = {} => Target = 0
         /\ alias # {} => Target \in alias
<1>1. alias \subseteq Indices /\ 0 \in Indices
  BY NoDocsType DEF IndicesOK, IndicesFit
<1>2. \E i \in Indices : i \in (IF alias = {} THEN {0} ELSE alias)
  BY <1>1
<1>3. Target \in Indices /\ Target \in (IF alias = {} THEN {0} ELSE alias)
  BY <1>2 DEF Target
<1> QED
  BY <1>3

LEMMA WrittenIs ==
  ASSUME index \in [Indices -> IndexStates], NEW i \in Indices, NEW S \in SUBSET Ids,
         NEW docs \in [S -> Versions], NEW ix, ix = Written(i, docs)
  PROVE  /\ ix \in [Indices -> IndexStates]
         /\ \A j \in Indices \ {i} : ix[j] = index[j]
         /\ ix[i].state # "none"
         /\ index[i].state # "none" => ix[i].state = index[i].state
         /\ \A r \in S : ix[i].docs[r] = docs[r]
         /\ \A r \in Ids \ S : ix[i].docs[r] = index[i].docs[r]
<1> DEFINE st == IF index[i].state = "none" THEN "bare" ELSE index[i].state
           ds == [r \in Ids |-> IF r \in DOMAIN docs THEN docs[r] ELSE index[i].docs[r]]
<1>1. ix = [index EXCEPT ![i] = [state |-> st, docs |-> ds]]
  BY DEF Written
<1>2. index[i] \in IndexStates
  OBVIOUS
<1>3. st \in {"mapped", "bare"} /\ (index[i].state # "none" => st = index[i].state)
  <2>1. index[i].state \in {"none", "mapped", "bare"}
    BY <1>2 DEF IndexStates
  <2> QED
    BY <2>1
<1>4. ds \in Docs /\ \A r \in Ids : ds[r] = IF r \in S THEN docs[r] ELSE index[i].docs[r]
  <2>1. DOMAIN docs = S /\ \A r \in S : docs[r] \in Versions
    OBVIOUS
  <2>2. index[i].docs \in [Ids -> Versions]
    BY <1>2 DEF IndexStates, Docs
  <2> QED
    BY <2>1, <2>2 DEF Docs
<1> HIDE DEF st, ds
<1>9. ix = [index EXCEPT ![i] = [state |-> st, docs |-> ds]]
  BY <1>1
<1>5. ix[i] = [state |-> st, docs |-> ds] /\ \A j \in Indices \ {i} : ix[j] = index[j]
  BY <1>1
<1>6. [state |-> st, docs |-> ds] \in IndexStates
  BY <1>3, <1>4 DEF IndexStates
<1>7. ix \in [Indices -> IndexStates]
  BY <1>1, <1>6
<1> QED
  BY <1>3, <1>4, <1>5, <1>7

LEMMA WriteFits ==
  ASSUME IndicesOK, NEW i \in Indices, (i = 0 /\ alias = {}) \/ i \in alias \/ i \in 1 .. used.builds,
         NEW S \in SUBSET Ids, NEW docs \in [S -> Versions], index' = Written(i, docs),
         UNCHANGED <<alias, used>>
  PROVE  IndicesOK'
<1>0. index \in [Indices -> IndexStates]
  BY DEF IndicesOK, IndicesFit
<1>1. /\ index' \in [Indices -> IndexStates]
      /\ \A j \in Indices \ {i} : index'[j] = index[j]
      /\ index'[i].state # "none"
  BY <1>0, WrittenIs
<1>2. alias # {} => i # 0
  BY DEF IndicesOK, IndicesFit
<1>3. i =< used.builds
  <2>1. used.builds \in Nat
    BY IndexAssumption DEF IndicesOK, IndicesFit
  <2>2. i \in alias => i =< used.builds
    BY DEF IndicesOK, IndicesFit
  <2> QED
    BY <2>1, <2>2
<1>4. 0 \in Indices /\ alias \subseteq Indices
  BY NoDocsType DEF IndicesOK, IndicesFit
<1>5. IndicesFit(index', alias, used.builds)
  BY <1>1, <1>2, <1>3, <1>4 DEF IndicesOK, IndicesFit
<1> QED
  BY <1>5 DEF IndicesOK

\* Under the name of the alias: one index is written, or none if several bear it.
LEMMA LiveWrite ==
  ASSUME IndicesOK, NEW r \in Ids, NEW v \in Versions, index' = WrittenLive(r, v),
         UNCHANGED <<alias, used>>
  PROVE  /\ IndicesOK'
         /\ \A j \in Indices \ {Target} : index'[j] = index[j]
         /\ Cardinality(alias) =< 1 =>
              /\ index'[Target].docs[r] = v
              /\ \A x \in Ids \ {r} : index'[Target].docs[x] = index[Target].docs[x]
<1>1. CASE Cardinality(alias) > 1
  <2>1. index' = index
    BY <1>1 DEF WrittenLive
  <2>2. ~(Cardinality(alias) =< 1)
    <3>1. IsFiniteSet(alias)
      <4>1. alias \in SUBSET (0 .. MaxBuilds)
        BY DEF IndicesOK, IndicesFit, Indices
      <4>2. IsFiniteSet(0 .. MaxBuilds)
        BY IndexAssumption, FS_Interval
      <4> QED
        BY <4>1, <4>2, FS_Subset
    <3>2. Cardinality(alias) \in Nat
      BY <3>1, FS_CardinalityType
    <3> QED
      BY <1>1, <3>2
  <2> QED
    BY <2>1, <2>2 DEF IndicesOK, IndicesFit
<1>2. CASE ~(Cardinality(alias) > 1)
  <2> DEFINE docs == [x \in {r} |-> v]
  <2>1. index' = Written(Target, docs)
    BY <1>2 DEF WrittenLive, Target
  <2>2. docs \in [{r} -> Versions] /\ {r} \in SUBSET Ids /\ docs[r] = v
    OBVIOUS
  <2> HIDE DEF docs
  <2>3. Target \in Indices /\ ((Target = 0 /\ alias = {}) \/ Target \in alias)
    BY TargetIs
  <2>4. index \in [Indices -> IndexStates]
    BY DEF IndicesOK, IndicesFit
  <2>5. /\ \A j \in Indices \ {Target} : index'[j] = index[j]
        /\ index'[Target].docs[r] = v
        /\ \A x \in Ids \ {r} : index'[Target].docs[x] = index[Target].docs[x]
    BY <2>1, <2>2, <2>3, <2>4, WrittenIs, SMTT(30)
  <2>6. IndicesOK'
    BY <2>1, <2>2, <2>3, WriteFits
  <2> QED
    BY <2>5, <2>6
<1> QED
  BY <1>1, <1>2

-----------------------------------------------------------------------------
(* The steps of a build, field by field.                                    *)

OnlyBuild(b) ==
  /\ build' = [c \in Builders |-> build'[c]] /\ build'[b] \in Builds
  /\ \A c \in Builders \ {b} : build'[c] = build[c]
SameIdentity(b) ==
  /\ build'[b].index = build[b].index /\ build'[b].total = build[b].total
  /\ build'[b].since = build[b].since

LEMMA BuildBecomes ==
  ASSUME IndexInv, NEW b \in Builders, NEW B \in Builds, build' = [build EXCEPT ![b] = B]
  PROVE  OnlyBuild(b) /\ build'[b] = B
BY DEF IndexInv, BuildsOK, OnlyBuild

LEMMA StartBuildIs ==
  ASSUME IndexInv, NEW b \in Builders, StartBuild(b)
  PROVE  /\ OnlyBuild(b)
         /\ build'[b].pc = "read" /\ build'[b].index = used.builds + 1 /\ build'[b].last = 0
         /\ build'[b].chunk = NoDocs /\ build'[b].total = Cardinality(Published)
         /\ ~build'[b].failed
         /\ build'[b].since = [r \in Ids |-> IF r \in Published THEN row[r] ELSE 0]
         /\ used.builds + 1 \in Indices \ {0}
<1> DEFINE B == [pc |-> "read", index |-> used.builds + 1, last |-> 0, chunk |-> NoDocs,
                 total |-> Cardinality(Published), failed |-> FALSE, targets |-> {}, legacy |-> FALSE,
                 since |-> [r \in Ids |-> IF r \in Published THEN row[r] ELSE 0]]
<1>1. build' = [build EXCEPT ![b] = B]
  BY DEF StartBuild
<1>2. used.builds + 1 \in Indices \ {0}
  BY IndexAssumption DEF StartBuild, IndexInv, CountsOK, Indices
<1>3. Cardinality(Published) \in 0 .. Cardinality(Ids)
  BY PublishedRows, FiniteIds
<1>4. [r \in Ids |-> IF r \in Published THEN row[r] ELSE 0] \in Docs
  BY NoDocsType DEF Docs, IndexInv, RowsOK
<1>5. B \in Builds
  BY <1>2, <1>3, <1>4, NoDocsType DEF Builds, BuildSteps
<1> HIDE DEF B
<1>6. OnlyBuild(b) /\ build'[b] = B
  BY <1>1, <1>5, BuildBecomes
<1> QED
  BY <1>2, <1>6 DEF B

LEMMA ReadChunkIs ==
  ASSUME IndexInv, NEW b \in Builders, ReadChunk(b),
         NEW c, c = Chunk(build[b].last, Published), NEW next, next = After(build[b].last, c)
  PROVE  /\ OnlyBuild(b) /\ SameIdentity(b)
         /\ build'[b].pc = IF Members(c) = {} THEN "check" ELSE "write"
         /\ build'[b].last = next /\ build'[b].chunk = c /\ build'[b].failed = build[b].failed
<1> DEFINE p == IF Members(c) = {} THEN "check" ELSE "write"
           B == [build[b] EXCEPT !.chunk = c, !.last = next, !.pc = p]
<1>1. build \in [Builders -> Builds]
  BY DEF IndexInv, BuildsOK
<1>2. c \in Docs /\ next \in Ids \cup {0}
  <2>1. build[b].last \in Ids \cup {0}
    BY <1>1 DEF Builds
  <2>2. row \in Docs
    BY DEF IndexInv, RowsOK
  <2> QED
    BY <2>1, <2>2, PublishedRows, Page
<1>3. p \in BuildSteps
  BY DEF BuildSteps
<1>4. build' = [build EXCEPT ![b].chunk = c, ![b].last = next, ![b].pc = p]
  BY DEF ReadChunk
<1> HIDE DEF p
<1>5. build' = [build EXCEPT ![b] = B]
  BY <1>1, <1>4
<1>6. /\ B \in Builds /\ B.pc = p /\ B.last = next /\ B.chunk = c
      /\ B.index = build[b].index /\ B.total = build[b].total
      /\ B.since = build[b].since /\ B.failed = build[b].failed
  <2>1. build[b] \in Builds
    BY <1>1
  <2> QED
    BY <1>2, <1>3, <2>1 DEF Builds
<1> HIDE DEF B
<1>7. OnlyBuild(b) /\ build'[b] = B
  BY <1>5, <1>6, BuildBecomes
<1> QED
  BY <1>6, <1>7 DEF SameIdentity, p

LEMMA BulkWriteIs ==
  ASSUME IndexInv, NEW b \in Builders, BulkWrite(b)
  PROVE  /\ OnlyBuild(b) /\ SameIdentity(b)
         /\ build'[b].pc = "read" /\ build'[b].last = build[b].last /\ build'[b].chunk = NoDocs
         /\ \E S \in SUBSET Members(build[b].chunk) :
              /\ build'[b].failed = (build[b].failed \/ S # Members(build[b].chunk))
              /\ IF S = Members(build[b].chunk) THEN Fine ELSE Fault
              /\ index' = IF S = {} THEN index
                          ELSE Written(build[b].index, [r \in S |-> build[b].chunk[r]])
<1>1. build \in [Builders -> Builds]
  BY DEF IndexInv, BuildsOK
<1>2. PICK S \in SUBSET Members(build[b].chunk) :
         /\ IF S = Members(build[b].chunk) THEN Fine ELSE Fault
         /\ index' = IF S = {} THEN index
                     ELSE Written(build[b].index, [r \in S |-> build[b].chunk[r]])
         /\ build' = [build EXCEPT ![b].chunk = NoDocs, ![b].pc = "read",
                                   ![b].failed = @ \/ S # Members(build[b].chunk)]
  BY DEF BulkWrite
<1> DEFINE f == build[b].failed \/ S # Members(build[b].chunk)
<1>3. build' = [build EXCEPT ![b].chunk = NoDocs, ![b].pc = "read", ![b].failed = f]
  BY <1>2
<1>4. f \in BOOLEAN
  OBVIOUS
<1> HIDE DEF f
<1> DEFINE B == [build[b] EXCEPT !.chunk = NoDocs, !.pc = "read", !.failed = f]
<1>5. build' = [build EXCEPT ![b] = B]
  BY <1>1, <1>3
<1>6. /\ B \in Builds /\ B.pc = "read" /\ B.last = build[b].last /\ B.chunk = NoDocs
      /\ B.index = build[b].index /\ B.total = build[b].total
      /\ B.since = build[b].since /\ B.failed = f
  <2>1. build[b] \in Builds
    BY <1>1
  <2> QED
    BY <1>4, <2>1, NoDocsType DEF Builds, BuildSteps
<1> HIDE DEF B
<1>7. OnlyBuild(b) /\ build'[b] = B
  BY <1>5, <1>6, BuildBecomes
<1>8. build'[b].failed = (build[b].failed \/ S # Members(build[b].chunk))
  BY <1>6, <1>7 DEF f
<1>9. OnlyBuild(b) /\ SameIdentity(b) /\ build'[b].pc = "read" /\ build'[b].last = build[b].last
      /\ build'[b].chunk = NoDocs
  BY <1>6, <1>7 DEF SameIdentity
<1> QED
  BY <1>2, <1>8, <1>9

LEMMA CheckBuildIs ==
  ASSUME IndexInv, NEW b \in Builders, CheckBuild(b)
  PROVE  /\ OnlyBuild(b)
         /\ IF index[build[b].index].state # "none" /\ Verified(b)
            THEN build'[b].pc = "targets" /\ SameIdentity(b) /\ build'[b].failed = build[b].failed
            ELSE build'[b] = NoBuild
<1>1. build \in [Builders -> Builds]
  BY DEF IndexInv, BuildsOK
<1> DEFINE B == [build[b] EXCEPT !.pc = "targets"]
<1>2. B \in Builds
  BY <1>1 DEF Builds, BuildSteps
<1>3. B.pc = "targets" /\ B.index = build[b].index /\ B.total = build[b].total
      /\ B.since = build[b].since /\ B.failed = build[b].failed
  BY <1>1 DEF Builds
<1>4. CASE index[build[b].index].state # "none" /\ Verified(b)
  <2>1. build' = [build EXCEPT ![b] = B]
    BY <1>4 DEF CheckBuild
  <2> HIDE DEF B
  <2>2. OnlyBuild(b) /\ build'[b] = B
    BY <1>2, <2>1, BuildBecomes
  <2> QED
    BY <1>3, <1>4, <2>2 DEF SameIdentity
<1>5. CASE ~(index[build[b].index].state # "none" /\ Verified(b))
  <2>1. build' = [build EXCEPT ![b] = NoBuild]
    BY <1>5 DEF CheckBuild
  <2> QED
    BY <1>5, <2>1, Blank, BuildBecomes
<1> QED
  BY <1>4, <1>5

LEMMA ReadTargetsIs ==
  ASSUME IndexInv, NEW b \in Builders, ReadTargets(b)
  PROVE  /\ OnlyBuild(b) /\ SameIdentity(b)
         /\ build'[b].pc = "swap" /\ build'[b].failed = build[b].failed
         /\ build'[b].targets = alias
         /\ build'[b].legacy <=> alias = {} /\ index[0].state # "none"
<1>1. build \in [Builders -> Builds]
  BY DEF IndexInv, BuildsOK
<1> DEFINE l == alias = {} /\ index[0].state # "none"
<1>2. build' = [build EXCEPT ![b].pc = "swap", ![b].targets = alias, ![b].legacy = l]
  BY DEF ReadTargets
<1>3. l \in BOOLEAN /\ alias \in SUBSET Indices
  BY DEF IndexInv, IndicesOK, IndicesFit
<1> HIDE DEF l
<1> DEFINE B == [build[b] EXCEPT !.pc = "swap", !.targets = alias, !.legacy = l]
<1>4. build' = [build EXCEPT ![b] = B]
  BY <1>1, <1>2
<1>5. /\ B \in Builds /\ B.pc = "swap" /\ B.targets = alias /\ B.legacy = l
      /\ B.index = build[b].index /\ B.total = build[b].total
      /\ B.since = build[b].since /\ B.failed = build[b].failed
  <2>1. build[b] \in Builds
    BY <1>1
  <2> QED
    BY <1>3, <2>1 DEF Builds, BuildSteps
<1> HIDE DEF B
<1>6. OnlyBuild(b) /\ build'[b] = B
  BY <1>4, <1>5, BuildBecomes
<1>7. build'[b].legacy = l
  BY <1>5, <1>6
<1>8. build'[b].legacy <=> alias = {} /\ index[0].state # "none"
  BY <1>7 DEF l
<1> QED
  BY <1>5, <1>6, <1>8 DEF SameIdentity

LEMMA SwapIs ==
  ASSUME IndexInv, NEW b \in Builders, Swap(b)
  PROVE  /\ OnlyBuild(b)
         /\ \/ /\ CanSwap(b)
               /\ build'[b].pc = "prune" /\ SameIdentity(b) /\ build'[b].failed = build[b].failed
               /\ alias' = (alias \ build[b].targets) \cup {build[b].index}
               /\ index' = IF build[b].legacy THEN [index EXCEPT ![0] = NoIndex] ELSE index
            \/ /\ ~CanSwap(b) \/ ~(build[b].targets \subseteq alias)
               /\ build'[b] = NoBuild
               /\ UNCHANGED <<index, alias>>
<1>1. build \in [Builders -> Builds]
  BY DEF IndexInv, BuildsOK
<1> DEFINE B == [build[b] EXCEPT !.pc = "prune"]
<1>2. B \in Builds
  BY <1>1 DEF Builds, BuildSteps
<1>3. B.pc = "prune" /\ B.index = build[b].index /\ B.total = build[b].total
      /\ B.since = build[b].since /\ B.failed = build[b].failed
  BY <1>1 DEF Builds
<1>4. CASE CanSwap(b) /\ build' = [build EXCEPT ![b].pc = "prune"]
           /\ alias' = (alias \ build[b].targets) \cup {build[b].index}
           /\ index' = IF build[b].legacy THEN [index EXCEPT ![0] = NoIndex] ELSE index
  <2>1. build' = [build EXCEPT ![b] = B]
    BY <1>4
  <2> HIDE DEF B
  <2>2. OnlyBuild(b) /\ build'[b] = B
    BY <1>2, <2>1, BuildBecomes
  <2> QED
    BY <1>3, <1>4, <2>2 DEF SameIdentity
<1>5. CASE /\ ~CanSwap(b) \/ ~(build[b].targets \subseteq alias)
           /\ build' = [build EXCEPT ![b] = NoBuild]
           /\ UNCHANGED <<index, alias>>
  BY <1>5, Blank, BuildBecomes
<1> QED
  BY <1>4, <1>5 DEF Swap

LEMMA EndIs ==
  ASSUME IndexInv, NEW b \in Builders, Prune(b) \/ BuildDies(b)
  PROVE  OnlyBuild(b) /\ build'[b] = NoBuild
<1>1. build' = [build EXCEPT ![b] = NoBuild]
  BY DEF Prune, BuildDies
<1> QED
  BY <1>1, Blank, BuildBecomes

-----------------------------------------------------------------------------
(* Every step keeps the types and what holds of the indices.                *)

LEMMA InvInit == Init => IndexInv
<1> SUFFICES ASSUME Init PROVE IndexInv
  OBVIOUS
<1> USE IndexAssumption
<1>1. row \in Docs /\ \A r \in Ids : row[r] =< 0 + 1
  BY DEF Init, Docs, Versions
<1>2. RowsOK
  BY <1>1 DEF Init, RowsOK
<1>3. NoIndex \in IndexStates /\ [state |-> "mapped", docs |-> row] \in IndexStates
  BY <1>1, Blank DEF IndexStates
<1>4. index \in [Indices -> IndexStates] /\ \A i \in Indices \ {0} : index[i] = NoIndex
  BY <1>3 DEF Init
<1>5. index[0] = NoIndex \/ index[0].state = "mapped"
  BY NoDocsType DEF Init
<1>6. alias = {} /\ used.builds = 0
  BY DEF Init
<1>7. IndicesOK
  <2>1. ASSUME NEW i \in Indices
        PROVE  (index[i].state = "none" => index[i].docs = NoDocs) /\ (index[i].state # "none" => i =< 0)
    BY <1>4, <1>5, Blank DEF Indices
  <2> QED
    BY <1>4, <1>6, <2>1 DEF IndicesOK, IndicesFit
<1>8. BuildsOK
  BY Blank DEF Init, BuildsOK
<1>9. DeltasOK /\ RebuildOK
  BY Blank DEF Init, DeltasOK, RebuildOK
<1>10. CountsOK
  <2>1. used \in [builds : 0 .. MaxBuilds, refreshes : 0 .. MaxRefreshes, rebuilds : 0 .. MaxRebuilds]
    BY DEF Init
  <2>2. faults \in 0 .. MaxFaults /\ calm \in BOOLEAN
    BY 0 \in 0 .. MaxFaults DEF Init
  <2> QED
    BY <2>1, <2>2 DEF CountsOK
<1> QED
  BY <1>2, <1>7, <1>8, <1>9, <1>10 DEF IndexInv

\* What a step leaves alone keeps its part of the invariant.
LEMMA Untouched ==
  ASSUME IndexInv
  PROVE  /\ UNCHANGED <<row, withheld, changes>> => RowsOK'
         /\ UNCHANGED <<index, alias, used>> => IndicesOK'
         /\ UNCHANGED <<build, used>> => BuildsOK'
         /\ UNCHANGED delta => DeltasOK'
         /\ UNCHANGED rebuild => RebuildOK'
         /\ Fine /\ UNCHANGED used => CountsOK'
         /\ Fault /\ UNCHANGED used => CountsOK'
<1>1. UNCHANGED <<row, withheld, changes>> => RowsOK'
  BY DEF IndexInv, RowsOK
<1>2. UNCHANGED <<index, alias, used>> => IndicesOK'
  BY DEF IndexInv, IndicesOK
<1>3. UNCHANGED <<build, used>> => BuildsOK'
  BY DEF IndexInv, BuildsOK
<1>4. (UNCHANGED delta => DeltasOK') /\ (UNCHANGED rebuild => RebuildOK')
  BY DEF IndexInv, DeltasOK, RebuildOK
<1>5. Fine /\ UNCHANGED used => CountsOK'
  BY DEF IndexInv, CountsOK, Fine
<1>6. Fault /\ UNCHANGED used => CountsOK'
  <2> SUFFICES ASSUME Fault, UNCHANGED used PROVE CountsOK'
    OBVIOUS
  <2>1. faults' \in 0 .. MaxFaults /\ calm' = FALSE
    BY IndexAssumption DEF IndexInv, CountsOK, Fault
  <2> QED
    BY <2>1 DEF IndexInv, CountsOK
<1> QED
  BY <1>1, <1>2, <1>3, <1>4, <1>5, <1>6

\* A build goes on or ends.
LEMMA OneBuildChanged ==
  ASSUME IndexInv, NEW b \in Builders, OnlyBuild(b), UNCHANGED used,
         build'[b].pc # "idle" => build'[b].index \in 1 .. used.builds
  PROVE  BuildsOK'
<1>1. build' \in [Builders -> Builds]
  <2>1. \A c \in Builders : build'[c] \in Builds
    BY DEF OnlyBuild, IndexInv, BuildsOK
  <2> QED
    BY <2>1 DEF OnlyBuild
<1>2. ASSUME NEW c \in Builders, build'[c].pc # "idle" PROVE build'[c].index \in 1 .. used.builds
  BY <1>2 DEF OnlyBuild, IndexInv, BuildsOK
<1> QED
  BY <1>1, <1>2 DEF BuildsOK

LEMMA BuildGoesOn ==
  ASSUME IndexInv, NEW b \in Builders, OnlyBuild(b), UNCHANGED used, build[b].pc # "idle", SameIdentity(b)
  PROVE  BuildsOK'
<1>1. build'[b].index \in 1 .. used.builds
  BY DEF IndexInv, BuildsOK, SameIdentity
<1> QED
  BY <1>1, OneBuildChanged

LEMMA BuildEnds ==
  ASSUME IndexInv, NEW b \in Builders, OnlyBuild(b), UNCHANGED used, build'[b] = NoBuild
  PROVE  BuildsOK'
<1>1. build'[b].pc = "idle"
  BY Blank
<1> QED
  BY <1>1, OneBuildChanged

LEMMA BuilderKeeps ==
  ASSUME IndexInv, NEW b \in Builders, Builder(b)
  PROVE  IndexInv'
<1> USE IndexAssumption
<1>1. CASE StartBuild(b)
  <2>1. RowsOK' /\ DeltasOK' /\ RebuildOK'
    BY <1>1, Untouched DEF StartBuild
  <2>2. used' = [used EXCEPT !.builds = used.builds + 1] /\ used.builds + 1 \in Indices \ {0}
        /\ used.builds + 1 \in 0 .. MaxBuilds /\ used.builds \in Nat
        /\ index' = [index EXCEPT ![used.builds + 1] = NewIndex] /\ alias' = alias
    BY <1>1, StartBuildIs DEF StartBuild, IndexInv, CountsOK, Indices
  <2>3. used'.builds = used.builds + 1 /\ used' \in [builds : 0 .. MaxBuilds, refreshes : 0 .. MaxRefreshes, rebuilds : 0 .. MaxRebuilds]
    BY <2>2 DEF IndexInv, CountsOK
  <2>4. CountsOK'
    BY <1>1, <2>3 DEF StartBuild, IndexInv, CountsOK, AllIdle
  <2>5. BuildsOK'
    <3>1. OnlyBuild(b) /\ build'[b].index = used.builds + 1
      BY <1>1, StartBuildIs
    <3>2. \A c \in Builders : build'[c] \in Builds
      BY <3>1 DEF OnlyBuild, IndexInv, BuildsOK
    <3>3. build' \in [Builders -> Builds]
      BY <3>1, <3>2 DEF OnlyBuild
    <3>4. ASSUME NEW c \in Builders, build'[c].pc # "idle" PROVE build'[c].index \in 1 .. used'.builds
      BY <2>2, <2>3, <3>1, <3>4 DEF OnlyBuild, IndexInv, BuildsOK
    <3> QED
      BY <3>3, <3>4 DEF BuildsOK
  <2>6. IndicesOK'
    <3>1. IndicesFit(index, alias, used.builds)
      BY DEF IndexInv, IndicesOK
    <3>2. IndicesFit(index', alias, used.builds + 1)
      BY <2>2, <3>1, SMTT(30), Blank, NoDocsType DEF IndicesFit, Indices
    <3> QED
      BY <2>2, <2>3, <3>2 DEF IndicesOK
  <2> QED
    BY <2>1, <2>4, <2>5, <2>6 DEF IndexInv
<1>2. CASE ReadChunk(b)
  <2>1. OnlyBuild(b) /\ SameIdentity(b)
    BY <1>2, ReadChunkIs
  <2>2. BuildsOK'
    BY <1>2, <2>1, BuildGoesOn DEF ReadChunk
  <2> QED
    BY <1>2, <2>2, Untouched DEF ReadChunk, IndexInv
<1>3. CASE BulkWrite(b)
  <2>1. OnlyBuild(b) /\ SameIdentity(b)
    BY <1>3, BulkWriteIs
  <2>2. BuildsOK'
    BY <1>3, <2>1, BuildGoesOn DEF BulkWrite
  <2>3. PICK S \in SUBSET Members(build[b].chunk) :
              /\ IF S = Members(build[b].chunk) THEN Fine ELSE Fault
              /\ index' = IF S = {} THEN index
                          ELSE Written(build[b].index, [r \in S |-> build[b].chunk[r]])
    BY <1>3, BulkWriteIs
  <2>4. IndicesOK'
    <3>1. build[b] \in Builds /\ build[b].index \in 1 .. used.builds
      BY <1>3 DEF BulkWrite, IndexInv, BuildsOK
    <3>2. build[b].index \in Indices /\ build[b].chunk \in Docs
      BY <3>1 DEF Builds
    <3>3. S \in SUBSET Ids /\ [r \in S |-> build[b].chunk[r]] \in [S -> Versions]
      BY <3>2 DEF Members, Docs
    <3>4. CASE S = {}
      BY <1>3, <2>3, <3>4, Untouched DEF BulkWrite
    <3>5. CASE S # {}
      <4>1. index' = Written(build[b].index, [r \in S |-> build[b].chunk[r]])
        BY <2>3, <3>5
      <4> QED
        BY <1>3, <3>1, <3>2, <3>3, <4>1, WriteFits DEF BulkWrite, IndexInv
    <3> QED
      BY <3>4, <3>5
  <2>5. Fine \/ Fault
    BY <2>3
  <2> QED
    BY <1>3, <2>2, <2>4, <2>5, Untouched DEF BulkWrite, IndexInv
<1>4. CASE CheckBuild(b)
  <2>1. OnlyBuild(b) /\ (build'[b] = NoBuild \/ SameIdentity(b))
    BY <1>4, CheckBuildIs
  <2>2. BuildsOK'
    <3>1. UNCHANGED used /\ build[b].pc # "idle"
      BY <1>4 DEF CheckBuild
    <3> QED
      BY <2>1, <3>1, BuildGoesOn, BuildEnds
  <2> QED
    BY <1>4, <2>2, Untouched DEF CheckBuild, IndexInv
<1>5. CASE ReadTargets(b)
  <2>1. OnlyBuild(b) /\ SameIdentity(b)
    BY <1>5, ReadTargetsIs
  <2>2. BuildsOK'
    BY <1>5, <2>1, BuildGoesOn DEF ReadTargets
  <2> QED
    BY <1>5, <2>2, Untouched DEF ReadTargets, IndexInv
<1>6. CASE Swap(b)
  <2>1. OnlyBuild(b) /\ (build'[b] = NoBuild \/ SameIdentity(b))
    BY <1>6, SwapIs
  <2>2. BuildsOK'
    <3>1. UNCHANGED used /\ build[b].pc # "idle"
      BY <1>6 DEF Swap
    <3> QED
      BY <2>1, <3>1, BuildGoesOn, BuildEnds
  <2>3. CASE UNCHANGED <<index, alias>>
    BY <1>6, <2>2, <2>3, Untouched DEF Swap, IndexInv
  <2>4. CASE /\ CanSwap(b)
             /\ alias' = (alias \ build[b].targets) \cup {build[b].index}
             /\ index' = IF build[b].legacy THEN [index EXCEPT ![0] = NoIndex] ELSE index
    <3>1. build[b].index \in Existing
      BY <2>4 DEF CanSwap
    <3>2. alias' \subseteq Existing
      BY <2>4, <3>1 DEF Existing, IndexInv, IndicesOK, IndicesFit
    <3>3. /\ index' \in [Indices -> IndexStates]
          /\ index'[0].state = "none" /\ index'[0].docs = NoDocs
          /\ \A i \in Indices \ {0} : index'[i] = index[i]
      BY <2>4, Blank, NoDocsType DEF CanSwap, IndexInv, IndicesOK, IndicesFit
    <3>4. IndicesFit(index', alias', used.builds)
      BY <3>2, <3>3 DEF Existing, IndexInv, IndicesOK, IndicesFit
    <3>5. IndicesOK'
      BY <1>6, <3>4 DEF Swap, IndicesOK
    <3> QED
      BY <1>6, <2>2, <3>5, Untouched DEF Swap, IndexInv
  <2> QED
    BY <1>6, <2>3, <2>4 DEF Swap
<1>7. CASE Prune(b)
  <2>1. OnlyBuild(b) /\ build'[b] = NoBuild
    BY <1>7, EndIs
  <2>2. BuildsOK'
    BY <1>7, <2>1, BuildEnds DEF Prune
  <2>3. IndicesOK'
    <3> DEFINE gone == Existing \ Kept(b)
    <3>1. index' = [i \in Indices |-> IF i \in gone THEN NoIndex ELSE index[i]] /\ alias' = alias \cap Kept(b)
      BY <1>7 DEF Prune
    <3>2. 0 \notin gone
      BY DEF Existing
    <3> HIDE DEF gone
    <3>3. /\ index' \in [Indices -> IndexStates] /\ index'[0] = index[0]
          /\ \A i \in Indices : (index'[i] = NoIndex /\ i \in gone) \/ index'[i] = index[i]
      BY <3>1, <3>2, Blank, NoDocsType DEF IndexInv, IndicesOK, IndicesFit
    <3>4. \A i \in alias' : i \notin gone /\ i \in alias
      BY <3>1 DEF gone
    <3>5. IndicesFit(index', alias', used.builds)
      BY <3>3, <3>4, Blank DEF IndexInv, IndicesOK, IndicesFit
    <3> QED
      BY <1>7, <3>5 DEF Prune, IndicesOK
  <2> QED
    BY <1>7, <2>2, <2>3, Untouched DEF Prune, IndexInv
<1>8. CASE BuildDies(b)
  <2>1. OnlyBuild(b) /\ build'[b] = NoBuild
    BY <1>8, EndIs
  <2>2. BuildsOK'
    BY <1>8, <2>1, BuildEnds DEF BuildDies
  <2> QED
    BY <1>8, <2>2, Untouched DEF BuildDies, IndexInv
<1> QED
  BY <1>1, <1>2, <1>3, <1>4, <1>5, <1>6, <1>7, <1>8 DEF Builder

LEMMA ChangeRowIs ==
  ASSUME IndexInv, NEW r \in Ids, NEW v \in {0, changes + 2}, NEW hide \in BOOLEAN, ChangeRow(r, v, hide)
  PROVE  /\ build' \in [Builders -> Builds]
         /\ \A b \in Builders :
              /\ build'[b].pc = build[b].pc /\ build'[b].index = build[b].index
              /\ build'[b].last = build[b].last /\ build'[b].chunk = build[b].chunk
              /\ build'[b].failed = build[b].failed
              /\ \A x \in Ids : build'[b].since[x] =
                   IF x = r /\ (v = 0 \/ hide) THEN 0 ELSE build[b].since[x]
<1>1. build' = [b \in Builders |-> IF v = 0 \/ hide THEN [build[b] EXCEPT !.since[r] = 0] ELSE build[b]]
  BY DEF ChangeRow
<1>2. ASSUME NEW b \in Builders
      PROVE  /\ build'[b] \in Builds
             /\ build'[b].pc = build[b].pc /\ build'[b].index = build[b].index
             /\ build'[b].last = build[b].last /\ build'[b].chunk = build[b].chunk
             /\ build'[b].failed = build[b].failed
             /\ \A x \in Ids : build'[b].since[x] =
                  IF x = r /\ (v = 0 \/ hide) THEN 0 ELSE build[b].since[x]
  <2>1. build[b] \in Builds
    BY DEF IndexInv, BuildsOK
  <2>2. CASE v = 0 \/ hide
    <3> DEFINE s == [build[b].since EXCEPT ![r] = 0]
               B == [build[b] EXCEPT !.since = s]
    <3>1. build'[b] = B
      BY <1>1, <2>2
    <3>2. s \in Docs /\ \A x \in Ids : s[x] = IF x = r THEN 0 ELSE build[b].since[x]
      BY <2>1, NoDocsType DEF Builds, Docs
    <3> HIDE DEF s
    <3>3. B \in Builds /\ B.pc = build[b].pc /\ B.index = build[b].index /\ B.last = build[b].last
          /\ B.chunk = build[b].chunk /\ B.failed = build[b].failed /\ B.since = s
      BY <2>1, <3>2 DEF Builds
    <3> HIDE DEF B
    <3> QED
      BY <2>2, <3>1, <3>2, <3>3
  <2>3. CASE ~(v = 0 \/ hide)
    <3>1. build'[b] = build[b]
      BY <1>1, <2>3
    <3> QED
      BY <2>1, <2>3, <3>1
  <2> QED
    BY <2>2, <2>3
<1>3. build' \in [Builders -> Builds]
  BY <1>1, <1>2
<1> QED
  BY <1>2, <1>3

LEMMA ChangeKeeps ==
  ASSUME IndexInv, Change
  PROVE  IndexInv'
<1>1. PICK r \in Ids, v \in {0, changes + 2}, hide \in BOOLEAN : ChangeRow(r, v, hide)
  BY DEF Change
<1>2. RowsOK'
  <2>1. changes \in 0 .. MaxChanges /\ changes + 1 \in 0 .. MaxChanges /\ v \in Versions /\ v =< changes + 2
    BY <1>1, IndexAssumption DEF ChangeRow, IndexInv, RowsOK, Versions
  <2>2. row' = [row EXCEPT ![r] = v] /\ changes' = changes + 1 /\ withheld' \subseteq Ids
    BY <1>1 DEF ChangeRow, IndexInv, RowsOK
  <2>3. row \in [Ids -> Versions] /\ \A x \in Ids : row[x] =< changes + 1 /\ row[x] \in Nat
    BY IndexAssumption DEF IndexInv, RowsOK, Docs, Versions
  <2>4. row' \in Docs
    BY <2>1, <2>2, <2>3 DEF Docs
  <2>5. ASSUME NEW x \in Ids PROVE row'[x] =< changes' + 1
    BY <2>1, <2>2, <2>3
  <2> QED
    BY <2>1, <2>2, <2>4, <2>5 DEF RowsOK
<1>3. BuildsOK'
  <2>1. UNCHANGED used
    BY <1>1 DEF ChangeRow
  <2>2. build' \in [Builders -> Builds] /\ \A b \in Builders : build'[b].pc = build[b].pc /\ build'[b].index = build[b].index
    BY <1>1, ChangeRowIs
  <2> QED
    BY <2>1, <2>2 DEF IndexInv, BuildsOK
<1>4. CountsOK'
  BY <1>1 DEF ChangeRow, IndexInv, CountsOK
<1> QED
  BY <1>1, <1>2, <1>3, <1>4, Untouched DEF ChangeRow, IndexInv

\* The index that bears the name of the alias, if nothing else has it, comes and goes.
LEMMA FreshFits ==
  ASSUME IndicesOK, NEW I \in {NoIndex, NewIndex}, alias = {}, index' = [index EXCEPT ![0] = I],
         UNCHANGED <<alias, used>>
  PROVE  IndicesOK'
<1>1. I \in IndexStates /\ I.docs = NoDocs
  BY Blank
<1>2. index' \in [Indices -> IndexStates] /\ index'[0] = I /\ \A i \in Indices \ {0} : index'[i] = index[i]
  BY <1>1, NoDocsType DEF IndicesOK, IndicesFit
<1>3. used.builds \in Nat
  BY IndexAssumption DEF IndicesOK, IndicesFit
<1>4. IndicesFit(index', alias, used.builds)
  BY <1>1, <1>2, <1>3 DEF IndicesOK, IndicesFit
<1> QED
  BY <1>4 DEF IndicesOK

LEMMA InitializedFits ==
  ASSUME IndicesOK, index' = Initialized, UNCHANGED <<alias, used>>
  PROVE  IndicesOK'
<1>1. CASE Live = {}
  <2>1. alias = {}
    BY <1>1 DEF Live
  <2>2. index' = [index EXCEPT ![0] = NewIndex]
    BY <1>1 DEF Initialized
  <2> QED
    BY <2>1, <2>2, FreshFits
<1>2. CASE Live # {}
  BY <1>2 DEF Initialized, IndicesOK
<1> QED
  BY <1>1, <1>2

LEMMA StartAppKeeps == IndexInv /\ StartApp => IndexInv'
<1> SUFFICES ASSUME IndexInv, StartApp PROVE IndexInv'
  OBVIOUS
<1>1. IndicesOK'
  BY InitializedFits DEF StartApp, IndexInv
<1>2. CountsOK'
  BY DEF StartApp, IndexInv, CountsOK
<1> QED
  BY <1>1, <1>2, Untouched DEF StartApp, IndexInv

-----------------------------------------------------------------------------
(* The targeted refresh, field by field.                                    *)

OnlyDelta(d) ==
  /\ delta' = [e \in Deltas |-> delta'[e]] /\ delta'[d] \in Refreshes
  /\ \A e \in Deltas \ {d} : delta'[e] = delta[e]

LEMMA DeltaBecomes ==
  ASSUME IndexInv, NEW d \in Deltas, NEW D \in Refreshes, delta' = [delta EXCEPT ![d] = D]
  PROVE  OnlyDelta(d) /\ delta'[d] = D
BY DEF IndexInv, DeltasOK, OnlyDelta

LEMMA StartDeltaIs ==
  ASSUME IndexInv, NEW d \in Deltas, NEW ids \in SUBSET Ids, StartDelta(d, ids)
  PROVE  OnlyDelta(d) /\ delta'[d].pc = "read" /\ delta'[d].todo = delta'[d].ids
<1> DEFINE D == [pc |-> "read", ids |-> ids, todo |-> ids, read |-> NoDocs]
<1>1. D \in Refreshes /\ D.pc = "read" /\ D.todo = D.ids
  BY NoDocsType DEF Refreshes
<1>2. delta' = [delta EXCEPT ![d] = D]
  BY DEF StartDelta
<1> HIDE DEF D
<1> QED
  BY <1>1, <1>2, DeltaBecomes

LEMMA ReadDeltaIs ==
  ASSUME IndexInv, NEW d \in Deltas, ReadDelta(d)
  PROVE  /\ OnlyDelta(d)
         /\ delta'[d] = [pc |-> "write", ids |-> delta[d].ids, todo |-> delta[d].todo, read |-> row]
<1>1. delta \in [Deltas -> Refreshes] /\ row \in Docs
  BY DEF IndexInv, DeltasOK, RowsOK
<1>2. delta' = [delta EXCEPT ![d].pc = "write", ![d].read = row]
  BY DEF ReadDelta
<1> DEFINE rows == row
<1>6. delta' = [delta EXCEPT ![d].pc = "write", ![d].read = rows]
  BY <1>2
<1> HIDE DEF rows
<1>7. delta'[d] = [pc |-> "write", ids |-> delta[d].ids, todo |-> delta[d].todo, read |-> rows]
  BY <1>1, <1>6 DEF Refreshes
<1>3. delta'[d] = [pc |-> "write", ids |-> delta[d].ids, todo |-> delta[d].todo, read |-> row]
  BY <1>7 DEF rows
<1>4. delta' = [e \in Deltas |-> delta'[e]] /\ \A e \in Deltas \ {d} : delta'[e] = delta[e]
  BY <1>1, <1>2
<1>5. delta'[d] \in Refreshes
  BY <1>1, <1>3 DEF Refreshes
<1> QED
  BY <1>3, <1>4, <1>5 DEF OnlyDelta

LEMMA WriteDeltaIs ==
  ASSUME IndexInv, NEW d \in Deltas, WriteDelta(d), NEW r, r = Min(delta[d].todo)
  PROVE  /\ r \in delta[d].todo /\ r \in Ids /\ delta[d].read[r] \in Versions
         /\ OnlyDelta(d)
         /\ delta'[d].pc = "write" /\ delta'[d].ids = delta[d].ids
         /\ delta'[d].todo = delta[d].todo \ {r} /\ delta'[d].read = delta[d].read
         /\ (Fine /\ index' = Applied(r, delta[d].read[r])) \/ (Fault /\ UNCHANGED index)
<1>1. delta[d] \in Refreshes
  BY DEF IndexInv, DeltasOK
<1>2. delta[d].todo \in SUBSET Ids /\ delta[d].read \in [Ids -> Versions]
  BY <1>1 DEF Refreshes, Docs
<1>3. r \in delta[d].todo
  <2>1. delta[d].todo \in SUBSET Nat /\ IsFiniteSet(delta[d].todo) /\ delta[d].todo # {}
    BY <1>2, FiniteIds DEF WriteDelta
  <2> QED
    BY <2>1, HasMin
<1> DEFINE t == delta[d].todo \ {r}
           D == [delta[d] EXCEPT !.todo = t]
<1>4. delta' = [delta EXCEPT ![d].todo = t]
  BY DEF WriteDelta
<1>5. t \in SUBSET Ids
  BY <1>2
<1> HIDE DEF t
<1>6. delta' = [delta EXCEPT ![d] = D]
  BY <1>4
<1>7. D \in Refreshes /\ D.pc = delta[d].pc /\ D.ids = delta[d].ids /\ D.todo = t
      /\ D.read = delta[d].read
  BY <1>1, <1>5 DEF Refreshes
<1> HIDE DEF D
<1>8. OnlyDelta(d) /\ delta'[d] = D
  BY <1>6, <1>7, DeltaBecomes
<1>9. delta[d].pc = "write" /\ ((Fine /\ index' = Applied(r, delta[d].read[r])) \/ (Fault /\ UNCHANGED index))
  BY DEF WriteDelta
<1>10. r \in Ids /\ delta[d].read[r] \in Versions
  BY <1>2, <1>3
<1>11. delta'[d].todo = delta[d].todo \ {r}
  BY <1>7, <1>8 DEF t
<1>12. delta'[d].pc = "write" /\ delta'[d].ids = delta[d].ids /\ delta'[d].read = delta[d].read
  BY <1>7, <1>8, <1>9
<1> QED
  BY <1>3, <1>8, <1>9, <1>10, <1>11, <1>12

LEMMA EndDeltaIs ==
  ASSUME IndexInv, NEW d \in Deltas, EndDelta(d) \/ DeltaDies(d)
  PROVE  OnlyDelta(d) /\ delta'[d] = NoDelta
<1>1. delta' = [delta EXCEPT ![d] = NoDelta]
  BY DEF EndDelta, DeltaDies
<1> QED
  BY <1>1, Blank, DeltaBecomes

LEMMA DeltasKept ==
  ASSUME IndexInv, NEW d \in Deltas, OnlyDelta(d)
  PROVE  DeltasOK'
<1>1. \A e \in Deltas : delta'[e] \in Refreshes
  BY DEF OnlyDelta, IndexInv, DeltasOK
<1> QED
  BY <1>1 DEF OnlyDelta, DeltasOK

\* A record without a row changes nothing; a document is written like any other.
LEMMA AppliedFits ==
  ASSUME IndicesOK, NEW r \in Ids, NEW v \in Versions, index' = Applied(r, v), UNCHANGED <<alias, used>>
  PROVE  /\ IndicesOK'
         /\ \A j \in Indices \ {Target} : index'[j] = index[j]
         /\ Cardinality(alias) =< 1 =>
              /\ v # 0 => index'[Target].docs[r] = v
              /\ \A x \in Ids \ {r} : index'[Target].docs[x] = index[Target].docs[x]
<1>1. CASE v = 0
  <2>1. index' = index
    BY <1>1 DEF Applied
  <2> QED
    BY <1>1, <2>1 DEF IndicesOK
<1>2. CASE v # 0
  <2>1. index' = WrittenLive(r, v)
    BY <1>2 DEF Applied
  <2> QED
    BY <2>1, LiveWrite
<1> QED
  BY <1>1, <1>2

LEMMA RefresherKeeps ==
  ASSUME IndexInv, NEW d \in Deltas, Refresher(d)
  PROVE  IndexInv'
<1>1. ASSUME NEW ids \in SUBSET Ids, StartDelta(d, ids) PROVE IndexInv'
  <2>1. DeltasOK'
    BY <1>1, StartDeltaIs, DeltasKept
  <2>2. used' = [used EXCEPT !.refreshes = used.refreshes + 1] /\ used.refreshes + 1 \in 0 .. MaxRefreshes
    BY <1>1, IndexAssumption DEF StartDelta, IndexInv, CountsOK
  <2>3. used' \in [builds : 0 .. MaxBuilds, refreshes : 0 .. MaxRefreshes, rebuilds : 0 .. MaxRebuilds]
        /\ used'.builds = used.builds
    BY <2>2 DEF IndexInv, CountsOK
  <2>4. CountsOK'
    BY <1>1, <2>3 DEF StartDelta, IndexInv, CountsOK, AllIdle
  <2>5. IndicesOK' /\ BuildsOK'
    BY <1>1, <2>3 DEF StartDelta, IndexInv, IndicesOK, BuildsOK
  <2> QED
    BY <1>1, <2>1, <2>4, <2>5, Untouched DEF StartDelta, IndexInv
<1>2. CASE ReadDelta(d)
  <2>1. DeltasOK'
    BY <1>2, ReadDeltaIs, DeltasKept
  <2> QED
    BY <1>2, <2>1, Untouched DEF ReadDelta, IndexInv
<1>3. CASE WriteDelta(d)
  <2> DEFINE r == Min(delta[d].todo)
  <2>1. DeltasOK'
    BY <1>3, WriteDeltaIs, DeltasKept
  <2>2. r \in Ids /\ delta[d].read[r] \in Versions
        /\ ((Fine /\ index' = Applied(r, delta[d].read[r])) \/ (Fault /\ UNCHANGED index))
    BY <1>3, WriteDeltaIs
  <2> HIDE DEF r
  <2>3. IndicesOK'
    <3>1. CASE index' = Applied(r, delta[d].read[r])
      <4>1. IndicesOK /\ alias' = alias /\ used' = used
        BY <1>3 DEF WriteDelta, IndexInv
      <4> QED
        BY <2>2, <3>1, <4>1, AppliedFits
    <3>2. CASE UNCHANGED index
      BY <1>3, <3>2, Untouched DEF WriteDelta
    <3>3. index' = Applied(r, delta[d].read[r]) \/ UNCHANGED index
      BY <2>2
    <3> QED
      BY <3>1, <3>2, <3>3
  <2>4. Fine \/ Fault
    BY <2>2
  <2> QED
    BY <1>3, <2>1, <2>3, <2>4, Untouched DEF WriteDelta, IndexInv
<1>4. CASE EndDelta(d) \/ DeltaDies(d)
  <2>1. DeltasOK'
    BY <1>4, EndDeltaIs, DeltasKept
  <2>2. UNCHANGED <<row, withheld, index, alias, build, rebuild, used, changes>> /\ (Fine \/ Fault)
    BY <1>4 DEF EndDelta, DeltaDies
  <2> QED
    BY <2>1, <2>2, Untouched DEF IndexInv
<1> QED
  BY <1>1, <1>2, <1>3, <1>4 DEF Refresher

-----------------------------------------------------------------------------
(* The rebuild in place, field by field.                                    *)

LEMMA SelectedRows == Selected \in SUBSET Ids /\ \A r \in Selected : row[r] # 0
BY DEF Selected, Published

LEMMA StartRebuildIs ==
  ASSUME IndexInv, NEW kind \in Kinds, NEW drop \in BOOLEAN, StartRebuild(kind, drop)
  PROVE  /\ rebuild' \in Rebuilds /\ rebuild'.pc = IF drop THEN "drop" ELSE "init"
         /\ rebuild'.last = 0 /\ rebuild'.round = 0
<1> DEFINE p == IF drop THEN "drop" ELSE "init"
<1>1. rebuild' = [pc |-> p, kind |-> kind, last |-> 0, chunk |-> NoDocs, round |-> 0]
  BY DEF StartRebuild
<1>2. p \in RebuildSteps /\ 0 \in 0 .. VerifyRounds
  BY IndexAssumption DEF RebuildSteps
<1> HIDE DEF p
<1>3. rebuild' \in Rebuilds
  BY <1>1, <1>2, NoDocsType DEF Rebuilds
<1>4. rebuild'.pc = p /\ rebuild'.last = 0 /\ rebuild'.round = 0
  BY <1>1
<1> QED
  BY <1>3, <1>4 DEF p

\* A step that only moves on.
SameRows == rebuild'.kind = rebuild.kind /\ rebuild'.last = rebuild.last /\ rebuild'.round = rebuild.round

LEMMA DropIs ==
  ASSUME IndexInv, Drop
  PROVE  \/ /\ alias = {} /\ index' = [index EXCEPT ![0] = NoIndex]
            /\ rebuild' \in Rebuilds /\ rebuild'.pc = "init" /\ SameRows /\ rebuild'.chunk = rebuild.chunk
         \/ alias # {} /\ index' = index /\ rebuild' = NoRebuild
<1>1. rebuild \in Rebuilds
  BY DEF IndexInv, RebuildOK
<1>2. CASE alias = {}
  <2>1. rebuild' = [rebuild EXCEPT !.pc = "init"] /\ index' = [index EXCEPT ![0] = NoIndex]
    BY <1>2 DEF Drop
  <2> QED
    BY <1>1, <1>2, <2>1 DEF Rebuilds, RebuildSteps, SameRows
<1>3. CASE alias # {}
  BY <1>3 DEF Drop
<1> QED
  BY <1>2, <1>3

LEMMA InitIndexIs ==
  ASSUME IndexInv, InitIndex
  PROVE  rebuild' \in Rebuilds /\ rebuild'.pc = "read" /\ SameRows /\ rebuild'.chunk = rebuild.chunk
<1>1. rebuild \in Rebuilds /\ rebuild' = [rebuild EXCEPT !.pc = "read"]
  BY DEF IndexInv, RebuildOK, InitIndex
<1> QED
  BY <1>1 DEF Rebuilds, RebuildSteps, SameRows

LEMMA ReadRowsIs ==
  ASSUME IndexInv, ReadRows, NEW c, c = Chunk(rebuild.last, Selected),
         NEW next, next = After(rebuild.last, c)
  PROVE  /\ rebuild' \in Rebuilds
         /\ Members(c) # {} => /\ rebuild'.pc = "write" /\ rebuild'.kind = rebuild.kind
                               /\ rebuild'.last = next /\ rebuild'.chunk = c
                               /\ rebuild'.round = rebuild.round
         /\ Members(c) = {} /\ rebuild.kind = "script" =>
              rebuild'.pc = "verify" /\ SameRows
         /\ Members(c) = {} /\ rebuild.kind # "script" => rebuild' = NoRebuild
<1>1. rebuild \in Rebuilds
  BY DEF IndexInv, RebuildOK
<1>2. c \in Docs /\ next \in Ids \cup {0}
  <2>1. rebuild.last \in Ids \cup {0} /\ row \in Docs
    BY <1>1 DEF Rebuilds, IndexInv, RowsOK
  <2> QED
    BY <2>1, SelectedRows, Page
<1>3. CASE Members(c) # {}
  <2>1. rebuild' = [pc |-> "write", kind |-> rebuild.kind, last |-> next, chunk |-> c, round |-> rebuild.round]
    BY <1>3 DEF ReadRows
  <2> QED
    BY <1>1, <1>2, <1>3, <2>1 DEF Rebuilds, RebuildSteps
<1>4. CASE Members(c) = {} /\ rebuild.kind = "script"
  <2>1. rebuild' = [rebuild EXCEPT !.pc = "verify"]
    BY <1>4 DEF ReadRows
  <2> QED
    BY <1>1, <1>4, <2>1 DEF Rebuilds, RebuildSteps, SameRows
<1>5. CASE Members(c) = {} /\ rebuild.kind # "script"
  BY <1>5, Blank DEF ReadRows
<1> QED
  BY <1>3, <1>4, <1>5

LEMMA WriteRowIs ==
  ASSUME IndexInv, WriteRow, NEW r, r = Min(Members(rebuild.chunk))
  PROVE  /\ r \in Ids /\ rebuild.chunk[r] # 0 /\ rebuild.chunk[r] \in Versions
         /\ rebuild' \in Rebuilds /\ rebuild'.pc = "write" /\ SameRows
         /\ \A x \in Ids : rebuild'.chunk[x] = IF x = r THEN 0 ELSE rebuild.chunk[x]
         /\ (Fine /\ index' = WrittenLive(r, rebuild.chunk[r])) \/ (Fault /\ UNCHANGED index)
<1>1. rebuild \in Rebuilds
  BY DEF IndexInv, RebuildOK
<1>2. rebuild.chunk \in [Ids -> Versions]
  BY <1>1 DEF Rebuilds, Docs
<1>3. r \in Members(rebuild.chunk)
  <2>1. Members(rebuild.chunk) \in SUBSET Ids /\ Members(rebuild.chunk) # {}
    BY DEF Members, WriteRow
  <2>2. Members(rebuild.chunk) \in SUBSET Nat /\ IsFiniteSet(Members(rebuild.chunk))
    BY <2>1, FiniteIds
  <2> QED
    BY <2>1, <2>2, HasMin
<1>4. r \in Ids /\ rebuild.chunk[r] # 0 /\ rebuild.chunk[r] \in Versions
  BY <1>2, <1>3 DEF Members
<1> DEFINE c == [rebuild.chunk EXCEPT ![r] = 0]
<1>5. rebuild' = [rebuild EXCEPT !.chunk = c]
  BY DEF WriteRow
<1>6. c \in Docs /\ \A x \in Ids : c[x] = IF x = r THEN 0 ELSE rebuild.chunk[x]
  BY <1>2, <1>4, NoDocsType DEF Docs
<1> HIDE DEF c
<1>7. rebuild' \in Rebuilds /\ rebuild'.pc = rebuild.pc /\ SameRows /\ rebuild'.chunk = c
  BY <1>1, <1>5, <1>6 DEF Rebuilds, SameRows
<1>8. rebuild.pc = "write" /\ ((Fine /\ index' = WrittenLive(r, rebuild.chunk[r])) \/ (Fault /\ UNCHANGED index))
  BY DEF WriteRow
<1> QED
  BY <1>4, <1>6, <1>7, <1>8

LEMMA WroteRowsIs ==
  ASSUME IndexInv, WroteRows
  PROVE  /\ rebuild' \in Rebuilds /\ rebuild'.pc = (IF rebuild.round > 0 THEN "verify" ELSE "read")
         /\ SameRows /\ rebuild'.chunk = rebuild.chunk
<1> DEFINE p == IF rebuild.round > 0 THEN "verify" ELSE "read"
<1>1. rebuild \in Rebuilds /\ rebuild' = [rebuild EXCEPT !.pc = p] /\ p \in RebuildSteps
  BY DEF IndexInv, RebuildOK, WroteRows, RebuildSteps
<1> HIDE DEF p
<1>2. rebuild' \in Rebuilds /\ rebuild'.pc = p /\ SameRows /\ rebuild'.chunk = rebuild.chunk
  BY <1>1 DEF Rebuilds, SameRows
<1> QED
  BY <1>2 DEF p

\* What the last rounds look for.
Missing == {r \in Published : \A i \in Live : index[i].docs[r] = 0}

LEMMA VerifyIs ==
  ASSUME IndexInv, Verify
  PROVE  \/ rebuild' = NoRebuild
         \/ /\ Missing # {} /\ rebuild.round < VerifyRounds /\ Live # {}
            /\ rebuild' \in Rebuilds /\ rebuild'.pc = "write" /\ rebuild'.round = rebuild.round + 1
            /\ rebuild'.kind = rebuild.kind
            /\ rebuild'.chunk = [r \in Ids |-> IF r \in Missing THEN row[r] ELSE 0]
<1>1. rebuild \in Rebuilds
  BY DEF IndexInv, RebuildOK
<1>2. CASE Missing = {} \/ rebuild.round = VerifyRounds \/ Live = {}
  BY <1>2 DEF Verify, Missing
<1>3. CASE ~(Missing = {} \/ rebuild.round = VerifyRounds \/ Live = {})
  <2> DEFINE c == [r \in Ids |-> IF r \in Missing THEN row[r] ELSE 0]
  <2>1. rebuild' = [pc |-> "write", kind |-> rebuild.kind, last |-> rebuild.last, chunk |-> c,
                    round |-> rebuild.round + 1]
    BY <1>3 DEF Verify, Missing
  <2>2. c \in Docs
    BY NoDocsType DEF IndexInv, RowsOK, Docs
  <2> HIDE DEF c
  <2>3. rebuild.round \in 0 .. VerifyRounds /\ rebuild.round < VerifyRounds /\ rebuild.round + 1 \in 0 .. VerifyRounds
    BY <1>1, <1>3, IndexAssumption DEF Rebuilds
  <2>4. /\ rebuild' \in Rebuilds /\ rebuild'.pc = "write" /\ rebuild'.round = rebuild.round + 1
        /\ rebuild'.kind = rebuild.kind /\ rebuild'.chunk = c
    BY <1>1, <2>1, <2>2, <2>3 DEF Rebuilds, RebuildSteps
  <2> QED
    BY <1>3, <2>3, <2>4 DEF c
<1> QED
  BY <1>2, <1>3

LEMMA RebuilderKeeps ==
  ASSUME IndexInv, Rebuilder
  PROVE  IndexInv'
<1>0. (NoRebuild \in Rebuilds) /\ (rebuild' \in Rebuilds => RebuildOK')
  BY Blank DEF RebuildOK
<1>1. ASSUME NEW kind \in Kinds, NEW drop \in BOOLEAN, StartRebuild(kind, drop) PROVE IndexInv'
  <2>1. RebuildOK'
    BY <1>0, <1>1, StartRebuildIs
  <2>2. used' = [used EXCEPT !.rebuilds = used.rebuilds + 1] /\ used.rebuilds + 1 \in 0 .. MaxRebuilds
    BY <1>1, IndexAssumption DEF StartRebuild, IndexInv, CountsOK
  <2>3. used' \in [builds : 0 .. MaxBuilds, refreshes : 0 .. MaxRefreshes, rebuilds : 0 .. MaxRebuilds]
        /\ used'.builds = used.builds
    BY <2>2 DEF IndexInv, CountsOK
  <2>4. CountsOK'
    BY <1>1, <2>3 DEF StartRebuild, IndexInv, CountsOK, AllIdle
  <2>5. IndicesOK' /\ BuildsOK'
    BY <1>1, <2>3 DEF StartRebuild, IndexInv, IndicesOK, BuildsOK
  <2> QED
    BY <1>1, <2>1, <2>4, <2>5, Untouched DEF StartRebuild, IndexInv
<1>2. CASE Drop
  <2>1. RebuildOK'
    BY <1>0, <1>2, DropIs
  <2>2. IndicesOK'
    <3>1. CASE alias = {} /\ index' = [index EXCEPT ![0] = NoIndex]
      BY <1>2, <3>1, FreshFits DEF Drop, IndexInv
    <3>2. CASE UNCHANGED index
      BY <1>2, <3>2, Untouched DEF Drop
    <3> QED
      BY <1>2, <3>1, <3>2, DropIs
  <2> QED
    BY <1>2, <2>1, <2>2, Untouched DEF Drop, IndexInv
<1>3. CASE InitIndex
  <2>1. RebuildOK'
    BY <1>0, <1>3, InitIndexIs
  <2>2. IndicesOK'
    BY <1>3, InitializedFits DEF InitIndex, IndexInv
  <2> QED
    BY <1>3, <2>1, <2>2, Untouched DEF InitIndex, IndexInv
<1>4. CASE ReadRows
  <2>1. RebuildOK'
    BY <1>0, <1>4, ReadRowsIs
  <2> QED
    BY <1>4, <2>1, Untouched DEF ReadRows, IndexInv
<1>5. CASE WriteRow
  <2> DEFINE r == Min(Members(rebuild.chunk))
  <2>1. /\ rebuild' \in Rebuilds /\ r \in Ids /\ rebuild.chunk[r] \in Versions
        /\ (Fine /\ index' = WrittenLive(r, rebuild.chunk[r])) \/ (Fault /\ UNCHANGED index)
    BY <1>5, WriteRowIs
  <2>2. IndicesOK'
    <3>1. CASE index' = WrittenLive(r, rebuild.chunk[r])
      BY <1>5, <2>1, <3>1, LiveWrite DEF WriteRow, IndexInv
    <3>2. CASE UNCHANGED index
      BY <1>5, <3>2, Untouched DEF WriteRow
    <3> QED
      BY <2>1, <3>1, <3>2
  <2>3. (Fine \/ Fault) /\ RebuildOK'
    BY <1>0, <2>1
  <2> QED
    BY <1>5, <2>2, <2>3, Untouched DEF WriteRow, IndexInv
<1>6. CASE WroteRows
  <2>1. RebuildOK'
    BY <1>0, <1>6, WroteRowsIs
  <2> QED
    BY <1>6, <2>1, Untouched DEF WroteRows, IndexInv
<1>7. CASE Verify
  <2>1. RebuildOK'
    BY <1>0, <1>7, VerifyIs
  <2> QED
    BY <1>7, <2>1, Untouched DEF Verify, IndexInv
<1>8. CASE RebuildDies
  <2>1. RebuildOK'
    BY <1>0, <1>8 DEF RebuildDies
  <2> QED
    BY <1>8, <2>1, Untouched DEF RebuildDies, IndexInv
<1> QED
  BY <1>1, <1>2, <1>3, <1>4, <1>5, <1>6, <1>7, <1>8 DEF Rebuilder

LEMMA InvStep == IndexInv /\ [Next]_vars => IndexInv'
<1>1. IndexInv /\ UNCHANGED vars => IndexInv'
  <2> SUFFICES ASSUME IndexInv, UNCHANGED vars PROVE IndexInv'
    OBVIOUS
  <2>1. CountsOK'
    BY DEF vars, IndexInv, CountsOK
  <2> QED
    BY <2>1, Untouched DEF vars, IndexInv
<1> QED
  BY <1>1, ChangeKeeps, StartAppKeeps, RebuilderKeeps, BuilderKeeps, RefresherKeeps DEF Next

LEMMA Invariant == Spec => []IndexInv
BY InvInit, InvStep, PTL DEF Spec

\* Every reachable state of the index and of those who write it is well typed.
THEOREM TypeCorrect == Spec => []TypeOK
BY Invariant, InvTypes, PTL

-----------------------------------------------------------------------------
(* Builds one after the other: what is swapped in is complete, and the      *)
(* search stays up.  Two builds at once can do harm: the pruning of one     *)
(* deletes the index of the other, which the next documents create anew.    *)

OneBuilder == \A a, b \in Builders : a = b

\* An index that is being built has not the alias, one that has been swapped in has it; of the
\* rows published since the start of the build, it has those that were read and not refused.
BuildComplete(b) ==
  /\ build[b].pc \in {"read", "write", "check", "targets", "swap"} => build[b].index \notin alias
  /\ build[b].pc = "prune" => build[b].index \in alias
  /\ \A r \in Ids : build[b].since[r] # 0 =>
       /\ row[r] >= build[b].since[r] /\ r \in Published
       /\ build[b].pc = "read" /\ r =< build[b].last /\ ~build[b].failed =>
            index[build[b].index].docs[r] >= build[b].since[r]
       /\ build[b].pc = "write" /\ build[b].chunk[r] # 0 => build[b].chunk[r] >= build[b].since[r]
       /\ build[b].pc = "write" /\ r =< build[b].last /\ ~build[b].failed /\ build[b].chunk[r] = 0 =>
            index[build[b].index].docs[r] >= build[b].since[r]
       /\ build[b].pc = "check" /\ ~build[b].failed =>
            index[build[b].index].docs[r] >= build[b].since[r]
       /\ build[b].pc \in {"targets", "swap"} =>
            index[build[b].index].docs[r] >= build[b].since[r]

CompleteInv == \A b \in Builders : BuildComplete(b)

\* Who does not build writes no other index than one that bears the name of the alias.
LEMMA OthersLeave ==
  ASSUME IndexInv, StartApp \/ Rebuilder \/ \E d \in Deltas : Refresher(d)
  PROVE  /\ UNCHANGED <<row, withheld, alias, build>>
         /\ \A j \in Indices \ {0} : j \notin alias => index'[j] = index[j]
<1>0. IndicesOK /\ index \in [Indices -> IndexStates]
  BY DEF IndexInv, IndicesOK, IndicesFit
<1>1. ASSUME NEW I \in {NoIndex, NewIndex}, index' = [index EXCEPT ![0] = I]
      PROVE  \A j \in Indices \ {0} : index'[j] = index[j]
  BY <1>0, <1>1
<1>2. index' = Initialized => \A j \in Indices \ {0} : index'[j] = index[j]
  BY <1>1 DEF Initialized
<1>3. Target = 0 \/ Target \in alias
  BY <1>0, TargetIs
<1>4. CASE StartApp
  BY <1>2, <1>4 DEF StartApp
<1>5. CASE Rebuilder
  <2>1. ASSUME NEW kind \in Kinds, NEW drop \in BOOLEAN, StartRebuild(kind, drop)
        PROVE  UNCHANGED <<row, withheld, alias, build, index>>
    BY <2>1 DEF StartRebuild
  <2>2. CASE Drop
    <3>1. index' = [index EXCEPT ![0] = NoIndex] \/ index' = index
      BY <2>2 DEF Drop
    <3> QED
      BY <1>1, <2>2, <3>1 DEF Drop
  <2>3. CASE InitIndex
    BY <1>2, <2>3 DEF InitIndex
  <2>4. CASE WriteRow
    <3> DEFINE r == Min(Members(rebuild.chunk))
    <3>1. /\ r \in Ids /\ rebuild.chunk[r] \in Versions
          /\ (Fine /\ index' = WrittenLive(r, rebuild.chunk[r])) \/ (Fault /\ UNCHANGED index)
      BY <2>4, WriteRowIs
    <3>2. UNCHANGED <<row, withheld, alias, build, used>>
      BY <2>4 DEF WriteRow
    <3>3. \A j \in Indices \ {Target} : index'[j] = index[j]
      BY <1>0, <3>1, <3>2, LiveWrite
    <3> QED
      BY <1>3, <3>2, <3>3
  <2>5. CASE ReadRows \/ WroteRows \/ Verify \/ RebuildDies
    BY <2>5 DEF ReadRows, WroteRows, Verify, RebuildDies
  <2> QED
    BY <1>5, <2>1, <2>2, <2>3, <2>4, <2>5 DEF Rebuilder
<1>6. ASSUME NEW d \in Deltas, Refresher(d)
      PROVE  /\ UNCHANGED <<row, withheld, alias, build>>
             /\ \A j \in Indices \ {0} : j \notin alias => index'[j] = index[j]
  <2>1. ASSUME NEW ids \in SUBSET Ids, StartDelta(d, ids)
        PROVE  UNCHANGED <<row, withheld, alias, build, index>>
    BY <2>1 DEF StartDelta
  <2>2. CASE WriteDelta(d)
    <3> DEFINE r == Min(delta[d].todo)
    <3>1. /\ r \in Ids /\ delta[d].read[r] \in Versions
          /\ (Fine /\ index' = Applied(r, delta[d].read[r])) \/ (Fault /\ UNCHANGED index)
      BY <2>2, WriteDeltaIs
    <3>2. UNCHANGED <<row, withheld, alias, build, used>>
      BY <2>2 DEF WriteDelta
    <3>3. \A j \in Indices \ {Target} : index'[j] = index[j]
      BY <1>0, <3>1, <3>2, AppliedFits
    <3> QED
      BY <1>3, <3>2, <3>3
  <2>3. CASE ReadDelta(d) \/ EndDelta(d) \/ DeltaDies(d)
    BY <2>3 DEF ReadDelta, EndDelta, DeltaDies
  <2> QED
    BY <1>6, <2>1, <2>2, <2>3 DEF Refresher
<1> QED
  BY <1>4, <1>5, <1>6

LEMMA OthersKeepComplete ==
  ASSUME IndexInv, CompleteInv, StartApp \/ Rebuilder \/ \E d \in Deltas : Refresher(d)
  PROVE  CompleteInv'
<1> SUFFICES ASSUME NEW b \in Builders PROVE BuildComplete(b)'
  BY DEF CompleteInv
<1>1. UNCHANGED <<row, withheld, alias, build>> /\ Published' = Published
  BY OthersLeave DEF Published
<1>2. build[b].pc \in {"read", "write", "check", "targets", "swap"} =>
        index'[build[b].index] = index[build[b].index]
  <2> SUFFICES ASSUME build[b].pc \in {"read", "write", "check", "targets", "swap"}
               PROVE  index'[build[b].index] = index[build[b].index]
    OBVIOUS
  <2>1. build[b].index \in 1 .. used.builds /\ build[b].index \in Indices
    BY DEF IndexInv, BuildsOK, Builds
  <2>2. build[b].index \notin alias /\ build[b].index # 0
    BY <2>1 DEF CompleteInv, BuildComplete
  <2> QED
    BY <2>1, <2>2, OthersLeave
<1> QED
  BY <1>1, <1>2 DEF CompleteInv, BuildComplete

LEMMA ChangeKeepsComplete ==
  ASSUME IndexInv, CompleteInv, Change
  PROVE  CompleteInv'
<1> SUFFICES ASSUME NEW b \in Builders PROVE BuildComplete(b)'
  BY DEF CompleteInv
<1>1. PICK r \in Ids, v \in {0, changes + 2}, hide \in BOOLEAN : ChangeRow(r, v, hide)
  BY DEF Change
<1>2. /\ build'[b].pc = build[b].pc /\ build'[b].index = build[b].index
      /\ build'[b].last = build[b].last /\ build'[b].chunk = build[b].chunk
      /\ build'[b].failed = build[b].failed
      /\ \A x \in Ids : build'[b].since[x] = IF x = r /\ (v = 0 \/ hide) THEN 0 ELSE build[b].since[x]
  BY <1>1, ChangeRowIs
<1>3. /\ UNCHANGED <<index, alias>> /\ row' = [row EXCEPT ![r] = v] /\ row \in [Ids -> Versions]
      /\ withheld' = IF hide THEN withheld \cup {r} ELSE withheld \ {r}
  BY <1>1 DEF ChangeRow, IndexInv, RowsOK, Docs
<1>4. ASSUME NEW x \in Ids, build'[b].since[x] # 0
      PROVE  /\ build[b].since[x] # 0 /\ build'[b].since[x] = build[b].since[x]
             /\ row'[x] >= build[b].since[x] /\ x \in Published'
  <2>1. ~(x = r /\ (v = 0 \/ hide)) /\ build[b].since[x] # 0 /\ build'[b].since[x] = build[b].since[x]
    BY <1>2, <1>4
  <2>2. row[x] >= build[b].since[x] /\ row[x] # 0 /\ x \notin withheld
    BY <2>1 DEF CompleteInv, BuildComplete, Published
  <2>3. CASE x # r
    <3>1. row'[x] = row[x] /\ x \notin withheld'
      BY <1>3, <2>2, <2>3
    <3> QED
      BY <2>1, <2>2, <3>1 DEF Published
  <2>4. CASE x = r
    <3>1. v = changes + 2 /\ ~hide /\ row'[x] = v /\ x \notin withheld'
      BY <1>3, <2>1, <2>4
    <3>2. row[x] \in Nat /\ row[x] =< changes + 1 /\ changes \in Nat
      BY <1>3, IndexAssumption DEF Versions, IndexInv, RowsOK
    <3>3. build[b].since[x] \in Nat
      BY IndexAssumption DEF IndexInv, BuildsOK, Builds, Docs, Versions
    <3> QED
      BY <2>1, <2>2, <3>1, <3>2, <3>3 DEF Published
  <2> QED
    BY <2>3, <2>4
<1> QED
  BY <1>2, <1>3, <1>4 DEF CompleteInv, BuildComplete

\* No build, or one that has only begun, is complete as far as it is.
LEMMA NoBuildComplete ==
  ASSUME NEW b \in Builders, build'[b] = NoBuild
  PROVE  BuildComplete(b)'
<1>1. build'[b].pc = "idle" /\ \A r \in Ids : build'[b].since[r] = 0
  BY DEF NoBuild, NoDocs
<1> QED
  BY <1>1 DEF BuildComplete

LEMMA BuilderKeepsComplete ==
  ASSUME IndexInv, NEW b \in Builders, BuildComplete(b), Builder(b)
  PROVE  BuildComplete(b)'
<1> DEFINE docs == index[build[b].index].docs
<1>0. /\ build[b] \in Builds /\ row \in [Ids -> Versions] /\ index \in [Indices -> IndexStates]
      /\ Ids \subseteq Nat \ {0}
  BY IndexAssumption DEF IndexInv, BuildsOK, RowsOK, Docs, IndicesOK, IndicesFit
<1>9. \A r \in Ids : build[b].since[r] \in Nat /\ build[b].chunk[r] \in Nat /\ docs[r] \in Nat /\ row[r] \in Nat
  <2>1. index[build[b].index] \in IndexStates
    BY <1>0 DEF Builds
  <2> QED
    BY <1>0, <2>1, IndexAssumption DEF Builds, IndexStates, Docs, Versions
<1>1. CASE StartBuild(b)
  <2>1. /\ build'[b].pc = "read" /\ build'[b].index = used.builds + 1 /\ build'[b].last = 0
        /\ build'[b].since = [r \in Ids |-> IF r \in Published THEN row[r] ELSE 0]
    BY <1>1, StartBuildIs
  <2>2. alias' = alias /\ row' = row /\ Published' = Published
    BY <1>1 DEF StartBuild, Published
  <2>3. used.builds + 1 \notin alias
    <3>1. used.builds \in Nat /\ \A i \in alias : i =< used.builds
      BY IndexAssumption DEF IndexInv, IndicesOK, IndicesFit
    <3> QED
      BY <3>1
  <2>4. \A r \in Ids : ~(r =< 0)
    BY <1>0
  <2>5. \A r \in Ids : build'[b].since[r] # 0 => r \in Published /\ build'[b].since[r] = row[r]
    BY <2>1
  <2>6. \A r \in Ids : row[r] \in Nat
    BY <1>9
  <2> QED
    BY <2>1, <2>2, <2>3, <2>4, <2>5, <2>6 DEF BuildComplete
<1>2. CASE ReadChunk(b)
  <2> DEFINE c == Chunk(build[b].last, Published)
             next == After(build[b].last, c)
  <2>1. /\ SameIdentity(b)
        /\ build'[b].pc = IF Members(c) = {} THEN "check" ELSE "write"
        /\ build'[b].last = next /\ build'[b].chunk = c /\ build'[b].failed = build[b].failed
    BY <1>2, ReadChunkIs
  <2>2. alias' = alias /\ row' = row /\ Published' = Published /\ index' = index /\ build[b].pc = "read"
    BY <1>2 DEF ReadChunk, Published
  <2>3. /\ next \in Ids \cup {0} /\ next >= build[b].last
        /\ \A r \in Members(c) : c[r] = row[r]
        /\ \A r \in Published : r > build[b].last /\ r =< next => r \in Members(c)
        /\ Members(c) = {} => \A r \in Published : r =< build[b].last
    <3>1. row \in Docs /\ build[b].last \in Ids \cup {0}
      BY <1>0 DEF Docs, Builds
    <3> QED
      BY <3>1, PublishedRows, Page
  <2>4. build[b].last \in Nat /\ next \in Nat
    <3>1. build[b].last \in Ids \cup {0}
      BY <1>0 DEF Builds
    <3>2. next \in Ids \cup {0}
      BY <2>3
    <3>3. \A x \in Ids \cup {0} : x \in Nat
      BY <1>0
    <3> HIDE DEF next, c, docs
    <3>4. build[b].last \in Nat
      BY <3>1, <3>3, ZenonT(30)
    <3>5. next \in Nat
      BY <3>2, <3>3, ZenonT(30)
    <3> QED
      BY <3>4, <3>5
  <2> HIDE DEF c, next
  <2>5. ASSUME NEW r \in Ids, build[b].since[r] # 0
        PROVE  /\ c[r] # 0 => c[r] >= build[b].since[r]
               /\ ~build[b].failed /\ Members(c) = {} => docs[r] >= build[b].since[r]
               /\ ~build[b].failed /\ r =< next /\ c[r] = 0 => docs[r] >= build[b].since[r]
    <3>1. r \in Published /\ row[r] >= build[b].since[r]
          /\ (~build[b].failed /\ r =< build[b].last => docs[r] >= build[b].since[r])
      BY <2>2, <2>5 DEF BuildComplete
    <3>4. r \in Members(c) <=> c[r] # 0
      BY DEF Members
    <3>2. r \in Nat
      BY <1>0
    <3>3. r =< build[b].last \/ r > build[b].last
      BY <2>4, <3>2
    <3> QED
      BY <2>3, <3>1, <3>3, <3>4
  <2> QED
    BY <2>1, <2>2, <2>5 DEF BuildComplete, SameIdentity
<1>3. CASE BulkWrite(b)
  <2>1. /\ SameIdentity(b) /\ build'[b].pc = "read" /\ build'[b].last = build[b].last
    BY <1>3, BulkWriteIs
  <2>2. alias' = alias /\ row' = row /\ Published' = Published /\ build[b].pc = "write"
    BY <1>3 DEF BulkWrite, Published
  <2>3. PICK S \in SUBSET Members(build[b].chunk) :
              /\ build'[b].failed = (build[b].failed \/ S # Members(build[b].chunk))
              /\ index' = IF S = {} THEN index
                          ELSE Written(build[b].index, [r \in S |-> build[b].chunk[r]])
    BY <1>3, BulkWriteIs
  <2>4. ASSUME NEW r \in Ids, build[b].since[r] # 0, ~build'[b].failed, r =< build[b].last
        PROVE  index'[build[b].index].docs[r] >= build[b].since[r]
    <3>1. ~build[b].failed /\ S = Members(build[b].chunk)
      BY <2>3, <2>4
    <3>2. /\ build[b].chunk[r] = 0 => docs[r] >= build[b].since[r]
          /\ build[b].chunk[r] # 0 => build[b].chunk[r] >= build[b].since[r]
      BY <2>2, <2>4, <3>1 DEF BuildComplete
    <3>3. CASE S = {}
      <4>1. index' = index /\ build[b].chunk[r] = 0
        BY <2>3, <3>1, <3>3 DEF Members
      <4> QED
        BY <3>2, <4>1
    <3>4. CASE S # {}
      <4> DEFINE written == [x \in S |-> build[b].chunk[x]]
      <4>1. S \in SUBSET Ids /\ written \in [S -> Versions] /\ build[b].index \in Indices
        BY <1>0 DEF Members, Builds, Docs
      <4>2. index' = Written(build[b].index, written)
        BY <2>3, <3>4
      <4>3. \A x \in S : written[x] = build[b].chunk[x]
        OBVIOUS
      <4> HIDE DEF written
      <4>4. /\ \A x \in S : index'[build[b].index].docs[x] = written[x]
            /\ \A x \in Ids \ S : index'[build[b].index].docs[x] = docs[x]
        BY <1>0, <4>1, <4>2, WrittenIs, SMTT(30)
      <4>5. CASE r \in S
        <5>1. build[b].chunk[r] # 0 /\ index'[build[b].index].docs[r] = build[b].chunk[r]
          BY <3>1, <4>3, <4>4, <4>5 DEF Members
        <5> QED
          BY <3>2, <5>1
      <4>6. CASE r \notin S
        <5>1. build[b].chunk[r] = 0 /\ index'[build[b].index].docs[r] = docs[r]
          BY <3>1, <4>4, <4>6 DEF Members
        <5> QED
          BY <3>2, <5>1
      <4> QED
        BY <4>5, <4>6
    <3> QED
      BY <3>3, <3>4
  <2> QED
    BY <2>1, <2>2, <2>4 DEF BuildComplete, SameIdentity
<1>4. CASE CheckBuild(b)
  <2>1. \/ /\ Verified(b) /\ build'[b].pc = "targets" /\ SameIdentity(b)
           /\ build'[b].failed = build[b].failed
        \/ build'[b] = NoBuild
    BY <1>4, CheckBuildIs
  <2>2. alias' = alias /\ row' = row /\ Published' = Published /\ index' = index /\ build[b].pc = "check"
    BY <1>4 DEF CheckBuild, Published
  <2> QED
    BY <2>1, <2>2, NoBuildComplete DEF BuildComplete, SameIdentity, Verified
<1>5. CASE ReadTargets(b)
  <2>1. build'[b].pc = "swap" /\ SameIdentity(b)
    BY <1>5, ReadTargetsIs
  <2>2. alias' = alias /\ row' = row /\ Published' = Published /\ index' = index /\ build[b].pc = "targets"
    BY <1>5 DEF ReadTargets, Published
  <2> QED
    BY <2>1, <2>2 DEF BuildComplete, SameIdentity
<1>6. CASE Swap(b)
  <2>1. \/ /\ build'[b].pc = "prune" /\ SameIdentity(b)
           /\ alias' = (alias \ build[b].targets) \cup {build[b].index}
        \/ build'[b] = NoBuild
    BY <1>6, SwapIs
  <2>2. row' = row /\ Published' = Published /\ build[b].pc = "swap"
    BY <1>6 DEF Swap, Published
  <2> QED
    BY <2>1, <2>2, NoBuildComplete DEF BuildComplete, SameIdentity
<1>7. CASE Prune(b) \/ BuildDies(b)
  BY <1>7, EndIs, NoBuildComplete
<1> QED
  BY <1>1, <1>2, <1>3, <1>4, <1>5, <1>6, <1>7 DEF Builder

LEMMA CompleteStep == OneBuilder /\ IndexInv /\ CompleteInv /\ [Next]_vars => CompleteInv'
<1> SUFFICES ASSUME OneBuilder, IndexInv, CompleteInv, [Next]_vars PROVE CompleteInv'
  OBVIOUS
<1>1. ASSUME NEW b \in Builders, Builder(b) PROVE CompleteInv'
  <2>1. BuildComplete(b)'
    BY <1>1, BuilderKeepsComplete DEF CompleteInv
  <2>2. \A a \in Builders : a = b
    BY DEF OneBuilder
  <2> QED
    BY <2>1, <2>2 DEF CompleteInv
<1>2. CASE UNCHANGED vars
  BY <1>2 DEF vars, CompleteInv, BuildComplete, Published
<1> QED
  BY <1>1, <1>2, ChangeKeepsComplete, OthersKeepComplete DEF Next

LEMMA CompleteInvariant == ASSUME OneBuilder PROVE Spec => [](IndexInv /\ CompleteInv)
<1>1. Init => CompleteInv
  <2> SUFFICES ASSUME Init, NEW b \in Builders PROVE BuildComplete(b)
    BY DEF CompleteInv
  <2>1. build[b].pc = "idle" /\ \A r \in Ids : build[b].since[r] = 0
    BY DEF Init, NoBuild, NoDocs
  <2> QED
    BY <2>1 DEF BuildComplete
<1>2. IndexInv /\ CompleteInv /\ [Next]_vars => (IndexInv /\ CompleteInv)'
  BY InvStep, CompleteStep
<1> QED
  BY <1>1, <1>2, InvInit, PTL DEF Spec

\* While builds do not overlap, the alias is only moved to an index that has every record that
\* has been published since the build began, in the version of then or a later one - whatever
\* rows, targeted refreshes, rebuilds and faults there are meanwhile.
THEOREM SwapsAreComplete == ASSUME OneBuilder PROVE Spec => []SwapIsComplete
<1>1. CompleteInv => SwapIsComplete
  BY DEF CompleteInv, BuildComplete, SwapIsComplete
<1> QED
  BY <1>1, CompleteInvariant, PTL

\* While builds do not overlap, no step of one takes the index away from the search.
THEOREM BuildsKeepSearchUp == ASSUME OneBuilder PROVE Spec => SearchStaysUp
<1>1. ASSUME IndexInv, CompleteInv, [Next]_vars, Live # {}, build' # build PROVE Live' # {}
  <2>1. index' = index /\ alias' = alias => Live' = Live
    BY DEF Live
  <2>2. ASSUME NEW b \in Builders, Builder(b) PROVE Live' # {}
    <3>0. build[b].pc # "idle" => build[b].index \in Indices /\ build[b].index # 0
      <4>1. build[b] \in Builds
        BY <1>1 DEF IndexInv, BuildsOK
      <4>2. build[b].index \in Indices
        BY <4>1 DEF Builds
      <4>3. build[b].pc # "idle" => build[b].index \in 1 .. used.builds
        BY <1>1 DEF IndexInv, BuildsOK
      <4> QED
        BY <4>2, <4>3
    <3>1. CASE StartBuild(b)
      <4>1. index' = [index EXCEPT ![used.builds + 1] = NewIndex] /\ alias' = alias
            /\ used.builds + 1 \in Indices \ {0}
        BY <1>1, <3>1, StartBuildIs DEF StartBuild
      <4>2. index'[0] = index[0]
        BY <1>1, <4>1, NoDocsType DEF IndexInv, IndicesOK, IndicesFit
      <4> QED
        BY <1>1, <4>1, <4>2 DEF Live
    <3>2. CASE BulkWrite(b)
      <4>1. PICK S \in SUBSET Members(build[b].chunk) :
                    index' = IF S = {} THEN index
                             ELSE Written(build[b].index, [r \in S |-> build[b].chunk[r]])
        BY <1>1, <3>2, BulkWriteIs
      <4>2. alias' = alias /\ build[b].pc # "idle"
        BY <3>2 DEF BulkWrite
      <4>3. index'[0] = index[0]
        BY <1>1, <3>0, <4>1, <4>2, NoDocsType DEF Written, IndexInv, IndicesOK, IndicesFit
      <4> QED
        BY <1>1, <4>2, <4>3 DEF Live
    <3>3. CASE Swap(b)
      <4>1. alias' # {} \/ (index' = index /\ alias' = alias)
        BY <3>3 DEF Swap
      <4> QED
        BY <1>1, <2>1, <4>1 DEF Live
    <3>4. CASE Prune(b)
      <4>1. build[b].index \in alias
        BY <1>1, <3>4 DEF Prune, CompleteInv, BuildComplete
      <4>2. build[b].index \in alias'
        BY <3>4, <4>1 DEF Prune, Kept
      <4> QED
        BY <4>2 DEF Live
    <3>5. CASE ReadChunk(b) \/ CheckBuild(b) \/ ReadTargets(b) \/ BuildDies(b)
      BY <1>1, <2>1, <3>5 DEF ReadChunk, CheckBuild, ReadTargets, BuildDies
    <3> QED
      BY <2>2, <3>1, <3>2, <3>3, <3>4, <3>5 DEF Builder
  <2>3. CASE Change
    BY <1>1, <2>1, <2>3 DEF Change, ChangeRow
  <2>4. ~(StartApp \/ Rebuilder \/ \E d \in Deltas : Refresher(d)) /\ ~UNCHANGED vars
    BY <1>1, OthersLeave DEF vars
  <2> QED
    BY <1>1, <2>2, <2>3, <2>4 DEF Next
<1>2. IndexInv /\ CompleteInv /\ [Next]_vars => [Live # {} /\ build' # build => Live' # {}]_vars
  BY <1>1
<1> QED
  BY <1>2, CompleteInvariant, PTL DEF Spec, SearchStaysUp

-----------------------------------------------------------------------------
(* Who works while nothing else happens leaves the search exact.            *)

OneName == Cardinality(alias) =< 1
Exact(r) == OneName => index[Target].docs[r] = row[r]

\* Nobody else is at work.
BuildAlone(b) ==
  /\ \A c \in Builders \ {b} : build[c].pc = "idle"
  /\ \A d \in Deltas : delta[d].pc = "idle"
  /\ rebuild.pc = "idle"
DeltaAlone(d) ==
  /\ \A b \in Builders : build[b].pc = "idle"
  /\ \A e \in Deltas \ {d} : delta[e].pc = "idle"
  /\ rebuild.pc = "idle"
RebuildAlone ==
  /\ \A b \in Builders : build[b].pc = "idle"
  /\ \A d \in Deltas : delta[d].pc = "idle"

\* The new index holds the published rows up to the last id but for the chunk at hand.
BuildExact(b) ==
  /\ index[build[b].index].state = "mapped" /\ ~build[b].failed
  /\ build[b].total = Cardinality(Published)
  /\ build[b].pc = "read" => build[b].chunk = NoDocs
  /\ build[b].pc \in {"read", "write"} =>
       \A r \in Ids : index[build[b].index].docs[r] =
         IF r \in Published /\ r =< build[b].last /\ build[b].chunk[r] = 0 THEN row[r] ELSE 0
  /\ build[b].pc = "write" =>
       \A r \in Members(build[b].chunk) :
         r \in Published /\ r =< build[b].last /\ build[b].chunk[r] = row[r]
  /\ build[b].pc \in {"check", "targets", "swap", "prune"} =>
       \A r \in Ids : index[build[b].index].docs[r] = IF r \in Published THEN row[r] ELSE 0
  /\ build[b].pc = "swap" =>
       /\ build[b].targets = alias
       /\ build[b].legacy <=> (alias = {} /\ index[0].state # "none")
  /\ build[b].pc = "prune" => alias = {build[b].index}

\* The index holds the rows the refresh has read of the ids it is done with.
DeltaExact(d) ==
  /\ delta[d].pc = "read" => delta[d].todo = delta[d].ids
  /\ delta[d].pc = "write" =>
       /\ delta[d].read = row
       /\ \A r \in delta[d].ids \ delta[d].todo : row[r] # 0 => Exact(r)

\* The index holds the selected rows up to the last id but for the chunk at hand, and in the
\* operator's rebuild no other document; something is left for a second round only where two
\* indices bear the name.
RebuildExact ==
  /\ rebuild.kind = "admin" /\ rebuild.pc # "drop" => \A r \in Ids : row[r] = 0 => Exact(r)
  /\ rebuild.round > 0 => ~OneName /\ rebuild.kind = "script"
  /\ rebuild.pc \in {"drop", "init"} => rebuild.last = 0
  /\ rebuild.pc = "read" => \A r \in Selected : r =< rebuild.last => Exact(r)
  /\ rebuild.pc = "write" =>
       /\ \A r \in Selected : r =< rebuild.last => Exact(r) \/ rebuild.chunk[r] # 0
       /\ \A r \in Ids : rebuild.chunk[r] # 0 => rebuild.chunk[r] = row[r]
  /\ rebuild.pc = "verify" => rebuild.kind = "script" /\ \A r \in Selected : Exact(r)

Undisturbed ==
  /\ \A b \in Builders : build[b].pc # "idle" => BuildAlone(b) /\ BuildExact(b)
  /\ \A d \in Deltas : delta[d].pc # "idle" => DeltaAlone(d) /\ DeltaExact(d)
  /\ rebuild.pc # "idle" => RebuildAlone /\ RebuildExact
CalmInv == calm => Undisturbed

\* It is enough to follow the one who works.
LEMMA LoneBuild ==
  ASSUME NEW b \in Builders, OnlyBuild(b), BuildAlone(b), UNCHANGED <<delta, rebuild>>,
         build'[b].pc # "idle" => BuildExact(b)'
  PROVE  Undisturbed'
<1>1. \A c \in Builders \ {b} : build'[c].pc = "idle"
  BY DEF OnlyBuild, BuildAlone
<1>2. rebuild'.pc = "idle" /\ \A d \in Deltas : delta'[d].pc = "idle"
  BY DEF BuildAlone
<1>3. BuildAlone(b)'
  BY <1>1, <1>2 DEF BuildAlone
<1>4. ASSUME NEW c \in Builders, build'[c].pc # "idle" PROVE BuildAlone(c)' /\ BuildExact(c)'
  <2>1. c = b
    BY <1>1, <1>4
  <2> QED
    BY <1>3, <1>4, <2>1
<1> QED
  BY <1>2, <1>4 DEF Undisturbed

LEMMA LoneDelta ==
  ASSUME NEW d \in Deltas, OnlyDelta(d), DeltaAlone(d), UNCHANGED <<build, rebuild>>,
         delta'[d].pc # "idle" => DeltaExact(d)'
  PROVE  Undisturbed'
<1>1. \A e \in Deltas \ {d} : delta'[e].pc = "idle"
  BY DEF OnlyDelta, DeltaAlone
<1>2. rebuild'.pc = "idle" /\ \A b \in Builders : build'[b].pc = "idle"
  BY DEF DeltaAlone
<1>3. DeltaAlone(d)'
  BY <1>1, <1>2 DEF DeltaAlone
<1>4. ASSUME NEW e \in Deltas, delta'[e].pc # "idle" PROVE DeltaAlone(e)' /\ DeltaExact(e)'
  <2>1. e = d
    BY <1>1, <1>4
  <2> QED
    BY <1>3, <1>4, <2>1
<1> QED
  BY <1>2, <1>4 DEF Undisturbed

LEMMA LoneRebuild ==
  ASSUME RebuildAlone, UNCHANGED <<build, delta>>, rebuild'.pc # "idle" => RebuildExact'
  PROVE  Undisturbed'
BY DEF RebuildAlone, Undisturbed

\* What the search finds when the one index that bears the name is exact.
LEMMA ExactFound ==
  ASSUME IndexInv, Cardinality(Live) = 1, NEW r, Exact(r)
  PROVE  Found(r)
<1>1. Live # {}
  <2>1. Cardinality({}) = 0
    BY FS_EmptySet
  <2> QED
    BY <2>1
<1>2. OneName /\ Target \in Live
  <2>1. CASE alias = {}
    <3>1. Cardinality(alias) = 0
      BY <2>1, FS_EmptySet
    <3>2. Target = 0 /\ 0 \in Live
      BY <1>1, <2>1, TargetIs DEF IndexInv, Live
    <3> QED
      BY <3>1, <3>2 DEF OneName
  <2>2. CASE alias # {}
    BY <2>2, TargetIs DEF IndexInv, Live, OneName
  <2> QED
    BY <2>1, <2>2
<1> QED
  BY <1>2 DEF Exact, Found

-----------------------------------------------------------------------------
(* An undisturbed build.                                                    *)

LEMMA BuilderOnly ==
  ASSUME IndexInv, NEW b \in Builders, Builder(b)
  PROVE  OnlyBuild(b) /\ UNCHANGED <<row, withheld, delta, rebuild>>
<1> DEFINE c == Chunk(build[b].last, Published)
           next == After(build[b].last, c)
<1>1. ReadChunk(b) => OnlyBuild(b)
  BY ReadChunkIs
<1>2. OnlyBuild(b)
  BY <1>1, StartBuildIs, BulkWriteIs, CheckBuildIs, ReadTargetsIs, SwapIs, EndIs DEF Builder
<1>3. UNCHANGED <<row, withheld, delta, rebuild>>
  BY DEF Builder, StartBuild, ReadChunk, BulkWrite, CheckBuild, ReadTargets, Swap, Prune, BuildDies
<1> QED
  BY <1>2, <1>3

\* The index of a build under way is none of those the alias names or Elasticsearch makes.
LEMMA OwnIndex ==
  ASSUME IndexInv, NEW b \in Builders, build[b].pc # "idle"
  PROVE  /\ build[b].index \in Indices /\ build[b].index # 0
         /\ index[build[b].index] \in IndexStates
         /\ index[build[b].index].docs \in [Ids -> Versions]
         /\ build[b].last \in Ids \cup {0} /\ build[b].chunk \in Docs
<1>1. build[b] \in Builds /\ build[b].index \in 1 .. used.builds /\ used.builds \in Nat
  BY IndexAssumption DEF IndexInv, BuildsOK, IndicesOK, IndicesFit
<1>2. build[b].index \in Indices /\ build[b].last \in Ids \cup {0} /\ build[b].chunk \in Docs
  BY <1>1 DEF Builds
<1>3. index[build[b].index] \in IndexStates
  BY <1>2 DEF IndexInv, IndicesOK, IndicesFit
<1>4. index[build[b].index].docs \in [Ids -> Versions]
  BY <1>3 DEF IndexStates, Docs
<1> QED
  BY <1>1, <1>2, <1>3, <1>4

LEMMA StartBuildCalm ==
  ASSUME IndexInv, NEW b \in Builders, StartBuild(b), calm'
  PROVE  Undisturbed'
<1> DEFINE i == used.builds + 1
<1>1. AllIdle /\ index' = [index EXCEPT ![i] = NewIndex] /\ UNCHANGED <<delta, rebuild, row, withheld>>
  BY DEF StartBuild
<1>2. BuildAlone(b)
  BY <1>1 DEF AllIdle, BuildAlone
<1>3. /\ OnlyBuild(b) /\ build'[b].pc = "read" /\ build'[b].index = i /\ build'[b].last = 0
      /\ build'[b].chunk = NoDocs /\ build'[b].total = Cardinality(Published) /\ ~build'[b].failed
      /\ i \in Indices
  BY StartBuildIs
<1> HIDE DEF i
<1>4. index'[i] = NewIndex
  BY <1>1, <1>3 DEF IndexInv, IndicesOK, IndicesFit
<1>5. index'[i].state = "mapped" /\ \A r \in Ids : index'[i].docs[r] = 0
  BY <1>4, Blank DEF NoDocs
<1>6. \A r \in Ids : ~(r =< 0)
  BY IndexAssumption
<1>7. Published' = Published
  BY <1>1 DEF Published
<1>8. BuildExact(b)'
  BY <1>3, <1>5, <1>6, <1>7 DEF BuildExact
<1> QED
  BY <1>1, <1>2, <1>3, <1>8, LoneBuild

LEMMA ReadChunkCalm ==
  ASSUME IndexInv, NEW b \in Builders, ReadChunk(b), BuildExact(b)
  PROVE  BuildExact(b)'
<1> DEFINE c == Chunk(build[b].last, Published)
           next == After(build[b].last, c)
           docs == index[build[b].index].docs
<1>1. /\ SameIdentity(b)
      /\ build'[b].pc = IF Members(c) = {} THEN "check" ELSE "write"
      /\ build'[b].last = next /\ build'[b].chunk = c /\ build'[b].failed = build[b].failed
  BY ReadChunkIs
<1>2. /\ build[b].pc = "read" /\ UNCHANGED <<row, withheld, index>>
      /\ Published' = Published
  <2>1. build[b].pc = "read" /\ UNCHANGED <<row, withheld, index>>
    BY DEF ReadChunk
  <2> QED
    BY <2>1 DEF Published
<1>3. row \in Docs /\ build[b].last \in Ids \cup {0}
  BY <1>2, OwnIndex DEF IndexInv, RowsOK
<1>4. /\ next \in Ids \cup {0} /\ next >= build[b].last
      /\ \A r \in Members(c) : r \in Published /\ r > build[b].last /\ r =< next /\ c[r] = row[r]
      /\ \A r \in Published : r > build[b].last /\ r =< next => r \in Members(c)
      /\ Members(c) = {} => \A r \in Published : r =< build[b].last
  BY <1>3, PublishedRows, Page
<1>5. Ids \cup {0} \subseteq Nat
  BY IndexAssumption
<1>6. build[b].last \in Nat /\ next \in Nat
  <2>1. next \in Ids \cup {0}
    BY <1>4
  <2> HIDE DEF next
  <2> QED
    BY <1>3, <1>5, <2>1
<1> HIDE DEF c, next, docs
<1>7. \A r \in Ids : docs[r] = IF r \in Published /\ r =< build[b].last THEN row[r] ELSE 0
  BY <1>2 DEF BuildExact, docs, NoDocs
<1>8. \A r \in Ids : c[r] # 0 <=> r \in Members(c)
  BY DEF Members
<1>9. ASSUME NEW r \in Ids
      PROVE  (r \in Published /\ r =< next /\ c[r] = 0) <=> (r \in Published /\ r =< build[b].last)
  <2>1. r \in Nat
    BY <1>5
  <2>2. c[r] # 0 => r > build[b].last
    BY <1>4, <1>8
  <2>3. r \in Published /\ r > build[b].last /\ r =< next => c[r] # 0
    BY <1>4, <1>8
  <2> QED
    BY <1>4, <1>6, <2>1, <2>2, <2>3
<1>10. /\ index'[build'[b].index].docs = docs
       /\ index'[build'[b].index].state = "mapped" /\ ~build'[b].failed
       /\ build'[b].total = Cardinality(Published)
  BY <1>1, <1>2 DEF SameIdentity, BuildExact, docs
<1>11. CASE Members(c) = {}
  <2>1. build'[b].pc = "check" /\ \A r \in Ids : docs[r] = IF r \in Published THEN row[r] ELSE 0
    BY <1>1, <1>4, <1>7, <1>11
  <2> QED
    BY <1>2, <1>10, <2>1 DEF BuildExact
<1>12. CASE Members(c) # {}
  <2>1. build'[b].pc = "write" /\ \A r \in Ids : docs[r] =
          IF r \in Published /\ r =< next /\ c[r] = 0 THEN row[r] ELSE 0
    BY <1>1, <1>7, <1>9, <1>12
  <2> QED
    BY <1>1, <1>2, <1>4, <1>10, <2>1 DEF BuildExact
<1> QED
  BY <1>11, <1>12

LEMMA BulkWriteCalm ==
  ASSUME IndexInv, NEW b \in Builders, BulkWrite(b), BuildExact(b), calm'
  PROVE  BuildExact(b)'
<1> DEFINE i == build[b].index
           c == build[b].chunk
<1>1. PICK S \in SUBSET Members(c) :
        /\ build'[b].failed = (build[b].failed \/ S # Members(c))
        /\ IF S = Members(c) THEN Fine ELSE Fault
        /\ index' = IF S = {} THEN index ELSE Written(i, [r \in S |-> c[r]])
  BY BulkWriteIs
<1>2. S = Members(c)
  BY <1>1 DEF Fault
<1>3. /\ SameIdentity(b) /\ build'[b].pc = "read" /\ build'[b].last = build[b].last
      /\ build'[b].chunk = NoDocs /\ ~build'[b].failed
  BY <1>1, <1>2, BulkWriteIs DEF BuildExact
<1>4. /\ build[b].pc = "write" /\ UNCHANGED <<row, withheld>> /\ Published' = Published
  <2>1. build[b].pc = "write" /\ UNCHANGED <<row, withheld>>
    BY DEF BulkWrite
  <2> QED
    BY <2>1 DEF Published
<1>5. i \in Indices /\ c \in [Ids -> Versions] /\ index \in [Indices -> IndexStates]
  BY <1>4, OwnIndex DEF Docs, IndexInv, IndicesOK, IndicesFit
<1>6. /\ index'[i].state = "mapped"
      /\ \A r \in Ids : index'[i].docs[r] = IF c[r] # 0 THEN c[r] ELSE index[i].docs[r]
  <2>1. \A r \in Ids : r \in S <=> c[r] # 0
    BY <1>2 DEF Members
  <2>2. CASE S = {}
    BY <1>1, <2>1, <2>2 DEF BuildExact
  <2>3. CASE S # {}
    <3> DEFINE ds == [r \in S |-> c[r]]
    <3>1. ds \in [S -> Versions] /\ S \in SUBSET Ids /\ \A r \in S : ds[r] = c[r]
      BY <1>5 DEF Members
    <3>2. index' = Written(i, ds)
      BY <1>1, <2>3
    <3> HIDE DEF ds
    <3>3. /\ index[i].state # "none" => index'[i].state = index[i].state
          /\ \A r \in S : index'[i].docs[r] = ds[r]
          /\ \A r \in Ids \ S : index'[i].docs[r] = index[i].docs[r]
      BY <1>5, <3>1, <3>2, WrittenIs
    <3>4. index[i].state = "mapped"
      BY DEF BuildExact
    <3> QED
      BY <2>1, <3>1, <3>3, <3>4
  <2> QED
    BY <2>2, <2>3
<1>7. ASSUME NEW r \in Ids
      PROVE  index'[i].docs[r] = IF r \in Published /\ r =< build[b].last THEN row[r] ELSE 0
  <2>1. c[r] # 0 => r \in Published /\ r =< build[b].last /\ c[r] = row[r]
    BY <1>4 DEF BuildExact, Members
  <2>2. index[i].docs[r] = IF r \in Published /\ r =< build[b].last /\ c[r] = 0 THEN row[r] ELSE 0
    BY <1>4 DEF BuildExact
  <2> QED
    BY <1>6, <2>1, <2>2
<1>8. build'[b].index = i /\ build'[b].total = Cardinality(Published)
  BY <1>3 DEF SameIdentity, BuildExact
<1> HIDE DEF i, c
<1>9. \A r \in Ids : build'[b].chunk[r] = 0
  BY <1>3 DEF NoDocs
<1> QED
  BY <1>3, <1>4, <1>6, <1>7, <1>8, <1>9 DEF BuildExact

\* The count agrees, and nothing was refused.
LEMMA CheckBuildCalm ==
  ASSUME IndexInv, NEW b \in Builders, CheckBuild(b), BuildExact(b)
  PROVE  build'[b].pc = "targets" /\ BuildExact(b)'
<1> DEFINE docs == index[build[b].index].docs
<1>1. /\ build[b].pc = "check" /\ UNCHANGED <<row, withheld, index>> /\ Published' = Published
  <2>1. build[b].pc = "check" /\ UNCHANGED <<row, withheld, index>>
    BY DEF CheckBuild
  <2> QED
    BY <2>1 DEF Published
<1>2. /\ \A r \in Ids : docs[r] = IF r \in Published THEN row[r] ELSE 0
      /\ index[build[b].index].state = "mapped" /\ ~build[b].failed
      /\ build[b].total = Cardinality(Published)
  BY <1>1 DEF BuildExact
<1>3. Members(docs) = Published
  BY <1>2, PublishedRows DEF Members
<1>4. index[build[b].index].state # "none" /\ Verified(b)
  BY <1>2, <1>3 DEF Verified
<1>5. build'[b].pc = "targets" /\ SameIdentity(b) /\ build'[b].failed = build[b].failed
  BY <1>4, CheckBuildIs
<1>6. index'[build'[b].index] = index[build[b].index] /\ build'[b].total = Cardinality(Published)
  BY <1>1, <1>2, <1>5 DEF SameIdentity
<1> QED
  BY <1>1, <1>2, <1>5, <1>6 DEF BuildExact

LEMMA ReadTargetsCalm ==
  ASSUME IndexInv, NEW b \in Builders, ReadTargets(b), BuildExact(b)
  PROVE  build'[b].pc = "swap" /\ BuildExact(b)'
<1>1. /\ build[b].pc = "targets" /\ UNCHANGED <<row, withheld, index, alias>> /\ Published' = Published
  <2>1. build[b].pc = "targets" /\ UNCHANGED <<row, withheld, index, alias>>
    BY DEF ReadTargets
  <2> QED
    BY <2>1 DEF Published
<1>2. /\ SameIdentity(b) /\ build'[b].pc = "swap" /\ build'[b].failed = build[b].failed
      /\ build'[b].targets = alias
      /\ build'[b].legacy <=> alias = {} /\ index[0].state # "none"
  BY ReadTargetsIs
<1>3. index'[build'[b].index] = index[build[b].index] /\ build'[b].total = build[b].total
  BY <1>1, <1>2 DEF SameIdentity
<1> QED
  BY <1>1, <1>2, <1>3 DEF BuildExact

\* Nothing has come in between: the swap is accepted.
LEMMA SwapCalm ==
  ASSUME IndexInv, NEW b \in Builders, Swap(b), BuildExact(b)
  PROVE  build'[b].pc = "prune" /\ BuildExact(b)'
<1> DEFINE i == build[b].index
<1>1. /\ build[b].pc = "swap" /\ UNCHANGED <<row, withheld>> /\ Published' = Published
  <2>1. build[b].pc = "swap" /\ UNCHANGED <<row, withheld>>
    BY DEF Swap
  <2> QED
    BY <2>1 DEF Published
<1>2. /\ \A r \in Ids : index[i].docs[r] = IF r \in Published THEN row[r] ELSE 0
      /\ index[i].state = "mapped" /\ ~build[b].failed /\ build[b].total = Cardinality(Published)
      /\ build[b].targets = alias
      /\ build[b].legacy <=> (alias = {} /\ index[0].state # "none")
  BY <1>1 DEF BuildExact
<1>3. i \in Indices /\ i # 0
  BY <1>1, OwnIndex
<1>4. CanSwap(b)
  <2>1. alias \subseteq Existing /\ (alias # {} => index[0].state = "none")
    BY DEF IndexInv, IndicesOK, IndicesFit, Existing
  <2>2. i \in Existing
    BY <1>2, <1>3 DEF Existing
  <2>3. {i} \cup build[b].targets \subseteq Existing
    BY <1>2, <2>1, <2>2
  <2>4. build[b].legacy <=> index[0].state # "none"
    BY <1>2, <2>1
  <2> QED
    BY <2>3, <2>4 DEF CanSwap
<1>5. /\ build'[b].pc = "prune" /\ SameIdentity(b) /\ build'[b].failed = build[b].failed
      /\ alias' = (alias \ build[b].targets) \cup {i}
      /\ index' = IF build[b].legacy THEN [index EXCEPT ![0] = NoIndex] ELSE index
  BY <1>2, <1>4, SwapIs
<1>6. alias' = {i}
  BY <1>2, <1>5
<1>7. index'[i] = index[i]
  BY <1>3, <1>5 DEF IndexInv, IndicesOK, IndicesFit
<1>8. build'[b].index = i /\ build'[b].total = build[b].total
  BY <1>5 DEF SameIdentity
<1> HIDE DEF i
<1> QED
  BY <1>1, <1>2, <1>5, <1>6, <1>7, <1>8 DEF BuildExact

BuildDone(b) ==
  /\ alias' = {build[b].index} /\ index'[build[b].index].state = "mapped"
  /\ index'[build[b].index].docs = [r \in Ids |-> IF r \in Published THEN row[r] ELSE 0]

LEMMA PruneDone ==
  ASSUME IndexInv, NEW b \in Builders, Prune(b), BuildExact(b)
  PROVE  BuildDone(b)
<1> DEFINE i == build[b].index
<1>1. /\ build[b].pc = "prune" /\ alias' = alias \cap Kept(b)
      /\ index' = [j \in Indices |-> IF j \in Existing \ Kept(b) THEN NoIndex ELSE index[j]]
  BY DEF Prune
<1>2. /\ \A r \in Ids : index[i].docs[r] = IF r \in Published THEN row[r] ELSE 0
      /\ index[i].state = "mapped" /\ alias = {i}
  BY <1>1 DEF BuildExact
<1>3. i \in Indices /\ index[i].docs \in [Ids -> Versions]
  BY <1>1, OwnIndex
<1>4. i \in Kept(b)
  BY DEF Kept
<1>5. alias' = {i} /\ index'[i] = index[i]
  BY <1>1, <1>2, <1>3, <1>4
<1>6. index[i].docs = [r \in Ids |-> IF r \in Published THEN row[r] ELSE 0]
  BY <1>2, <1>3
<1> QED
  BY <1>2, <1>5, <1>6 DEF BuildDone

\* Where nothing disturbs, a build goes on as it should, and ends with its pruning.
LEMMA BuilderCalm ==
  ASSUME IndexInv, CalmInv, NEW b \in Builders, Builder(b), calm'
  PROVE  Undisturbed' /\ (calm /\ build[b].pc # "idle" /\ build'[b].pc = "idle" => BuildDone(b))
<1>1. CASE StartBuild(b)
  BY <1>1, StartBuildCalm DEF StartBuild
<1>2. CASE ~StartBuild(b)
  <2>1. calm /\ build[b].pc # "idle" /\ ~BuildDies(b)
    BY <1>2 DEF Builder, ReadChunk, BulkWrite, CheckBuild, ReadTargets, Swap, Prune, BuildDies, Fine,
       Fault
  <2>2. BuildAlone(b) /\ BuildExact(b)
    BY <2>1 DEF CalmInv, Undisturbed
  <2>3. OnlyBuild(b) /\ UNCHANGED <<delta, rebuild>>
    BY BuilderOnly
  <2>4. CASE Prune(b)
    <3>1. build'[b].pc = "idle"
      BY <2>4, EndIs, Blank
    <3> QED
      BY <2>2, <2>3, <2>4, <3>1, LoneBuild, PruneDone
  <2>5. CASE ~Prune(b)
    <3>1. BuildExact(b)'
      BY <1>2, <2>1, <2>2, <2>5, ReadChunkCalm, BulkWriteCalm, CheckBuildCalm, ReadTargetsCalm, SwapCalm
         DEF Builder
    <3>2. build'[b].pc # "idle"
      <4>1. ReadChunk(b) => build'[b].pc # "idle"
        BY ReadChunkIs
      <4> QED
        BY <1>2, <2>1, <2>2, <2>5, <4>1, BulkWriteIs, CheckBuildCalm, ReadTargetsCalm, SwapCalm
           DEF Builder
    <3> QED
      BY <2>2, <2>3, <3>1, <3>2, LoneBuild
  <2> QED
    BY <2>4, <2>5
<1> QED
  BY <1>1, <1>2

-----------------------------------------------------------------------------
(* An undisturbed targeted refresh.                                         *)

LEMMA RefresherCalm ==
  ASSUME IndexInv, CalmInv, NEW d \in Deltas, Refresher(d), calm'
  PROVE  /\ Undisturbed'
         /\ calm /\ delta[d].pc # "idle" /\ delta'[d].pc = "idle" =>
              \A r \in delta[d].ids : row[r] # 0 => Exact(r)
<1>1. ASSUME NEW ids \in SUBSET Ids, StartDelta(d, ids)
      PROVE  Undisturbed' /\ delta[d].pc = "idle"
  <2>1. AllIdle /\ UNCHANGED <<build, rebuild>> /\ delta[d].pc = "idle"
    BY <1>1 DEF StartDelta
  <2>2. DeltaAlone(d)
    BY <2>1 DEF AllIdle, DeltaAlone
  <2>3. OnlyDelta(d) /\ delta'[d].pc = "read" /\ delta'[d].todo = delta'[d].ids
    BY <1>1, StartDeltaIs
  <2>4. DeltaExact(d)'
    BY <2>3 DEF DeltaExact
  <2> QED
    BY <2>1, <2>2, <2>3, <2>4, LoneDelta
<1>2. ASSUME ReadDelta(d) \/ WriteDelta(d) \/ EndDelta(d)
      PROVE  /\ calm \/ ~Fine
             /\ delta[d].pc # "idle" /\ UNCHANGED <<row, alias, build, rebuild>>
             /\ calm => DeltaAlone(d) /\ DeltaExact(d)
  <2>1. delta[d].pc # "idle" /\ UNCHANGED <<row, alias, build, rebuild>>
    BY <1>2 DEF ReadDelta, WriteDelta, EndDelta
  <2> QED
    BY <2>1 DEF CalmInv, Undisturbed, Fine
<1>3. CASE ReadDelta(d)
  <2>1. DeltaAlone(d) /\ DeltaExact(d)
    BY <1>2, <1>3 DEF ReadDelta
  <2>2. OnlyDelta(d) /\ delta[d].pc = "read"
        /\ delta'[d] = [pc |-> "write", ids |-> delta[d].ids, todo |-> delta[d].todo, read |-> row]
    BY <1>3, ReadDeltaIs DEF ReadDelta
  <2>3. /\ delta'[d].pc = "write" /\ delta'[d].read = row
        /\ delta'[d].ids \ delta'[d].todo = {}
    BY <2>1, <2>2 DEF DeltaExact
  <2>4. DeltaExact(d)'
    BY <1>2, <1>3, <2>3 DEF DeltaExact
  <2> QED
    BY <1>2, <1>3, <2>1, <2>2, <2>3, <2>4, LoneDelta
<1>4. CASE WriteDelta(d)
  <2> DEFINE r == Min(delta[d].todo)
  <2>1. /\ r \in Ids /\ delta[d].read[r] \in Versions /\ OnlyDelta(d)
        /\ delta'[d].pc = "write" /\ delta'[d].ids = delta[d].ids
        /\ delta'[d].todo = delta[d].todo \ {r} /\ delta'[d].read = delta[d].read
        /\ (Fine /\ index' = Applied(r, delta[d].read[r])) \/ (Fault /\ UNCHANGED index)
    BY <1>4, WriteDeltaIs
  <2> HIDE DEF r
  <2>2. Fine /\ index' = Applied(r, delta[d].read[r])
    BY <2>1 DEF Fault
  <2>3. /\ DeltaAlone(d) /\ DeltaExact(d) /\ UNCHANGED <<row, alias, build, rebuild>>
        /\ delta[d].pc = "write" /\ UNCHANGED used
    BY <1>2, <1>4, <2>2 DEF WriteDelta
  <2>4. delta[d].read = row /\ \A x \in delta[d].ids \ delta[d].todo : row[x] # 0 => Exact(x)
    BY <2>3 DEF DeltaExact
  <2>5. /\ Target' = Target /\ (OneName' <=> OneName)
    BY <2>3 DEF Target, OneName
  <2>6. OneName => /\ row[r] # 0 => index'[Target].docs[r] = row[r]
                   /\ \A x \in Ids \ {r} : index'[Target].docs[x] = index[Target].docs[x]
    BY <2>1, <2>2, <2>3, <2>4, AppliedFits DEF IndexInv, OneName
  <2>7. delta[d].ids \subseteq Ids
    BY DEF IndexInv, DeltasOK, Refreshes
  <2>8. ASSUME NEW x \in delta[d].ids \ (delta[d].todo \ {r}), row[x] # 0 PROVE Exact(x)'
    <3>1. x = r \/ (x \in Ids \ {r} /\ Exact(x))
      BY <2>4, <2>7, <2>8
    <3> QED
      BY <2>3, <2>5, <2>6, <2>8, <3>1 DEF Exact
  <2>9. DeltaExact(d)'
    BY <2>1, <2>3, <2>4, <2>8 DEF DeltaExact
  <2> QED
    BY <2>1, <2>3, <2>9, LoneDelta
<1>5. CASE EndDelta(d)
  <2>1. DeltaAlone(d) /\ DeltaExact(d) /\ delta[d].pc = "write" /\ delta[d].todo = {}
    BY <1>2, <1>5 DEF EndDelta
  <2>2. OnlyDelta(d) /\ delta'[d].pc = "idle"
    BY <1>5, EndDeltaIs, Blank
  <2>3. \A r \in delta[d].ids : row[r] # 0 => Exact(r)
    BY <2>1 DEF DeltaExact
  <2> QED
    BY <1>2, <1>5, <2>1, <2>2, <2>3, LoneDelta
<1>6. CASE DeltaDies(d)
  BY <1>6 DEF DeltaDies, Fault
<1> QED
  BY <1>1, <1>3, <1>4, <1>5, <1>6 DEF Refresher

-----------------------------------------------------------------------------
(* An undisturbed rebuild in place.                                         *)

\* What is not written stays exact.
LEMMA ExactStays ==
  ASSUME UNCHANGED <<row, index, alias>>
  PROVE  OneName' = OneName /\ \A r \in Ids : Exact(r)' <=> Exact(r)
BY DEF OneName, Exact, Target

LEMMA SelectedStays ==
  ASSUME UNCHANGED <<row, withheld>>, rebuild'.kind = rebuild.kind
  PROVE  Selected' = Selected
BY DEF Selected, Published

LEMMA StartRebuildCalm ==
  ASSUME IndexInv, NEW kind \in Kinds, NEW drop \in BOOLEAN, StartRebuild(kind, drop), calm'
  PROVE  Undisturbed'
<1>1. AllIdle /\ UNCHANGED <<build, delta>>
  BY DEF StartRebuild
<1>2. RebuildAlone
  BY <1>1 DEF AllIdle, RebuildAlone
<1>3. /\ rebuild'.pc = IF drop THEN "drop" ELSE "init"
      /\ rebuild'.last = 0 /\ rebuild'.round = 0
      /\ rebuild'.kind = "admin" => rebuild'.pc = "drop"
  BY StartRebuildIs DEF StartRebuild
<1>4. RebuildExact'
  BY <1>3 DEF RebuildExact
<1> QED
  BY <1>1, <1>2, <1>4, LoneRebuild

LEMMA DropCalm ==
  ASSUME IndexInv, Drop, RebuildExact
  PROVE  rebuild'.pc # "idle" => RebuildExact'
<1>1. CASE rebuild' = NoRebuild
  BY <1>1, Blank
<1>2. CASE rebuild'.pc = "init" /\ SameRows
  <2>1. rebuild.pc = "drop" /\ UNCHANGED alias
    BY DEF Drop
  <2>2. OneName' = OneName
    BY <2>1 DEF OneName
  <2>3. \A r \in Ids : row'[r] = 0 => Exact(r)'
    <3>1. alias = {} /\ alias' = {} /\ index' = [index EXCEPT ![0] = NoIndex] /\ row' = row
      BY <1>2, Blank DEF Drop
    <3>2. Target' = 0
      BY <3>1, TargetIs DEF Target
    <3>3. index'[0].docs = NoDocs
      BY <3>1, NoDocsType DEF NoIndex, IndexInv, IndicesOK, IndicesFit
    <3> QED
      BY <3>1, <3>2, <3>3 DEF Exact, NoDocs
  <2> QED
    BY <1>2, <2>1, <2>2, <2>3 DEF RebuildExact, SameRows
<1> QED
  BY <1>1, <1>2, DropIs

LEMMA InitIndexCalm ==
  ASSUME IndexInv, InitIndex, RebuildExact
  PROVE  RebuildExact'
<1>1. rebuild'.pc = "read" /\ SameRows
  BY InitIndexIs
<1>2. rebuild.pc = "init" /\ UNCHANGED <<row, withheld, alias>>
  BY DEF InitIndex
<1>3. OneName' = OneName
  BY <1>2 DEF OneName
<1>4. rebuild'.last = 0 /\ \A r \in Selected' : ~(r =< 0)
  <2>1. Selected' = Selected
    BY <1>1, <1>2, SelectedStays DEF SameRows
  <2>2. rebuild'.last = 0
    BY <1>1, <1>2 DEF RebuildExact, SameRows
  <2> QED
    BY <2>1, <2>2, SelectedRows, IndexAssumption
<1>5. ASSUME NEW r \in Ids, row[r] = 0, Exact(r) PROVE Exact(r)'
  <2>1. index' = index \/ (Live = {} /\ index' = [index EXCEPT ![0] = NewIndex])
    BY DEF InitIndex, Initialized
  <2>2. Target' = Target /\ row' = row
    BY <1>2 DEF Target
  <2>3. CASE index' = index
    BY <1>3, <1>5, <2>2, <2>3 DEF Exact
  <2>4. CASE Live = {} /\ index' = [index EXCEPT ![0] = NewIndex]
    <3>1. Target = 0
      BY <2>4, TargetIs DEF Live, IndexInv
    <3>2. index'[0].docs = NoDocs
      BY <2>4, NoDocsType DEF NewIndex, IndexInv, IndicesOK, IndicesFit
    <3> QED
      BY <1>5, <2>2, <3>1, <3>2 DEF Exact, NoDocs
  <2> QED
    BY <2>1, <2>3, <2>4
<1>6. rebuild'.kind = "admin" => \A r \in Ids : row'[r] = 0 => Exact(r)'
  BY <1>1, <1>2, <1>5 DEF RebuildExact, SameRows
<1> QED
  BY <1>1, <1>3, <1>4, <1>6 DEF RebuildExact, SameRows

LEMMA ReadRowsCalm ==
  ASSUME IndexInv, ReadRows, RebuildExact
  PROVE  /\ rebuild'.pc # "idle" => RebuildExact'
         /\ rebuild'.pc = "idle" => \A r \in Rebuilt : Exact(r)
<1> DEFINE c == Chunk(rebuild.last, Selected)
           next == After(rebuild.last, c)
<1>1. /\ Members(c) # {} => /\ rebuild'.pc = "write" /\ rebuild'.kind = rebuild.kind
                            /\ rebuild'.last = next /\ rebuild'.chunk = c
                            /\ rebuild'.round = rebuild.round
      /\ Members(c) = {} /\ rebuild.kind = "script" => rebuild'.pc = "verify" /\ SameRows
      /\ Members(c) = {} /\ rebuild.kind # "script" => rebuild' = NoRebuild
  BY ReadRowsIs
<1>2. rebuild.pc = "read" /\ UNCHANGED <<row, withheld, index, alias>>
  BY DEF ReadRows
<1>3. row \in Docs /\ rebuild.last \in Ids \cup {0} /\ Selected \in SUBSET Ids
  BY SelectedRows DEF IndexInv, RowsOK, RebuildOK, Rebuilds
<1>4. /\ next \in Ids \cup {0} /\ next >= rebuild.last
      /\ \A r \in Members(c) : r \in Selected /\ c[r] = row[r]
      /\ \A r \in Selected : r > rebuild.last /\ r =< next => r \in Members(c)
      /\ Members(c) = {} => \A r \in Selected : r =< rebuild.last
  BY <1>3, SelectedRows, Page
<1>5. Ids \cup {0} \subseteq Nat
  BY IndexAssumption
<1> HIDE DEF c, next
<1>6. \A r \in Selected : r =< rebuild.last => Exact(r)
  BY <1>2 DEF RebuildExact
<1>7. /\ OneName' = OneName /\ \A r \in Ids : Exact(r)' <=> Exact(r)
  BY <1>2, ExactStays
<1>8. CASE Members(c) # {}
  <2>1. Selected' = Selected
    BY <1>1, <1>2, <1>8, SelectedStays
  <2>2. ASSUME NEW r \in Selected, r =< next PROVE Exact(r)' \/ c[r] # 0
    <3>1. r \in Nat /\ rebuild.last \in Nat /\ r \in Ids
      BY <1>3, <1>5
    <3>2. CASE r =< rebuild.last
      BY <1>6, <1>7, <3>1, <3>2
    <3>3. CASE r > rebuild.last
      <4>1. r \in Members(c)
        BY <1>4, <2>2, <3>3
      <4> QED
        BY <4>1 DEF Members
    <3> QED
      BY <3>1, <3>2, <3>3
  <2>3. \A r \in Ids : c[r] # 0 => c[r] = row[r]
    BY <1>4 DEF Members
  <2>4. rebuild'.kind = "admin" => \A r \in Ids : row'[r] = 0 => Exact(r)'
    BY <1>1, <1>2, <1>7, <1>8 DEF RebuildExact
  <2> QED
    BY <1>1, <1>2, <1>7, <1>8, <2>1, <2>2, <2>3, <2>4 DEF RebuildExact
<1>9. CASE Members(c) = {}
  <2>1. \A r \in Selected : Exact(r)
    BY <1>4, <1>6, <1>9
  <2>2. CASE rebuild.kind = "script"
    <3>1. rebuild'.pc = "verify" /\ SameRows
      BY <1>1, <1>9, <2>2
    <3>2. Selected' = Selected
      BY <1>2, <3>1, SelectedStays DEF SameRows
    <3>3. \A r \in Selected' : Exact(r)'
      BY <1>3, <1>7, <2>1, <3>2
    <3> QED
      BY <1>7, <2>2, <3>1, <3>3 DEF RebuildExact, SameRows
  <2>3. CASE rebuild.kind # "script"
    <3>1. rebuild' = NoRebuild
      BY <1>1, <1>9, <2>3
    <3>2. rebuild'.pc = "idle"
      BY <3>1, Blank
    <3>3. rebuild.kind = "admin" => \A r \in Ids : row[r] # 0 => r \in Selected
      BY DEF Selected
    <3>4. rebuild.kind = "admin" => \A r \in Ids : Exact(r)
      BY <1>2, <2>1, <3>3 DEF RebuildExact
    <3> QED
      BY <2>1, <3>2, <3>4 DEF Rebuilt
  <2> QED
    BY <2>2, <2>3
<1> QED
  BY <1>8, <1>9

LEMMA WriteRowCalm ==
  ASSUME IndexInv, WriteRow, RebuildExact, calm'
  PROVE  rebuild'.pc = "write" /\ RebuildExact'
<1> DEFINE r == Min(Members(rebuild.chunk))
<1>1. /\ r \in Ids /\ rebuild.chunk[r] # 0 /\ rebuild.chunk[r] \in Versions
      /\ rebuild'.pc = "write" /\ SameRows
      /\ \A x \in Ids : rebuild'.chunk[x] = IF x = r THEN 0 ELSE rebuild.chunk[x]
      /\ (Fine /\ index' = WrittenLive(r, rebuild.chunk[r])) \/ (Fault /\ UNCHANGED index)
  BY WriteRowIs
<1> HIDE DEF r
<1>2. index' = WrittenLive(r, rebuild.chunk[r])
  BY <1>1 DEF Fault
<1>3. rebuild.pc = "write" /\ UNCHANGED <<row, withheld, alias, used>>
  BY DEF WriteRow
<1>4. /\ \A x \in Selected : x =< rebuild.last => Exact(x) \/ rebuild.chunk[x] # 0
      /\ \A x \in Ids : rebuild.chunk[x] # 0 => rebuild.chunk[x] = row[x]
  BY <1>3 DEF RebuildExact
<1>5. Target' = Target /\ OneName' = OneName /\ Selected' = Selected /\ Selected \subseteq Ids
  BY <1>1, <1>3, SelectedStays, SelectedRows DEF Target, OneName, SameRows
<1>6. OneName => /\ index'[Target].docs[r] = row[r]
                 /\ \A x \in Ids \ {r} : index'[Target].docs[x] = index[Target].docs[x]
  BY <1>1, <1>2, <1>3, <1>4, LiveWrite DEF IndexInv, OneName
<1>7. ASSUME NEW x \in Ids, x = r \/ Exact(x) PROVE Exact(x)'
  <2>1. SUFFICES ASSUME OneName' PROVE index'[Target'].docs[x] = row'[x]
    BY DEF Exact
  <2>2. OneName /\ Target' = Target /\ row' = row
    BY <1>3, <1>5, <2>1
  <2>3. CASE x = r
    BY <1>6, <2>2, <2>3
  <2>4. CASE x # r
    <3>1. index[Target].docs[x] = row[x]
      BY <1>7, <2>2, <2>4 DEF Exact
    <3> QED
      BY <1>6, <2>2, <2>4, <3>1
  <2> QED
    BY <2>3, <2>4
<1>8. ASSUME NEW x \in Selected', x =< rebuild'.last PROVE Exact(x)' \/ rebuild'.chunk[x] # 0
  <2>1. x \in Ids /\ (Exact(x) \/ rebuild.chunk[x] # 0)
    BY <1>1, <1>4, <1>5, <1>8 DEF SameRows
  <2>2. CASE x = r
    BY <1>7, <2>1, <2>2
  <2>3. CASE x # r
    BY <1>1, <1>7, <2>1, <2>3
  <2> QED
    BY <2>2, <2>3
<1>9. \A x \in Ids : rebuild'.chunk[x] # 0 => rebuild'.chunk[x] = row'[x]
  BY <1>1, <1>3, <1>4
<1>10. rebuild'.kind = "admin" => \A x \in Ids : row'[x] = 0 => Exact(x)'
  BY <1>1, <1>3, <1>7 DEF RebuildExact, SameRows
<1> QED
  BY <1>1, <1>3, <1>5, <1>8, <1>9, <1>10 DEF RebuildExact, SameRows

LEMMA WroteRowsCalm ==
  ASSUME IndexInv, WroteRows, RebuildExact
  PROVE  rebuild'.pc # "idle" /\ RebuildExact'
<1>1. rebuild'.pc = (IF rebuild.round > 0 THEN "verify" ELSE "read") /\ SameRows
  BY WroteRowsIs
<1>2. /\ rebuild.pc = "write" /\ Members(rebuild.chunk) = {}
      /\ UNCHANGED <<row, withheld, index, alias>>
  BY DEF WroteRows
<1>3. \A r \in Ids : rebuild.chunk[r] = 0
  BY <1>2 DEF Members
<1>4. /\ OneName' = OneName /\ \A r \in Ids : Exact(r)' <=> Exact(r)
  BY <1>2, ExactStays
<1>5. Selected' = Selected /\ Selected \subseteq Ids
  BY <1>1, <1>2, SelectedStays, SelectedRows DEF SameRows
<1>6. \A r \in Selected' : r =< rebuild'.last => Exact(r)'
  BY <1>1, <1>2, <1>3, <1>4, <1>5 DEF RebuildExact, SameRows
<1>7. rebuild'.kind = "admin" => \A r \in Ids : row'[r] = 0 => Exact(r)'
  BY <1>1, <1>2, <1>4 DEF RebuildExact, SameRows
<1>8. CASE rebuild.round > 0
  <2>1. ~OneName /\ rebuild.kind = "script" /\ rebuild'.pc = "verify"
    BY <1>1, <1>8 DEF RebuildExact
  <2>2. \A r \in Selected' : Exact(r)'
    BY <1>4, <2>1 DEF Exact
  <2> QED
    BY <1>1, <1>4, <1>7, <2>1, <2>2 DEF RebuildExact, SameRows
<1>9. CASE ~(rebuild.round > 0)
  BY <1>1, <1>6, <1>9, <1>7 DEF RebuildExact, SameRows
<1> QED
  BY <1>8, <1>9

\* Only where two indices bear the name is anything left to write again.
LEMMA VerifyCalm ==
  ASSUME IndexInv, Verify, RebuildExact
  PROVE  rebuild'.pc # "idle" => RebuildExact'
<1>1. /\ rebuild.pc = "verify" /\ UNCHANGED <<row, withheld, index, alias>>
  BY DEF Verify
<1>2. rebuild.kind = "script" /\ \A r \in Selected : Exact(r)
  BY <1>1 DEF RebuildExact
<1>3. Selected = Published
  BY <1>2 DEF Selected
<1>4. OneName' = OneName
  BY <1>1, ExactStays
<1>5. CASE rebuild' = NoRebuild
  BY <1>5, Blank
<1>6. CASE /\ Missing # {} /\ Live # {}
           /\ rebuild'.pc = "write" /\ rebuild'.kind = rebuild.kind
           /\ rebuild'.chunk = [r \in Ids |-> IF r \in Missing THEN row[r] ELSE 0]
  <2>1. PICK m \in Missing : TRUE
    BY <1>6
  <2>2. m \in Published /\ row[m] # 0 /\ \A i \in Live : index[i].docs[m] = 0
    BY <2>1, PublishedRows DEF Missing
  <2>3. Target \in Live
    <3>1. CASE alias = {}
      BY <1>6, <3>1, TargetIs DEF IndexInv, Live
    <3>2. CASE alias # {}
      BY <3>2, TargetIs DEF IndexInv, Live
    <3> QED
      BY <3>1, <3>2
  <2>4. ~OneName
    BY <1>2, <1>3, <2>2, <2>3 DEF Exact
  <2>5. \A r \in Selected' : Exact(r)'
    BY <1>4, <2>4 DEF Exact
  <2>6. \A r \in Ids : rebuild'.chunk[r] # 0 => rebuild'.chunk[r] = row'[r]
    BY <1>1, <1>6
  <2> QED
    BY <1>2, <1>4, <1>6, <2>4, <2>5, <2>6 DEF RebuildExact
<1> QED
  BY <1>5, <1>6, VerifyIs

LEMMA RebuilderCalm ==
  ASSUME IndexInv, CalmInv, Rebuilder, calm'
  PROVE  /\ Undisturbed'
         /\ calm /\ rebuild.pc \in {"read", "verify"} /\ rebuild'.pc = "idle" =>
              \A r \in Rebuilt : Exact(r)
<1>1. ASSUME NEW kind \in Kinds, NEW drop \in BOOLEAN, StartRebuild(kind, drop)
      PROVE  Undisturbed' /\ rebuild.pc = "idle"
  BY <1>1, StartRebuildCalm DEF StartRebuild
<1>2. CASE ~(\E kind \in Kinds, drop \in BOOLEAN : StartRebuild(kind, drop))
  <2>1. calm /\ rebuild.pc # "idle" /\ ~RebuildDies /\ UNCHANGED <<build, delta>>
    BY <1>2 DEF Rebuilder, Drop, InitIndex, ReadRows, WriteRow, WroteRows, Verify, RebuildDies, Fine,
       Fault
  <2>2. RebuildAlone /\ RebuildExact
    BY <2>1 DEF CalmInv, Undisturbed
  <2>3. rebuild'.pc # "idle" => RebuildExact'
    BY <1>2, <2>1, <2>2, DropCalm, InitIndexCalm, ReadRowsCalm, WriteRowCalm, WroteRowsCalm, VerifyCalm
       DEF Rebuilder
  <2>4. ASSUME rebuild.pc \in {"read", "verify"}, rebuild'.pc = "idle" PROVE \A r \in Rebuilt : Exact(r)
    <3>1. CASE ReadRows
      BY <2>2, <2>4, <3>1, ReadRowsCalm
    <3>2. CASE rebuild.pc = "verify"
      BY <2>2, <3>2 DEF RebuildExact, Rebuilt
    <3>3. CASE rebuild.pc = "read" /\ ~ReadRows
      BY <1>2, <2>1, <3>3 DEF Rebuilder, Drop, InitIndex, WriteRow, WroteRows, Verify
    <3> QED
      BY <2>4, <3>1, <3>2, <3>3
  <2> QED
    BY <2>1, <2>2, <2>3, <2>4, LoneRebuild
<1> QED
  BY <1>1, <1>2

-----------------------------------------------------------------------------

LEMMA CalmInit == Init => CalmInv
BY DEF Init, CalmInv

LEMMA CalmStep == IndexInv /\ CalmInv /\ [Next]_vars => CalmInv'
<1> SUFFICES ASSUME IndexInv, CalmInv, [Next]_vars, calm' PROVE Undisturbed'
  BY DEF CalmInv
<1>1. CASE Change \/ StartApp
  BY <1>1 DEF Change, ChangeRow, StartApp
<1>2. CASE UNCHANGED vars
  <2>1. Undisturbed
    BY <1>2 DEF vars, CalmInv
  <2> QED
    BY <1>2, <2>1 DEF vars, Undisturbed, BuildAlone, DeltaAlone, RebuildAlone, BuildExact, DeltaExact,
       RebuildExact, Exact, OneName, Target, Selected, Published
<1> QED
  BY <1>1, <1>2, BuilderCalm, RefresherCalm, RebuilderCalm DEF Next

\* What a step that nothing disturbs may end.
LEMMA CalmEnds ==
  ASSUME IndexInv, CalmInv, Next, calm, calm'
  PROVE  /\ \A b \in Builders : build[b].pc # "idle" /\ build'[b].pc = "idle" => BuildDone(b)
         /\ \A d \in Deltas : delta[d].pc # "idle" /\ delta'[d].pc = "idle" =>
              \A r \in delta[d].ids : row[r] # 0 => Exact(r)
         /\ rebuild.pc \in {"read", "verify"} /\ rebuild'.pc = "idle" => \A r \in Rebuilt : Exact(r)
<1>0. ~Change /\ ~StartApp
  BY DEF Change, ChangeRow, StartApp
<1>1. ASSUME NEW b \in Builders, build[b].pc # "idle", build'[b].pc = "idle" PROVE BuildDone(b)
  <2>1. PICK c \in Builders : Builder(c)
    <3>1. build' # build
      BY <1>1
    <3>2. Rebuilder => build' = build
      BY DEF Rebuilder, StartRebuild, Drop, InitIndex, ReadRows, WriteRow, WroteRows, Verify, RebuildDies
    <3>3. \A d \in Deltas : Refresher(d) => build' = build
      BY DEF Refresher, StartDelta, ReadDelta, WriteDelta, EndDelta, DeltaDies
    <3> QED
      BY <1>0, <3>1, <3>2, <3>3 DEF Next
  <2>2. c = b
    BY <1>1, <2>1, BuilderOnly DEF OnlyBuild
  <2> QED
    BY <1>1, <2>1, <2>2, BuilderCalm
<1>2. ASSUME NEW d \in Deltas, delta[d].pc # "idle", delta'[d].pc = "idle"
      PROVE  \A r \in delta[d].ids : row[r] # 0 => Exact(r)
  <2>1. PICK e \in Deltas : Refresher(e)
    <3>1. delta' # delta
      BY <1>2
    <3>2. Rebuilder => delta' = delta
      BY DEF Rebuilder, StartRebuild, Drop, InitIndex, ReadRows, WriteRow, WroteRows, Verify, RebuildDies
    <3>3. \A b \in Builders : Builder(b) => delta' = delta
      BY BuilderOnly
    <3> QED
      BY <1>0, <3>1, <3>2, <3>3 DEF Next
  <2>2. OnlyDelta(e)
    BY <2>1, StartDeltaIs, ReadDeltaIs, WriteDeltaIs, EndDeltaIs DEF Refresher
  <2>3. e = d
    BY <1>2, <2>2 DEF OnlyDelta
  <2> QED
    BY <1>2, <2>1, <2>3, RefresherCalm
<1>3. ASSUME rebuild.pc \in {"read", "verify"}, rebuild'.pc = "idle" PROVE \A r \in Rebuilt : Exact(r)
  <2>1. Rebuilder
    <3>1. rebuild' # rebuild
      BY <1>3
    <3>2. \A d \in Deltas : Refresher(d) => rebuild' = rebuild
      BY DEF Refresher, StartDelta, ReadDelta, WriteDelta, EndDelta, DeltaDies
    <3>3. \A b \in Builders : Builder(b) => rebuild' = rebuild
      BY BuilderOnly
    <3> QED
      BY <1>0, <3>1, <3>2, <3>3 DEF Next
  <2> QED
    BY <1>3, <2>1, RebuilderCalm
<1> QED
  BY <1>1, <1>2, <1>3

\* A build, a targeted refresh or a rebuild in place that nothing has disturbed leaves the
\* search as the rows are, for any records, builders, refreshes, pages and rounds: builds and
\* the operator's rebuild for every id, a refresh for those of its ids that have a row, the
\* script's rebuild for the published rows.
THEOREM CalmIsExact == Spec => UndisturbedIsExact
<1>1. IndexInv /\ CalmInv /\ [Next]_vars => [calm /\ calm' =>
       /\ \A b \in Builders : build[b].pc # "idle" /\ build'[b].pc = "idle" =>
            /\ alias' = {build[b].index} /\ index'[build[b].index].state = "mapped"
            /\ index'[build[b].index].docs = [r \in Ids |-> IF r \in Published THEN row[r] ELSE 0]
       /\ \A d \in Deltas : delta[d].pc # "idle" /\ delta'[d].pc = "idle" /\ Cardinality(Live) = 1 =>
            \A r \in delta[d].ids : row[r] # 0 => Found(r)
       /\ rebuild.pc \in {"read", "verify"} /\ rebuild'.pc = "idle" /\ Cardinality(Live) = 1 =>
            \A r \in Rebuilt : Found(r)]_vars
  <2> SUFFICES ASSUME IndexInv, CalmInv, Next, calm, calm'
      PROVE  /\ \A b \in Builders : build[b].pc # "idle" /\ build'[b].pc = "idle" =>
                  /\ alias' = {build[b].index} /\ index'[build[b].index].state = "mapped"
                  /\ index'[build[b].index].docs = [r \in Ids |-> IF r \in Published THEN row[r] ELSE 0]
             /\ \A d \in Deltas : delta[d].pc # "idle" /\ delta'[d].pc = "idle" /\ Cardinality(Live) = 1
                  => \A r \in delta[d].ids : row[r] # 0 => Found(r)
             /\ rebuild.pc \in {"read", "verify"} /\ rebuild'.pc = "idle" /\ Cardinality(Live) = 1 =>
                  \A r \in Rebuilt : Found(r)
    OBVIOUS
  <2>1. \A b \in Builders : build[b].pc # "idle" /\ build'[b].pc = "idle" =>
          /\ alias' = {build[b].index} /\ index'[build[b].index].state = "mapped"
          /\ index'[build[b].index].docs = [r \in Ids |-> IF r \in Published THEN row[r] ELSE 0]
    BY CalmEnds DEF BuildDone
  <2>2. \A d \in Deltas : delta[d].pc # "idle" /\ delta'[d].pc = "idle" /\ Cardinality(Live) = 1
          => \A r \in delta[d].ids : row[r] # 0 => Found(r)
    BY CalmEnds, ExactFound
  <2>3. rebuild.pc \in {"read", "verify"} /\ rebuild'.pc = "idle" /\ Cardinality(Live) = 1 =>
          \A r \in Rebuilt : Found(r)
    BY CalmEnds, ExactFound
  <2> QED
    BY <2>1, <2>2, <2>3
<1>2. Spec => []CalmInv
  BY Invariant, CalmInit, CalmStep, PTL DEF Spec
<1> QED
  BY <1>1, <1>2, Invariant, PTL DEF Spec, UndisturbedIsExact

=============================================================================
