---------------------------- MODULE SearchIndex ----------------------------
(***************************************************************************)
(* The search index beside the table it is built from: atomic builds that  *)
(* move an alias (reindex_atomic.py), rebuilds in place by an operator or  *)
(* a script (index.py, reindex.py), the targeted refresh after a bridge    *)
(* delta (bridge_sync/search_index.py), and the application's start        *)
(* (client.py).  Nothing locks them against each other.                    *)
(*                                                                         *)
(* Abstractions: a row is its version, and its document is that version;   *)
(* the rows of a chunk are read in one step, as are the ids of a chunk and *)
(* their rows, and a builder's bulk request is one step.  Indices have     *)
(* numbers: 0 is the index that bears the name of the alias, the builds    *)
(* are numbered by the time in their names.  Whatever fails is a fault.    *)
(***************************************************************************)
EXTENDS Integers, FiniteSets, FiniteSetsExt

CONSTANTS Ids,          \* ids of records, in the order of pagination
          Builders,     \* atomic builds under way at once
          Deltas,       \* targeted refreshes under way at once
          Retain,       \* REINDEX_ATOMIC_RETAIN_PREVIOUS
          ChunkSize,    \* how many rows one page of ids has
          VerifyRounds, \* VERIFY_ROUNDS of reindex.py
          Kinds,        \* the rebuilds in place considered, of "admin" and "script"
          MaxBuilds,    \* bound: atomic builds
          MaxRefreshes, \* bound: targeted refreshes
          MaxRebuilds,  \* bound: rebuilds in place
          MaxChanges,   \* bound: changes of rows
          MaxFaults     \* bound: requests that fail, processes that die

ASSUME IndexAssumption ==
  /\ Ids \subseteq Nat \ {0} /\ IsFiniteSet(Ids)
  /\ Kinds \subseteq {"admin", "script"}
  /\ Retain \in Nat /\ VerifyRounds \in Nat /\ ChunkSize \in Nat \ {0}
  /\ MaxBuilds \in Nat /\ MaxRefreshes \in Nat /\ MaxRebuilds \in Nat
  /\ MaxChanges \in Nat /\ MaxFaults \in Nat

VARIABLES
  row,      \* row[r]: the version of the row in resources, 0 if there is none
  withheld, \* rows whose publication state is not 'published'
  index,    \* index[i]: its state, and the version it has of each record
  alias,    \* the indices the alias names
  build,    \* build[b]: the atomic build b
  delta,    \* delta[d]: the targeted refresh d
  rebuild,  \* the rebuild in place
  used,     \* how many builds, refreshes and rebuilds have begun
  changes,  \* number of changes of rows
  faults,   \* number of faults
  calm      \* history: nothing has disturbed the actor that began last

vars == <<row, withheld, index, alias, build, delta, rebuild, used, changes, faults, calm>>

Versions == 0 .. (MaxChanges + 1)
Docs == [Ids -> Versions]
Indices == 0 .. MaxBuilds
BuildSteps == {"idle", "read", "write", "check", "targets", "swap", "prune"}
RebuildSteps == {"idle", "drop", "init", "read", "write", "verify"}

TypeOK ==
  /\ row \in Docs
  /\ withheld \subseteq Ids
  /\ index \in [Indices -> [state : {"none", "mapped", "bare"}, docs : Docs]]
  /\ alias \subseteq Indices \ {0}
  /\ build \in [Builders -> [pc : BuildSteps, index : Indices, last : Ids \cup {0}, chunk : Docs,
                             total : 0 .. Cardinality(Ids), failed : BOOLEAN,
                             targets : SUBSET Indices, legacy : BOOLEAN, since : Docs]]
  /\ delta \in [Deltas -> [pc : {"idle", "read", "write"}, ids : SUBSET Ids, todo : SUBSET Ids,
                           read : Docs]]
  /\ rebuild \in [pc : RebuildSteps, kind : {"none"} \cup Kinds, last : Ids \cup {0}, chunk : Docs,
                  round : 0 .. VerifyRounds]
  /\ used \in [builds : 0 .. MaxBuilds, refreshes : 0 .. MaxRefreshes, rebuilds : 0 .. MaxRebuilds]
  /\ changes \in 0 .. MaxChanges
  /\ faults \in 0 .. MaxFaults
  /\ calm \in BOOLEAN

NoDocs == [r \in Ids |-> 0]
NoBuild == [pc |-> "idle", index |-> 0, last |-> 0, chunk |-> NoDocs, total |-> 0, failed |-> FALSE,
            targets |-> {}, legacy |-> FALSE, since |-> NoDocs]
NoDelta == [pc |-> "idle", ids |-> {}, todo |-> {}, read |-> NoDocs]
NoRebuild == [pc |-> "idle", kind |-> "none", last |-> 0, chunk |-> NoDocs, round |-> 0]
NoIndex == [state |-> "none", docs |-> NoDocs]
NewIndex == [state |-> "mapped", docs |-> NoDocs]

\* The index of an earlier deployment, or none yet.
Init ==
  /\ row \in [Ids -> {0, 1}]
  /\ withheld = {}
  /\ index \in {[i \in Indices |-> NoIndex],
                [i \in Indices |-> IF i = 0 THEN [state |-> "mapped", docs |-> row] ELSE NoIndex]}
  /\ alias = {}
  /\ build = [b \in Builders |-> NoBuild]
  /\ delta = [d \in Deltas |-> NoDelta]
  /\ rebuild = NoRebuild
  /\ used = [builds |-> 0, refreshes |-> 0, rebuilds |-> 0]
  /\ changes = 0 /\ faults = 0
  /\ calm = FALSE

Fine == UNCHANGED <<faults, calm>>
Fault == faults < MaxFaults /\ faults' = faults + 1 /\ calm' = FALSE

AllIdle ==
  /\ \A b \in Builders : build[b].pc = "idle"
  /\ \A d \in Deltas : delta[d].pc = "idle"
  /\ rebuild.pc = "idle"

----------------------------------------------------------------------------
(* Rows, and what Elasticsearch does.                                       *)

Published == {r \in Ids : row[r] # 0 /\ r \notin withheld}

\* A harvest or a bridge sync writes, withholds or deletes a row; builds under way may
\* have read it or not.
ChangeRow(r, v, hide) ==
  /\ changes < MaxChanges
  /\ changes' = changes + 1
  /\ row' = [row EXCEPT ![r] = v]
  /\ withheld' = IF hide THEN withheld \cup {r} ELSE withheld \ {r}
  /\ build' = [b \in Builders |-> IF v = 0 \/ hide THEN [build[b] EXCEPT !.since[r] = 0] ELSE build[b]]
  /\ calm' = FALSE
  /\ UNCHANGED <<index, alias, delta, rebuild, used, faults>>

\* The indices a request to the alias reaches.
Live == IF alias # {} THEN alias ELSE {i \in {0} : index[i].state # "none"}

\* A document is written to an index, which is created, without a mapping, if there is none.
Written(i, docs) ==
  [index EXCEPT ![i] = [state |-> IF @.state = "none" THEN "bare" ELSE @.state,
                        docs |-> [r \in Ids |-> IF r \in DOMAIN docs THEN docs[r] ELSE @.docs[r]]]]

\* A document is written under the name of the alias; two indices under it refuse it.
WrittenLive(r, v) ==
  IF Cardinality(alias) > 1 THEN index
  ELSE Written(CHOOSE i \in Indices : i \in (IF alias = {} THEN {0} ELSE alias), [x \in {r} |-> v])

\* init_elasticsearch: an index that is there, also one without a mapping, stays as it is.
Initialized == IF Live = {} THEN [index EXCEPT ![0] = NewIndex] ELSE index

StartApp ==
  /\ Live = {}
  /\ index' = Initialized
  /\ calm' = FALSE
  /\ UNCHANGED <<row, withheld, alias, build, delta, rebuild, used, changes, faults>>

\* The next page of the rows in S after id last.
Chunk(last, S) ==
  LET rest == {r \in S : r > last}
      page == {r \in rest : Cardinality({s \in rest : s <= r}) <= ChunkSize}
  IN [r \in Ids |-> IF r \in page THEN row[r] ELSE 0]
Members(docs) == {r \in Ids : docs[r] # 0}
After(last, docs) == IF Members(docs) = {} THEN last ELSE Max(Members(docs))

----------------------------------------------------------------------------
(* The atomic build of an index under a name of its own.                    *)

Existing == {i \in Indices \ {0} : index[i].state # "none"}

\* The index is created; the published rows are counted.
StartBuild(b) ==
  /\ build[b].pc = "idle" /\ used.builds < MaxBuilds
  /\ LET i == used.builds + 1 IN
     /\ used' = [used EXCEPT !.builds = i]
     /\ index' = [index EXCEPT ![i] = NewIndex]
     /\ build' = [build EXCEPT ![b] =
          [pc |-> "read", index |-> i, last |-> 0, chunk |-> NoDocs, total |-> Cardinality(Published),
           failed |-> FALSE, targets |-> {}, legacy |-> FALSE,
           since |-> [r \in Ids |-> IF r \in Published THEN row[r] ELSE 0]]]
  /\ calm' = AllIdle
  /\ UNCHANGED <<row, withheld, alias, delta, rebuild, changes, faults>>

\* _db_id_batch, and the documents of the rows it names.
ReadChunk(b) ==
  /\ build[b].pc = "read"
  /\ LET chunk == Chunk(build[b].last, Published) IN
     build' = [build EXCEPT ![b].chunk = chunk,
                            ![b].last = After(@, chunk),
                            ![b].pc = IF Members(chunk) = {} THEN "check" ELSE "write"]
  /\ Fine
  /\ UNCHANGED <<row, withheld, index, alias, delta, rebuild, used, changes>>

\* What stays refused after the retries of the bulk request is only counted.
BulkWrite(b) ==
  /\ build[b].pc = "write"
  /\ \E S \in SUBSET Members(build[b].chunk) :
       /\ IF S = Members(build[b].chunk) THEN Fine ELSE Fault
       /\ index' = IF S = {} THEN index
                   ELSE Written(build[b].index, [r \in S |-> build[b].chunk[r]])
       /\ build' = [build EXCEPT ![b].chunk = NoDocs, ![b].pc = "read",
                                 ![b].failed = @ \/ S # Members(build[b].chunk)]
  /\ UNCHANGED <<row, withheld, alias, delta, rebuild, used, changes>>

\* Mutants: documents that were refused are not asked about; the new index is not spared.
VerifiedByCount(b) == Cardinality(Members(index[build[b].index].docs)) = build[b].total
KeptNewest(b) == {i \in Existing : Cardinality({j \in Existing : j >= i}) <= Retain}

\* The index is as large as the table was, and nothing was refused.
Verified(b) ==
  /\ ~build[b].failed
  /\ Cardinality(Members(index[build[b].index].docs)) = build[b].total

\* A build that fails leaves its index where it is.
CheckBuild(b) ==
  /\ build[b].pc = "check"
  /\ build' = [build EXCEPT ![b] =
       IF index[build[b].index].state # "none" /\ Verified(b) THEN [@ EXCEPT !.pc = "targets"]
       ELSE NoBuild]
  /\ Fine
  /\ UNCHANGED <<row, withheld, index, alias, delta, rebuild, used, changes>>

ReadTargets(b) ==
  /\ build[b].pc = "targets"
  /\ build' = [build EXCEPT ![b].pc = "swap", ![b].targets = alias,
                            ![b].legacy = alias = {} /\ index[0].state # "none"]
  /\ Fine
  /\ UNCHANGED <<row, withheld, index, alias, delta, rebuild, used, changes>>

\* The requested actions can be applied: what is to be removed exists, and no index has
\* the name of the alias.
CanSwap(b) ==
  /\ {build[b].index} \cup build[b].targets \subseteq Existing
  /\ build[b].legacy <=> index[0].state # "none"

\* Removing the alias from an index that has lost it may be accepted or not.
Swap(b) ==
  /\ build[b].pc = "swap"
  /\ \/ /\ CanSwap(b)
        /\ alias' = (alias \ build[b].targets) \cup {build[b].index}
        /\ index' = IF build[b].legacy THEN [index EXCEPT ![0] = NoIndex] ELSE index
        /\ build' = [build EXCEPT ![b].pc = "prune"]
     \/ /\ ~CanSwap(b) \/ ~(build[b].targets \subseteq alias)
        /\ build' = [build EXCEPT ![b] = NoBuild]
        /\ UNCHANGED <<index, alias>>
  /\ Fine
  /\ UNCHANGED <<row, withheld, delta, rebuild, used, changes>>

\* The own index is kept, and the Retain newest of the others.
Kept(b) ==
  LET previous == Existing \ {build[b].index}
  IN {build[b].index} \cup {i \in previous : Cardinality({j \in previous : j >= i}) <= Retain}

Prune(b) ==
  /\ build[b].pc = "prune"
  /\ index' = [i \in Indices |-> IF i \in Existing \ Kept(b) THEN NoIndex ELSE index[i]]
  /\ alias' = alias \cap Kept(b)
  /\ build' = [build EXCEPT ![b] = NoBuild]
  /\ Fine
  /\ UNCHANGED <<row, withheld, delta, rebuild, used, changes>>

\* The process dies, or a request of it fails that it does not survive.
BuildDies(b) ==
  /\ build[b].pc # "idle"
  /\ Fault
  /\ build' = [build EXCEPT ![b] = NoBuild]
  /\ UNCHANGED <<row, withheld, index, alias, delta, rebuild, used, changes>>

----------------------------------------------------------------------------
(* The targeted refresh after a bridge delta.                               *)

StartDelta(d, ids) ==
  /\ delta[d].pc = "idle" /\ used.refreshes < MaxRefreshes
  /\ used' = [used EXCEPT !.refreshes = @ + 1]
  /\ delta' = [delta EXCEPT ![d] = [pc |-> "read", ids |-> ids, todo |-> ids, read |-> NoDocs]]
  /\ calm' = AllIdle
  /\ UNCHANGED <<row, withheld, index, alias, build, rebuild, changes, faults>>

\* The rows of one batch, published or not.
ReadDelta(d) ==
  /\ delta[d].pc = "read"
  /\ delta' = [delta EXCEPT ![d].pc = "write", ![d].read = row]
  /\ Fine
  /\ UNCHANGED <<row, withheld, index, alias, build, rebuild, used, changes>>

\* Mutant: a document that is there is not replaced.
AppliedIfNew(r, v) ==
  IF v = 0 \/ \E i \in Live : index[i].docs[r] # 0 THEN index ELSE WrittenLive(r, v)

\* For a record without a row, whose version is 0, es.delete is called with an argument that
\* elasticsearch 9 does not take (ignore_status): the TypeError is counted as an error and
\* the document stays.
Applied(r, v) == IF v = 0 THEN index ELSE WrittenLive(r, v)

WriteDelta(d) ==
  /\ delta[d].pc = "write" /\ delta[d].todo # {}
  /\ LET r == Min(delta[d].todo) IN
     /\ delta' = [delta EXCEPT ![d].todo = @ \ {r}]
     /\ \/ Fine /\ index' = Applied(r, delta[d].read[r])
        \/ Fault /\ UNCHANGED index
  /\ UNCHANGED <<row, withheld, alias, build, rebuild, used, changes>>

EndDelta(d) ==
  /\ delta[d].pc = "write" /\ delta[d].todo = {}
  /\ delta' = [delta EXCEPT ![d] = NoDelta]
  /\ Fine
  /\ UNCHANGED <<row, withheld, index, alias, build, rebuild, used, changes>>

DeltaDies(d) ==
  /\ delta[d].pc # "idle"
  /\ Fault
  /\ delta' = [delta EXCEPT ![d] = NoDelta]
  /\ UNCHANGED <<row, withheld, index, alias, build, rebuild, used, changes>>

----------------------------------------------------------------------------
(* The rebuild in place: by an operator (reindex_resources), or by the       *)
(* script reindex.py, which drops the index only when told to.              *)

StartRebuild(kind, drop) ==
  /\ rebuild.pc = "idle" /\ used.rebuilds < MaxRebuilds
  /\ kind = "admin" => drop
  /\ used' = [used EXCEPT !.rebuilds = @ + 1]
  /\ rebuild' = [pc |-> IF drop THEN "drop" ELSE "init", kind |-> kind, last |-> 0, chunk |-> NoDocs, round |-> 0]
  /\ calm' = AllIdle
  /\ UNCHANGED <<row, withheld, index, alias, build, delta, changes, faults>>

\* An alias cannot be deleted as an index: the rebuild fails.
Drop ==
  /\ rebuild.pc = "drop"
  /\ index' = IF alias = {} THEN [index EXCEPT ![0] = NoIndex] ELSE index
  /\ rebuild' = IF alias = {} THEN [rebuild EXCEPT !.pc = "init"] ELSE NoRebuild
  /\ Fine
  /\ UNCHANGED <<row, withheld, alias, build, delta, used, changes>>

InitIndex ==
  /\ rebuild.pc = "init"
  /\ index' = Initialized
  /\ rebuild' = [rebuild EXCEPT !.pc = "read"]
  /\ Fine
  /\ UNCHANGED <<row, withheld, alias, build, delta, used, changes>>

\* The operator's rebuild takes every row, the script the published ones.
Selected == IF rebuild.kind = "admin" THEN {r \in Ids : row[r] # 0} ELSE Published

ReadRows ==
  /\ rebuild.pc = "read"
  /\ LET chunk == Chunk(rebuild.last, Selected) IN
     rebuild' = IF Members(chunk) # {}
                THEN [pc |-> "write", kind |-> rebuild.kind, last |-> After(rebuild.last, chunk),
                      chunk |-> chunk, round |-> rebuild.round]
                ELSE IF rebuild.kind = "script" THEN [rebuild EXCEPT !.pc = "verify"]
                ELSE NoRebuild
  /\ Fine
  /\ UNCHANGED <<row, withheld, index, alias, build, delta, used, changes>>

\* One document after the other; one that is refused is counted and left.
WriteRow ==
  /\ rebuild.pc = "write" /\ Members(rebuild.chunk) # {}
  /\ LET r == Min(Members(rebuild.chunk)) IN
     /\ rebuild' = [rebuild EXCEPT !.chunk[r] = 0]
     /\ \/ Fine /\ index' = WrittenLive(r, rebuild.chunk[r])
        \/ Fault /\ UNCHANGED index
  /\ UNCHANGED <<row, withheld, alias, build, delta, used, changes>>

WroteRows ==
  /\ rebuild.pc = "write" /\ Members(rebuild.chunk) = {}
  /\ rebuild' = [rebuild EXCEPT !.pc = IF rebuild.round > 0 THEN "verify" ELSE "read"]
  /\ Fine
  /\ UNCHANGED <<row, withheld, index, alias, build, delta, used, changes>>

\* Mutant: as long as something is missing.
VerifyAgain ==
  /\ rebuild.pc = "verify"
  /\ LET missing == {r \in Published : \A i \in Live : index[i].docs[r] = 0} IN
     rebuild' = IF missing = {} \/ Live = {} THEN NoRebuild
                ELSE [pc |-> "write", kind |-> rebuild.kind, last |-> rebuild.last,
                      chunk |-> [r \in Ids |-> IF r \in missing THEN row[r] ELSE 0],
                      round |-> rebuild.round + 1]
  /\ Fine
  /\ UNCHANGED <<row, withheld, index, alias, build, delta, used, changes>>

\* The ids the index lacks are read and written; VerifyRounds times at most.
Verify ==
  /\ rebuild.pc = "verify"
  /\ LET missing == {r \in Published : \A i \in Live : index[i].docs[r] = 0} IN
     rebuild' = IF missing = {} \/ rebuild.round = VerifyRounds \/ Live = {} THEN NoRebuild
                ELSE [pc |-> "write", kind |-> rebuild.kind, last |-> rebuild.last,
                      chunk |-> [r \in Ids |-> IF r \in missing THEN row[r] ELSE 0],
                      round |-> rebuild.round + 1]
  /\ Fine
  /\ UNCHANGED <<row, withheld, index, alias, build, delta, used, changes>>

RebuildDies ==
  /\ rebuild.pc # "idle"
  /\ Fault
  /\ rebuild' = NoRebuild
  /\ UNCHANGED <<row, withheld, index, alias, build, delta, used, changes>>

----------------------------------------------------------------------------

Change == \E r \in Ids, v \in {0, changes + 2}, hide \in BOOLEAN : ChangeRow(r, v, hide)

Builder(b) ==
  \/ StartBuild(b) \/ ReadChunk(b) \/ BulkWrite(b) \/ CheckBuild(b) \/ ReadTargets(b)
  \/ Swap(b) \/ Prune(b) \/ BuildDies(b)

Refresher(d) ==
  \/ \E ids \in SUBSET Ids \ {{}} : StartDelta(d, ids)
  \/ ReadDelta(d) \/ WriteDelta(d) \/ EndDelta(d) \/ DeltaDies(d)

Rebuilder ==
  \/ \E kind \in Kinds, drop \in BOOLEAN : StartRebuild(kind, drop)
  \/ Drop \/ InitIndex \/ ReadRows \/ WriteRow \/ WroteRows \/ Verify \/ RebuildDies

Next ==
  \/ Change \/ StartApp \/ Rebuilder
  \/ \E b \in Builders : Builder(b)
  \/ \E d \in Deltas : Refresher(d)

Spec == Init /\ [][Next]_vars

----------------------------------------------------------------------------
(* Properties.                                                              *)

\* reindex_atomic.py refuses to move the alias to an index that is not complete: every
\* record that has been published since the build began is in it, in the version of then
\* or a later one, although the count it is compared with is from the beginning and rows
\* come and go meanwhile.
SwapIsComplete ==
  \A b \in Builders : build[b].pc = "swap" =>
    \A r \in Ids : build[b].since[r] # 0 => index[build[b].index].docs[r] >= build[b].since[r]

\* A build never leaves the search without an index: until it moves the alias the old index
\* answers, and what it prunes is not the one in use.
SearchStaysUp ==
  [][Live # {} /\ build' # build => Live' # {}]_vars

\* What the search finds.
Found(r) == \E i \in Live : index[i].docs[r] = row[r]

\* What a rebuild answers for: the operator's, which begins with no index, for every id.
Rebuilt == IF rebuild.kind = "admin" THEN Ids ELSE Selected

\* A build, a targeted refresh or a rebuild that nothing has disturbed leaves the search as
\* the rows are: a build for every id, and with mapping; a refresh for its ids that have a
\* row; the operator's rebuild for every id and the script's for the published ones - if one
\* index bears the name.  What has lost its row goes with a build or an operator's rebuild.
UndisturbedIsExact ==
  [][calm /\ calm' =>
       /\ \A b \in Builders : build[b].pc # "idle" /\ build'[b].pc = "idle" =>
            /\ alias' = {build[b].index} /\ index'[build[b].index].state = "mapped"
            /\ index'[build[b].index].docs = [r \in Ids |-> IF r \in Published THEN row[r] ELSE 0]
       /\ \A d \in Deltas : delta[d].pc # "idle" /\ delta'[d].pc = "idle" /\ Cardinality(Live) = 1 =>
            \A r \in delta[d].ids : row[r] # 0 => Found(r)
       /\ rebuild.pc \in {"read", "verify"} /\ rebuild'.pc = "idle" /\ Cardinality(Live) = 1 =>
            \A r \in Rebuilt : Found(r)]_vars

\* Not so: a targeted refresh takes the documents of records without a row out of the search.
RefreshTakesOut ==
  [][calm /\ calm' =>
       \A d \in Deltas : delta[d].pc # "idle" /\ delta'[d].pc = "idle" /\ Cardinality(Live) = 1 =>
         \A r \in delta[d].ids : Found(r)]_vars

\* Not so: what is kept after a build is the index that answered before it.  One that a failed
\* build has left is newer, and is kept in its place.
PreviousIsKept ==
  \A b \in Builders : build[b].pc = "prune" /\ Retain > 0 =>
    build[b].targets \cap Existing \subseteq Kept(b)
=============================================================================
