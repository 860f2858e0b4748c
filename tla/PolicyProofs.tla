----------------------------- MODULE PolicyProofs -----------------------------
(***************************************************************************)
(* The policy index and the lookups over it, for any corpus, any number of *)
(* processes and sessions and any number of starts: the index is never     *)
(* left half rebuilt, a search is answered from the current edition, and   *)
(* a lookup reports what its own searches found.                           *)
(***************************************************************************)
EXTENDS PolicyLookup, TLAPS, FiniteSetTheorems

-----------------------------------------------------------------------------
(* The inductive invariant of the store.                                   *)

Places == Open \cup Handled \cup {"idle", "answered", "failed", "done"}

\* What a process carries from one Chroma call to the next.
ProcessOK(q) ==
    /\ "at" \in DOMAIN q /\ q.at \in Places
    /\ q.at \in Open \cup Handled => "job" \in DOMAIN q
    /\ q.at \in Handled => "handle" \in DOMAIN q /\ q.handle \in 1..made
    /\ q.at = "delete" => "listed" \in DOMAIN q
    /\ q.at = "query" => "n" \in DOMAIN q /\ q.n \in Nat \ {0}
    /\ q.at = "answered" => q.clauses \in Indexes

\* A collection is one of those that were made, and indexes known clauses.
CollectionOK ==
    \/ collection = Gone
    \/ collection \in [made : 1..made, current : BOOLEAN, clauses : Indexes]

Opening == {p \in Processes : proc[p].at \in Open}

\* Every collection was made on a start of its own, which is over: what was
\* started bounds what was made and what may yet be.
StartsCovered ==
    /\ IsFiniteSet(Opening)
    /\ made + Cardinality(Opening) <= starts + 1

StoreTypes ==
    /\ CollectionOK
    /\ made \in Nat \ {0}
    /\ DOMAIN proc = Processes
    /\ \A p \in Processes : ProcessOK(proc[p])
    /\ starts \in 0..MaxStarts
    /\ StartsCovered
    /\ rebuilt \subseteq 1..made /\ orphaned \subseteq 1..made
    /\ disturbed \subseteq Processes /\ unchecked \subseteq Processes

\* The latest edition of clauses of the corpus.
Latest(i) == i \in Corpus /\ Clauses[i] = "new"

\* What a build has cleared, or is to find besides what it listed, others
\* have written since: the latest edition, and nothing retired.
Cleared ==
    collection # Gone =>
        /\ collection.made \in rebuilt => \A i \in DOMAIN Clauses : Latest(i)
        /\ \A p \in Processes :
              proc[p].at = "delete" /\ Live(p) =>
                  \A i \in DOMAIN Clauses \ proc[p].listed : Latest(i)

\* An outdated collection is dropped before anyone holds a handle to it who
\* could read its version.
OutdatedUnused ==
    Outdated => \A p \in Processes \ unchecked :
                   proc[p].at \notin {"create"} \cup Handled

\* What a process found is still there, unless another deleted it: the
\* outdated collection it is to drop, the one it holds a handle to, and the
\* clauses it is to count and to query.
FoundStays ==
    \A p \in Processes \ disturbed :
        /\ proc[p].at = "drop" => collection # Gone
        /\ proc[p].at \in Handled => Live(p)
        /\ proc[p].at \in {"recount", "query"} => Clauses # << >>

StoreInvariant ==
    /\ StoreTypes
    /\ Cleared
    /\ SettledIndexIsCorpus
    /\ OutdatedUnused
    /\ FoundStays
    /\ UndisturbedSearchAnswers

USE DEF Open, Handled, Places

-----------------------------------------------------------------------------
(* What a step of a process changes.                                       *)

\* A call moves its process and no other, and drops nothing it carries.
LEMMA GoMoves ==
    ASSUME StoreTypes, NEW p \in Processes, NEW place, Go(p, place)
    PROVE  /\ DOMAIN proc' = Processes
           /\ \A q \in Processes \ {p} : proc'[q] = proc[q]
           /\ DOMAIN proc'[p] = DOMAIN proc[p]
           /\ proc'[p].at = place
           /\ \A f \in DOMAIN proc[p] \ {"at"} : proc'[p][f] = proc[p][f]
BY DEF StoreTypes, ProcessOK, Go

\* Opening gains or loses the process that moves, if any.
LEMMA OpeningMoves ==
    ASSUME StoreTypes, NEW p \in Processes,
           \A q \in Processes \ {p} : proc'[q] = proc[q]
    PROVE  /\ IsFiniteSet(Opening')
           /\ Cardinality(Opening) \in Nat /\ Cardinality(Opening') \in Nat
           /\ (p \in Opening) = (p \in Opening') =>
                 Cardinality(Opening') = Cardinality(Opening)
           /\ p \in Opening /\ p \notin Opening' =>
                 Cardinality(Opening') = Cardinality(Opening) - 1
           /\ p \notin Opening /\ p \in Opening' =>
                 Cardinality(Opening') = Cardinality(Opening) + 1
<1>1. IsFiniteSet(Opening)
  BY DEF StoreTypes, StartsCovered
<1>2. CASE (p \in Opening) = (p \in Opening')
  <2>1. Opening' = Opening
    BY <1>2 DEF Opening
  <2> QED  BY <2>1, <1>1, <1>2, FS_CardinalityType
<1>3. CASE p \in Opening /\ p \notin Opening'
  <2>1. Opening' = Opening \ {p}
    BY <1>3 DEF Opening
  <2> QED  BY <2>1, <1>1, <1>3, FS_CardinalityType, FS_RemoveElement
<1>4. CASE p \notin Opening /\ p \in Opening'
  <2>1. Opening' = Opening \cup {p}
    BY <1>4 DEF Opening
  <2> QED  BY <2>1, <1>1, <1>4, FS_CardinalityType, FS_AddElement
<1> QED  BY <1>2, <1>3, <1>4

\* An index without clauses is the empty one.
LEMMA EmptyIndex ==
    ASSUME NEW index \in Indexes
    PROVE  /\ DOMAIN index \subseteq Corpus \cup Retired
           /\ IsFiniteSet(DOMAIN index)
           /\ \A i \in DOMAIN index : index[i] \in {"old", "new"}
           /\ index = << >> <=> DOMAIN index = {}
<1>1. PICK ids \in SUBSET (Corpus \cup Retired) : index \in [ids -> {"old", "new"}]
  BY DEF Indexes
<1>2. IsFiniteSet(ids)
  BY PolicyStoreAssumption, FS_Union, FS_Subset
<1> QED  BY <1>1, <1>2

\* A function from known clauses to editions is an index.
LEMMA IndexMade ==
    ASSUME NEW ids \in SUBSET (Corpus \cup Retired),
           NEW index \in [ids -> {"old", "new"}]
    PROVE  index \in Indexes
BY DEF Indexes
-----------------------------------------------------------------------------
(* The types.                                                              *)

\* Most calls leave what was made and started alone: it is left to show that
\* the process that moved carries what its place asks for.
LEMMA CallKeepsTypes ==
    ASSUME StoreTypes, NEW p \in Processes,
           \A q \in Processes \ {p} : proc'[q] = proc[q],
           DOMAIN proc' = Processes, ProcessOK(proc[p])',
           CollectionOK', UNCHANGED <<made, starts>>,
           p \in Opening' => p \in Opening,
           rebuilt' \subseteq 1..made, orphaned' \subseteq 1..made,
           disturbed' \subseteq Processes, unchecked' \subseteq Processes
    PROVE  StoreTypes'
<1>1. \A q \in Processes : ProcessOK(proc[q])'
  BY DEF StoreTypes, ProcessOK
<1>2. StartsCovered'
  BY OpeningMoves DEF StoreTypes, StartsCovered
<1> QED  BY <1>1, <1>2 DEF StoreTypes

LEMMA InitTypes ==
    ASSUME Init
    PROVE  StoreTypes
<1>1. CollectionOK
  BY DEF Init, CollectionOK
<1>2. Opening = {}
  BY DEF Init, Opening, Idle
<1>3. StartsCovered
  BY <1>2, FS_EmptySet DEF Init, StartsCovered
<1>4. \A p \in Processes : ProcessOK(proc[p])
  BY DEF Init, ProcessOK, Idle
<1> QED  BY <1>1, <1>3, <1>4, PolicyStoreAssumption DEF Init, StoreTypes

LEMMA StartTypes ==
    ASSUME StoreTypes, NEW p \in Processes, Start(p)
    PROVE  StoreTypes'
<1>1. PICK job \in {"search", "rebuild"} :
          proc' = [proc EXCEPT ![p] = [at |-> "open", job |-> job]]
  BY DEF Start
<1>2. /\ DOMAIN proc' = Processes
      /\ \A q \in Processes \ {p} : proc'[q] = proc[q]
      /\ proc'[p] = [at |-> "open", job |-> job]
  BY <1>1 DEF StoreTypes
<1>3. p \notin Opening /\ p \in Opening'
  BY <1>2 DEF Start, Opening
<1>4. StartsCovered'
  BY <1>2, <1>3, OpeningMoves DEF Start, StoreTypes, StartsCovered
<1>5. \A q \in Processes : ProcessOK(proc[q])'
  BY <1>2 DEF Start, StoreTypes, ProcessOK
<1>6. CollectionOK' /\ starts' \in 0..MaxStarts
  BY PolicyStoreAssumption DEF Start, StoreTypes, CollectionOK, Gone
<1> QED  BY <1>2, <1>4, <1>5, <1>6 DEF Start, StoreTypes

LEMMA GetCollectionTypes ==
    ASSUME StoreTypes, NEW p \in Processes, GetCollection(p)
    PROVE  StoreTypes'
<1>1. PICK place \in {"drop", "create"} : Go(p, place)
  BY DEF GetCollection
<1>2. ProcessOK(proc[p])'
  BY <1>1, GoMoves DEF GetCollection, StoreTypes, ProcessOK
<1>3. CollectionOK'
  BY DEF GetCollection, StoreTypes, CollectionOK, Gone
<1>4. p \in Opening
  BY DEF GetCollection, Opening
<1> QED  BY <1>1, <1>2, <1>3, <1>4, GoMoves, CallKeepsTypes
         DEF GetCollection, StoreTypes

LEMMA DropCollectionTypes ==
    ASSUME StoreTypes, NEW p \in Processes, DropCollection(p)
    PROVE  StoreTypes'
<1>1. PICK place \in {"failed", "create"} : Go(p, place)
  BY DEF DropCollection
<1>2. ProcessOK(proc[p])'
  BY <1>1, GoMoves DEF DropCollection, StoreTypes, ProcessOK
<1>3. CollectionOK'
  BY DEF DropCollection, StoreTypes, CollectionOK, Gone
<1>4. p \in Opening
  BY DEF DropCollection, Opening
<1>5. disturbed' \subseteq Processes /\ unchecked' \subseteq Processes
  BY DEF DropCollection, StoreTypes
<1> QED  BY <1>1, <1>2, <1>3, <1>4, <1>5, GoMoves, CallKeepsTypes
         DEF DropCollection, StoreTypes

\* A process that makes a collection was started to.
LEMMA GetOrCreateTypes ==
    ASSUME StoreTypes, NEW p \in Processes, GetOrCreate(p)
    PROVE  /\ StoreTypes'
           /\ DOMAIN proc' = Processes
           /\ \A q \in Processes \ {p} : proc'[q] = proc[q]
           /\ proc'[p].at \in {"ensure", "list"}
           /\ proc'[p].handle = collection'.made
           /\ collection' # Gone
<1>1. /\ DOMAIN proc' = Processes
      /\ \A q \in Processes \ {p} : proc'[q] = proc[q]
      /\ proc'[p] = [at |-> IF proc[p].job = "search" THEN "ensure" ELSE "list",
                     job |-> proc[p].job, handle |-> collection'.made]
  BY DEF GetOrCreate, StoreTypes
<1>2. p \in Opening /\ p \notin Opening'
  BY <1>1 DEF GetOrCreate, Opening
<1>3. << >> \in Indexes
  <2>1. << >> \in [{} -> {"old", "new"}]
    OBVIOUS
  <2> QED  BY <2>1, IndexMade
<1>4. /\ made' \in {made, made + 1} /\ made' \in Nat \ {0}
      /\ collection' # Gone
      /\ collection' \in [made : 1..made', current : BOOLEAN, clauses : Indexes]
  <2>1. CASE collection = Gone
    <3>1. /\ made' = made + 1
          /\ collection' = [made |-> made', current |-> TRUE, clauses |-> << >>]
      BY <2>1 DEF GetOrCreate
    <3>2. made' \in Nat \ {0} /\ made' \in 1..made'
      BY <3>1 DEF StoreTypes
    <3>3. collection'.made # Gone.made
      BY <3>1, <3>2 DEF Gone
    <3> QED  BY <3>1, <3>2, <3>3, <1>3
  <2>2. CASE collection # Gone
    BY <2>2 DEF GetOrCreate, StoreTypes, CollectionOK
  <2> QED  BY <2>1, <2>2
<1>5. \A q \in Processes : ProcessOK(proc[q])'
  BY <1>1, <1>4 DEF StoreTypes, ProcessOK
<1>6. StartsCovered'
  BY <1>1, <1>2, <1>4, OpeningMoves DEF GetOrCreate, StoreTypes, StartsCovered
<1>7. CollectionOK'
  BY <1>4 DEF CollectionOK
<1> QED  BY <1>1, <1>4, <1>5, <1>6, <1>7 DEF GetOrCreate, StoreTypes
\* What a handle still stands for is a collection.
LEMMA LiveCollection ==
    ASSUME StoreTypes, NEW p \in Processes, Live(p)
    PROVE  /\ collection # Gone
           /\ collection \in [made : 1..made, current : BOOLEAN,
                              clauses : Indexes]
           /\ Clauses \in Indexes
           /\ proc[p].handle = collection.made
<1>1. collection.made = proc[p].handle /\ proc[p].handle \in 1..made
  BY DEF Live, StoreTypes, ProcessOK
<1>2. collection # Gone
  BY <1>1 DEF Gone, StoreTypes
<1> QED  BY <1>1, <1>2 DEF StoreTypes, CollectionOK, Clauses

LEMMA EnsureIndexedTypes ==
    ASSUME StoreTypes, NEW p \in Processes, EnsureIndexed(p)
    PROVE  StoreTypes'
<1>1. PICK place \in {"list", "recount"} : Go(p, place)
  BY DEF EnsureIndexed
<1>2. ProcessOK(proc[p])' /\ CollectionOK' /\ p \notin Opening'
  BY <1>1, GoMoves
  DEF EnsureIndexed, StoreTypes, ProcessOK, CollectionOK, Gone, Opening
<1> QED  BY <1>1, <1>2, GoMoves, CallKeepsTypes DEF EnsureIndexed, StoreTypes

LEMMA ListIdsTypes ==
    ASSUME StoreTypes, NEW p \in Processes, ListIds(p)
    PROVE  StoreTypes'
<1>1. /\ DOMAIN proc' = Processes
      /\ \A q \in Processes \ {p} : proc'[q] = proc[q]
      /\ proc'[p] = [at |-> IF Clauses = << >> THEN "upsert" ELSE "delete",
                     job |-> proc[p].job, handle |-> proc[p].handle,
                     listed |-> DOMAIN Clauses]
  BY DEF ListIds, StoreTypes
<1>2. ProcessOK(proc[p])' /\ CollectionOK' /\ p \notin Opening'
  BY <1>1 DEF ListIds, StoreTypes, ProcessOK, CollectionOK, Gone, Opening
<1>3. rebuilt' \subseteq 1..made
  BY LiveCollection DEF ListIds, StoreTypes
<1> QED  BY <1>1, <1>2, <1>3, CallKeepsTypes DEF ListIds, StoreTypes

\* What is left of an index is the clauses nobody listed.
LEMMA DeleteIdsEffect ==
    ASSUME StoreTypes, NEW p \in Processes, DeleteIds(p)
    PROVE  /\ collection' \in [made : 1..made, current : BOOLEAN,
                               clauses : Indexes]
           /\ collection'.made = collection.made
           /\ collection'.current = collection.current
           /\ Clauses' = [i \in DOMAIN Clauses \ proc[p].listed |-> Clauses[i]]
<1> DEFINE left == DOMAIN Clauses \ proc[p].listed
<1>1. collection' = [collection EXCEPT !.clauses = [i \in left |-> Clauses[i]]]
  BY DEF DeleteIds, Clauses
<1>2. collection \in [made : 1..made, current : BOOLEAN, clauses : Indexes]
  BY LiveCollection DEF DeleteIds
<1>3. /\ left \in SUBSET (Corpus \cup Retired)
      /\ [i \in left |-> Clauses[i]] \in [left -> {"old", "new"}]
  BY <1>2, EmptyIndex, LiveCollection DEF DeleteIds
<1>4. [i \in left |-> Clauses[i]] \in Indexes
  BY <1>3, IndexMade
<1> QED  BY <1>1, <1>2, <1>4 DEF Clauses

LEMMA DeleteIdsTypes ==
    ASSUME StoreTypes, NEW p \in Processes, DeleteIds(p)
    PROVE  StoreTypes'
<1>1. Go(p, "upsert")
  BY DEF DeleteIds
<1>2. ProcessOK(proc[p])' /\ p \notin Opening'
  BY <1>1, GoMoves DEF DeleteIds, StoreTypes, ProcessOK, Opening
<1>3. CollectionOK' /\ rebuilt' \subseteq 1..made
  BY DeleteIdsEffect, LiveCollection DEF DeleteIds, StoreTypes, CollectionOK
<1>4. disturbed' \subseteq Processes /\ unchecked' \subseteq Processes
  BY DEF DeleteIds, StoreTypes
<1> QED  BY <1>1, <1>2, <1>3, <1>4, GoMoves, CallKeepsTypes
         DEF DeleteIds, StoreTypes

\* The corpus is written over what the index holds.
LEMMA UpsertEffect ==
    ASSUME StoreTypes, NEW p \in Processes, UpsertClauses(p)
    PROVE  /\ collection' \in [made : 1..made, current : BOOLEAN,
                               clauses : Indexes]
           /\ collection'.made = collection.made
           /\ collection'.current = collection.current
           /\ Clauses' = [i \in DOMAIN Clauses \cup Corpus |->
                             IF i \in Corpus THEN "new" ELSE Clauses[i]]
           /\ Clauses' # << >>
<1> DEFINE written == [i \in DOMAIN Clauses \cup Corpus |->
                          IF i \in Corpus THEN "new" ELSE Clauses[i]]
<1>1. Upserted = written
  BY DEF Upserted, Records
<1>2. collection' = [collection EXCEPT !.clauses = written]
  BY <1>1 DEF UpsertClauses
<1>3. collection \in [made : 1..made, current : BOOLEAN, clauses : Indexes]
  BY LiveCollection DEF UpsertClauses
<1>4. /\ DOMAIN Clauses \cup Corpus \in SUBSET (Corpus \cup Retired)
      /\ written \in [DOMAIN Clauses \cup Corpus -> {"old", "new"}]
  BY <1>3, EmptyIndex, LiveCollection DEF UpsertClauses
<1>5. written \in Indexes
  BY <1>4, IndexMade
<1>6. written # << >>
  BY <1>4, <1>5, EmptyIndex, PolicyStoreAssumption
<1> QED  BY <1>2, <1>3, <1>5, <1>6 DEF Clauses

LEMMA UpsertTypes ==
    ASSUME StoreTypes, NEW p \in Processes, UpsertClauses(p)
    PROVE  StoreTypes'
<1>1. PICK place \in {"recount", "done"} : Go(p, place)
  BY DEF UpsertClauses
<1>2. ProcessOK(proc[p])' /\ p \notin Opening'
  BY <1>1, GoMoves DEF UpsertClauses, StoreTypes, ProcessOK, Opening
<1>3. CollectionOK'
  BY UpsertEffect DEF UpsertClauses, CollectionOK
<1> QED  BY <1>1, <1>2, <1>3, GoMoves, CallKeepsTypes
         DEF UpsertClauses, StoreTypes
\* A search asks for at least one clause and never for more than it counted.
LEMMA RecountEffect ==
    ASSUME StoreTypes, NEW p \in Processes, Recount(p)
    PROVE  /\ DOMAIN proc' = Processes
           /\ \A q \in Processes \ {p} : proc'[q] = proc[q]
           /\ \/ proc'[p].at = "failed" /\ Clauses = << >>
                 /\ "at" \in DOMAIN proc'[p]
              \/ \E n \in Nat \ {0} :
                    proc'[p] = [at |-> "query", job |-> proc[p].job,
                                handle |-> proc[p].handle, n |-> n]
<1> DEFINE count == Cardinality(DOMAIN Clauses)
           n == Lesser(TopK, count)
<1>1. Clauses \in Indexes
  BY LiveCollection DEF Recount
<1>2. count \in Nat /\ (count = 0 => Clauses = << >>)
  BY <1>1, EmptyIndex, FS_CardinalityType, FS_EmptySet
<1>3. n \in Nat /\ (n = 0 => Clauses = << >>)
  BY <1>2, PolicyStoreAssumption DEF Lesser
<1>4. CASE n = 0
  <2>1. Go(p, "failed")
    BY <1>4 DEF Recount
  <2>2. "at" \in DOMAIN proc[p]
    BY DEF StoreTypes, ProcessOK
  <2> QED  BY <2>1, <2>2, <1>3, <1>4, GoMoves
<1>5. CASE n # 0
  <2>1. proc' = [proc EXCEPT ![p] = [at |-> "query", job |-> proc[p].job,
                                     handle |-> proc[p].handle, n |-> n]]
    BY <1>5 DEF Recount
  <2> HIDE DEF n
  <2> QED  BY <2>1, <1>3, <1>5 DEF StoreTypes
<1> QED  BY <1>4, <1>5

LEMMA RecountTypes ==
    ASSUME StoreTypes, NEW p \in Processes, Recount(p)
    PROVE  StoreTypes'
<1>1. UNCHANGED <<collection, made, starts, rebuilt, orphaned, disturbed, unchecked>>
  BY DEF Recount
<1>2. ProcessOK(proc[p])' /\ p \notin Opening'
  <2>1. proc[p].handle \in 1..made'
    BY <1>1 DEF Recount, StoreTypes, ProcessOK
  <2>2. CASE proc'[p].at = "failed" /\ "at" \in DOMAIN proc'[p]
    BY <2>2 DEF ProcessOK, Opening
  <2>3. ASSUME NEW n \in Nat \ {0},
               proc'[p] = [at |-> "query", job |-> proc[p].job,
                           handle |-> proc[p].handle, n |-> n]
        PROVE  ProcessOK(proc[p])' /\ p \notin Opening'
    BY <2>1, <2>3 DEF ProcessOK, Opening
  <2> QED  BY <2>2, <2>3, RecountEffect
<1>3. CollectionOK'
  BY <1>1 DEF StoreTypes, CollectionOK, Gone
<1> QED  BY <1>1, <1>2, <1>3, RecountEffect, CallKeepsTypes DEF StoreTypes

\* A query returns as many clauses as were asked for, or all there are.
LEMMA QueryEffect ==
    ASSUME StoreTypes, NEW p \in Processes, Query(p)
    PROVE  /\ DOMAIN proc' = Processes
           /\ \A q \in Processes \ {p} : proc'[q] = proc[q]
           /\ "at" \in DOMAIN proc'[p] /\ proc'[p].at = "answered"
           /\ proc'[p].clauses \in Indexes
           /\ \A i \in DOMAIN proc'[p].clauses :
                 i \in DOMAIN Clauses /\ proc'[p].clauses[i] = Clauses[i]
           /\ Clauses # << >> => proc'[p].clauses # << >>
<1> DEFINE count == Cardinality(DOMAIN Clauses)
<1>1. PICK hits \in SUBSET DOMAIN Clauses :
          /\ Cardinality(hits) = Lesser(proc[p].n, count)
          /\ proc' = [proc EXCEPT ![p] =
                 [at |-> "answered", clauses |-> [i \in hits |-> Clauses[i]]]]
  BY DEF Query
<1>2. Clauses \in Indexes
  BY LiveCollection DEF Query
<1>3. [i \in hits |-> Clauses[i]] \in Indexes
  <2>1. /\ hits \in SUBSET (Corpus \cup Retired)
        /\ [i \in hits |-> Clauses[i]] \in [hits -> {"old", "new"}]
    BY <1>2, EmptyIndex
  <2> QED  BY <2>1, IndexMade
<1>4. Clauses # << >> => hits # {}
  <2>1. count \in Nat /\ (Clauses # << >> => count # 0)
    BY <1>2, EmptyIndex, FS_CardinalityType, FS_EmptySet
  <2>2. proc[p].n \in Nat \ {0}
    BY DEF Query, StoreTypes, ProcessOK
  <2>3. Clauses # << >> => Cardinality(hits) # 0
    BY <2>1, <2>2, <1>1 DEF Lesser
  <2> QED  BY <2>3, FS_EmptySet
<1>5. [i \in hits |-> Clauses[i]] = << >> => hits = {}
  BY <1>3, EmptyIndex
<1> QED  BY <1>1, <1>3, <1>4, <1>5 DEF StoreTypes

LEMMA QueryTypes ==
    ASSUME StoreTypes, NEW p \in Processes, Query(p)
    PROVE  StoreTypes'
<1>1. UNCHANGED <<collection, made, starts, rebuilt, orphaned, disturbed, unchecked>>
  BY DEF Query
<1>2. ProcessOK(proc[p])' /\ p \notin Opening'
  BY QueryEffect DEF ProcessOK, Opening, Indexes
<1>3. CollectionOK'
  BY <1>1 DEF StoreTypes, CollectionOK, Gone
<1> QED  BY <1>1, <1>2, <1>3, QueryEffect, CallKeepsTypes DEF StoreTypes

LEMMA DanglingTypes ==
    ASSUME StoreTypes, NEW p \in Processes, Dangling(p)
    PROVE  StoreTypes'
<1>1. Go(p, "failed")
  BY DEF Dangling
<1>2. ProcessOK(proc[p])' /\ CollectionOK' /\ p \notin Opening'
  BY <1>1, GoMoves
  DEF Dangling, StoreTypes, ProcessOK, CollectionOK, Gone, Opening
<1> QED  BY <1>1, <1>2, GoMoves, CallKeepsTypes DEF Dangling, StoreTypes

LEMMA KilledTypes ==
    ASSUME StoreTypes, NEW p \in Processes, Killed(p)
    PROVE  StoreTypes'
<1>1. /\ DOMAIN proc' = Processes
      /\ \A q \in Processes \ {p} : proc'[q] = proc[q]
      /\ proc'[p] = Idle
  BY DEF Killed, StoreTypes
<1>2. ProcessOK(proc[p])' /\ CollectionOK' /\ p \notin Opening'
  BY <1>1 DEF Killed, StoreTypes, ProcessOK, CollectionOK, Gone, Opening, Idle
<1>3. orphaned' \subseteq 1..made
  BY DEF Killed, StoreTypes, ProcessOK
<1> QED  BY <1>1, <1>2, <1>3, CallKeepsTypes DEF Killed, StoreTypes

LEMMA TypesKept ==
    ASSUME StoreTypes, [Next]_vars
    PROVE  StoreTypes'
<1>1. CASE UNCHANGED vars
  BY <1>1 DEF vars, StoreTypes, CollectionOK, Gone, StartsCovered, Opening,
              ProcessOK, Indexes
<1>2. ASSUME NEW p \in Processes, Start(p) PROVE StoreTypes'
  BY <1>2, StartTypes
<1>3. ASSUME NEW p \in Processes,
             GetCollection(p) \/ DropCollection(p) \/ GetOrCreate(p)
      PROVE  StoreTypes'
  BY <1>3, GetCollectionTypes, DropCollectionTypes, GetOrCreateTypes
<1>4. ASSUME NEW p \in Processes,
             EnsureIndexed(p) \/ ListIds(p) \/ DeleteIds(p) \/ UpsertClauses(p)
      PROVE  StoreTypes'
  BY <1>4, EnsureIndexedTypes, ListIdsTypes, DeleteIdsTypes, UpsertTypes
<1>5. ASSUME NEW p \in Processes,
             Recount(p) \/ Query(p) \/ Dangling(p) \/ Killed(p)
      PROVE  StoreTypes'
  BY <1>5, RecountTypes, QueryTypes, DanglingTypes, KilledTypes
<1> QED  BY <1>1, <1>2, <1>3, <1>4, <1>5 DEF Next
-----------------------------------------------------------------------------
(* The safety of the index and of its searches.                            *)

\* What the conjuncts of the invariant that follow StoreTypes come to.
Safe ==
    /\ Cleared
    /\ SettledIndexIsCorpus
    /\ OutdatedUnused
    /\ FoundStays
    /\ UndisturbedSearchAnswers

\* What FoundStays and UndisturbedSearchAnswers ask of one process.
Undisturbed(p) ==
    p \notin disturbed =>
        /\ proc[p].at = "drop" => collection # Gone
        /\ proc[p].at \in Handled => Live(p)
        /\ proc[p].at \in {"recount", "query"} => Clauses # << >>
        /\ proc[p].at # "failed"
        /\ proc[p].at = "answered" => proc[p].clauses # << >>

LEMMA UndisturbedProcesses ==
    (\A p \in Processes : Undisturbed(p)) <=> FoundStays /\ UndisturbedSearchAnswers
BY DEF Undisturbed, FoundStays, UndisturbedSearchAnswers

\* A step that leaves the collection alone keeps it all, if the process that
\* moves is in order itself, and is not the one a rebuilt index waits for.
LEMMA QuietStep ==
    ASSUME Safe, NEW p \in Processes,
           \A q \in Processes \ {p} : proc'[q] = proc[q],
           UNCHANGED <<collection, rebuilt>>,
           orphaned \subseteq orphaned', disturbed \ {p} \subseteq disturbed',
           unchecked \ {p} \subseteq unchecked',
           proc[p].at = "upsert" /\ Live(p) => collection.made \in orphaned',
           proc'[p].at # "delete",
           proc'[p].at \in {"create"} \cup Handled =>
               ~Outdated \/ p \in unchecked',
           Undisturbed(p)'
    PROVE  Safe'
<1>1. /\ Clauses' = Clauses /\ (Outdated' <=> Outdated)
      /\ \A q \in Processes \ {p} : Live(q)' <=> Live(q)
      /\ \A i : Latest(i)' <=> Latest(i)
      /\ Records' = Records
  BY DEF Clauses, Outdated, Live, Gone, Latest, Records
<1>2. Cleared'
  BY <1>1 DEF Safe, Cleared, Gone
<1>3. SettledIndexIsCorpus'
  BY <1>1 DEF Safe, SettledIndexIsCorpus, Gone
<1>4. OutdatedUnused'
  BY <1>1 DEF Safe, OutdatedUnused
<1>5. \A q \in Processes : Undisturbed(q)'
  <2>1. ASSUME NEW q \in Processes \ {p}, q \notin disturbed'
        PROVE  Undisturbed(q)'
    <3>1. Undisturbed(q) /\ q \notin disturbed
      BY <2>1, UndisturbedProcesses DEF Safe
    <3> QED  BY <2>1, <3>1, <1>1 DEF Undisturbed, Gone
  <2> QED  BY <2>1 DEF Undisturbed
<1>6. (FoundStays /\ UndisturbedSearchAnswers)'
  BY <1>5 DEF Undisturbed, FoundStays, UndisturbedSearchAnswers
<1> QED  BY <1>2, <1>3, <1>4, <1>6 DEF Safe

LEMMA StartSafe ==
    ASSUME StoreTypes, Safe, NEW p \in Processes, Start(p)
    PROVE  Safe'
<1>1. /\ \A q \in Processes \ {p} : proc'[q] = proc[q]
      /\ proc'[p].at = "open"
  BY DEF Start, StoreTypes
<1>2. Undisturbed(p)'
  BY <1>1 DEF Undisturbed
<1>3. /\ UNCHANGED <<collection, rebuilt, orphaned>>
      /\ disturbed \ {p} \subseteq disturbed' /\ unchecked \ {p} \subseteq unchecked'
  BY DEF Start
<1>4. proc[p].at # "upsert"
  BY DEF Start
<1> QED  BY <1>1, <1>2, <1>3, <1>4, QuietStep

\* A process that is to create the collection found none that is outdated, or
\* could not read whether it is.
LEMMA GetCollectionSafe ==
    ASSUME StoreTypes, Safe, NEW p \in Processes, GetCollection(p)
    PROVE  Safe'
<1>1. PICK place \in {"drop", "create"} :
          /\ Go(p, place) /\ unchecked \subseteq unchecked'
          /\ place = "drop" => Outdated
          /\ place = "create" => ~Outdated \/ p \in unchecked'
  BY DEF GetCollection
<1>2. /\ \A q \in Processes \ {p} : proc'[q] = proc[q]
      /\ proc'[p].at = place
  BY <1>1, GoMoves
<1>3. UNCHANGED <<collection, rebuilt, orphaned, disturbed>>
  BY DEF GetCollection
<1>4. Undisturbed(p)'
  BY <1>1, <1>2, <1>3 DEF Undisturbed, Outdated, Gone
<1>5. proc[p].at # "upsert" /\ proc'[p].at # "delete"
  BY <1>2 DEF GetCollection
<1>6. proc'[p].at \in {"create"} \cup Handled => ~Outdated \/ p \in unchecked'
  BY <1>1, <1>2
<1> QED  BY <1>1, <1>2, <1>3, <1>4, <1>5, <1>6, QuietStep

\* Whoever drops the collection disturbs all the others.
LEMMA DropCollectionSafe ==
    ASSUME StoreTypes, Safe, NEW p \in Processes, DropCollection(p)
    PROVE  Safe'
<1>1. CASE collection = Gone
  <2>1. Go(p, "failed") /\ UNCHANGED <<collection, rebuilt, orphaned, disturbed>>
    BY <1>1 DEF DropCollection
  <2>2. /\ \A q \in Processes \ {p} : proc'[q] = proc[q]
        /\ proc'[p].at = "failed"
    BY <2>1, GoMoves
  <2>3. p \in disturbed
    BY <1>1 DEF DropCollection, Safe, FoundStays
  <2>4. Undisturbed(p)'
    BY <2>1, <2>3 DEF Undisturbed
  <2> QED  BY <2>1, <2>2, <2>4, QuietStep DEF DropCollection
<1>2. CASE collection # Gone
  <2>1. /\ Go(p, "create") /\ collection' = Gone
        /\ disturbed' = disturbed \cup (Processes \ {p})
    BY <1>2 DEF DropCollection
  <2>2. proc'[p].at = "create"
    BY <2>1, GoMoves
  <2>3. \A q \in Processes : Undisturbed(q)'
    BY <2>1, <2>2 DEF Undisturbed
  <2>4. collection' = Gone'
    BY <2>1 DEF Gone
  <2>5. (Cleared /\ SettledIndexIsCorpus /\ OutdatedUnused)'
    BY <2>4 DEF Cleared, SettledIndexIsCorpus, OutdatedUnused, Outdated
  <2> QED  BY <2>3, <2>5 DEF Safe, Undisturbed, FoundStays, UndisturbedSearchAnswers
<1> QED  BY <1>1, <1>2
\* A new collection is none that was rebuilt or that anyone has a handle to.
LEMMA GetOrCreateSafe ==
    ASSUME StoreTypes, Safe, NEW p \in Processes, GetOrCreate(p)
    PROVE  Safe'
<1>1. /\ \A q \in Processes \ {p} : proc'[q] = proc[q]
      /\ proc'[p].at \in {"ensure", "list"}
      /\ proc'[p].handle = collection'.made
      /\ collection' # Gone
  BY GetOrCreateTypes
<1>2. Live(p)'
  BY <1>1 DEF Live
<1>3. Undisturbed(p)'
  BY <1>1, <1>2 DEF Undisturbed
<1>4. UNCHANGED <<rebuilt, orphaned, disturbed, unchecked>> /\ proc[p].at = "create"
  BY DEF GetOrCreate
<1>5. CASE collection # Gone
  <2>1. UNCHANGED collection
    BY <1>5 DEF GetOrCreate
  <2>2. ~Outdated \/ p \in unchecked
    BY <1>4 DEF Safe, OutdatedUnused
  <2> QED  BY <1>1, <1>3, <1>4, <2>1, <2>2, QuietStep
<1>6. CASE collection = Gone
  <2>1. /\ made' = made + 1
        /\ collection' = [made |-> made', current |-> TRUE, clauses |-> << >>]
    BY <1>6 DEF GetOrCreate
  <2>2. /\ collection'.made = made + 1 /\ collection'.current
        /\ made + 1 \notin rebuilt'
    BY <2>1, <1>4 DEF StoreTypes
  <2>3. \A q \in Processes \ {p} : ~Live(q) /\ ~Live(q)'
    <3>1. SUFFICES ASSUME NEW q \in Processes \ {p}, proc[q].at \in Handled
                   PROVE  ~Live(q) /\ ~Live(q)'
      BY <1>1 DEF Live
    <3>2. proc[q].handle \in 1..made /\ made \in Nat
      BY <3>1 DEF StoreTypes, ProcessOK
    <3> QED  BY <3>2, <2>2, <1>1, <1>6 DEF Live, Gone
  <2>4. Cleared' /\ SettledIndexIsCorpus'
    BY <1>1, <2>2, <2>3 DEF Cleared, SettledIndexIsCorpus
  <2>5. OutdatedUnused'
    BY <2>2 DEF OutdatedUnused, Outdated
  <2>6. \A q \in Processes : Undisturbed(q)'
    <3>1. ASSUME NEW q \in Processes \ {p} PROVE Undisturbed(q)'
      <4>1. Undisturbed(q) /\ ~Live(q) /\ proc'[q] = proc[q]
        BY <1>1, <2>3, UndisturbedProcesses DEF Safe
      <4> QED  BY <4>1, <1>4, <1>6 DEF Undisturbed
    <3> QED  BY <3>1, <1>3
  <2> QED  BY <2>4, <2>5, <2>6
           DEF Safe, Undisturbed, FoundStays, UndisturbedSearchAnswers
<1> QED  BY <1>5, <1>6

LEMMA EnsureIndexedSafe ==
    ASSUME StoreTypes, Safe, NEW p \in Processes, EnsureIndexed(p)
    PROVE  Safe'
<1>1. Go(p, IF Unindexed THEN "list" ELSE "recount")
      /\ UNCHANGED <<collection, rebuilt, orphaned, disturbed, unchecked>>
      /\ proc[p].at = "ensure" /\ Live(p)
  BY DEF EnsureIndexed
<1>2. /\ \A q \in Processes \ {p} : proc'[q] = proc[q]
      /\ proc'[p].at = IF Unindexed THEN "list" ELSE "recount"
      /\ proc'[p].handle = proc[p].handle
  BY <1>1, GoMoves DEF StoreTypes, ProcessOK
<1>3. Undisturbed(p)'
  BY <1>1, <1>2 DEF Undisturbed, Live, Unindexed, Clauses
<1>4. ~Outdated \/ p \in unchecked
  BY <1>1 DEF Safe, OutdatedUnused
<1> QED  BY <1>1, <1>2, <1>3, <1>4, QuietStep

\* Of what was listed in an index, nothing is missing from the list.
LEMMA ListIdsSafe ==
    ASSUME StoreTypes, Safe, NEW p \in Processes, ListIds(p)
    PROVE  Safe'
<1>1. /\ proc[p].at = "list" /\ Live(p)
      /\ UNCHANGED <<collection, orphaned, disturbed, unchecked>>
      /\ rebuilt' = IF Clauses = << >> THEN rebuilt \cup {collection.made}
                    ELSE rebuilt
  BY DEF ListIds
<1>2. /\ \A q \in Processes \ {p} : proc'[q] = proc[q]
      /\ proc'[p].at = IF Clauses = << >> THEN "upsert" ELSE "delete"
      /\ proc'[p].handle = proc[p].handle
      /\ proc'[p].listed = DOMAIN Clauses
  BY DEF ListIds, StoreTypes
<1>3. /\ Clauses' = Clauses /\ (Outdated' <=> Outdated)
      /\ \A q \in Processes \ {p} : Live(q)' <=> Live(q)
      /\ \A i : Latest(i)' <=> Latest(i)
      /\ Records' = Records /\ Live(p)'
  BY <1>1, <1>2 DEF Clauses, Outdated, Live, Gone, Latest, Records
<1>4. Clauses = << >> => DOMAIN Clauses = {}
  BY <1>1, LiveCollection, EmptyIndex
<1>5. Cleared'
  BY <1>1, <1>2, <1>3, <1>4 DEF Safe, Cleared, Gone
<1>6. SettledIndexIsCorpus'
  BY <1>1, <1>2, <1>3 DEF Safe, SettledIndexIsCorpus, Gone
<1>7. OutdatedUnused'
  BY <1>1, <1>2, <1>3 DEF Safe, OutdatedUnused
<1>8. (FoundStays /\ UndisturbedSearchAnswers)'
  BY <1>1, <1>2, <1>3 DEF Safe, FoundStays, UndisturbedSearchAnswers, Gone
<1> QED  BY <1>5, <1>6, <1>7, <1>8 DEF Safe

\* Deleting what was listed leaves what others wrote since, and the one that
\* deleted is about to write.
LEMMA DeleteIdsSafe ==
    ASSUME StoreTypes, Safe, NEW p \in Processes, DeleteIds(p)
    PROVE  Safe'
<1>1. /\ proc[p].at = "delete" /\ Live(p) /\ Go(p, "upsert")
      /\ disturbed' = disturbed \cup (Processes \ {p}) /\ UNCHANGED unchecked
      /\ rebuilt' = rebuilt \cup {collection.made}
  BY DEF DeleteIds
<1>2. /\ \A q \in Processes \ {p} : proc'[q] = proc[q]
      /\ proc'[p].at = "upsert" /\ proc'[p].handle = proc[p].handle
  BY <1>1, GoMoves DEF StoreTypes, ProcessOK
<1>3. /\ collection'.made = collection.made
      /\ collection'.current = collection.current
      /\ Clauses' = [i \in DOMAIN Clauses \ proc[p].listed |-> Clauses[i]]
  BY DeleteIdsEffect
<1>4. collection # Gone /\ Live(p)' /\ \A q \in Processes \ {p} : Live(q)' <=> Live(q)
  BY <1>1, <1>2, <1>3, LiveCollection DEF Live
<1>5. \A i \in DOMAIN Clauses' : Latest(i)'
  BY <1>1, <1>3, <1>4 DEF Safe, Cleared, Latest
<1>6. Cleared'
  BY <1>5 DEF Cleared
<1>7. SettledIndexIsCorpus'
  BY <1>2, <1>4 DEF SettledIndexIsCorpus
<1>8. OutdatedUnused'
  BY <1>1, <1>2, <1>3, <1>4 DEF Safe, OutdatedUnused, Outdated
<1>9. (FoundStays /\ UndisturbedSearchAnswers)'
  BY <1>1, <1>2, <1>4 DEF FoundStays, UndisturbedSearchAnswers
<1> QED  BY <1>6, <1>7, <1>8, <1>9 DEF Safe

\* An index that was cleared holds the corpus and nothing else once written.
LEMMA UpsertSafe ==
    ASSUME StoreTypes, Safe, NEW p \in Processes, UpsertClauses(p)
    PROVE  Safe'
<1>1. /\ proc[p].at = "upsert" /\ Live(p)
      /\ UNCHANGED <<rebuilt, orphaned, disturbed, unchecked>>
      /\ Go(p, IF proc[p].job = "search" THEN "recount" ELSE "done")
  BY DEF UpsertClauses
<1>2. /\ \A q \in Processes \ {p} : proc'[q] = proc[q]
      /\ proc'[p].at \in {"recount", "done"}
      /\ proc'[p].handle = proc[p].handle
  BY <1>1, GoMoves DEF StoreTypes, ProcessOK
<1>3. /\ collection'.made = collection.made
      /\ collection'.current = collection.current
      /\ Clauses' = [i \in DOMAIN Clauses \cup Corpus |->
                        IF i \in Corpus THEN "new" ELSE Clauses[i]]
      /\ Clauses' # << >>
      /\ collection' # Gone
  <2>1. collection.made \in 1..made
    BY LiveCollection, <1>1
  <2>2. collection'.made # Gone.made
    BY <2>1, UpsertEffect DEF StoreTypes, Gone
  <2> QED  BY <2>2, UpsertEffect
<1>4. /\ collection # Gone
      /\ \A q \in Processes \ {p} : Live(q)' <=> Live(q)
      /\ Live(p)' <=> proc'[p].at \in Handled
  BY <1>1, <1>2, <1>3, LiveCollection DEF Live
<1>5. \A i : i \in DOMAIN Clauses' => i \in DOMAIN Clauses \/ i \in Corpus
  BY <1>3
<1>6. \A i \in DOMAIN Clauses' : Latest(i) \/ i \in Corpus => Latest(i)'
  BY <1>3 DEF Latest
<1>7. Cleared'
  BY <1>1, <1>2, <1>3, <1>4, <1>5, <1>6 DEF Safe, Cleared
<1>8. SettledIndexIsCorpus'
  <2>1. SUFFICES ASSUME collection.made \in rebuilt PROVE Clauses' = Records
    BY <1>1, <1>3 DEF SettledIndexIsCorpus, Records
  <2>2. DOMAIN Clauses \subseteq Corpus
    BY <2>1, <1>4 DEF Safe, Cleared, Latest
  <2> QED  BY <2>2, <1>3 DEF Records
<1>9. OutdatedUnused'
  BY <1>1, <1>2, <1>3, <1>4 DEF Safe, OutdatedUnused, Outdated
<1>10. (FoundStays /\ UndisturbedSearchAnswers)'
  BY <1>1, <1>2, <1>3, <1>4 DEF Safe, FoundStays, UndisturbedSearchAnswers
<1> QED  BY <1>7, <1>8, <1>9, <1>10 DEF Safe
LEMMA RecountSafe ==
    ASSUME StoreTypes, Safe, NEW p \in Processes, Recount(p)
    PROVE  Safe'
<1>1. /\ proc[p].at = "recount" /\ Live(p)
      /\ UNCHANGED <<collection, rebuilt, orphaned, disturbed, unchecked>>
  BY DEF Recount
<1>2. /\ \A q \in Processes \ {p} : proc'[q] = proc[q]
      /\ \/ proc'[p].at = "failed" /\ Clauses = << >>
         \/ proc'[p].at = "query" /\ proc'[p].handle = proc[p].handle
  <2>1. ASSUME NEW n, proc'[p] = [at |-> "query", job |-> proc[p].job,
                                  handle |-> proc[p].handle, n |-> n]
        PROVE  proc'[p].at = "query" /\ proc'[p].handle = proc[p].handle
    BY <2>1
  <2> QED  BY <2>1, RecountEffect
<1>3. Undisturbed(p)'
  <2>1. Undisturbed(p)
    BY UndisturbedProcesses DEF Safe
  <2> QED  BY <2>1, <1>1, <1>2 DEF Undisturbed, Live, Clauses
<1>4. ~Outdated \/ p \in unchecked
  BY <1>1 DEF Safe, OutdatedUnused
<1> QED  BY <1>1, <1>2, <1>3, <1>4, QuietStep

LEMMA QuerySafe ==
    ASSUME StoreTypes, Safe, NEW p \in Processes, Query(p)
    PROVE  Safe'
<1>1. /\ proc[p].at = "query"
      /\ UNCHANGED <<collection, rebuilt, orphaned, disturbed, unchecked>>
  BY DEF Query
<1>2. /\ \A q \in Processes \ {p} : proc'[q] = proc[q]
      /\ proc'[p].at = "answered"
      /\ Clauses # << >> => proc'[p].clauses # << >>
  BY QueryEffect
<1>3. Undisturbed(p)'
  <2>1. Undisturbed(p)
    BY UndisturbedProcesses DEF Safe
  <2> QED  BY <2>1, <1>1, <1>2 DEF Undisturbed
<1> QED  BY <1>1, <1>2, <1>3, QuietStep

LEMMA DanglingSafe ==
    ASSUME StoreTypes, Safe, NEW p \in Processes, Dangling(p)
    PROVE  Safe'
<1>1. /\ proc[p].at \in Handled /\ ~Live(p) /\ Go(p, "failed")
      /\ UNCHANGED <<collection, rebuilt, orphaned, disturbed, unchecked>>
  BY DEF Dangling
<1>2. /\ \A q \in Processes \ {p} : proc'[q] = proc[q]
      /\ proc'[p].at = "failed"
  BY <1>1, GoMoves
<1>3. p \in disturbed
  BY <1>1 DEF Safe, FoundStays
<1>4. Undisturbed(p)'
  BY <1>1, <1>3 DEF Undisturbed
<1> QED  BY <1>1, <1>2, <1>4, QuietStep

\* A process that is killed before it writes leaves its collection orphaned.
LEMMA KilledSafe ==
    ASSUME StoreTypes, Safe, NEW p \in Processes, Killed(p)
    PROVE  Safe'
<1>1. /\ \A q \in Processes \ {p} : proc'[q] = proc[q]
      /\ proc'[p].at = "idle"
  BY DEF Killed, StoreTypes, Idle
<1>2. UNCHANGED <<collection, rebuilt, disturbed, unchecked>>
  BY DEF Killed
<1>3. /\ orphaned \subseteq orphaned'
      /\ proc[p].at = "upsert" /\ Live(p) => collection.made \in orphaned'
  BY DEF Killed, Live
<1>4. Undisturbed(p)'
  BY <1>1 DEF Undisturbed
<1> QED  BY <1>1, <1>2, <1>3, <1>4, QuietStep

LEMMA InitSafe ==
    ASSUME Init
    PROVE  Safe
<1>1. /\ \A p \in Processes : proc[p] = [at |-> "idle"]
      /\ rebuilt = {}
  BY DEF Init, Idle
<1> QED  BY <1>1 DEF Safe, Cleared, SettledIndexIsCorpus, OutdatedUnused,
                     FoundStays, UndisturbedSearchAnswers

LEMMA StutterSafe ==
    ASSUME Safe, UNCHANGED vars
    PROVE  Safe'
<1>1. UNCHANGED <<collection, proc, rebuilt, orphaned, disturbed, unchecked>>
  BY DEF vars
<1> QED  BY <1>1 DEF Safe, Cleared, SettledIndexIsCorpus, OutdatedUnused,
                     FoundStays, UndisturbedSearchAnswers, Clauses, Outdated,
                     Live, Gone, Latest, Records

LEMMA SafeKept ==
    ASSUME StoreTypes, Safe, [Next]_vars
    PROVE  Safe'
<1>1. CASE UNCHANGED vars
  BY <1>1, StutterSafe
<1>2. ASSUME NEW p \in Processes, Start(p) PROVE Safe'
  BY <1>2, StartSafe
<1>3. ASSUME NEW p \in Processes,
             GetCollection(p) \/ DropCollection(p) \/ GetOrCreate(p)
      PROVE  Safe'
  BY <1>3, GetCollectionSafe, DropCollectionSafe, GetOrCreateSafe
<1>4. ASSUME NEW p \in Processes,
             EnsureIndexed(p) \/ ListIds(p) \/ DeleteIds(p) \/ UpsertClauses(p)
      PROVE  Safe'
  BY <1>4, EnsureIndexedSafe, ListIdsSafe, DeleteIdsSafe, UpsertSafe
<1>5. ASSUME NEW p \in Processes,
             Recount(p) \/ Query(p) \/ Dangling(p) \/ Killed(p)
      PROVE  Safe'
  BY <1>5, RecountSafe, QuerySafe, DanglingSafe, KilledSafe
<1> QED  BY <1>1, <1>2, <1>3, <1>4, <1>5 DEF Next

LEMMA StoreAlways == Spec => []StoreInvariant
<1>1. Init => StoreInvariant
  BY InitTypes, InitSafe DEF StoreInvariant, Safe
<1>2. StoreInvariant /\ [Next]_vars => StoreInvariant'
  BY TypesKept, SafeKept DEF StoreInvariant, Safe
<1> QED  BY <1>1, <1>2, PTL DEF Spec

-----------------------------------------------------------------------------
(* The theorems of the store.                                              *)

LEMMA InvariantTyped ==
    ASSUME StoreInvariant
    PROVE  TypeOK
<1>1. Cardinality(Opening) \in Nat
  BY FS_CardinalityType DEF StoreInvariant, StoreTypes, StartsCovered
<1>2. made \in 1..(MaxStarts + 1)
  BY <1>1, PolicyStoreAssumption DEF StoreInvariant, StoreTypes, StartsCovered
<1>3. ASSUME collection # Gone
      PROVE  /\ collection.made \in 1..made
             /\ collection.current \in BOOLEAN
             /\ DOMAIN Clauses \subseteq Corpus \cup Retired
             /\ \A i \in DOMAIN Clauses : Clauses[i] \in {"old", "new"}
  <2>1. collection \in [made : 1..made, current : BOOLEAN, clauses : Indexes]
    BY <1>3 DEF StoreInvariant, StoreTypes, CollectionOK
  <2> QED  BY <2>1, EmptyIndex DEF Clauses
<1>4. \A p \in Processes : proc[p].at \in Places
  BY DEF StoreInvariant, StoreTypes, ProcessOK
<1> QED  BY <1>2, <1>3, <1>4 DEF TypeOK, StoreInvariant, StoreTypes

\* Every process is at one call, and a collection indexes known clauses.
THEOREM PolicyTyped == Spec => []TypeOK
BY StoreAlways, InvariantTyped, PTL

\* Builds that overlap, with searches or with each other, leave the corpus, all
\* of it and in its latest edition, unless one was killed before it wrote
\* (PolicyVectorStore.build_index).
THEOREM SettledAlways == Spec => []SettledIndexIsCorpus
BY StoreAlways, PTL DEF StoreInvariant

\* A search under which nothing is deleted finds clauses, whatever was left by
\* an older version or a killed build (PolicyVectorStore.search).
THEOREM SearchesAnswer == Spec => []UndisturbedSearchAnswers
BY StoreAlways, PTL DEF StoreInvariant

\* An old text is found in an index no build has cleared, of this version or
\* of one that could not be read.
LEMMA OldTextBeforeRebuild ==
    ASSUME StoreInvariant, NEW p \in Processes, Query(p),
           NEW i \in DOMAIN proc'[p].clauses, proc'[p].clauses[i] = "old"
    PROVE  /\ collection.made \notin rebuilt
           /\ collection.current \/ p \in unchecked
<1>1. collection # Gone /\ proc[p].at = "query"
  BY LiveCollection DEF Query, StoreInvariant
<1>2. i \in DOMAIN Clauses /\ Clauses[i] = "old"
  BY QueryEffect DEF StoreInvariant
<1>3. collection.made \notin rebuilt
  BY <1>1, <1>2 DEF StoreInvariant, Cleared, Latest
<1>4. ~Outdated \/ p \in unchecked
  BY <1>1 DEF StoreInvariant, OutdatedUnused
<1> QED  BY <1>1, <1>3, <1>4 DEF Outdated
\* Only a query answers a search.
LEMMA AnsweredByQuery ==
    ASSUME StoreTypes, Next, NEW p \in Processes,
           proc[p].at = "query", proc'[p].at = "answered"
    PROVE  Query(p)
<1>1. PICK q \in Processes :
            \/ Start(q)
            \/ GetCollection(q) \/ DropCollection(q) \/ GetOrCreate(q)
            \/ EnsureIndexed(q) \/ ListIds(q) \/ DeleteIds(q) \/ UpsertClauses(q)
            \/ Recount(q) \/ Query(q)
            \/ Dangling(q) \/ Killed(q)
  BY DEF Next
<1>2. CASE q # p
  <2>1. \A place : Go(q, place) => proc'[p] = proc[p]
    BY <1>2 DEF Go, StoreTypes
  <2>2. CASE Start(q) \/ GetOrCreate(q) \/ ListIds(q) \/ Killed(q)
    BY <1>2, <2>2 DEF Start, GetOrCreate, ListIds, Killed, StoreTypes
  <2>3. CASE Recount(q) \/ Query(q)
    BY <1>2, <2>3, RecountEffect, QueryEffect
  <2>4. CASE \/ GetCollection(q) \/ DropCollection(q) \/ EnsureIndexed(q)
             \/ DeleteIds(q) \/ UpsertClauses(q) \/ Dangling(q)
    BY <2>1, <2>4 DEF GetCollection, DropCollection, EnsureIndexed, DeleteIds,
                      UpsertClauses, Dangling
  <2> QED  BY <1>1, <2>2, <2>3, <2>4
<1>3. CASE q = p
  <2>1. ~Dangling(p)
    BY GoMoves DEF Dangling
  <2>2. ~Killed(p)
    BY DEF Killed, StoreTypes, Idle
  <2>3. /\ ~Start(p) /\ ~GetCollection(p) /\ ~DropCollection(p)
        /\ ~GetOrCreate(p) /\ ~EnsureIndexed(p) /\ ~ListIds(p)
        /\ ~DeleteIds(p) /\ ~UpsertClauses(p) /\ ~Recount(p)
    BY DEF Start, GetCollection, DropCollection, GetOrCreate, EnsureIndexed,
           ListIds, DeleteIds, UpsertClauses, Recount
  <2> QED  BY <1>1, <1>3, <2>1, <2>2, <2>3
<1> QED  BY <1>2, <1>3

LEMMA StepBeforeRebuild ==
    ASSUME StoreInvariant, [Next]_vars
    PROVE  [\A p \in Processes :
               /\ proc[p].at = "query" /\ proc'[p].at = "answered"
               /\ \E i \in DOMAIN proc'[p].clauses : proc'[p].clauses[i] = "old"
               => /\ collection.made \notin rebuilt
                  /\ collection.current \/ p \in unchecked]_vars
<1>1. SUFFICES ASSUME Next, NEW p \in Processes,
                      proc[p].at = "query", proc'[p].at = "answered",
                      NEW i \in DOMAIN proc'[p].clauses,
                      proc'[p].clauses[i] = "old"
               PROVE  /\ collection.made \notin rebuilt
                      /\ collection.current \/ p \in unchecked
  OBVIOUS
<1>2. Query(p)
  BY <1>1, AnsweredByQuery DEF StoreInvariant
<1> QED  BY <1>1, <1>2, OldTextBeforeRebuild

\* A search answers with a retired or superseded text only from an index that
\* no build has cleared since, and from one of an older version only if its
\* own look at that version failed (PolicyVectorStore.__init__ drops the
\* indexes of older versions).
THEOREM OldTextsPredateRebuilds == Spec => RetiredOnlyBeforeRebuild
<1>1. StoreInvariant /\ [Next]_vars =>
          [\A p \in Processes :
               /\ proc[p].at = "query" /\ proc'[p].at = "answered"
               /\ \E i \in DOMAIN proc'[p].clauses : proc'[p].clauses[i] = "old"
               => /\ collection.made \notin rebuilt
                  /\ collection.current \/ p \in unchecked]_vars
  BY StepBeforeRebuild
<1> QED  BY <1>1, StoreAlways, PTL DEF Spec, RetiredOnlyBeforeRebuild
-----------------------------------------------------------------------------
(* The lookups.                                                            *)

\* The fields of a session.
Shaped(r) ==
    /\ DOMAIN r = {"at", "provider", "step", "calls", "results", "status",
                   "rationale", "found", "answered", "erred", "spoiled"}
    /\ r.at \in {"idle", "list", "ask", "call", "wait", "explain",
                 "explain again", "done"}
    /\ r.provider \in Providers /\ r.step \in 1..MaxSteps
    /\ r.calls \in 0..MaxCalls
    /\ r.results \subseteq Corpus \cup Retired
    /\ r.found \subseteq Corpus \cup Retired
    /\ r.status \in Statuses \cup {"pending"}
    /\ r.rationale \in {"pending", "written", "invalid", "unavailable"}
    /\ r.answered \in Nat
    /\ r.erred \in BOOLEAN /\ r.spoiled \in BOOLEAN

\* What an attempt has found: of every answer that was not empty a clause is
\* left, and unless an attempt was spoiled no answer was empty and none failed.
Found(r) ==
    /\ r.results \subseteq r.found
    /\ r.status # "failed" /\ r.results = {} => r.found = {}
    /\ ~r.spoiled => /\ ~r.erred
                     /\ r.answered > 0 /\ r.status # "failed" => r.results # {}

\* A session asks models once the tools are listed, and has no outcome before
\* its loop is over.
SessionOK(r, listed) ==
    /\ Shaped(r)
    /\ r.at \in {"ask", "call", "wait"} => listed
    /\ r.at \in {"call", "wait"} => r.calls > 0
    /\ r.at \in {"idle", "list", "ask", "call", "wait"} => r.status = "pending"
    /\ r.status = "not_needed" => r.results = {}
    /\ Found(r)

LookupInvariant ==
    /\ cached \in BOOLEAN
    /\ DOMAIN lookup = Sessions
    /\ \A s \in Sessions : SessionOK(lookup[s], cached)
\* What a step of the client does to the index is a step of the index.
LEMMA LookupStepsStore ==
    ASSUME [LookupNext]_lookupVars
    PROVE  [Next]_vars
<1>1. CASE \E s \in Sessions : SessionStep(s)
  <2>1. PICK s \in Sessions : SessionStep(s)
    BY <1>1
  <2>2. s \in Processes
    BY LookupAssumption
  <2>3. \/ UNCHANGED vars
        \/ Start(s) \/ Killed(s)
    BY <2>1 DEF SessionStep, Begin, ListTools, AskModel, RefuseCall, CallTool,
                ReadAnswer, ReadError, Timeout, Explain
  <2> QED  BY <2>2, <2>3 DEF Next
<1>2. CASE ListElsewhere
  BY <1>2 DEF ListElsewhere
<1>3. CASE StoreStep
  BY <1>3 DEF StoreStep, Next
<1> QED  BY <1>1, <1>2, <1>3 DEF LookupNext, lookupVars

\* The sessions of a client are some of the processes of the store: whatever
\* they do, its theorems hold of the index under them.
THEOREM LookupImplementsStore == LookupSpec => Spec
<1>1. LookupInit => Init
  BY DEF LookupInit
<1>2. [LookupNext]_lookupVars => [Next]_vars
  BY LookupStepsStore
<1> QED  BY <1>1, <1>2, PTL DEF LookupSpec, Spec

\* Under a client whose lookups time out, fall back and start servers again,
\* no index is left half rebuilt, retired or empty to a search.
THEOREM LookupsKeepTheIndex ==
    LookupSpec => [](SettledIndexIsCorpus /\ UndisturbedSearchAnswers)
BY LookupImplementsStore, SettledAlways, SearchesAnswer, PTL

LEMMA FreshShaped == Shaped(Fresh)
BY LookupAssumption DEF Fresh, Shaped, Providers, MaxSteps, Statuses

\* The node that returns keeps nothing of its lookup.
LEMMA DoneOK ==
    ASSUME NEW r \in {"written", "invalid", "unavailable"}, NEW listed
    PROVE  SessionOK(Done(r), listed)
<1>1. Shaped(Done(r))
  BY FreshShaped DEF Done, Shaped
<1> QED  BY <1>1 DEF Done, Fresh, SessionOK, Found

\* An attempt that returns reports what it has.
LEMMA ReturnedOK ==
    ASSUME NEW r, SessionOK(r, TRUE), r.status = "pending"
    PROVE  SessionOK(Returned(r), TRUE)
<1>1. /\ Returned(r).at = "explain"
      /\ Returned(r).status = IF r.results = {} THEN "not_needed" ELSE "retrieved"
      /\ \A f \in DOMAIN r \ {"at", "status"} : Returned(r)[f] = r[f]
      /\ DOMAIN Returned(r) = DOMAIN r
  BY DEF SessionOK, Shaped, Returned
<1>2. Shaped(Returned(r))
  BY <1>1 DEF SessionOK, Shaped, Statuses
<1> QED  BY <1>1, <1>2 DEF SessionOK, Shaped, Found

\* The next attempt starts with nothing, and the last one leaves nothing.
LEMMA RaisedOK ==
    ASSUME NEW r, Shaped(r), r.status = "pending", ~r.spoiled => ~r.erred
    PROVE  SessionOK(Raised(r), TRUE)
<1>1. CASE r.provider = "primary"
  <2> DEFINE q == Raised(r)
  <2>1. /\ q.at = "ask" /\ q.provider = "fallback" /\ q.step = 1
        /\ q.calls = 0 /\ q.results = {} /\ q.found = {} /\ q.answered = 0
        /\ \A f \in {"status", "rationale", "erred", "spoiled"} : q[f] = r[f]
        /\ DOMAIN q = DOMAIN r
    BY <1>1 DEF Raised, Shaped
  <2> HIDE DEF q
  <2>2. /\ 1 \in 1..MaxSteps /\ 0 \in 0..MaxCalls /\ "fallback" \in Providers
    BY LookupAssumption DEF Providers, MaxSteps
  <2>3. /\ q.status \in Statuses \cup {"pending"}
        /\ q.rationale \in {"pending", "written", "invalid", "unavailable"}
        /\ q.erred \in BOOLEAN /\ q.spoiled \in BOOLEAN
    BY <2>1 DEF Shaped
  <2>4. Shaped(q)
    <3>1. /\ DOMAIN q = {"at", "provider", "step", "calls", "results", "status",
                         "rationale", "found", "answered", "erred", "spoiled"}
      BY <2>1 DEF Shaped
    <3>2. /\ q.at = "ask" /\ q.provider = "fallback" /\ q.step = 1
          /\ q.calls = 0 /\ q.results = {} /\ q.found = {} /\ q.answered = 0
      BY <2>1
    <3>3. q.provider \in Providers /\ q.step \in 1..MaxSteps /\ q.calls \in 0..MaxCalls
      BY <3>2, <2>2
    <3>4. /\ q.at \in {"ask"} /\ q.answered \in Nat
          /\ q.results \subseteq Corpus \cup Retired
          /\ q.found \subseteq Corpus \cup Retired
      BY <3>2
    <3> QED  BY <2>3, <3>1, <3>3, <3>4 DEF Shaped
  <2>5. q.spoiled = r.spoiled /\ q.erred = r.erred /\ q.status = "pending"
    BY <2>1
  <2>6. SessionOK(q, TRUE)
    BY <2>1, <2>4, <2>5 DEF SessionOK, Found
  <2> QED  BY <2>6 DEF q
<1>2. CASE r.provider # "primary"
  <2> DEFINE q == Raised(r)
  <2>1. /\ q.at = "explain" /\ q.status = "failed" /\ q.results = {}
        /\ \A f \in DOMAIN r \ {"at", "status", "results"} : q[f] = r[f]
        /\ DOMAIN q = DOMAIN r
    BY <1>2 DEF Raised, Shaped
  <2> HIDE DEF q
  <2>2. Shaped(q)
    BY <2>1 DEF Shaped, Statuses
  <2>3. SessionOK(q, TRUE)
    BY <2>1, <2>2 DEF SessionOK, Found, Shaped
  <2> QED  BY <2>3 DEF q
<1> QED  BY <1>1, <1>2

\* After an answer a session calls, asks or returns with what it has.
LEMMA AfterAnswerOK ==
    ASSUME NEW r, SessionOK(r, TRUE), r.status = "pending"
    PROVE  SessionOK(AfterAnswer(r), TRUE)
<1> DEFINE q == AfterAnswer(r)
<1>0. /\ DOMAIN r = {"at", "provider", "step", "calls", "results", "status",
                     "rationale", "found", "answered", "erred", "spoiled"}
      /\ r.calls \in Nat /\ r.step \in Nat
      /\ r.calls \in 0..MaxCalls /\ r.step \in 1..MaxSteps
  <2>1. Shaped(r)
    BY DEF SessionOK
  <2>2. r.calls \in 0..MaxCalls /\ r.step \in 1..MaxSteps
    BY <2>1 DEF Shaped
  <2>3. r.calls \in Nat /\ r.step \in Nat
    BY <2>2, LookupAssumption DEF MaxSteps
  <2> QED  BY <2>1, <2>2, <2>3 DEF Shaped
<1>1. CASE r.calls > 1
  <2>0. q = [r EXCEPT !.at = "call", !.calls = @ - 1]
    BY <1>1 DEF AfterAnswer
  <2> HIDE DEF q
  <2>1. /\ q.at = "call" /\ q.calls = r.calls - 1
        /\ \A f \in DOMAIN r \ {"at", "calls"} : q[f] = r[f]
        /\ DOMAIN q = DOMAIN r
    <3>1. q.at = "call" /\ DOMAIN q = DOMAIN r
      BY <2>0, <1>0
    <3>2. q.calls = r.calls - 1
      BY <2>0, <1>0
    <3>3. \A f \in DOMAIN r \ {"at", "calls"} : q[f] = r[f]
      BY <2>0
    <3> QED  BY <3>1, <3>2, <3>3
  <2>2. r.calls - 1 \in 0..MaxCalls /\ r.calls - 1 > 0
    BY <1>0, <1>1, LookupAssumption
  <2>3. Shaped(q)
    BY <2>1, <2>2 DEF SessionOK, Shaped
  <2>4. SessionOK(q, TRUE)
    BY <2>1, <2>2, <2>3 DEF SessionOK, Shaped, Found
  <2> QED  BY <2>4 DEF q
<1>2. CASE ~(r.calls > 1) /\ StepsLeft(r)
  <2>0. q = [r EXCEPT !.at = "ask", !.calls = 0, !.step = @ + 1]
    BY <1>2 DEF AfterAnswer
  <2> HIDE DEF q
  <2>1. /\ q.at = "ask" /\ q.calls = 0 /\ q.step = r.step + 1
        /\ \A f \in DOMAIN r \ {"at", "calls", "step"} : q[f] = r[f]
        /\ DOMAIN q = DOMAIN r
    <3>1. q.at = "ask" /\ q.calls = 0 /\ DOMAIN q = DOMAIN r
      BY <2>0, <1>0
    <3>2. q.step = r.step + 1
      BY <2>0, <1>0
    <3>3. \A f \in DOMAIN r \ {"at", "calls", "step"} : q[f] = r[f]
      BY <2>0
    <3> QED  BY <3>1, <3>2, <3>3
  <2>2. r.step + 1 \in 1..MaxSteps /\ 0 \in 0..MaxCalls
    BY <1>0, <1>2, LookupAssumption DEF StepsLeft, MaxSteps
  <2>3. Shaped(q)
    BY <2>1, <2>2 DEF SessionOK, Shaped
  <2>4. SessionOK(q, TRUE)
    BY <2>1, <2>3 DEF SessionOK, Shaped, Found
  <2> QED  BY <2>4 DEF q
<1>3. CASE ~(r.calls > 1) /\ ~StepsLeft(r)
  BY <1>3, ReturnedOK DEF AfterAnswer
<1> QED  BY <1>1, <1>2, <1>3
-----------------------------------------------------------------------------
(* Steps of a session.                                                     *)

LEMMA BecomeKeeps ==
    ASSUME LookupInvariant, NEW s \in Sessions, NEW r, Become(s, r),
           SessionOK(r, cached'), cached' \in BOOLEAN, cached => cached'
    PROVE  LookupInvariant'
<1>1. DOMAIN lookup' = Sessions
  BY DEF LookupInvariant, Become
<1>2. ASSUME NEW t \in Sessions PROVE SessionOK(lookup'[t], cached')
  <2>1. CASE t = s
    BY <2>1 DEF LookupInvariant, Become
  <2>2. CASE t # s
    <3>1. SessionOK(lookup[t], cached) /\ lookup'[t] = lookup[t]
      BY <2>2 DEF LookupInvariant, Become
    <3> QED  BY <3>1 DEF SessionOK
  <2> QED  BY <2>1, <2>2
<1> QED  BY <1>1, <1>2 DEF LookupInvariant

\* The lemmas above are about sessions whose client has listed the tools.
LEMMA ListedSession ==
    ASSUME LookupInvariant, NEW s \in Sessions
    PROVE  /\ SessionOK(lookup[s], TRUE)
           /\ lookup[s].at \in {"ask", "call", "wait"} => cached
BY DEF LookupInvariant, SessionOK

LEMMA ListedBecomes ==
    ASSUME LookupInvariant, NEW s \in Sessions, NEW r, Become(s, r),
           SessionOK(r, TRUE), UNCHANGED cached,
           r.at \in {"ask", "call", "wait"} => cached
    PROVE  LookupInvariant'
<1>1. SessionOK(r, cached') /\ cached' \in BOOLEAN
  BY DEF SessionOK, LookupInvariant
<1> QED  BY <1>1, BecomeKeeps

LEMMA BeginKeeps ==
    ASSUME LookupInvariant, NEW s \in Sessions, Begin(s)
    PROVE  LookupInvariant'
<1> DEFINE r == [Fresh EXCEPT !.at = IF cached THEN "ask" ELSE "list"]
<1>1. Become(s, r) /\ UNCHANGED cached
  BY DEF Begin
<1>2. /\ r.at \in {"ask", "list"} /\ (r.at = "ask" => cached)
      /\ \A f \in DOMAIN Fresh \ {"at"} : r[f] = Fresh[f]
      /\ DOMAIN r = DOMAIN Fresh
  BY DEF Fresh
<1>3. /\ Fresh.status = "pending" /\ Fresh.results = {} /\ Fresh.found = {}
      /\ Fresh.answered = 0 /\ ~Fresh.erred
  BY DEF Fresh
<1> HIDE DEF r
<1>4. Shaped(r)
  BY <1>2, FreshShaped DEF Shaped
<1>5. SessionOK(r, TRUE)
  <2>1. /\ r.status = "pending" /\ r.results = {} /\ r.found = {}
        /\ r.answered = 0 /\ ~r.erred
    BY <1>2, <1>3, FreshShaped DEF Shaped
  <2> QED  BY <1>2, <1>4, <2>1 DEF SessionOK, Found
<1> QED  BY <1>1, <1>2, <1>5, ListedBecomes

\* A session moved on within its attempt, with all it has.
LEMMA MovedOK ==
    ASSUME NEW r, SessionOK(r, TRUE), NEW place,
           \/ place = "ask" /\ r.status = "pending"
           \/ place = "wait" /\ r.status = "pending" /\ r.calls > 0
           \/ place = "explain again"
    PROVE  SessionOK([r EXCEPT !.at = place], TRUE)
<1> DEFINE q == [r EXCEPT !.at = place]
<1>1. Shaped(r)
  BY DEF SessionOK
<1>2. /\ q.at = place /\ DOMAIN q = DOMAIN r
      /\ \A f \in DOMAIN r \ {"at"} : q[f] = r[f]
  BY <1>1 DEF Shaped
<1> HIDE DEF q
<1>3. Shaped(q)
  BY <1>1, <1>2 DEF Shaped
<1>4. SessionOK(q, TRUE)
  BY <1>2, <1>3 DEF SessionOK, Found, Shaped
<1> QED  BY <1>4 DEF q

LEMMA ListToolsKeeps ==
    ASSUME LookupInvariant, NEW s \in Sessions, ListTools(s)
    PROVE  LookupInvariant'
<1>0. SessionOK(lookup[s], TRUE) /\ lookup[s].status = "pending"
  BY ListedSession DEF ListTools, At, SessionOK
<1>1. CASE cached' = TRUE /\ Become(s, [lookup[s] EXCEPT !.at = "ask"])
  <2>1. SessionOK([lookup[s] EXCEPT !.at = "ask"], TRUE)
    BY <1>0, MovedOK
  <2> QED  BY <1>1, <2>1, BecomeKeeps
<1>2. CASE /\ UNCHANGED cached
           /\ Become(s, [lookup[s] EXCEPT !.at = "explain", !.status = "failed"])
  <2> DEFINE q == [lookup[s] EXCEPT !.at = "explain", !.status = "failed"]
  <2>1. Shaped(lookup[s])
    BY <1>0 DEF SessionOK
  <2>2. /\ q.at = "explain" /\ q.status = "failed" /\ DOMAIN q = DOMAIN lookup[s]
        /\ \A f \in DOMAIN lookup[s] \ {"at", "status"} : q[f] = lookup[s][f]
    BY <2>1 DEF Shaped
  <2>3. Become(s, q)
    BY <1>2
  <2> HIDE DEF q
  <2>4. Shaped(q)
    BY <2>1, <2>2 DEF Shaped, Statuses
  <2>5. SessionOK(q, TRUE)
    BY <1>0, <2>1, <2>2, <2>4 DEF SessionOK, Found, Shaped
  <2> QED  BY <1>2, <2>2, <2>3, <2>5, ListedBecomes
<1> QED  BY <1>1, <1>2 DEF ListTools

LEMMA AskModelKeeps ==
    ASSUME LookupInvariant, NEW s \in Sessions, AskModel(s)
    PROVE  LookupInvariant'
<1>0. /\ SessionOK(lookup[s], TRUE) /\ lookup[s].status = "pending" /\ cached
      /\ Shaped(lookup[s]) /\ (~lookup[s].spoiled => ~lookup[s].erred)
      /\ UNCHANGED cached
  BY ListedSession DEF AskModel, At, SessionOK, Found
<1>1. CASE Become(s, Returned(lookup[s]))
  BY <1>0, <1>1, ReturnedOK, ListedBecomes
<1>2. CASE Become(s, Raised(lookup[s]))
  BY <1>0, <1>2, RaisedOK, ListedBecomes
<1>3. ASSUME NEW n \in 1..MaxCalls,
             Become(s, [lookup[s] EXCEPT !.at = "call", !.calls = n])
      PROVE  LookupInvariant'
  <2> DEFINE q == [lookup[s] EXCEPT !.at = "call", !.calls = n]
  <2>1. /\ q.at = "call" /\ q.calls = n /\ DOMAIN q = DOMAIN lookup[s]
        /\ \A f \in DOMAIN lookup[s] \ {"at", "calls"} : q[f] = lookup[s][f]
    BY <1>0 DEF Shaped
  <2>2. Become(s, q)
    BY <1>3
  <2>3. n \in 0..MaxCalls /\ n > 0
    BY LookupAssumption
  <2> HIDE DEF q
  <2>4. Shaped(q)
    BY <1>0, <2>1, <2>3 DEF Shaped
  <2>5. SessionOK(q, TRUE)
    BY <1>0, <2>1, <2>3, <2>4 DEF SessionOK, Found, Shaped
  <2> QED  BY <1>0, <2>2, <2>5, ListedBecomes
<1> QED  BY <1>1, <1>2, <1>3 DEF AskModel

LEMMA RefuseCallKeeps ==
    ASSUME LookupInvariant, NEW s \in Sessions, RefuseCall(s)
    PROVE  LookupInvariant'
<1>1. /\ Shaped(lookup[s]) /\ lookup[s].status = "pending" /\ cached
      /\ ~lookup[s].spoiled => ~lookup[s].erred
  BY ListedSession DEF RefuseCall, At, SessionOK, Found
<1> QED  BY <1>1, RaisedOK, ListedBecomes DEF RefuseCall

LEMMA CallToolKeeps ==
    ASSUME LookupInvariant, NEW s \in Sessions, CallTool(s)
    PROVE  LookupInvariant'
<1>1. /\ SessionOK(lookup[s], TRUE) /\ lookup[s].status = "pending" /\ cached
      /\ lookup[s].calls > 0
  BY ListedSession DEF CallTool, At, SessionOK
<1>2. SessionOK([lookup[s] EXCEPT !.at = "wait"], TRUE)
  BY <1>1, MovedOK
<1> QED  BY <1>1, <1>2, ListedBecomes DEF CallTool
\* Of an answer that holds clauses one is left.
LEMMA NormalizedKeepsOne ==
    ASSUME NEW hits, NEW kept \in Normalized(hits)
    PROVE  kept \subseteq hits /\ (kept = {} => hits = {})
BY DEF Normalized

\* The session once it has read an answer.
LEMMA AnswerRead ==
    ASSUME NEW r, SessionOK(r, TRUE), r.status = "pending", r.at = "wait",
           NEW hits \in SUBSET (Corpus \cup Retired), NEW kept \in Normalized(hits),
           NEW late \in BOOLEAN, ~late => hits # {}
    PROVE  SessionOK([r EXCEPT !.results = @ \cup kept, !.found = @ \cup hits,
                               !.answered = @ + 1, !.spoiled = @ \/ late], TRUE)
<1> DEFINE q == [r EXCEPT !.results = @ \cup kept, !.found = @ \cup hits,
                          !.answered = @ + 1, !.spoiled = @ \/ late]
<1>1. Shaped(r) /\ Found(r)
  BY DEF SessionOK
<1>2. /\ DOMAIN r = {"at", "provider", "step", "calls", "results", "status",
                     "rationale", "found", "answered", "erred", "spoiled"}
      /\ r.answered \in Nat /\ r.spoiled \in BOOLEAN
  BY <1>1 DEF Shaped
<1>3. DOMAIN q = DOMAIN r
  BY <1>2
<1>4. \A f \in DOMAIN r \ {"results", "found", "answered", "spoiled"} : q[f] = r[f]
  OBVIOUS
<1>5. q.results = r.results \cup kept /\ q.found = r.found \cup hits
  BY <1>2
<1>6. q.answered = r.answered + 1
  BY <1>2
<1>7. q.spoiled \in BOOLEAN /\ (q.spoiled <=> r.spoiled \/ late)
  BY <1>2
<1> HIDE DEF q
<1>8. kept \subseteq hits /\ (kept = {} => hits = {})
  BY NormalizedKeepsOne
<1>9. /\ q.results \subseteq Corpus \cup Retired
      /\ q.found \subseteq Corpus \cup Retired
      /\ q.answered \in Nat
  BY <1>1, <1>2, <1>5, <1>6, <1>8 DEF Shaped
<1>10. Shaped(q)
  <2>1. /\ q.at = r.at /\ q.provider = r.provider /\ q.step = r.step
        /\ q.calls = r.calls /\ q.status = r.status
        /\ q.rationale = r.rationale /\ q.erred = r.erred
    BY <1>2, <1>4
  <2> QED  BY <1>1, <1>2, <1>3, <1>7, <1>9, <2>1 DEF Shaped
<1>11. Found(q)
  <2>1. q.results \subseteq q.found /\ (q.results = {} => q.found = {})
    BY <1>1, <1>5, <1>8, <1>2 DEF Found
  <2>2. ~q.spoiled => q.results # {}
    BY <1>5, <1>7, <1>8
  <2>3. ~q.spoiled => ~q.erred
    BY <1>1, <1>2, <1>4, <1>7 DEF Found
  <2> QED  BY <2>1, <2>2, <2>3 DEF Found
<1>12. SessionOK(q, TRUE)
  <2>1. q.at = "wait" /\ q.status = "pending" /\ q.calls = r.calls /\ r.calls > 0
    BY <1>2, <1>4 DEF SessionOK
  <2> QED  BY <2>1, <1>10, <1>11 DEF SessionOK
<1> QED  BY <1>12 DEF q

\* The loop's own fields, which reading an answer or an error leaves alone.
SamePlace(q, r) == /\ q.at = r.at /\ q.provider = r.provider
                   /\ q.step = r.step /\ q.calls = r.calls

LEMMA ReadAnswerEffect ==
    ASSUME StoreInvariant, LookupInvariant, NEW s \in Sessions, ReadAnswer(s)
    PROVE  /\ cached /\ UNCHANGED cached /\ lookup[s].at = "wait"
           /\ \E q : /\ Become(s, AfterAnswer(q)) /\ SamePlace(q, lookup[s])
                    /\ SessionOK(q, TRUE) /\ q.status = "pending"
<1> DEFINE hits == DOMAIN proc[s].clauses
<1>1. /\ SessionOK(lookup[s], TRUE) /\ lookup[s].status = "pending" /\ cached
      /\ lookup[s].at = "wait" /\ proc[s].at = "answered" /\ UNCHANGED cached
  BY ListedSession DEF ReadAnswer, At, SessionOK
<1>2. /\ hits \in SUBSET (Corpus \cup Retired)
      /\ s \notin disturbed => hits # {}
  <2>1. s \in Processes
    BY LookupAssumption
  <2>2. proc[s].clauses \in Indexes
    BY <1>1, <2>1 DEF StoreInvariant, StoreTypes, ProcessOK
  <2>3. s \notin disturbed => proc[s].clauses # << >>
    BY <1>1, <2>1 DEF StoreInvariant, UndisturbedSearchAnswers
  <2> QED  BY <2>2, <2>3, EmptyIndex
<1>3. PICK kept \in Normalized(hits) :
          Become(s, AfterAnswer([lookup[s] EXCEPT
                        !.results = @ \cup kept,
                        !.found = @ \cup hits,
                        !.answered = @ + 1,
                        !.spoiled = @ \/ s \in disturbed]))
  BY DEF ReadAnswer
<1> DEFINE q == [lookup[s] EXCEPT !.results = @ \cup kept,
                                  !.found = @ \cup hits,
                                  !.answered = @ + 1,
                                  !.spoiled = @ \/ s \in disturbed]
<1>4. (s \in disturbed) \in BOOLEAN
  OBVIOUS
<1>5. SessionOK(q, TRUE)
  <2> HIDE DEF hits
  <2> QED  BY <1>1, <1>2, <1>4, AnswerRead
<1>6. q.status = "pending"
  BY <1>1 DEF SessionOK, Shaped
<1>7. Become(s, AfterAnswer(q))
  BY <1>3
<1>8. SamePlace(q, lookup[s])
  BY <1>1 DEF SessionOK, Shaped, SamePlace
<1> HIDE DEF q
<1> QED  BY <1>1, <1>5, <1>6, <1>7, <1>8

LEMMA ReadAnswerKeeps ==
    ASSUME StoreInvariant, LookupInvariant, NEW s \in Sessions, ReadAnswer(s)
    PROVE  LookupInvariant'
<1>1. PICK q : /\ Become(s, AfterAnswer(q)) /\ SessionOK(q, TRUE)
               /\ q.status = "pending"
  BY ReadAnswerEffect
<1>2. cached /\ UNCHANGED cached
  BY ReadAnswerEffect
<1>3. SessionOK(AfterAnswer(q), TRUE)
  BY <1>1, AfterAnswerOK
<1> QED  BY <1>1, <1>2, <1>3, ListedBecomes

\* A search that failed was disturbed.
LEMMA ErredOK ==
    ASSUME NEW r, Shaped(r), NEW q, q = [r EXCEPT !.erred = TRUE, !.spoiled = TRUE]
    PROVE  Shaped(q) /\ q.spoiled /\ q.status = r.status
<1>1. /\ DOMAIN q = DOMAIN r /\ q.erred = TRUE /\ q.spoiled = TRUE
      /\ \A f \in DOMAIN r \ {"erred", "spoiled"} : q[f] = r[f]
  BY DEF Shaped
<1> QED  BY <1>1 DEF Shaped

LEMMA ErrorEffect ==
    ASSUME StoreInvariant, LookupInvariant, NEW s \in Sessions,
           ReadError(s) \/ Timeout(s)
    PROVE  /\ cached /\ UNCHANGED cached /\ lookup[s].at = "wait"
           /\ \E q : /\ Become(s, Raised(q)) /\ SamePlace(q, lookup[s])
                    /\ Shaped(q) /\ q.spoiled /\ q.status = "pending"
<1> DEFINE q == [lookup[s] EXCEPT !.erred = TRUE, !.spoiled = TRUE]
<1>1. /\ Shaped(lookup[s]) /\ lookup[s].status = "pending" /\ cached
      /\ UNCHANGED cached
  BY ListedSession DEF ReadError, Timeout, At, SessionOK
<1>2. Become(s, Raised(q))
  <2>1. CASE ReadError(s)
    <3>1. s \in Processes /\ s \in disturbed
      BY <2>1, LookupAssumption
      DEF ReadError, StoreInvariant, UndisturbedSearchAnswers
    <3>2. Erred(s) = q
      BY <3>1, <1>1 DEF Erred, Shaped
    <3> QED  BY <2>1, <3>2 DEF ReadError
  <2>2. CASE Timeout(s)
    <3>1. [Erred(s) EXCEPT !.spoiled = TRUE] = q
      BY <1>1 DEF Erred, Shaped
    <3> QED  BY <2>2, <3>1 DEF Timeout
  <2> QED  BY <2>1, <2>2
<1>3. Shaped(q) /\ q.spoiled /\ q.status = "pending"
  BY <1>1, ErredOK
<1>4. SamePlace(q, lookup[s])
  BY <1>1 DEF Shaped, SamePlace
<1>5. lookup[s].at = "wait"
  BY DEF ReadError, Timeout, At
<1> HIDE DEF q
<1> QED  BY <1>1, <1>2, <1>3, <1>4, <1>5

LEMMA ErrorsKeep ==
    ASSUME StoreInvariant, LookupInvariant, NEW s \in Sessions,
           ReadError(s) \/ Timeout(s)
    PROVE  LookupInvariant'
<1>1. PICK q : /\ Become(s, Raised(q)) /\ Shaped(q) /\ q.spoiled
               /\ q.status = "pending"
  BY ErrorEffect
<1>2. cached /\ UNCHANGED cached
  BY ErrorEffect
<1> QED  BY <1>1, <1>2, RaisedOK, ListedBecomes

LEMMA ExplainKeeps ==
    ASSUME LookupInvariant, NEW s \in Sessions, Explain(s)
    PROVE  LookupInvariant'
<1>1. CASE Become(s, [lookup[s] EXCEPT !.at = "explain again"])
  <2>1. SessionOK([lookup[s] EXCEPT !.at = "explain again"], TRUE)
    BY ListedSession, MovedOK
  <2>2. [lookup[s] EXCEPT !.at = "explain again"].at = "explain again"
    BY ListedSession DEF SessionOK, Shaped
  <2> QED  BY <1>1, <2>1, <2>2, ListedBecomes DEF Explain
<1>2. ASSUME NEW r \in {"written", "invalid", "unavailable"}, Become(s, Done(r))
      PROVE  LookupInvariant'
  <2>1. Done(r).at = "done"
    BY DEF Done, Fresh
  <2> QED  BY <1>2, <2>1, DoneOK, ListedBecomes DEF Explain
<1> QED  BY <1>1, <1>2 DEF Explain

LEMMA LookupKept ==
    ASSUME StoreInvariant, LookupInvariant, [LookupNext]_lookupVars
    PROVE  LookupInvariant'
<1>1. ASSUME NEW s \in Sessions, SessionStep(s) PROVE LookupInvariant'
  BY <1>1, BeginKeeps, ListToolsKeeps, AskModelKeeps, RefuseCallKeeps,
     CallToolKeeps, ReadAnswerKeeps, ErrorsKeep, ExplainKeeps DEF SessionStep
<1>2. CASE ListElsewhere
  BY <1>2 DEF ListElsewhere, LookupInvariant, SessionOK
<1>3. CASE StoreStep \/ UNCHANGED lookupVars
  <2>1. UNCHANGED <<cached, lookup>>
    BY <1>3 DEF StoreStep, lookupVars
  <2> QED  BY <2>1 DEF LookupInvariant
<1> QED  BY <1>1, <1>2, <1>3 DEF LookupNext

LEMMA LookupAlways == LookupSpec => [](StoreInvariant /\ LookupInvariant)
<1>1. LookupInit => LookupInvariant
  <2> SUFFICES ASSUME LookupInit PROVE LookupInvariant
    OBVIOUS
  <2>1. /\ Fresh.at = "idle" /\ Fresh.status = "pending" /\ Fresh.results = {}
        /\ Fresh.found = {} /\ Fresh.answered = 0 /\ ~Fresh.erred
    BY DEF Fresh
  <2>2. SessionOK(Fresh, cached)
    BY <2>1, FreshShaped DEF SessionOK, Found
  <2>3. cached \in BOOLEAN /\ DOMAIN lookup = Sessions
    BY DEF LookupInit
  <2>4. \A s \in Sessions : lookup[s] = Fresh
    BY DEF LookupInit
  <2> QED  BY <2>2, <2>3, <2>4 DEF LookupInvariant
<1>2. StoreInvariant /\ LookupInvariant /\ [LookupNext]_lookupVars => LookupInvariant'
  BY LookupKept
<1> QED  BY <1>1, <1>2, LookupImplementsStore, StoreAlways, PTL DEF LookupSpec

-----------------------------------------------------------------------------
(* The theorems of the lookups.                                            *)

\* A session is at one of the loop's awaits, within its budget of steps and
\* calls, and asks no model before the tools are listed (get_mcp_tools,
\* _invoke_with_provider).
THEOREM LookupTyped == LookupSpec => []LookupTypeOK
<1>1. LookupInvariant => LookupTypeOK
  BY DEF LookupInvariant, SessionOK, Shaped, LookupTypeOK, At
<1> QED  BY <1>1, LookupAlways, PTL

\* What a lookup retrieved, the searches of its last attempt found; and one
\* that reports none was needed had none of them find a clause
\* (agentic_policy_lookup).
THEOREM OutcomesAreTheProviders == LookupSpec => []OutcomeIsTheProviders
<1>1. LookupInvariant => OutcomeIsTheProviders
  BY DEF LookupInvariant, SessionOK, Found, OutcomeIsTheProviders
<1> QED  BY <1>1, LookupAlways, PTL

\* A lookup under whose searches nothing is deleted, and none of which runs
\* out of time, has none fail, and retrieves something if it searched at all.
THEOREM UndisturbedLookupsRetrieve == LookupSpec => []UndisturbedLookupRetrieves
<1>1. LookupInvariant => UndisturbedLookupRetrieves
  BY DEF LookupInvariant, SessionOK, Found, UndisturbedLookupRetrieves
<1> QED  BY <1>1, LookupAlways, PTL
-----------------------------------------------------------------------------
(* How far a lookup is from its end.                                       *)

\* More than a step of an attempt takes: a call and its answer each, and the
\* question before them.
Round == 2 * MaxCalls + 2

\* What is left of the attempts: two of MaxSteps rounds, at most.
Left(r) ==
    (IF r.provider = "primary" THEN MaxSteps * Round ELSE 0)
    + (MaxSteps - r.step) * Round
    + (IF r.at = "ask" THEN 2 * MaxCalls + 1
       ELSE IF r.at = "call" THEN 2 * r.calls ELSE 2 * r.calls - 1)

Rank(r) == IF r.at = "done" THEN 0
           ELSE IF r.at = "explain again" THEN 1
           ELSE IF r.at = "explain" THEN 2
           ELSE IF r.at = "list" THEN 2 * MaxSteps * Round + 2
           ELSE IF r.at = "idle" THEN 2 * MaxSteps * Round + 3
           ELSE 2 + Left(r)

Looping(r) == r.at \in {"ask", "call", "wait"}

LEMMA LeftBounds ==
    ASSUME NEW r, Shaped(r), Looping(r),
           r.at \in {"call", "wait"} => r.calls > 0
    PROVE  /\ Left(r) \in Nat /\ Left(r) > 0 /\ Round \in Nat
           /\ Left(r) < 2 * MaxSteps * Round
           /\ r.provider = "primary" => Left(r) > MaxSteps * Round
           /\ r.provider # "primary" => Left(r) < MaxSteps * Round
<1> DEFINE b == (MaxSteps - r.step) * Round
           c == IF r.at = "ask" THEN 2 * MaxCalls + 1
                ELSE IF r.at = "call" THEN 2 * r.calls ELSE 2 * r.calls - 1
<1>1. /\ MaxCalls \in Nat /\ r.calls \in 0..MaxCalls
      /\ r.step \in {1, 2} /\ MaxSteps = 2
  <2>1. r.calls \in 0..MaxCalls /\ r.step \in 1..MaxSteps
    BY DEF Shaped
  <2> QED  BY <2>1, LookupAssumption DEF MaxSteps
<1>2. Round \in Nat /\ Round = 2 * MaxCalls + 2
  BY <1>1 DEF Round
<1>3. c \in Nat /\ c > 0 /\ c < Round
  BY <1>1, <1>2 DEF Looping
<1>4. b \in {0, Round}
  <2>1. MaxSteps - r.step \in {0, 1}
    BY <1>1
  <2> QED  BY <1>2, <2>1
<1>5. Left(r) = (IF r.provider = "primary" THEN MaxSteps * Round ELSE 0) + b + c
  BY DEF Left
<1> HIDE DEF b, c
<1> QED  BY <1>1, <1>2, <1>3, <1>4, <1>5

LEMMA RankTyped ==
    ASSUME NEW r, NEW listed, SessionOK(r, listed)
    PROVE  Rank(r) \in Nat
<1>1. Shaped(r) /\ (r.at \in {"call", "wait"} => r.calls > 0)
  BY DEF SessionOK
<1>2. 2 * MaxSteps * Round \in Nat
  BY LookupAssumption DEF MaxSteps, Round
<1>3. CASE Looping(r)
  <2>1. Left(r) \in Nat /\ Rank(r) = 2 + Left(r)
    BY <1>1, <1>3, LeftBounds DEF Rank, Looping
  <2> QED  BY <2>1
<1>4. CASE ~Looping(r)
  <2>1. Rank(r) \in {0, 1, 2, 2 * MaxSteps * Round + 2,
                    2 * MaxSteps * Round + 3}
    BY <1>1, <1>4 DEF Shaped, Looping, Rank
  <2> QED  BY <1>2, <2>1
<1> QED  BY <1>3, <1>4

\* An attempt that raises is over, and costs all that was left of it.
LEMMA RaisedFalls ==
    ASSUME NEW r, Shaped(r), Looping(r),
           r.at \in {"call", "wait"} => r.calls > 0
    PROVE  Rank(Raised(r)) < Rank(r)
<1>1. /\ Left(r) \in Nat /\ Left(r) > 0 /\ Rank(r) = 2 + Left(r)
      /\ r.provider = "primary" => Left(r) > MaxSteps * Round
  BY LeftBounds DEF Rank, Looping
<1>2. /\ MaxSteps = 2 /\ MaxCalls \in Nat /\ Round = 2 * MaxCalls + 2
  BY LookupAssumption DEF MaxSteps, Round
<1>3. CASE r.provider = "primary"
  <2> DEFINE q == Raised(r)
  <2>1. q.at = "ask" /\ q.provider = "fallback" /\ q.step = 1
    BY <1>3 DEF Raised, Shaped
  <2> HIDE DEF q
  <2>2. Rank(q) = 2 + (0 + (MaxSteps - 1) * Round + (2 * MaxCalls + 1))
    BY <2>1 DEF Rank, Left
  <2>3. (MaxSteps - 1) * Round = Round
    BY <1>2
  <2>4. Rank(q) = 2 + (Round + (2 * MaxCalls + 1))
    BY <1>2, <2>2, <2>3
  <2>5. Rank(q) < Rank(r)
    BY <1>1, <1>2, <1>3, <2>4
  <2> QED  BY <2>5 DEF q
<1>4. CASE r.provider # "primary"
  <2>1. Raised(r).at = "explain"
    BY <1>4 DEF Raised, Shaped
  <2>2. Rank(Raised(r)) = 2
    BY <2>1 DEF Rank
  <2> QED  BY <1>1, <2>2
<1> QED  BY <1>3, <1>4

\* After an answer there is one call fewer, or one round, or none.
LEMMA AnswerFalls ==
    ASSUME NEW r, Shaped(r), r.at = "wait", r.calls > 0
    PROVE  Rank(AfterAnswer(r)) < Rank(r)
<1> DEFINE q == AfterAnswer(r)
           a == IF r.provider = "primary" THEN MaxSteps * Round ELSE 0
<1>1. /\ MaxCalls \in Nat /\ r.calls \in 0..MaxCalls
      /\ r.step \in {1, 2} /\ MaxSteps = 2 /\ Round = 2 * MaxCalls + 2
  BY LookupAssumption DEF Shaped, MaxSteps, Round
<1>2. /\ Left(r) \in Nat /\ Left(r) > 0
      /\ Rank(r) = 2 + Left(r)
      /\ Left(r) = a + (MaxSteps - r.step) * Round + (2 * r.calls - 1)
      /\ a \in Nat
  <2>1. Left(r) \in Nat /\ Left(r) > 0
    BY LeftBounds DEF Looping
  <2> QED  BY <1>1, <2>1 DEF Rank, Left
<1>3. CASE r.calls > 1
  <2>1. /\ q.at = "call" /\ q.provider = r.provider /\ q.step = r.step
        /\ q.calls = r.calls - 1
    BY <1>3 DEF AfterAnswer, Shaped
  <2> HIDE DEF q
  <2>2. Rank(q) = 2 + (a + (MaxSteps - r.step) * Round + 2 * (r.calls - 1))
    BY <2>1 DEF Rank, Left
  <2> DEFINE b == (MaxSteps - r.step) * Round
  <2>3. b \in Nat
    <3>1. MaxSteps - r.step \in {0, 1} /\ Round \in Nat
      BY <1>1
    <3> QED  BY <3>1
  <2>4. /\ Rank(q) = 2 + (a + b + 2 * (r.calls - 1))
        /\ Rank(r) = 2 + (a + b + (2 * r.calls - 1))
    BY <1>2, <2>2
  <2> HIDE DEF a, b
  <2>5. Rank(q) < Rank(r)
    BY <1>1, <1>2, <2>3, <2>4
  <2> QED  BY <2>5 DEF q
<1>4. CASE ~(r.calls > 1) /\ StepsLeft(r)
  <2>1. /\ q.at = "ask" /\ q.provider = r.provider /\ q.step = r.step + 1
        /\ r.step = 1
    BY <1>1, <1>4 DEF AfterAnswer, Shaped, StepsLeft
  <2> HIDE DEF q
  <2>2. Rank(q) = 2 + (a + (MaxSteps - 2) * Round + (2 * MaxCalls + 1))
    BY <2>1 DEF Rank, Left
  <2>3. (MaxSteps - 2) * Round = 0 /\ (MaxSteps - r.step) * Round = Round
    BY <1>1, <2>1
  <2>4. /\ Rank(q) = 2 + (a + 0 + (2 * MaxCalls + 1))
        /\ Rank(r) = 2 + (a + Round + (2 * r.calls - 1))
    BY <1>2, <2>2, <2>3
  <2> HIDE DEF a
  <2>5. Rank(q) < Rank(r)
    BY <1>1, <1>2, <2>4
  <2> QED  BY <2>5 DEF q
<1>5. CASE ~(r.calls > 1) /\ ~StepsLeft(r)
  <2>1. q.at = "explain"
    BY <1>5 DEF AfterAnswer, Returned, Shaped
  <2> HIDE DEF q
  <2>2. Rank(q) = 2
    BY <2>1 DEF Rank
  <2>3. Rank(q) < Rank(r)
    BY <1>2, <2>2
  <2> QED  BY <2>3 DEF q
<1> QED  BY <1>3, <1>4, <1>5
LEMMA SessionFalls ==
    ASSUME StoreInvariant, LookupInvariant, NEW s \in Sessions, SessionStep(s)
    PROVE  /\ Rank(lookup'[s]) < Rank(lookup[s])
           /\ \A t \in Sessions \ {s} : lookup'[t] = lookup[t]
<1> DEFINE r == lookup[s]
<1>1. /\ SessionOK(r, cached) /\ Shaped(r) /\ DOMAIN lookup = Sessions
      /\ r.at \in {"call", "wait"} => r.calls > 0
  BY DEF LookupInvariant, SessionOK
<1>2. MaxSteps * Round \in Nat /\ MaxSteps = 2 /\ Round \in Nat
  BY LookupAssumption DEF MaxSteps, Round
<1>3. ASSUME Looping(r)
      PROVE  /\ Rank(r) = 2 + Left(r) /\ Left(r) \in Nat /\ Left(r) > 0
             /\ Left(r) < 2 * MaxSteps * Round
  BY <1>1, <1>3, LeftBounds DEF Rank, Looping
<1>4. ASSUME NEW q, Become(s, q), Rank(q) < Rank(r)
      PROVE  /\ Rank(lookup'[s]) < Rank(lookup[s])
             /\ \A t \in Sessions \ {s} : lookup'[t] = lookup[t]
  <2>1. lookup'[s] = q /\ \A t \in Sessions \ {s} : lookup'[t] = lookup[t]
    BY <1>1, <1>4 DEF Become
  <2> QED  BY <1>4, <2>1
<1>5. \E q : Become(s, q) /\ Rank(q) < Rank(r)
  <2>1. CASE Begin(s)
    <3> DEFINE q == [Fresh EXCEPT !.at = IF cached THEN "ask" ELSE "list"]
    <3>1. Become(s, q) /\ r.at = "idle"
      BY <2>1 DEF Begin, At
    <3>2. Rank(r) = 2 * MaxSteps * Round + 3
      BY <3>1 DEF Rank
    <3>3. CASE q.at = "ask"
      <4>1. Shaped(q)
        BY FreshShaped, <3>3 DEF Fresh, Shaped
      <4>2. Rank(q) = 2 + Left(q) /\ Left(q) < 2 * MaxSteps * Round
            /\ Left(q) \in Nat
        BY <3>3, <4>1, LeftBounds DEF Rank, Looping
      <4> HIDE DEF q
      <4> QED  BY <1>2, <3>1, <3>2, <4>2
    <3>4. CASE q.at = "list"
      <4>1. Rank(q) = 2 * MaxSteps * Round + 2
        BY <3>4 DEF Rank
      <4> HIDE DEF q
      <4> QED  BY <1>2, <3>1, <3>2, <4>1
    <3> QED  BY <3>3, <3>4 DEF Fresh
  <2>2. CASE ListTools(s)
    <3>1. r.at = "list" /\ Rank(r) = 2 * MaxSteps * Round + 2
      BY <2>2 DEF ListTools, At, Rank
    <3>2. CASE Become(s, [r EXCEPT !.at = "ask"])
      <4> DEFINE q == [r EXCEPT !.at = "ask"]
      <4>1. Shaped(q) /\ q.at = "ask"
        BY <1>1 DEF Shaped
      <4> HIDE DEF q
      <4>2. Rank(q) = 2 + Left(q) /\ Left(q) < 2 * MaxSteps * Round
            /\ Left(q) \in Nat
        BY <4>1, LeftBounds DEF Rank, Looping
      <4>3. Rank(q) < Rank(r)
        BY <1>2, <3>1, <4>2
      <4> QED  BY <3>2, <4>3 DEF q
    <3>3. CASE Become(s, [r EXCEPT !.at = "explain", !.status = "failed"])
      <4> DEFINE q == [r EXCEPT !.at = "explain", !.status = "failed"]
      <4>1. q.at = "explain"
        BY <1>1 DEF Shaped
      <4> HIDE DEF q
      <4>2. Rank(q) = 2
        BY <4>1 DEF Rank
      <4>3. Rank(q) < Rank(r)
        <5>1. 2 * MaxSteps * Round + 2 > 2
          BY <1>2, LookupAssumption DEF Round
        <5> QED  BY <3>1, <4>2, <5>1
      <4> QED  BY <3>3, <4>3 DEF q
    <3> QED  BY <2>2, <3>2, <3>3 DEF ListTools
  <2>3. CASE AskModel(s)
    <3>1. r.at = "ask" /\ Looping(r)
      BY <2>3 DEF AskModel, At, Looping
    <3>2. CASE Become(s, Returned(r))
      <4>1. Returned(r).at = "explain"
        BY <1>1 DEF Returned, Shaped
      <4>2. Rank(Returned(r)) = 2
        BY <4>1 DEF Rank
      <4>3. Rank(Returned(r)) < Rank(r)
        BY <1>3, <3>1, <4>2
      <4> QED  BY <3>2, <4>3
    <3>3. ASSUME NEW n \in 1..MaxCalls,
                 Become(s, [r EXCEPT !.at = "call", !.calls = n])
          PROVE  \E q : Become(s, q) /\ Rank(q) < Rank(r)
      <4> DEFINE q == [r EXCEPT !.at = "call", !.calls = n]
                 a == (IF r.provider = "primary" THEN MaxSteps * Round ELSE 0)
                      + (MaxSteps - r.step) * Round
      <4>1. /\ q.at = "call" /\ q.calls = n /\ q.provider = r.provider
            /\ q.step = r.step
        BY <1>1 DEF Shaped
      <4> HIDE DEF q
      <4>2. Rank(q) = 2 + (a + 2 * n) /\ Rank(r) = 2 + (a + (2 * MaxCalls + 1))
        <5>1. Left(q) = a + 2 * n
          BY <4>1 DEF Left
        <5>2. Left(r) = a + (2 * MaxCalls + 1)
          BY <3>1 DEF Left
        <5>3. Rank(q) = 2 + Left(q) /\ Rank(r) = 2 + Left(r)
          BY <3>1, <4>1 DEF Rank
        <5> HIDE DEF a
        <5> QED  BY <5>1, <5>2, <5>3
      <4>3. a \in Int
        <5>1. r.step \in {1, 2}
          <6>1. r.step \in 1..MaxSteps
            BY <1>1 DEF Shaped
          <6> QED  BY <1>2, <6>1
        <5>2. (MaxSteps - r.step) * Round \in {0, Round}
          <6>1. MaxSteps - r.step \in {0, 1}
            BY <1>2, <5>1
          <6> QED  BY <1>2, <6>1
        <5> QED  BY <1>2, <5>2
      <4> HIDE DEF a
      <4>4. Rank(q) < Rank(r)
        BY <4>2, <4>3, LookupAssumption
      <4> QED  BY <3>3, <4>4 DEF q
    <3>4. Rank(Raised(r)) < Rank(r)
      BY <1>1, <3>1, RaisedFalls
    <3> QED  BY <2>3, <3>2, <3>3, <3>4 DEF AskModel
  <2>4. CASE RefuseCall(s)
    <3>1. Looping(r) /\ Become(s, Raised(r))
      BY <2>4 DEF RefuseCall, At, Looping
    <3> QED  BY <1>1, <3>1, RaisedFalls
  <2>5. CASE CallTool(s)
    <3> DEFINE q == [r EXCEPT !.at = "wait"]
               a == (IF r.provider = "primary" THEN MaxSteps * Round ELSE 0)
                    + (MaxSteps - r.step) * Round
    <3>1. r.at = "call" /\ Become(s, q)
      BY <2>5 DEF CallTool, At
    <3>2. /\ q.at = "wait" /\ q.calls = r.calls /\ q.provider = r.provider
          /\ q.step = r.step
      BY <1>1 DEF Shaped
    <3> HIDE DEF q
    <3>3. Rank(q) = 2 + (a + (2 * r.calls - 1)) /\ Rank(r) = 2 + (a + 2 * r.calls)
      <4>1. Left(q) = a + (2 * r.calls - 1)
        BY <3>2 DEF Left
      <4>2. Left(r) = a + 2 * r.calls
        BY <3>1 DEF Left
      <4>3. Rank(q) = 2 + Left(q) /\ Rank(r) = 2 + Left(r)
        BY <3>1, <3>2 DEF Rank
      <4> HIDE DEF a
      <4> QED  BY <4>1, <4>2, <4>3
    <3>4. a \in Int /\ r.calls \in Int
      <4>1. r.step \in {1, 2} /\ r.calls \in Int
        <5>1. r.step \in 1..MaxSteps /\ r.calls \in 0..MaxCalls
          BY <1>1 DEF Shaped
        <5> QED  BY <1>2, <5>1, LookupAssumption
      <4>2. (MaxSteps - r.step) * Round \in {0, Round}
        <5>1. MaxSteps - r.step \in {0, 1}
          BY <1>2, <4>1
        <5> QED  BY <1>2, <5>1
      <4> QED  BY <1>2, <4>1, <4>2
    <3> HIDE DEF a
    <3>5. Rank(q) < Rank(r)
      BY <3>3, <3>4
    <3> QED  BY <3>1, <3>5
  <2>6. CASE ReadAnswer(s)
    <3>1. PICK q : /\ Become(s, AfterAnswer(q)) /\ SamePlace(q, r)
                   /\ SessionOK(q, TRUE)
      BY <2>6, ReadAnswerEffect
    <3>2. q.at = "wait" /\ q.calls > 0 /\ Shaped(q)
      BY <1>1, <2>6, <3>1, ReadAnswerEffect DEF SamePlace, SessionOK
    <3>3. Rank(q) = Rank(r)
      BY <3>1 DEF SamePlace, Rank, Left
    <3>4. Rank(AfterAnswer(q)) < Rank(r)
      BY <3>2, <3>3, AnswerFalls
    <3> QED  BY <3>1, <3>4
  <2>7. CASE ReadError(s) \/ Timeout(s)
    <3>1. PICK q : Become(s, Raised(q)) /\ SamePlace(q, r) /\ Shaped(q)
      BY <2>7, ErrorEffect
    <3>2. q.at = "wait" /\ q.calls > 0
      BY <1>1, <2>7, <3>1, ErrorEffect DEF SamePlace
    <3>3. Rank(q) = Rank(r)
      BY <3>1 DEF SamePlace, Rank, Left
    <3>4. Rank(Raised(q)) < Rank(r)
      BY <3>1, <3>2, <3>3, RaisedFalls DEF Looping
    <3> QED  BY <3>1, <3>4
  <2>8. CASE Explain(s)
    <3>0. /\ \A x : Done(x).at = "done"
          /\ [r EXCEPT !.at = "explain again"].at = "explain again"
      BY <1>1 DEF Done, Fresh, Shaped
    <3>1. CASE r.at = "explain"
      <4>1. Rank(r) = 2
        BY <3>1 DEF Rank
      <4>2. PICK q : Become(s, q) /\ q.at \in {"done", "explain again"}
        BY <2>8, <3>0, <3>1 DEF Explain, At
      <4>3. Rank(q) \in {0, 1}
        BY <4>2 DEF Rank
      <4>4. Rank(q) < Rank(r)
        BY <4>1, <4>3
      <4> QED  BY <4>2, <4>4
    <3>2. CASE r.at = "explain again"
      <4>1. Rank(r) = 1
        BY <3>2 DEF Rank
      <4>2. PICK q : Become(s, q) /\ q.at = "done"
        BY <2>8, <3>0, <3>2 DEF Explain, At
      <4>3. Rank(q) = 0
        BY <4>2 DEF Rank
      <4> QED  BY <4>1, <4>2, <4>3
    <3> QED  BY <2>8, <3>1, <3>2 DEF Explain, At
  <2> QED  BY <2>1, <2>2, <2>3, <2>4, <2>5, <2>6, <2>7, <2>8 DEF SessionStep
<1> QED  BY <1>4, <1>5

\* What makes LookupEnds true, short of the fairness of its steps: each step
\* of a lookup, be it an answer, an error, a timeout or a fallback, brings it
\* nearer to its end, and nothing that other processes do sets it back
\* (agentic_policy_lookup, invoke_structured_with_fallback).
THEOREM LookupsAdvance ==
    LookupSpec => [][\A s \in Sessions :
                        /\ Rank(lookup[s]) \in Nat
                        /\ Rank(lookup'[s]) <= Rank(lookup[s])
                        /\ SessionStep(s) =>
                              Rank(lookup'[s]) < Rank(lookup[s])]_lookupVars
<1> DEFINE Advances ==
              \A s \in Sessions :
                  /\ Rank(lookup[s]) \in Nat
                  /\ Rank(lookup'[s]) <= Rank(lookup[s])
                  /\ SessionStep(s) => Rank(lookup'[s]) < Rank(lookup[s])
<1>1. StoreInvariant /\ LookupInvariant /\ LookupInvariant'
         /\ [LookupNext]_lookupVars => [Advances]_lookupVars
  <2> SUFFICES ASSUME StoreInvariant, LookupInvariant, LookupInvariant',
                      LookupNext, NEW s \in Sessions
               PROVE  /\ Rank(lookup[s]) \in Nat
                      /\ Rank(lookup'[s]) <= Rank(lookup[s])
                      /\ SessionStep(s) => Rank(lookup'[s]) < Rank(lookup[s])
    OBVIOUS
  <2>1. Rank(lookup[s]) \in Nat /\ Rank(lookup'[s]) \in Nat
    <3>1. SessionOK(lookup[s], cached) /\ SessionOK(lookup'[s], cached')
      BY DEF LookupInvariant
    <3> QED  BY <3>1, RankTyped
  <2>2. SessionStep(s) => Rank(lookup'[s]) < Rank(lookup[s])
    BY SessionFalls
  <2>3. lookup'[s] = lookup[s] \/ SessionStep(s)
    <3>1. ASSUME NEW t \in Sessions, SessionStep(t), t # s
          PROVE  lookup'[s] = lookup[s]
      BY <3>1, SessionFalls
    <3>2. CASE ListElsewhere \/ StoreStep
      BY <3>2 DEF ListElsewhere, StoreStep
    <3> QED  BY <3>1, <3>2 DEF LookupNext
  <2>4. Rank(lookup'[s]) <= Rank(lookup[s])
    <3>1. CASE lookup'[s] = lookup[s]
      BY <2>1, <3>1
    <3>2. CASE SessionStep(s)
      <4>1. Rank(lookup'[s]) < Rank(lookup[s])
        BY <2>2, <3>2
      <4> QED  BY <2>1, <4>1
    <3> QED  BY <2>3, <3>1, <3>2
  <2> QED  BY <2>1, <2>2, <2>4
<1> QED  BY <1>1, LookupAlways, PTL DEF LookupSpec
=============================================================================
