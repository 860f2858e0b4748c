-------------------------- MODULE MemoryStoreProofs --------------------------
(***************************************************************************)
(* What overlapping runs may and may not do to one user's facts, for any   *)
(* number of sessions, any cap and any fact types: the store's types, its  *)
(* cap, and what its eviction deletes.                                     *)
(***************************************************************************)
EXTENDS MemoryStore, TLAPS, FiniteSetTheorems

-----------------------------------------------------------------------------
(* The inductive invariant.                                                *)

\* A listing may be stale in usage and last access, and may hold facts that
\* were deleted since, but its facts were created as listed; and ids being
\* handed out in order, it misses only facts younger than all it holds.
Listing(listed, stored, ids) ==
    /\ DOMAIN listed \subseteq 1..ids
    /\ \A i \in DOMAIN listed : listed[i] \in Fact
    /\ \A i \in DOMAIN listed \cap DOMAIN stored :
          listed[i].type = stored[i].type /\ listed[i].born = stored[i].born
    /\ \A i \in DOMAIN listed, j \in DOMAIN stored :
          j < i => j \in DOMAIN listed

\* What a session carries from one call to the next.
TaskOK(t, stored, ids, recalls) ==
    /\ t.does \in {"idle", "bump", "upsert", "list", "evict"}
    /\ t.does = "bump" => \A i \in DOMAIN t.usage : t.usage[i] \in 0..recalls
    /\ t.does = "upsert" => t.types \subseteq FactTypes
    /\ t.does = "evict" => Listing(t.listed, stored, ids)

TasksOK ==
    /\ DOMAIN task = Sessions
    /\ \A s \in Sessions : TaskOK(task[s], facts, created, searches)

\* Of the stored facts, those some eviction has seen are the oldest.
SweptFirst == \A i \in swept, j \in DOMAIN facts : j < i => j \in swept

StoreInvariant == TypeOK /\ TasksOK /\ SweptFirst /\ WithinCap

-----------------------------------------------------------------------------
(* The eviction's arithmetic and its choice of victims.                    *)

LEMMA ScoreTyped ==
    ASSUME NEW fact \in Fact, NEW now \in Days
    PROVE  /\ RetentionScore(fact, now) \in Nat
           /\ RetentionScore(fact, now) >= ImportanceScore[fact.type]
           /\ ImportanceScore[fact.type] \in Nat
<1>1. /\ fact.type \in DOMAIN ImportanceScore
      /\ fact.born \in Nat /\ fact.usage \in Nat /\ now \in Nat
  BY MemoryAssumption DEF Fact
<1>2. ImportanceScore[fact.type] \in Nat
  BY <1>1 DEF ImportanceScore
<1>3. RecencyScore(now - fact.born) \in Nat
  BY <1>1 DEF RecencyScore
<1>4. UsageScore(fact.usage) \in Nat
  BY <1>1 DEF UsageScore, Lesser
<1> HIDE DEF ImportanceScore
<1> QED  BY <1>2, <1>3, <1>4 DEF RetentionScore

\* What is left of a set without as many members as it has too many.
LEMMA CapLeft ==
    ASSUME NEW S, IsFiniteSet(S), NEW low \in SUBSET S,
           Cardinality(low) = Cardinality(S) - MaxFacts
    PROVE  IsFiniteSet(S \ low) /\ Cardinality(S \ low) = MaxFacts
<1>1. IsFiniteSet(S \ low)
      /\ Cardinality(S \ low) = Cardinality(S) - Cardinality(S \cap low)
  BY FS_Difference
<1>2. S \cap low = low
  OBVIOUS
<1>3. Cardinality(S) \in Nat /\ MaxFacts \in Nat
  BY FS_CardinalityType, MemoryAssumption
<1> QED  BY <1>1, <1>2, <1>3

\* An eviction leaves at most MaxFacts of the facts it listed.
LEMMA EvictionLeavesCap ==
    ASSUME NEW listed, IsFiniteSet(DOMAIN listed), NEW now,
           NEW victims \in Evictions(listed, now)
    PROVE  /\ IsFiniteSet(DOMAIN listed \ victims)
           /\ Cardinality(DOMAIN listed \ victims) <= MaxFacts
<1> DEFINE D == DOMAIN listed
           overflow == Cardinality(D) - MaxFacts
<1>1. PICK a \in Selected(listed, now), b \in Fallback(listed, now) :
        victims = a \cup b
  BY DEF Evictions
<1>2. Cardinality(D) \in Nat /\ MaxFacts \in Nat
  BY FS_CardinalityType, MemoryAssumption
<1>3. IsFiniteSet(D \ victims) /\ Cardinality(D \ victims) <= Cardinality(D)
  BY FS_Subset
<1>4. CASE overflow <= 0
  BY <1>2, <1>3, <1>4, FS_CardinalityType
<1>5. CASE ~(overflow <= 0)
  <2>1. b \in SUBSET D /\ Cardinality(b) = overflow
    BY <1>1, <1>5 DEF Fallback, Bottom
  <2>2. IsFiniteSet(D \ b) /\ Cardinality(D \ b) = MaxFacts
    BY <2>1, CapLeft
  <2>3. D \ victims \in SUBSET (D \ b)
    BY <1>1
  <2> QED  BY <1>3, <2>2, <2>3, FS_Subset
<1> QED  BY <1>4, <1>5

\* A victim was expired or weak, or at least MaxFacts others of the listing
\* scored as high or higher.
LEMMA VictimOutscored ==
    ASSUME NEW listed, IsFiniteSet(DOMAIN listed), NEW now \in Days,
           \A j \in DOMAIN listed : listed[j] \in Fact,
           NEW victims \in Evictions(listed, now), NEW i \in victims
    PROVE  LET rivals == {j \in DOMAIN listed \ {i} :
                             RetentionScore(listed[j], now)
                                >= RetentionScore(listed[i], now)}
           IN  /\ i \in DOMAIN listed
               /\ \/ IsExpired(listed[i], now) \/ IsWeak(listed[i], now)
                  \/ /\ Cardinality(rivals) >= MaxFacts
                     /\ Cardinality(DOMAIN listed) > MaxFacts
<1> DEFINE D == DOMAIN listed
           gone == {j \in D : IsExpired(listed[j], now) \/ IsWeak(listed[j], now)}
           remaining == D \ gone
           rivals == {j \in D \ {i} : RetentionScore(listed[j], now)
                                        >= RetentionScore(listed[i], now)}
<1>1. PICK a \in Selected(listed, now), b \in Fallback(listed, now) :
        victims = a \cup b
  BY DEF Evictions
<1>2. /\ IsFiniteSet(remaining) /\ IsFiniteSet(rivals)
      /\ Cardinality(remaining) \in Nat /\ Cardinality(rivals) \in Nat
      /\ Cardinality(remaining) <= Cardinality(D)
      /\ Cardinality(D) \in Nat /\ MaxFacts \in Nat
  <2>1. /\ remaining \in SUBSET D /\ rivals \in SUBSET D
        /\ IsFiniteSet(D)
    OBVIOUS
  <2> HIDE DEF D, remaining, rivals
  <2> QED  BY <2>1, FS_Subset, FS_CardinalityType, MemoryAssumption
\* The members of a set that are not among its lowest are rivals of those.
<1>3. ASSUME NEW S \in SUBSET D, NEW low \in SUBSET S, i \in low,
             Cardinality(low) = Cardinality(S) - MaxFacts,
             Cardinality(S) > MaxFacts,
             \A j \in S \ low : RetentionScore(listed[j], now)
                                  >= RetentionScore(listed[i], now)
      PROVE  Cardinality(rivals) >= MaxFacts /\ Cardinality(D) > MaxFacts
  <2>1. IsFiniteSet(S) /\ Cardinality(S) <= Cardinality(D)
        /\ Cardinality(S) \in Nat
    BY FS_Subset, FS_CardinalityType
  <2>2. S \ low \in SUBSET rivals
    BY <1>3
  <2>3. Cardinality(S \ low) = MaxFacts
    BY <1>3, <2>1, CapLeft
  <2> HIDE DEF rivals, D
  <2>4. Cardinality(S \ low) <= Cardinality(rivals)
    BY <1>2, <2>2, FS_Subset
  <2> QED  BY <1>2, <1>3, <2>1, <2>3, <2>4
<1>4. \A j \in D : RetentionScore(listed[j], now) \in Nat
  BY ScoreTyped
<1>5. CASE i \in gone
  BY <1>5
<1>6. CASE i \in a /\ i \notin gone
  <2> DEFINE overflow == Cardinality(remaining) - MaxFacts
  <2>1. ~(overflow <= 0)
    BY <1>6 DEF Selected
  <2>2. PICK low \in SUBSET remaining :
          /\ Cardinality(low) = overflow
          /\ \A x \in low, y \in remaining \ low :
                NotAbove(listed[x], listed[y], now)
          /\ i \in low
    BY <1>6, <2>1 DEF Selected, Bottom
  <2>3. \A j \in remaining \ low : RetentionScore(listed[j], now)
                                     >= RetentionScore(listed[i], now)
    BY <1>4, <2>2 DEF NotAbove
  <2>4. remaining \in SUBSET D
    OBVIOUS
  <2> HIDE DEF remaining, gone, rivals, D
  <2>5. Cardinality(rivals) >= MaxFacts /\ Cardinality(D) > MaxFacts
    <3>1. Cardinality(remaining) > MaxFacts
      BY <1>2, <2>1
    <3> QED  BY <1>3, <2>2, <2>3, <2>4, <3>1
  <2> QED  BY <2>2, <2>4, <2>5 DEF rivals, D
<1>7. CASE i \in b
  <2> DEFINE overflow == Cardinality(D) - MaxFacts
  <2>1. /\ ~(overflow <= 0)
        /\ b \in SUBSET D /\ Cardinality(b) = overflow
        /\ \A x \in b, y \in D \ b : RetentionScore(listed[x], now)
                                       <= RetentionScore(listed[y], now)
    BY <1>7 DEF Fallback, Bottom
  <2>2. \A j \in D \ b : RetentionScore(listed[j], now)
                           >= RetentionScore(listed[i], now)
    BY <1>4, <1>7, <2>1
  <2>3. D \in SUBSET D /\ Cardinality(D) > MaxFacts
    BY <1>2, <2>1
  <2> HIDE DEF rivals, D
  <2>4. Cardinality(rivals) >= MaxFacts
    BY <1>3, <1>7, <2>1, <2>2, <2>3
  <2> QED  BY <1>7, <2>1, <2>3, <2>4 DEF rivals, D
<1> QED  BY <1>1, <1>5, <1>6, <1>7

-----------------------------------------------------------------------------
(* What the sessions carry stays true while others write.                  *)

\* The store grew by facts younger than all before, lost some, and changed
\* neither the type nor the birth of those it kept.
Aged(stored, ids, later, laterIds) ==
    /\ ids <= laterIds
    /\ \A j \in DOMAIN later :
          \/ /\ j \in DOMAIN stored
             /\ later[j].type = stored[j].type
             /\ later[j].born = stored[j].born
          \/ j \in Nat /\ j > ids

LEMMA TaskKept ==
    ASSUME NEW stored, NEW later, NEW ids \in Nat, NEW laterIds \in Nat,
           NEW n \in Nat, NEW m \in Nat, n <= m,
           Aged(stored, ids, later, laterIds),
           NEW t, TaskOK(t, stored, ids, n)
    PROVE  TaskOK(t, later, laterIds, m)
<1>1. t.does = "bump" => \A i \in DOMAIN t.usage : t.usage[i] \in 0..m
  BY DEF TaskOK
<1>2. ASSUME t.does = "evict"
      PROVE  Listing(t.listed, later, laterIds)
  <2> DEFINE listed == t.listed
  <2>1. Listing(listed, stored, ids)
    BY <1>2 DEF TaskOK
  <2> HIDE DEF listed
  <2>2. DOMAIN listed \subseteq 1..laterIds
    BY <2>1 DEF Listing, Aged
  <2>3. \A i \in DOMAIN listed \cap DOMAIN later :
           listed[i].type = later[i].type /\ listed[i].born = later[i].born
    BY <2>1 DEF Listing, Aged
  <2>4. \A i \in DOMAIN listed, j \in DOMAIN later :
           j < i => j \in DOMAIN listed
    BY <2>1 DEF Listing, Aged
  <2> QED  BY <2>1, <2>2, <2>3, <2>4 DEF Listing, listed
<1> QED  BY <1>1, <1>2 DEF TaskOK

\* A step of one session.
LEMMA OneTask ==
    ASSUME TypeOK, TasksOK, NEW s \in Sessions, NEW t,
           task' = [task EXCEPT ![s] = t],
           created' \in Nat, searches' \in Nat, searches <= searches',
           Aged(facts, created, facts', created'),
           TaskOK(t, facts', created', searches')
    PROVE  TasksOK'
<1>1. created \in Nat /\ searches \in Nat
  BY MemoryAssumption DEF TypeOK
<1>2. DOMAIN task' = Sessions
  BY DEF TasksOK
<1>3. ASSUME NEW r \in Sessions
      PROVE  TaskOK(task'[r], facts', created', searches')
  <2>1. CASE r = s
    BY <2>1 DEF TasksOK
  <2>2. CASE r # s
    <3>1. task'[r] = task[r]
      BY <2>2 DEF TasksOK
    <3>2. TaskOK(task[r], facts, created, searches)
      BY DEF TasksOK
    <3> QED  BY <1>1, <3>1, <3>2, TaskKept
  <2> QED  BY <2>1, <2>2
<1> QED  BY <1>2, <1>3 DEF TasksOK

LEMMA SameFactsAged ==
    ASSUME TypeOK, facts' = facts, created' = created
    PROVE  Aged(facts, created, facts', created') /\ created' \in Nat
<1>1. created \in Nat
  BY MemoryAssumption DEF TypeOK
<1> QED  BY <1>1 DEF Aged

\* A step that writes nothing to the store but its task.
LEMMA StoreUntouched ==
    ASSUME StoreInvariant, UNCHANGED <<facts, created, swept>>,
           day' \in Days, searches' \in 0..MaxSearches, searches <= searches',
           TasksOK'
    PROVE  StoreInvariant'
<1>1. TypeOK'
  <2>1. \A i \in DOMAIN facts' : facts'[i] \in Fact
                                 /\ facts'[i].usage <= searches'
    <3>1. \A i \in DOMAIN facts : facts[i] \in Fact
                                  /\ facts[i].usage <= searches
      BY DEF StoreInvariant, TypeOK
    <3>2. searches \in Nat /\ searches' \in Nat
      BY MemoryAssumption DEF StoreInvariant, TypeOK
    <3>3. \A fact \in Fact : fact.usage \in Nat
      BY DEF Fact
    <3> QED  BY <3>1, <3>2, <3>3
  <2> QED  BY <2>1 DEF StoreInvariant, TypeOK, TasksOK, TaskOK
<1> QED  BY <1>1 DEF StoreInvariant, SweptFirst, WithinCap

-----------------------------------------------------------------------------
(* One lemma per operation.                                                *)

LEMMA IdleOK ==
    ASSUME NEW stored, NEW ids, NEW n
    PROVE  TaskOK(Idle, stored, ids, n)
  BY DEF TaskOK, Idle

LEMMA SearchStep ==
    ASSUME StoreInvariant, NEW s \in Sessions, Search(s)
    PROVE  StoreInvariant'
<1>1. PICK hits \in SUBSET DOMAIN facts :
        task' = [task EXCEPT ![s] =
                    [does |-> "bump",
                     usage |-> [i \in hits |-> facts[i].usage + 1]]]
  BY DEF Search
<1>2. /\ searches' = searches + 1 /\ searches < MaxSearches
      /\ UNCHANGED <<facts, created, swept, day>>
  BY DEF Search
<1>3. searches \in Nat /\ searches' \in 0..MaxSearches /\ day' \in Days
  BY <1>2, MemoryAssumption DEF StoreInvariant, TypeOK
<1> DEFINE t == [does |-> "bump",
                 usage |-> [i \in hits |-> facts[i].usage + 1]]
<1>4. TaskOK(t, facts', created', searches')
  <2>1. \A i \in hits : facts[i].usage \in Nat /\ facts[i].usage <= searches
    BY DEF StoreInvariant, TypeOK, Fact
  <2>2. \A i \in hits : facts[i].usage + 1 \in 0..searches'
    BY <1>2, <1>3, <2>1
  <2> QED  BY <2>2 DEF TaskOK
<1> HIDE DEF t
<1>5. TasksOK'
  <2>1. Aged(facts, created, facts', created') /\ created' \in Nat
    BY <1>2, SameFactsAged DEF StoreInvariant
  <2>2. searches' \in Nat /\ searches <= searches'
    BY <1>2, <1>3
  <2>3. task' = [task EXCEPT ![s] = t]
    BY <1>1 DEF t
  <2> QED  BY <1>4, <2>1, <2>2, <2>3, OneTask DEF StoreInvariant
<1> QED  BY <1>2, <1>3, <1>5, StoreUntouched

\* A step of one session that only says what it does next.
LEMMA TaskStep ==
    ASSUME StoreInvariant, NEW s \in Sessions, NEW t,
           task' = [task EXCEPT ![s] = t],
           UNCHANGED <<facts, created, day, searches, swept>>,
           TaskOK(t, facts, created, searches)
    PROVE  StoreInvariant'
<1>1. /\ searches \in Nat /\ searches' \in 0..MaxSearches /\ day' \in Days
      /\ searches <= searches' /\ searches' \in Nat
  BY MemoryAssumption DEF StoreInvariant, TypeOK
<1>2. Aged(facts, created, facts', created') /\ created' \in Nat
  BY SameFactsAged DEF StoreInvariant
<1>3. TasksOK'
  BY <1>1, <1>2, OneTask DEF StoreInvariant
<1> QED  BY <1>1, <1>3, StoreUntouched

LEMMA ConsolidateStep ==
    ASSUME StoreInvariant, NEW s \in Sessions, Consolidate(s)
    PROVE  StoreInvariant'
<1>1. PICK types \in SUBSET FactTypes :
        task' = [task EXCEPT ![s] = [does |-> "upsert", types |-> types]]
  BY DEF Consolidate
<1> DEFINE t == [does |-> "upsert", types |-> types]
<1>2. TaskOK(t, facts, created, searches)
  BY DEF TaskOK
<1> HIDE DEF t
<1>3. UNCHANGED <<facts, created, day, searches, swept>>
  BY DEF Consolidate
<1> QED  BY <1>1, <1>2, <1>3, TaskStep DEF t

LEMMA ListStep ==
    ASSUME StoreInvariant, NEW s \in Sessions, ListUserFacts(s)
    PROVE  StoreInvariant'
<1> DEFINE listing == [does |-> "evict", listed |-> facts]
           t == IF facts = << >> THEN Idle ELSE listing
<1>1. /\ task' = [task EXCEPT ![s] = t]
      /\ UNCHANGED <<facts, created, day, searches, swept>>
  BY DEF ListUserFacts
<1>2. Listing(facts, facts, created)
  BY DEF Listing, StoreInvariant, TypeOK
<1>3. TaskOK(listing, facts, created, searches)
  BY <1>2 DEF TaskOK
<1>4. TaskOK(t, facts, created, searches)
  BY <1>3, IdleOK
<1> HIDE DEF t
<1> QED  BY <1>1, <1>4, TaskStep

LEMMA FailStep ==
    ASSUME StoreInvariant, NEW s \in Sessions, Fail(s)
    PROVE  StoreInvariant'
  BY IdleOK, TaskStep DEF Fail

LEMMA AdvanceStep ==
    ASSUME StoreInvariant, Advance
    PROVE  StoreInvariant'
<1>1. /\ UNCHANGED <<facts, created, searches, task, swept>>
      /\ day' \in Days
  BY DEF Advance
<1>2. searches' \in 0..MaxSearches /\ searches <= searches'
  BY <1>1, MemoryAssumption DEF StoreInvariant, TypeOK
<1>3. TasksOK'
  BY <1>1 DEF StoreInvariant, TasksOK
<1> QED  BY <1>1, <1>2, <1>3, StoreUntouched

LEMMA BumpStep ==
    ASSUME StoreInvariant, NEW s \in Sessions, Bump(s)
    PROVE  StoreInvariant'
<1> DEFINE usage == task[s].usage
           rest(i) == DOMAIN usage \ {i}
           next(i) == IF rest(i) = {} THEN Idle
                      ELSE [does |-> "bump",
                            usage |-> [j \in rest(i) |-> usage[j]]]
<1>1. PICK i \in DOMAIN usage :
        /\ facts' = Written(i, usage[i])
        /\ task' = [task EXCEPT ![s] = next(i)]
  BY DEF Bump
<1>2. UNCHANGED <<created, day, searches, swept>> /\ task[s].does = "bump"
  BY DEF Bump
<1>3. /\ \A j \in DOMAIN usage : usage[j] \in 0..searches
      /\ searches \in Nat /\ created \in Nat
  BY <1>2, MemoryAssumption DEF StoreInvariant, TasksOK, TaskOK, TypeOK
<1> HIDE DEF usage
<1>4. /\ DOMAIN facts' = DOMAIN facts
      /\ \A j \in DOMAIN facts :
            /\ facts'[j].type = facts[j].type
            /\ facts'[j].born = facts[j].born
            /\ facts'[j] \in Fact /\ facts'[j].usage <= searches
  <2>1. ASSUME NEW j \in DOMAIN facts
        PROVE  /\ facts'[j].type = facts[j].type
               /\ facts'[j].born = facts[j].born
               /\ facts'[j] \in Fact /\ facts'[j].usage <= searches
    <3>1. /\ facts[j] \in Fact /\ facts[j].usage <= searches
          /\ day \in Days
      BY DEF StoreInvariant, TypeOK
    <3>2. CASE j # i
      BY <1>1, <3>1, <3>2 DEF Written
    <3>3. CASE j = i
      <4>1. facts'[j] = [facts[j] EXCEPT !.usage = usage[i], !.last = day]
        BY <1>1, <3>3 DEF Written
      <4> DEFINE f == facts[j]
                 u == usage[i]
      <4>2. u \in Nat /\ u <= searches
        BY <1>3
      <4>3. f \in Fact /\ day \in Days
        BY <3>1
      <4> HIDE DEF f, u
      <4>4. LET g == [f EXCEPT !.usage = u, !.last = day]
            IN  /\ g \in Fact /\ g.usage = u
                /\ g.type = f.type /\ g.born = f.born
        BY <4>2, <4>3 DEF Fact
      <4> QED  BY <4>1, <4>2, <4>4 DEF f, u
    <3> QED  BY <3>2, <3>3
  <2>2. DOMAIN facts' = DOMAIN facts
    BY <1>1 DEF Written
  <2> QED  BY <2>1, <2>2
<1>5. Aged(facts, created, facts', created') /\ created' \in Nat
  BY <1>2, <1>3, <1>4 DEF Aged
<1>6. TaskOK(next(i), facts', created', searches')
  <2>1. CASE rest(i) = {}
    BY <2>1, IdleOK
  <2>2. CASE rest(i) # {}
    BY <1>2, <1>3, <2>2 DEF TaskOK
  <2> QED  BY <2>1, <2>2
<1> HIDE DEF next
<1>7. TasksOK'
  <2>1. searches' \in Nat /\ searches <= searches'
    BY <1>2, <1>3
  <2> QED  BY <1>1, <1>5, <1>6, <2>1, OneTask DEF StoreInvariant
<1>8. TypeOK'
  BY <1>2, <1>4, <1>7 DEF StoreInvariant, TypeOK, TasksOK, TaskOK
<1> QED  BY <1>2, <1>4, <1>7, <1>8
  DEF StoreInvariant, SweptFirst, WithinCap

LEMMA UpsertStep ==
    ASSUME StoreInvariant, NEW s \in Sessions, UpsertFact(s)
    PROVE  StoreInvariant'
<1> DEFINE types == task[s].types
           new == created + 1
           rest(t) == types \ {t}
           next(t) == IF rest(t) = {} THEN [does |-> "list"]
                      ELSE [does |-> "upsert", types |-> rest(t)]
           fact(t) == [type |-> t, born |-> day, last |-> day, usage |-> 0]
<1>1. PICK t \in types :
        /\ facts' = [i \in DOMAIN facts \cup {new} |->
                        IF i = new THEN fact(t) ELSE facts[i]]
        /\ task' = [task EXCEPT ![s] = next(t)]
  BY DEF UpsertFact
<1>2. /\ created' = new /\ UNCHANGED <<day, searches, swept>>
      /\ created < MaxCreated /\ task[s].does = "upsert"
  BY DEF UpsertFact
<1>3. /\ types \subseteq FactTypes
      /\ searches \in Nat /\ created \in Nat /\ day \in Days
      /\ DOMAIN facts \subseteq 1..created /\ new \in Nat
  BY <1>2, MemoryAssumption DEF StoreInvariant, TasksOK, TaskOK, TypeOK
<1> HIDE DEF types
<1>4. /\ DOMAIN facts' = DOMAIN facts \cup {new}
      /\ facts'[new] = fact(t)
      /\ \A i \in DOMAIN facts : facts'[i] = facts[i]
  BY <1>1, <1>3
<1>5. Aged(facts, created, facts', created') /\ created' \in Nat
  BY <1>2, <1>3, <1>4 DEF Aged
<1>6. TaskOK(next(t), facts', created', searches')
  BY <1>3 DEF TaskOK
<1>7. fact(t) \in Fact /\ fact(t).usage <= searches
  BY <1>1, <1>3 DEF Fact
<1> HIDE DEF next, fact
<1>8. TasksOK'
  <2>1. searches' \in Nat /\ searches <= searches'
    BY <1>2, <1>3
  <2> QED  BY <1>1, <1>5, <1>6, <2>1, OneTask DEF StoreInvariant
<1>9. TypeOK'
  <2>1. \A i \in DOMAIN facts' : facts'[i] \in Fact
                                 /\ facts'[i].usage <= searches'
    BY <1>2, <1>4, <1>7 DEF StoreInvariant, TypeOK
  <2>2. DOMAIN facts' \subseteq 1..created' /\ created' \in 0..MaxCreated
    BY <1>2, <1>3, <1>4, MemoryAssumption
  <2> QED  BY <1>2, <1>4, <1>8, <2>1, <2>2
    DEF StoreInvariant, TypeOK, TasksOK, TaskOK
\* The new fact is younger than all that was swept.
<1>10. SweptFirst'
  <2>1. \A i \in swept : i \in 1..created
    BY <1>3 DEF StoreInvariant, TypeOK
  <2>2. \A i \in swept : ~(new < i)
    BY <1>3, <2>1
  <2> QED  BY <1>2, <1>4, <2>2 DEF StoreInvariant, SweptFirst
<1> QED  BY <1>2, <1>8, <1>9, <1>10 DEF StoreInvariant, WithinCap

\* An eviction leaves swept what it had listed and what was swept before; as
\* both are the oldest of what is stored, one of the two holds it all.
LEMMA EvictStep ==
    ASSUME StoreInvariant, NEW s \in Sessions, EvictUser(s)
    PROVE  StoreInvariant'
<1> DEFINE listed == task[s].listed
           D == DOMAIN listed
<1>1. PICK victims \in Evictions(listed, day) :
        /\ facts' = [i \in DOMAIN facts \ victims |-> facts[i]]
        /\ swept' = (DOMAIN facts \ victims) \cap (swept \cup D)
  BY DEF EvictUser
<1>2. /\ task' = [task EXCEPT ![s] = Idle] /\ task[s].does = "evict"
      /\ UNCHANGED <<created, day, searches>>
  BY DEF EvictUser
<1>3. Listing(listed, facts, created)
  BY <1>2 DEF StoreInvariant, TasksOK, TaskOK
<1>4. /\ searches \in Nat /\ created \in Nat
      /\ DOMAIN facts \subseteq 1..created /\ D \subseteq 1..created
  BY <1>3, MemoryAssumption DEF StoreInvariant, TypeOK, Listing
<1> DEFINE left == DOMAIN facts \ victims
<1>5. /\ DOMAIN facts' = left /\ swept' \subseteq left
      /\ \A i \in left : facts'[i] = facts[i]
  BY <1>1
<1>6. Aged(facts, created, facts', created') /\ created' \in Nat
  BY <1>2, <1>4, <1>5 DEF Aged
<1>7. TasksOK'
  <2>1. searches' \in Nat /\ searches <= searches'
    BY <1>2, <1>4
  <2> QED  BY <1>2, <1>6, <2>1, IdleOK, OneTask DEF StoreInvariant
<1>8. TypeOK'
  BY <1>2, <1>5, <1>7 DEF StoreInvariant, TypeOK, TasksOK, TaskOK
<1>9. SweptFirst'
  <2>1. ASSUME NEW i \in swept', NEW j \in left, j < i
        PROVE  j \in swept \cup D
    BY <1>1, <1>3, <2>1 DEF StoreInvariant, SweptFirst, Listing
  <2> QED  BY <1>1, <1>5, <2>1 DEF SweptFirst
<1>10. WithinCap'
  <2>1. IsFiniteSet(D) /\ IsFiniteSet(swept)
    <3>1. IsFiniteSet(1..created)
      BY <1>4, FS_Interval
    <3>2. D \in SUBSET (1..created) /\ swept \in SUBSET (1..created)
      BY <1>4 DEF StoreInvariant, TypeOK
    <3> HIDE DEF D
    <3> QED  BY <3>1, <3>2, FS_Subset
  <2>2. /\ IsFiniteSet(D \ victims)
        /\ Cardinality(D \ victims) <= MaxFacts
        /\ Cardinality(D \ victims) \in Nat
    BY <2>1, EvictionLeavesCap, FS_CardinalityType
  <2>3. Cardinality(swept) <= MaxFacts /\ Cardinality(swept) \in Nat
    BY <2>1, FS_CardinalityType DEF StoreInvariant, WithinCap
  <2>4. CASE swept \subseteq D
    <3>1. swept' \in SUBSET (D \ victims)
      BY <1>1, <2>4
    <3> HIDE DEF D
    <3>2. IsFiniteSet(swept') /\ Cardinality(swept') <= Cardinality(D \ victims)
      BY <2>2, <3>1, FS_Subset
    <3>3. Cardinality(swept') \in Nat
      BY <3>2, FS_CardinalityType
    <3> QED  BY <2>2, <3>2, <3>3, MemoryAssumption DEF WithinCap
  <2>5. ASSUME NEW k \in swept, k \notin D
        PROVE  WithinCap'
    <3>1. \A j \in D \cap DOMAIN facts : j \in swept
      <4>1. k \in DOMAIN facts
        BY DEF StoreInvariant, TypeOK
      <4>2. SUFFICES ASSUME NEW j \in D, j \in DOMAIN facts
                     PROVE  j \in swept
        OBVIOUS
      <4>3. j # k /\ j \in Nat /\ k \in Nat
        BY <1>4, <2>5, <4>1, <4>2
      <4>4. ~(k < j)
        BY <1>3, <2>5, <4>1, <4>2 DEF Listing
      <4>5. j < k
        BY <4>3, <4>4
      <4> QED  BY <4>2, <4>5 DEF StoreInvariant, SweptFirst
    <3>2. swept' \in SUBSET swept
      BY <1>1, <3>1
    <3>3. IsFiniteSet(swept') /\ Cardinality(swept') <= Cardinality(swept)
      BY <2>1, <3>2, FS_Subset
    <3>4. Cardinality(swept') \in Nat
      BY <3>3, FS_CardinalityType
    <3> QED  BY <2>3, <3>3, <3>4, MemoryAssumption DEF WithinCap
  <2> QED  BY <2>4, <2>5
<1> QED  BY <1>7, <1>8, <1>9, <1>10 DEF StoreInvariant

-----------------------------------------------------------------------------
(* The theorems.                                                           *)

LEMMA StoreAlways == Spec => []StoreInvariant
<1>1. Init => StoreInvariant
  <2> SUFFICES ASSUME Init PROVE StoreInvariant
    OBVIOUS
  <2>1. DOMAIN facts = {} /\ swept = {} /\ created = 0 /\ searches = 0
    BY DEF Init
  <2>2. WithinCap
    BY <2>1, FS_EmptySet, MemoryAssumption DEF WithinCap
  <2>3. TasksOK /\ \A s \in Sessions : task[s].does = "idle"
    BY IdleOK DEF Init, TasksOK, Idle
  <2>4. TypeOK
    BY <2>1, <2>3, MemoryAssumption DEF TypeOK, Init
  <2> QED  BY <2>1, <2>2, <2>3, <2>4 DEF StoreInvariant, SweptFirst
<1>2. StoreInvariant /\ [Next]_vars => StoreInvariant'
  <2> SUFFICES ASSUME StoreInvariant, [Next]_vars PROVE StoreInvariant'
    OBVIOUS
  <2>1. CASE UNCHANGED vars
    BY <2>1 DEF vars, StoreInvariant, TypeOK, TasksOK, SweptFirst, WithinCap
  <2> QED  BY <2>1, SearchStep, BumpStep, ConsolidateStep, UpsertStep,
              ListStep, EvictStep, FailStep, AdvanceStep DEF Next
<1> QED  BY <1>1, <1>2, PTL DEF Spec

\* The store and what its sessions carry are well typed, and no recall is
\* counted twice.
THEOREM StoreTyped == Spec => []TypeOK
<1>1. StoreInvariant => TypeOK
  BY DEF StoreInvariant
<1> QED  BY <1>1, StoreAlways, PTL

\* However many runs overlap, fail or evict by a stale listing, of the facts
\* some finished eviction has seen no more than the cap are left.
THEOREM CapHolds == Spec => []WithinCap
<1>1. StoreInvariant => WithinCap
  BY DEF StoreInvariant
<1> QED  BY <1>1, StoreAlways, PTL

-----------------------------------------------------------------------------
(* What a deletion was entitled to.                                        *)

\* No search writes back a fact an eviction deleted, though it may have found
\* it before: ids are never handed out twice, and an update of a missing id
\* does nothing.
THEOREM EvictionIsFinal == Spec => EvictedStaysEvicted
<1>1. StoreInvariant /\ [Next]_vars =>
        [\A i \in 1..created : i \notin DOMAIN facts => i \notin DOMAIN facts']_vars
  <2> SUFFICES ASSUME StoreInvariant, Next, NEW i \in 1..created,
                      i \notin DOMAIN facts
               PROVE  i \notin DOMAIN facts'
    OBVIOUS
  <2>1. created \in Nat
    BY MemoryAssumption DEF StoreInvariant, TypeOK
  <2>2. ASSUME NEW s \in Sessions, UpsertFact(s)
        PROVE  i \notin DOMAIN facts'
    <3>1. DOMAIN facts' = DOMAIN facts \cup {created + 1}
      BY <2>2 DEF UpsertFact
    <3> QED  BY <2>1, <3>1
  <2>3. ASSUME NEW s \in Sessions,
               Search(s) \/ Bump(s) \/ Consolidate(s) \/ ListUserFacts(s)
               \/ EvictUser(s) \/ Fail(s)
        PROVE  DOMAIN facts' \subseteq DOMAIN facts
    BY <2>3 DEF Search, Bump, Written, Consolidate, ListUserFacts, EvictUser,
                Fail
  <2>4. CASE Advance
    BY <2>4 DEF Advance
  <2> QED  BY <2>2, <2>3, <2>4 DEF Next
<1> QED  BY <1>1, StoreAlways, PTL DEF Spec, EvictedStaysEvicted

\* Facts are only ever deleted by an eviction, as victims of its own listing,
\* which holds them with the type and birth they still have.
LEMMA DeletedByEviction ==
    ASSUME StoreInvariant, Next, NEW i \in Deleted
    PROVE  \E s \in Sessions :
              /\ EvictedBy(s, i)
              /\ i \in DOMAIN facts
              /\ Listing(task[s].listed, facts, created)
              /\ IsFiniteSet(DOMAIN task[s].listed)
              /\ \E victims \in Evictions(task[s].listed, day) : i \in victims
<1>1. i \in DOMAIN facts /\ i \notin DOMAIN facts'
  BY DEF Deleted
<1>2. ~Advance
  BY <1>1 DEF Advance
<1>3. PICK s \in Sessions : EvictUser(s)
  <2>1. ASSUME NEW s \in Sessions,
               Search(s) \/ Bump(s) \/ Consolidate(s) \/ UpsertFact(s)
               \/ ListUserFacts(s) \/ Fail(s)
        PROVE  DOMAIN facts \subseteq DOMAIN facts'
    BY <2>1 DEF Search, Bump, Written, Consolidate, UpsertFact, ListUserFacts,
                Fail
  <2> QED  BY <1>1, <1>2, <2>1 DEF Next
<1> DEFINE listed == task[s].listed
<1>4. PICK victims \in Evictions(listed, day) :
        facts' = [j \in DOMAIN facts \ victims |-> facts[j]]
  BY <1>3 DEF EvictUser
<1>5. i \in victims
  BY <1>1, <1>4
<1>6. task[s].does = "evict" /\ task' = [task EXCEPT ![s] = Idle]
  BY <1>3 DEF EvictUser
<1>7. task'[s] = Idle
  BY <1>6 DEF StoreInvariant, TasksOK
<1>8. Listing(listed, facts, created)
  BY <1>6 DEF StoreInvariant, TasksOK, TaskOK
<1>9. IsFiniteSet(DOMAIN listed)
  <2>1. created \in Nat
    BY MemoryAssumption DEF StoreInvariant, TypeOK
  <2>2. IsFiniteSet(1..created) /\ DOMAIN listed \in SUBSET (1..created)
    BY <1>8, <2>1, FS_Interval DEF Listing
  <2> HIDE DEF listed
  <2> QED  BY <2>2, FS_Subset
<1>10. i \in DOMAIN listed
  <2>1. \A j \in DOMAIN listed : listed[j] \in Fact
    BY <1>8 DEF Listing
  <2>2. day \in Days
    BY DEF StoreInvariant, TypeOK
  <2> HIDE DEF listed
  <2> QED  BY <1>4, <1>5, <1>9, <2>1, <2>2, VictimOutscored
<1> QED  BY <1>1, <1>4, <1>5, <1>6, <1>7, <1>8, <1>9, <1>10 DEF EvictedBy

\* However stale the listing an eviction works from, a fact it held live and
\* strong is only deleted if MaxFacts others of it scored at least as high.
THEOREM CapTakesTheLowest == Spec => CapEvictsTheLowest
<1>1. StoreInvariant /\ [Next]_vars =>
        [\A i \in Deleted : \E s \in Sessions :
            /\ EvictedBy(s, i)
            /\ LET listed == task[s].listed
                   rivals == {j \in DOMAIN listed \ {i} :
                                 RetentionScore(listed[j], day)
                                 >= RetentionScore(listed[i], day)}
               IN  \/ IsExpired(listed[i], day) \/ IsWeak(listed[i], day)
                   \/ Cardinality(rivals) >= MaxFacts]_vars
  <2> SUFFICES ASSUME StoreInvariant, Next, NEW i \in Deleted
               PROVE  \E s \in Sessions :
            /\ EvictedBy(s, i)
            /\ LET listed == task[s].listed
                   rivals == {j \in DOMAIN listed \ {i} :
                                 RetentionScore(listed[j], day)
                                 >= RetentionScore(listed[i], day)}
               IN  \/ IsExpired(listed[i], day) \/ IsWeak(listed[i], day)
                   \/ Cardinality(rivals) >= MaxFacts
    OBVIOUS
  <2>1. PICK s \in Sessions :
          /\ EvictedBy(s, i)
          /\ Listing(task[s].listed, facts, created)
          /\ IsFiniteSet(DOMAIN task[s].listed)
          /\ \E victims \in Evictions(task[s].listed, day) : i \in victims
    BY DeletedByEviction
  <2>2. \A j \in DOMAIN task[s].listed : task[s].listed[j] \in Fact
    BY <2>1 DEF Listing
  <2>3. day \in Days
    BY DEF StoreInvariant, TypeOK
  <2> QED  BY <2>1, <2>2, <2>3, VictimOutscored
<1> QED  BY <1>1, StoreAlways, PTL DEF Spec, CapEvictsTheLowest

\* A KYC or credit outcome, an application count or an income band is safe
\* from every eviction but the cap's for a year, whatever its use.
THEOREM DurableFactsLast == Spec => DurableFactsKept
<1> DEFINE Durable == {"kyc_outcome", "credit_outcome",
                       "prior_application_count", "declared_income_band"}
<1>1. StoreInvariant /\ [Next]_vars =>
        [\A i \in Deleted :
            /\ facts[i].type \in Durable
            /\ day - facts[i].born <= 365
            => \E s \in Sessions :
                  EvictedBy(s, i) /\ Cardinality(DOMAIN task[s].listed) > MaxFacts]_vars
  <2> SUFFICES ASSUME StoreInvariant, Next, NEW i \in Deleted,
                      facts[i].type \in Durable, day - facts[i].born <= 365
               PROVE  \E s \in Sessions :
                         /\ EvictedBy(s, i)
                         /\ Cardinality(DOMAIN task[s].listed) > MaxFacts
    OBVIOUS
  <2>1. PICK s \in Sessions :
          /\ EvictedBy(s, i) /\ i \in DOMAIN facts
          /\ Listing(task[s].listed, facts, created)
          /\ IsFiniteSet(DOMAIN task[s].listed)
          /\ \E victims \in Evictions(task[s].listed, day) : i \in victims
    BY DeletedByEviction
  <2> DEFINE listed == task[s].listed
  <2>2. \A j \in DOMAIN listed : listed[j] \in Fact
    BY <2>1 DEF Listing
  <2>3. day \in Days /\ day \in Nat
    BY MemoryAssumption DEF StoreInvariant, TypeOK
  <2>4. i \in DOMAIN listed
    BY <2>1 DEF EvictedBy
  <2>5. listed[i].type \in Durable /\ day - listed[i].born <= 365
    BY <2>1, <2>4 DEF Listing
  <2>6. ~IsExpired(listed[i], day)
    BY <2>2, <2>3, <2>4, <2>5, MemoryAssumption DEF IsExpired, Fact
  <2>7. ImportanceScore[listed[i].type] >= 2500
    BY <2>5 DEF ImportanceScore
  <2>8. ~IsWeak(listed[i], day)
    <3>1. /\ RetentionScore(listed[i], day) \in Nat
          /\ RetentionScore(listed[i], day) >= ImportanceScore[listed[i].type]
          /\ ImportanceScore[listed[i].type] \in Nat
      BY <2>2, <2>3, <2>4, ScoreTyped
    <3> HIDE DEF listed
    <3> QED  BY <2>7, <3>1 DEF IsWeak, Threshold
  <2> QED  BY <2>1, <2>2, <2>3, <2>6, <2>8, VictimOutscored
<1> QED  BY <1>1, StoreAlways, PTL DEF Spec, DurableFactsKept
=============================================================================
