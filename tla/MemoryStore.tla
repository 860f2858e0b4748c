----------------------------- MODULE MemoryStore -----------------------------
(***************************************************************************)
(* One user's facts in the long-term store (memory/long_term_store.py and  *)
(* memory/eviction.py), used by several graph runs at once.                *)
(*                                                                         *)
(* Every Chroma call is atomic and no two of them are: a run reads usage   *)
(* counts and writes them back later, stores its facts one by one, and     *)
(* deletes by a list it took before.  A fact's id is its creation order.   *)
(* Scores are in ten-thousandths; ages are whole days, none of them one at *)
(* which the float sum meets the threshold exactly.                        *)
(***************************************************************************)
EXTENDS Integers, FiniteSets

CONSTANTS Sessions,     \* graph runs of the user that may be under way
          FactTypes,    \* fact types the extractor may return
          MaxFacts,     \* MAX_FACTS_PER_USER
          TopK,         \* facts a search returns at most
          Days,         \* days on which the user's runs happen
          MaxCreated, MaxSearches   \* bounds of an instance

\* importance_for_fact_type, times WEIGHT_IMPORTANCE.
ImportanceScore == [kyc_outcome             |-> 4275,
                    credit_outcome          |-> 4050,
                    prior_application_count |-> 3150,
                    declared_income_band    |-> 2700,
                    employment              |-> 2475,
                    preferred_term          |-> 1800]

ASSUME MemoryAssumption ==
    /\ FactTypes \subseteq DOMAIN ImportanceScore
    /\ MaxFacts \in Nat \ {0} /\ TopK \in Nat \ {0}
    /\ Days \subseteq Nat /\ 0 \in Days
    /\ MaxCreated \in Nat /\ MaxSearches \in Nat

VARIABLES
    facts,      \* the collection: fact by id
    created,    \* ids handed out
    day,        \* the wall clock
    searches,   \* searches so far
    task,       \* what a session is in the middle of
    swept       \* facts a finished eviction had listed, and left

vars == <<facts, created, day, searches, task, swept>>

Idle == [does |-> "idle"]
AllIdle == \A s \in Sessions : task[s] = Idle

Lesser(a, b) == IF a <= b THEN a ELSE b

-----------------------------------------------------------------------------
(* Retention (eviction.py).                                                *)

RecencyScore(age) == IF age < 30 THEN 3000
                     ELSE IF age >= 180 THEN 0 ELSE 20 * (180 - age)

UsageScore(usage) == 250 * Lesser(usage, 10)

RetentionScore(fact, now) == ImportanceScore[fact.type]
                             + RecencyScore(now - fact.born)
                             + UsageScore(fact.usage)

Threshold == 2500

\* Mutant: facts expire as soon as recency is spent.
IsExpired_Recency(fact, now) == now - fact.born > 180

IsExpired(fact, now) == now - fact.born > 365

IsWeak(fact, now) == RetentionScore(fact, now) < Threshold

\* Mutant: the least recently used goes first, whatever its retention.
NotAbove_Lru(f, g, now) == f.last <= g.last

\* Whether a sort puts f before g, or may: by retention, then last access.
NotAbove(f, g, now) ==
    \/ RetentionScore(f, now) < RetentionScore(g, now)
    \/ /\ RetentionScore(f, now) = RetentionScore(g, now)
       /\ f.last <= g.last

\* The n ids a sort of the listing puts first, where ties may fall either way.
Bottom(ids, n, Before(_, _)) ==
    {low \in SUBSET ids :
        /\ Cardinality(low) = n
        /\ \A i \in low, j \in ids \ low : Before(i, j)}

\* select_evictions: expiry and low retention first, then the cap.
Selected(listed, now) ==
    LET gone == {i \in DOMAIN listed : IsExpired(listed[i], now)
                                       \/ IsWeak(listed[i], now)}
        remaining == DOMAIN listed \ gone
        overflow  == Cardinality(remaining) - MaxFacts
    IN  IF overflow <= 0 THEN {gone}
        ELSE {gone \cup low :
                low \in Bottom(remaining, overflow,
                               LAMBDA i, j : NotAbove(listed[i], listed[j], now))}

\* The safety fallback of evict_user, cut from the whole listing.
Fallback(listed, now) ==
    LET overflow == Cardinality(DOMAIN listed) - MaxFacts
    IN  IF overflow <= 0 THEN {{}}
        ELSE Bottom(DOMAIN listed, overflow,
                    LAMBDA i, j : RetentionScore(listed[i], now)
                                  <= RetentionScore(listed[j], now))

\* Mutant: the cap is left to nobody.
Evictions_NoCap(listed, now) ==
    {{i \in DOMAIN listed : IsExpired(listed[i], now) \/ IsWeak(listed[i], now)}}

\* What evict_user deletes, given what it listed.
Evictions(listed, now) ==
    {a \cup b : a \in Selected(listed, now), b \in Fallback(listed, now)}

-----------------------------------------------------------------------------
(* search: the query, then one metadata update per fact found.             *)

Search(s) ==
    /\ task[s] = Idle
    /\ facts # << >>
    /\ searches < MaxSearches
    /\ \E hits \in SUBSET DOMAIN facts :
          /\ Cardinality(hits) = Lesser(TopK, Cardinality(DOMAIN facts))
          /\ task' = [task EXCEPT ![s] =
                 [does |-> "bump",
                  usage |-> [i \in hits |-> facts[i].usage + 1]]]
    /\ searches' = searches + 1
    /\ UNCHANGED <<facts, created, day, swept>>

\* Mutants: an id Chroma does not hold is written again, as upsert would; the
\* update, which replaces the metadata, leaves session_ts out.
Written_Upsert(i, usage) ==
    [j \in DOMAIN facts \cup {i} |->
        IF j = i THEN [type |-> "employment", born |-> day, last |-> day,
                       usage |-> usage]
        ELSE facts[j]]
Written_NoTimestamp(i, usage) ==
    [j \in DOMAIN facts |->
        IF j = i THEN [type |-> facts[j].type, last |-> day, usage |-> usage]
        ELSE facts[j]]

\* Chroma's update leaves an id it does not hold alone.
Written(i, usage) ==
    [j \in DOMAIN facts |->
        IF j = i THEN [facts[j] EXCEPT !.usage = usage, !.last = day]
        ELSE facts[j]]

Bump(s) ==
    /\ task[s].does = "bump"
    /\ \E i \in DOMAIN task[s].usage :
          LET rest == DOMAIN task[s].usage \ {i}
          IN  /\ facts' = Written(i, task[s].usage[i])
              /\ task' = [task EXCEPT ![s] =
                     IF rest = {} THEN Idle
                     ELSE [does |-> "bump",
                           usage |-> [j \in rest |-> @.usage[j]]]]
    /\ UNCHANGED <<created, day, searches, swept>>

-----------------------------------------------------------------------------
(* upsert_facts: one upsert per fact, then the eviction.                   *)

\* The extractor returned some facts; with none, nothing is called.
Consolidate(s) ==
    /\ task[s] = Idle
    /\ \E types \in (SUBSET FactTypes) \ {{}} :
          /\ created + Cardinality(types) <= MaxCreated
          /\ task' = [task EXCEPT ![s] = [does |-> "upsert", types |-> types]]
    /\ UNCHANGED <<facts, created, day, searches, swept>>

UpsertFact(s) ==
    /\ task[s].does = "upsert"
    /\ created < MaxCreated
    /\ \E t \in task[s].types :
          LET rest == task[s].types \ {t}
          IN  /\ facts' = [i \in DOMAIN facts \cup {created + 1} |->
                              IF i = created + 1
                              THEN [type |-> t, born |-> day, last |-> day,
                                    usage |-> 0]
                              ELSE facts[i]]
              /\ task' = [task EXCEPT ![s] =
                     IF rest = {} THEN [does |-> "list"]
                     ELSE [does |-> "upsert", types |-> rest]]
    /\ created' = created + 1
    /\ UNCHANGED <<day, searches, swept>>

ListUserFacts(s) ==
    /\ task[s].does = "list"
    /\ task' = [task EXCEPT ![s] = IF facts = << >> THEN Idle
                                   ELSE [does |-> "evict", listed |-> facts]]
    /\ UNCHANGED <<facts, created, day, searches, swept>>

EvictUser(s) ==
    /\ task[s].does = "evict"
    /\ \E victims \in Evictions(task[s].listed, day) :
          LET left == DOMAIN facts \ victims
          IN  /\ facts' = [i \in left |-> facts[i]]
              /\ swept' = left \cap (swept \cup DOMAIN task[s].listed)
    /\ task' = [task EXCEPT ![s] = Idle]
    /\ UNCHANGED <<created, day, searches>>

\* An exception, which both callers swallow, or the death of the process.
Fail(s) ==
    /\ task[s] # Idle
    /\ task' = [task EXCEPT ![s] = Idle]
    /\ UNCHANGED <<facts, created, day, searches, swept>>

\* Days pass between runs; a run itself takes seconds.
Advance ==
    /\ AllIdle
    /\ \E d \in Days : d > day /\ day' = d
    /\ UNCHANGED <<facts, created, searches, task, swept>>

-----------------------------------------------------------------------------
Init ==
    /\ facts = << >>
    /\ created = 0
    /\ day = 0
    /\ searches = 0
    /\ task = [s \in Sessions |-> Idle]
    /\ swept = {}

Next == \/ \E s \in Sessions : \/ Search(s) \/ Bump(s)
                               \/ Consolidate(s) \/ UpsertFact(s)
                               \/ ListUserFacts(s) \/ EvictUser(s)
                               \/ Fail(s)
        \/ Advance

Spec == Init /\ [][Next]_vars

-----------------------------------------------------------------------------
Fact == [type : FactTypes, born : Days, last : Days, usage : Nat]

\* Facts by id; a session is idle or between two calls of one operation.
\* Overlapping searches may lose a recall, but none is counted twice.
TypeOK ==
    /\ DOMAIN facts \subseteq 1..created
    /\ \A i \in DOMAIN facts : facts[i] \in Fact /\ facts[i].usage <= searches
    /\ created \in 0..MaxCreated
    /\ day \in Days
    /\ searches \in 0..MaxSearches
    /\ swept \subseteq DOMAIN facts
    /\ \A s \in Sessions : task[s].does \in
          {"idle", "bump", "upsert", "list", "evict"}

\* Whatever runs overlap and fail, the facts some finished eviction has seen
\* are within the cap: an excess is only ever what nobody has swept yet.
WithinCap == Cardinality(swept) <= MaxFacts

\* A fact an eviction deleted stays deleted: a search that found it before
\* does not write it back.
EvictedStaysEvicted ==
    [][\A i \in 1..created : i \notin DOMAIN facts => i \notin DOMAIN facts']_vars

Deleted == DOMAIN facts \ DOMAIN facts'

\* Session s deletes, among others, fact i of its listing.
EvictedBy(s, i) == /\ task[s].does = "evict" /\ task'[s] = Idle
                   /\ i \in DOMAIN task[s].listed

\* KYC and credit outcomes, the application count and the income band outweigh
\* the threshold by their importance: within a year only the cap evicts them.
DurableFactsKept ==
    [][\A i \in Deleted :
          /\ facts[i].type \in {"kyc_outcome", "credit_outcome",
                                "prior_application_count",
                                "declared_income_band"}
          /\ day - facts[i].born <= 365
          => \E s \in Sessions :
                EvictedBy(s, i) /\ Cardinality(DOMAIN task[s].listed) > MaxFacts]_vars

\* A fact that was live and strong when listed is only evicted if MaxFacts
\* others of the listing scored at least as high.  Since then it may have been
\* recalled and scored higher: the eviction does not look again.
CapEvictsTheLowest ==
    [][\A i \in Deleted : \E s \in Sessions :
          /\ EvictedBy(s, i)
          /\ LET listed == task[s].listed
                 rivals == {j \in DOMAIN listed \ {i} :
                               RetentionScore(listed[j], day)
                               >= RetentionScore(listed[i], day)}
             IN  \/ IsExpired(listed[i], day) \/ IsWeak(listed[i], day)
                 \/ Cardinality(rivals) >= MaxFacts]_vars
=============================================================================
