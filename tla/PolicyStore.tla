----------------------------- MODULE PolicyStore -----------------------------
(***************************************************************************)
(* The Chroma index of lending-policy clauses (src/rag/policy_store.py),   *)
(* shared by the processes that search it and the ones that rebuild it.    *)
(*                                                                         *)
(* Every call of the MCP tool lending_policy_search runs in a server       *)
(* process of its own, and rag/build_index.py in another; each opens the   *)
(* collection by name, keeps a handle to what it found, and may be killed  *)
(* between two Chroma calls (agentic_rag.py gives a call 30 seconds).      *)
(* A Chroma call is atomic, and raises on a collection that was deleted.   *)
(***************************************************************************)
EXTENDS Integers, FiniteSets

CONSTANTS Processes,    \* processes that may be at work at the same time
          Corpus,       \* ids of the clauses of the corpus on disk
          Retired,      \* ids of clauses the corpus no longer has
          TopK,         \* k, clamped to 1..10
          MaxStarts     \* bound: processes started

ASSUME PolicyStoreAssumption ==
    /\ Corpus # {} /\ Corpus \cap Retired = {}
    /\ IsFiniteSet(Corpus) /\ IsFiniteSet(Retired)
    /\ TopK \in 1..10
    /\ MaxStarts \in Nat

VARIABLES
    collection,   \* what the name lending_policy stands for
    made,         \* collections made so far
    proc,         \* where each process is
    starts,       \* processes started so far
    rebuilt,      \* collections some build has cleared of what it listed
    orphaned,     \* collections a build was killed on before it wrote
    disturbed,    \* processes that another one deleted something under
    unchecked     \* processes that could not read an outdated index's version

vars == <<collection, made, proc, starts, rebuilt, orphaned, disturbed, unchecked>>

Gone == [made |-> 0]
Idle == [at |-> "idle"]

Lesser(a, b) == IF a <= b THEN a ELSE b

\* An index maps the id of a clause to the edition of its text; this is the one
\* of the corpus on disk.
Records == [i \in Corpus |-> "new"]

Open == {"open", "drop", "create"}
Handled == {"ensure", "list", "delete", "upsert", "recount", "query"}

\* The collection behind the handle of p still exists.
Live(p) == proc[p].at \in Handled /\ collection.made = proc[p].handle

Clauses == collection.clauses

Go(p, at) == proc' = [proc EXCEPT ![p].at = at]

-----------------------------------------------------------------------------
(* PolicyVectorStore.__init__: get, drop if outdated, get or create.       *)

Start(p) ==
    /\ proc[p].at \in {"idle", "answered", "failed", "done"}
    /\ starts < MaxStarts
    /\ \E job \in {"search", "rebuild"} :
          proc' = [proc EXCEPT ![p] = [at |-> "open", job |-> job]]
    /\ starts' = starts + 1
    /\ disturbed' = disturbed \ {p}
    /\ unchecked' = unchecked \ {p}
    /\ UNCHANGED <<collection, made, rebuilt, orphaned>>

\* Mutant: whatever exists is used, whichever version built it.
Outdated_Never == FALSE

Outdated == collection # Gone /\ ~collection.current

\* An index that is missing raises, and so does one that cannot be read just
\* then: either is swallowed, and whatever exists is used as it is.
GetCollection(p) ==
    /\ proc[p].at = "open"
    /\ \/ Go(p, IF Outdated THEN "drop" ELSE "create") /\ UNCHANGED unchecked
       \/ Outdated /\ Go(p, "create") /\ unchecked' = unchecked \cup {p}
    /\ UNCHANGED <<collection, made, starts, rebuilt, orphaned, disturbed>>

\* By name: what is deleted need not be what was found outdated.
DropCollection(p) ==
    /\ proc[p].at = "drop"
    /\ IF collection = Gone
       THEN Go(p, "failed") /\ UNCHANGED <<collection, disturbed>>
       ELSE /\ Go(p, "create")
            /\ collection' = Gone
            /\ disturbed' = disturbed \cup (Processes \ {p})
    /\ UNCHANGED <<made, starts, rebuilt, orphaned, unchecked>>

GetOrCreate(p) ==
    /\ proc[p].at = "create"
    /\ IF collection = Gone
       THEN /\ made' = made + 1
            /\ collection' = [made |-> made', current |-> TRUE,
                               clauses |-> << >>]
       ELSE UNCHANGED <<collection, made>>
    /\ proc' = [proc EXCEPT ![p] =
           [at |-> IF @.job = "search" THEN "ensure" ELSE "list",
            job |-> @.job, handle |-> collection'.made]]
    /\ UNCHANGED <<starts, rebuilt, orphaned, disturbed, unchecked>>

-----------------------------------------------------------------------------
(* build_index: list, delete what was listed, encode, upsert.              *)

\* Mutant: an index is never missing.
Unindexed_Never == FALSE

Unindexed == Clauses = << >>

EnsureIndexed(p) ==
    /\ proc[p].at = "ensure" /\ Live(p)
    /\ Go(p, IF Unindexed THEN "list" ELSE "recount")
    /\ UNCHANGED <<collection, made, starts, rebuilt, orphaned, disturbed, unchecked>>

ListIds(p) ==
    /\ proc[p].at = "list" /\ Live(p)
    /\ proc' = [proc EXCEPT ![p] =
           [at |-> IF Clauses = << >> THEN "upsert" ELSE "delete",
            job |-> @.job, handle |-> @.handle, listed |-> DOMAIN Clauses]]
    /\ rebuilt' = IF Clauses = << >> THEN rebuilt \cup {collection.made}
                  ELSE rebuilt
    /\ UNCHANGED <<collection, made, starts, orphaned, disturbed, unchecked>>

DeleteIds(p) ==
    /\ proc[p].at = "delete" /\ Live(p)
    /\ LET left == DOMAIN Clauses \ proc[p].listed
       IN  collection' = [collection EXCEPT !.clauses = [i \in left |-> @[i]]]
    /\ rebuilt' = rebuilt \cup {collection.made}
    /\ disturbed' = disturbed \cup (Processes \ {p})
    /\ Go(p, "upsert")
    /\ UNCHANGED <<made, starts, orphaned, unchecked>>

\* Mutant: only what the index does not hold yet is written.
Upserted_AddIfEmpty == IF Clauses = << >> THEN Records ELSE Clauses

\* Mutant: the documents are left out of the call.
Upserted_NoText == [i \in DOMAIN Clauses \cup Corpus |-> "none"]

Upserted == [i \in DOMAIN Clauses \cup DOMAIN Records |->
                IF i \in DOMAIN Records THEN Records[i] ELSE Clauses[i]]

UpsertClauses(p) ==
    /\ proc[p].at = "upsert" /\ Live(p)
    /\ collection' = [collection EXCEPT !.clauses = Upserted]
    /\ Go(p, IF proc[p].job = "search" THEN "recount" ELSE "done")
    /\ UNCHANGED <<made, starts, rebuilt, orphaned, disturbed, unchecked>>

-----------------------------------------------------------------------------
(* search: the count bounds n_results, the query runs after it.            *)

\* Chroma refuses to return zero results.
Recount(p) ==
    /\ proc[p].at = "recount" /\ Live(p)
    /\ LET n == Lesser(TopK, Cardinality(DOMAIN Clauses))
       IN  IF n = 0 THEN Go(p, "failed")
           ELSE proc' = [proc EXCEPT ![p] =
                    [at |-> "query", job |-> @.job, handle |-> @.handle, n |-> n]]
    /\ UNCHANGED <<collection, made, starts, rebuilt, orphaned, disturbed, unchecked>>

Query(p) ==
    /\ proc[p].at = "query" /\ Live(p)
    /\ \E hits \in SUBSET DOMAIN Clauses :
          /\ Cardinality(hits) = Lesser(proc[p].n, Cardinality(DOMAIN Clauses))
          /\ proc' = [proc EXCEPT ![p] =
                 [at |-> "answered", clauses |-> [i \in hits |-> Clauses[i]]]]
    /\ UNCHANGED <<collection, made, starts, rebuilt, orphaned, disturbed, unchecked>>

-----------------------------------------------------------------------------
\* A call through the handle of a deleted collection raises.
Dangling(p) ==
    /\ proc[p].at \in Handled /\ ~Live(p)
    /\ Go(p, "failed")
    /\ UNCHANGED <<collection, made, starts, rebuilt, orphaned, disturbed, unchecked>>

Killed(p) ==
    /\ proc[p].at \in Open \cup Handled
    /\ orphaned' = IF proc[p].at = "upsert" THEN orphaned \cup {proc[p].handle}
                   ELSE orphaned
    /\ proc' = [proc EXCEPT ![p] = Idle]
    /\ UNCHANGED <<collection, made, starts, rebuilt, disturbed, unchecked>>

\* What some earlier build made of some earlier corpus, or was killed in.
Indexes == UNION {[ids -> {"old", "new"}] : ids \in SUBSET (Corpus \cup Retired)}

\* Nothing yet, or an index of this version or of an older one, whose corpus
\* may have been edited since.
Init ==
    /\ collection \in
          {Gone} \cup {[made |-> 1, current |-> current, clauses |-> clauses] :
              current \in BOOLEAN,
              clauses \in {c \in Indexes : \A i \in DOMAIN c \cap Retired :
                                              c[i] = "old"}}
    /\ made = 1
    /\ proc = [p \in Processes |-> Idle]
    /\ starts = 0
    /\ rebuilt = {}
    /\ orphaned = {}
    /\ disturbed = {}
    /\ unchecked = {}

Next == \E p \in Processes :
            \/ Start(p)
            \/ GetCollection(p) \/ DropCollection(p) \/ GetOrCreate(p)
            \/ EnsureIndexed(p) \/ ListIds(p) \/ DeleteIds(p) \/ UpsertClauses(p)
            \/ Recount(p) \/ Query(p)
            \/ Dangling(p) \/ Killed(p)

Spec == Init /\ [][Next]_vars

-----------------------------------------------------------------------------
\* A process is at one call; a collection is absent or indexes known clauses.
TypeOK ==
    /\ collection = Gone
       \/ /\ collection.made \in 1..made
          /\ collection.current \in BOOLEAN
          /\ DOMAIN Clauses \subseteq Corpus \cup Retired
          /\ \A i \in DOMAIN Clauses : Clauses[i] \in {"old", "new"}
    /\ made \in 1..(MaxStarts + 1)
    /\ \A p \in Processes :
          proc[p].at \in Open \cup Handled
                         \cup {"idle", "answered", "failed", "done"}
    /\ starts \in 0..MaxStarts
    /\ rebuilt \subseteq 1..made /\ orphaned \subseteq 1..made
    /\ disturbed \subseteq Processes /\ unchecked \subseteq Processes

\* A collection a build has cleared holds the corpus, all of it and in its
\* latest edition, unless a build is about to write it or was killed there:
\* builds that overlap never leave a part of it behind.
SettledIndexIsCorpus ==
    collection # Gone /\ collection.made \in rebuilt =>
        \/ Clauses = Records
        \/ collection.made \in orphaned
        \/ \E p \in Processes : proc[p].at = "upsert" /\ Live(p)

\* A search answers with a retired text only from an index that nobody has
\* rebuilt since the corpus was edited, and from one of an older version only
\* if it could not read that version itself.
RetiredOnlyBeforeRebuild ==
    [][\A p \in Processes :
          /\ proc[p].at = "query" /\ proc'[p].at = "answered"
          /\ \E i \in DOMAIN proc'[p].clauses : proc'[p].clauses[i] = "old"
          => /\ collection.made \notin rebuilt
             /\ collection.current \/ p \in unchecked]_vars

\* A search that nobody deletes anything under finds clauses, whatever a
\* killed build or an older version left: it fails, or comes back with
\* nothing, only when another process cleared or dropped the index meanwhile.
UndisturbedSearchAnswers ==
    \A p \in Processes \ disturbed :
        /\ proc[p].at # "failed"
        /\ proc[p].at = "answered" => proc[p].clauses # << >>
=============================================================================
