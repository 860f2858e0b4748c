----------------------------- MODULE PolicyLookup -----------------------------
(***************************************************************************)
(* The retrieval and the explanation inside credit_assessment, over the    *)
(* index of PolicyStore: the tool list cached by the MCP client            *)
(* (mcp_client.py), the loop in which a model may search the policy and    *)
(* its fallback provider (rag/agentic_rag.py), and the gateway that has    *)
(* the rationale written (llm/gateway.py).                                 *)
(*                                                                         *)
(* The sessions of one client share the tool cache and nothing else.  Each *)
(* call a session makes runs in a server process of PolicyStore, which has *)
(* 30 seconds; its other processes search for other clients, or rebuild    *)
(* the index.                                                              *)
(***************************************************************************)
EXTENDS PolicyStore

CONSTANTS Sessions,   \* credit assessments at work in one client process;
                      \* a session's server process goes by the same name
          MaxCalls    \* bound: tool calls in one answer of a model

ASSUME LookupAssumption == Sessions \subseteq Processes /\ MaxCalls \in Nat

VARIABLES
    cached,   \* _cached_tools holds the tool list
    lookup    \* where each session is, and what it has

lookupVars == <<vars, cached, lookup>>

MaxSteps == 2   \* max_steps of agentic_policy_lookup
Providers == {"primary", "fallback"}
Statuses == {"retrieved", "not_needed", "failed"}

\* results is all_results, by clause id.  The rest but for status is history:
\* found, the clauses the searches of this attempt answered with; answered,
\* how many did; erred, a search of this lookup failed or ran out of time;
\* spoiled, another process deleted something under one.
Fresh == [at |-> "idle", provider |-> "primary", step |-> 1, calls |-> 0,
          results |-> {}, status |-> "pending", rationale |-> "pending",
          found |-> {}, answered |-> 0, erred |-> FALSE, spoiled |-> FALSE]

At(s, place) == lookup[s].at = place

Become(s, session) == lookup' = [lookup EXCEPT ![s] = session]

-----------------------------------------------------------------------------
(* Outcomes of an attempt.                                                 *)

\* The attempt ends: a lookup without results is one that was not needed.
Returned(session) ==
    [session EXCEPT !.at = "explain",
                    !.status = IF session.results = {} THEN "not_needed"
                               ELSE "retrieved"]

\* Mutant: the fallback goes on with what the primary retrieved.
Raised_KeepsResults(session) ==
    IF session.provider = "primary"
    THEN [session EXCEPT !.at = "ask", !.provider = "fallback", !.step = 1,
                         !.calls = 0, !.found = {}, !.answered = 0]
    ELSE [session EXCEPT !.at = "explain", !.status = "failed"]

\* Mutant: the fallback is the primary once more.
Raised_SameProvider(session) ==
    [session EXCEPT !.at = "ask", !.step = 1, !.calls = 0,
                    !.results = {}, !.found = {}, !.answered = 0]

\* Anything that raises ends it too: the fallback starts over, with nothing.
Raised(session) ==
    IF session.provider = "primary"
    THEN [session EXCEPT !.at = "ask", !.provider = "fallback", !.step = 1,
                         !.calls = 0, !.results = {},
                         !.found = {}, !.answered = 0]
    ELSE [session EXCEPT !.at = "explain", !.status = "failed",
                         !.results = {}]

-----------------------------------------------------------------------------
(* get_mcp_tools: the cache is read before the await and written after it. *)

Begin(s) ==
    /\ At(s, "idle")
    /\ Become(s, [Fresh EXCEPT !.at = IF cached THEN "ask" ELSE "list"])
    /\ UNCHANGED <<vars, cached>>

\* A listing that returns holds the policy tool, which the server registers;
\* one that raises caches nothing.
ListTools(s) ==
    /\ At(s, "list")
    /\ \/ cached' = TRUE /\ Become(s, [lookup[s] EXCEPT !.at = "ask"])
       \/ UNCHANGED cached
          /\ Become(s, [lookup[s] EXCEPT !.at = "explain", !.status = "failed"])
    /\ UNCHANGED vars

-----------------------------------------------------------------------------
(* _invoke_with_provider.                                                  *)

\* The model answers without a tool call, with some, or the provider raises.
AskModel(s) ==
    /\ At(s, "ask")
    /\ \/ Become(s, Returned(lookup[s]))
       \/ \E n \in 1..MaxCalls :
             Become(s, [lookup[s] EXCEPT !.at = "call", !.calls = n])
       \/ Become(s, Raised(lookup[s]))
    /\ UNCHANGED <<vars, cached>>

\* Arguments the tool does not accept raise before a server is started.
RefuseCall(s) ==
    /\ At(s, "call")
    /\ Become(s, Raised(lookup[s]))
    /\ UNCHANGED <<vars, cached>>

CallTool(s) ==
    /\ At(s, "call")
    /\ Start(s) /\ proc'[s].job = "search"
    /\ Become(s, [lookup[s] EXCEPT !.at = "wait"])
    /\ UNCHANGED cached

\* _normalize_mcp_result returns the first block that parses, and the adapter
\* makes a block of every clause: one clause is left of an answer, the
\* nearest, which may be any.
Normalized(clauses) == IF clauses = {} THEN {{}} ELSE {{c} : c \in clauses}

\* Mutant: one step more than max_steps.
StepsLeft_TooMany(session) == session.step <= MaxSteps

StepsLeft(session) == session.step < MaxSteps

AfterAnswer(session) ==
    IF session.calls > 1
    THEN [session EXCEPT !.at = "call", !.calls = @ - 1]
    ELSE IF StepsLeft(session)
    THEN [session EXCEPT !.at = "ask", !.calls = 0, !.step = @ + 1]
    ELSE Returned(session)

ReadAnswer(s) ==
    /\ At(s, "wait") /\ proc[s].at = "answered"
    /\ LET hits == DOMAIN proc[s].clauses IN
       \E kept \in Normalized(hits) :
          Become(s, AfterAnswer([lookup[s] EXCEPT
                        !.results = @ \cup kept,
                        !.found = @ \cup hits,
                        !.answered = @ + 1,
                        !.spoiled = @ \/ s \in disturbed]))
    /\ UNCHANGED <<vars, cached>>

Erred(s) == [lookup[s] EXCEPT !.erred = TRUE,
                              !.spoiled = @ \/ s \in disturbed]

ReadError(s) ==
    /\ At(s, "wait") /\ proc[s].at = "failed"
    /\ Become(s, Raised(Erred(s)))
    /\ UNCHANGED <<vars, cached>>

\* asyncio.wait_for gives up, and with the MCP session its server goes.
Timeout(s) ==
    /\ At(s, "wait")
    /\ Killed(s)
    /\ Become(s, Raised([Erred(s) EXCEPT !.spoiled = TRUE]))
    /\ UNCHANGED cached

-----------------------------------------------------------------------------
(* invoke_structured_with_fallback: the fallback is asked if the primary   *)
(* raised.  An answer that is not the schema is returned, and fails in the *)
(* node, whoever gave it.                                                  *)

\* The node returns, and its locals are gone.
Done(rationale) == [Fresh EXCEPT !.at = "done", !.rationale = rationale]

Explain(s) ==
    /\ At(s, "explain") \/ At(s, "explain again")
    /\ \/ \E r \in {"written", "invalid"} : Become(s, Done(r))
       \/ Become(s, IF At(s, "explain") THEN [lookup[s] EXCEPT !.at = "explain again"]
                    ELSE Done("unavailable"))
    /\ UNCHANGED <<vars, cached>>

-----------------------------------------------------------------------------
SessionStep(s) ==
    \/ Begin(s) \/ ListTools(s) \/ AskModel(s) \/ RefuseCall(s) \/ CallTool(s)
    \/ ReadAnswer(s) \/ ReadError(s) \/ Timeout(s)
    \/ Explain(s)

\* Another session, of those that share the cache, has listed the tools.
ListElsewhere ==
    /\ ~cached /\ cached' = TRUE
    /\ UNCHANGED <<vars, lookup>>

\* A server process at work, and the processes of other clients.
StoreStep ==
    /\ \/ \E p \in Processes :
             \/ GetCollection(p) \/ DropCollection(p) \/ GetOrCreate(p)
             \/ EnsureIndexed(p) \/ ListIds(p) \/ DeleteIds(p)
             \/ UpsertClauses(p) \/ Recount(p) \/ Query(p) \/ Dangling(p)
       \/ \E p \in Processes \ Sessions : Start(p) \/ Killed(p)
    /\ UNCHANGED <<cached, lookup>>

LookupInit == Init /\ cached = FALSE /\ lookup = [s \in Sessions |-> Fresh]

LookupNext == (\E s \in Sessions : SessionStep(s)) \/ ListElsewhere \/ StoreStep

\* Providers answer within their request timeout and a tool call within its
\* own; that the tools are listed is an assumption, for nothing bounds it.
LookupSpec ==
    /\ LookupInit /\ [][LookupNext]_lookupVars
    /\ \A s \in Sessions : WF_lookupVars(SessionStep(s))

-----------------------------------------------------------------------------
\* Sessions are at one of the loop's awaits, within its budget of steps, and
\* ask no model before the tools are listed.
LookupTypeOK ==
    /\ cached \in BOOLEAN
    /\ \A s \in Sessions :
          /\ lookup[s].at \in {"idle", "list", "ask", "call", "wait",
                               "explain", "explain again", "done"}
          /\ lookup[s].provider \in Providers
          /\ lookup[s].step \in 1..MaxSteps
          /\ lookup[s].calls \in 0..MaxCalls
          /\ lookup[s].results \subseteq Corpus \cup Retired
          /\ lookup[s].status \in Statuses \cup {"pending"}
          /\ At(s, "call") \/ At(s, "wait") => cached /\ lookup[s].calls > 0

\* The outcome is that of the provider it names: what was retrieved was found
\* by the searches of its own attempt, which goes on until one fails, and a
\* lookup is not needed only if none of them found a clause.
OutcomeIsTheProviders ==
    \A s \in Sessions :
        /\ lookup[s].results \subseteq lookup[s].found
        /\ lookup[s].status = "not_needed" => lookup[s].found = {}

\* A search that is neither overtaken by a rebuild nor out of time contributes
\* to the lookup: nothing else makes one fail, and a provider that searched
\* has something retrieved.
UndisturbedLookupRetrieves ==
    \A s \in Sessions :
        ~lookup[s].spoiled =>
            /\ ~lookup[s].erred
            /\ lookup[s].answered > 0 /\ lookup[s].status # "failed" =>
                  lookup[s].results # {}

\* A credit assessment gets past its retrieval and its rationale, whatever
\* fails and however often the index is rebuilt under it.
LookupEnds ==
    \A s \in Sessions : At(s, "list") \/ At(s, "ask") ~> At(s, "done")

-----------------------------------------------------------------------------
\* agentic_rag.py:5: "RAG failures are explicit outcomes and never masquerade
\* as 'not needed'".  One does if the fallback provider asks for no search.
FailureIsNeverNotNeeded ==
    \A s \in Sessions : lookup[s].status = "not_needed" => ~lookup[s].erred
=============================================================================
