# A TLA+ model of the loan-origination copilot

The repository is a LangGraph application: a supervisor, five worker agents and a
reflector take a loan application from its JSON payload to an offer or to a human,
over a checkpointed conversation thread, an MCP server with synthetic applicant
data, a retrieval index of lending policy and a long-term memory of each user.
Models write prose and report a confidence; every *decision* is deterministic
Python. This directory models the decisions, the control flow around them, the
shared stores and what the clients show, checks the models on small instances with
TLC, and proves with TLAPS, for every instance, all that is checked but liveness.

Paths below are relative to the repository root.

## 1. Inventory

| Component | State | Operations | Talks to |
|---|---|---|---|
| **Graph** `src/graph/build_graph.py` | scheduled node, checkpointed channels | supersteps, pause, resume, new input | all nodes, checkpointer |
| **Supervisor and routing** `src/graph/supervisor.py`, `routing.py` | `next_node` | dispatch by missing result; edges after every stage, retry target | channels |
| **Reflector** `src/agents/reflector.py` | `retry_count`, `reflection_log` | taxonomy, circuit breaker, budget, thin-file referral | channels |
| **Intake** `src/agents/intake_agent.py` | `applicant`, `quarantined_inputs`, flags | parse, validate, quarantine, recall | long-term store, LLM |
| **KYC** `src/agents/kyc_agent.py` | `kyc_result`, flags | MCP lookup, gate, LLM confidence | MCP, LLM |
| **Credit** `src/agents/credit_agent.py` | `credit_assessment` | bureau check, gates, retrieval, rationale, stub | MCP, retrieval, LLM |
| **Offer** `src/agents/offer_agent.py` | `offer` | referrals, tier table | channels, LLM |
| **State schema** `src/state/schema.py` | channels and reducers | `new_state`, append / overwrite / add | everything |
| **Context** `src/context/*.py` | `compressed_summary` | summarise, select, quarantine | LLM |
| **Checkpointer** `src/memory/checkpointer.py` | SQLite checkpoints by `thread_id` | commit, resume | graph |
| **Memory agent and extraction** `src/agents/memory_agent.py`, `src/memory/extraction.py` | - | consolidate a session into facts | long-term store, LLM |
| **Long-term store and eviction** `src/memory/long_term_store.py`, `eviction.py` | Chroma facts by user | search + usage updates, upsert, evict | several runs of a user |
| **Policy vector store** `src/rag/policy_store.py`, `rag/build_index.py` | Chroma clauses | open/upgrade, build, search | several processes |
| **Agentic retrieval** `src/rag/agentic_rag.py` | - | tool loop, provider fallback, 30 s timeout | MCP, LLM |
| **LLM gateway** `src/llm/gateway.py` | - | primary, fallback | providers |
| **MCP client / server** `src/mcp_client.py`, `src/async_utils.py`, `mcp_server/` | cached tool list | list, invoke, resource | subprocess |
| **Clients** `cli.py`, `app.py` | a copy of the state, `graph_path`; node statuses, visited nodes, drawn edges | submit, stream, snapshot, fail, abandon, clear | graph |
| **Observability, redaction, configuration** | append-only log; values read at import | log, redact, read | everything |

**What is hard here.**

* *A thread outlives an application.* A new application on a thread overwrites six
  channels (and `next_node` and the recalled facts) and appends to the others;
  whatever a node reads may be an earlier application's.
* *A message re-enters the graph at the supervisor*, whatever the last run left:
  paused, escalated, crashed, completed.
* *Retry* re-enters at the first missing result, under two budgets counted by two
  modules, and with a log that is never cleared.
* *Crash*: a node's effects outside the checkpoint (the long-term store) are
  repeated when the superstep is.
* *Shared stores*: several calls per operation, nothing serialises them: usage
  counts, evictions from a stale listing, overlapping index rebuilds.
* *Retrieval under rebuild*: a tool call has 30 seconds for a server to start, to
  rebuild the index if it must, and to answer, while other processes rebuild too;
  a failure makes a second provider start over.
* *Two copies of a state*: a client follows the thread with `dict.update`, which
  knows no reducers, and its page may be redrawn in the middle of a run, between
  any two of the entries it makes for one node.
* *Boundaries*: score and debt-ratio thresholds, a rounded ratio, weights summed
  against a retention threshold, caps.

**What makes each component correct.** The graph: every node finds its inputs
(`WorkerPreconditions`), every run ends (`RunCompletes`, `BoundedRun`) in an
outcome (`OutcomeRecorded`). Gates: the held verdicts are the gates', about the
held application (`PolicyDecides`), and nobody passes one (`GatesHold`). Offers:
money only on approval, in the right tier (`OfferJustified`, `ApprovedIsPriced`).
Reflector: bounded retries, thin files referred (`ThinFileReferral`). Compliance:
flags exactly as earned (`ComplianceTrail`). Context: no summary of another
application (`SummaryIsCurrent`). Memory: written for offers only and once
(`RememberedOnce`), within the cap, durable facts kept. Policy index: it is the
corpus, or being built (`SettledIndexIsCorpus`). Retrieval: the reported status
and clauses are those of one provider's attempt (`OutcomeIsTheProviders`), only a
disturbed search is lost (`UndisturbedLookupRetrieves`), and it ends
(`LookupEnds`). Clients: verdicts and stages shown are those of the thread
(`VerdictsShown`, `StagesShownRan`, `PathShown`), as far as the page came.

## 2. Modules and how they correspond to the code

* **`LoanPolicy`** - the pure part: `ApplicantLookup` and `BureauChecks` (the MCP
  fact tools, `mcp_server/tools.py`), `ApplyKycPolicy`, `ApplyPolicyGates`,
  `PriceOffer`. Debt ratios are integers in thousandths; where `round(x, 3)` meets
  an exact tie the result may fall either way, since the binary quotient does.
* **`LoanGraph`** (EXTENDS `LoanPolicy`) - one thread. `state` is the checkpointed
  `LoanApplicationState`, `Merge` its reducers, `node` the pending task. Each
  handler (`Intake`, `KycCheck`, `CreditAssessment`, `OfferDraft`, `Reflector`,
  `Supervisor`) is the *set of dicts* its node function may return
  in a state; each `After...` is a routing function, read on the merged state.
  `NodeStep` is one superstep: handler, merge, edge, commit. `Submit` is
  `graph.stream(new_state(...))`, `FollowUp` is `graph.stream({"messages":
  [...]})`, `Resume` is `graph.stream(None)`, and `Crash` is the death of the
  process or an exception of a node. A new input discards the pending task and
  restarts at the entry point, as LangGraph does. `graph_path`, `inherited` and
  `used` count; no handler reads them. A crash after the last commit but before it
  is durable equals a crash one superstep earlier, except for the long-term store,
  whose case `Crash` at `memory_consolidation` covers. Of the store `memory` keeps
  who wrote how many facts: their values are what an extractor made of a summary
  of the thread, filtered by type and confidence and compared with nothing
  (`extraction.py:61-129`), and they are upserted one by one, so that a
  consolidation leaves all of its facts, some or none (`Consolidated`).
* **`Lifecycle`** (EXTENDS `LoanPolicy`) - what the copilot promises, without
  nodes, messages, retries, checkpoints or models: an application is submitted,
  identified, vetted, assessed, priced or referred, in that order, each verdict
  the gates' own on its records; a case is closed only with an offer or a
  hand-over. **`LoanGraphRefinement`** maps a thread to it: `submitted` is the
  payload the last input left in the message log, `kyc`, `credit` and `offer` the
  channels without confidence and prose, `handed` that the last reflection
  escalated, `open` that the graph is not at its end. A superstep of the
  supervisor, a failing worker, a pause, a resume or a crash maps to a stutter or
  to `Reflect`; a retry may repeat `Assess` while nothing rests on it, and never
  `Vet`.
* **`LoanGraphClaims`** - three sentences of the documentation and tests that the
  code does not keep, as properties. **`MCLoanGraph`** - one applicant per path
  the gates can send one down.
* **`Console`**, **`MCConsole`** (EXTENDS `LoanGraph`) - the two clients around
  the thread. `Streamed` is one superstep together with the update the client
  gets. In the app the superstep runs inside the iterator (`Receive`), and what
  the page makes of it afterwards is one step per entry in the session: the edge,
  the status, the visit, the completion, the copy (`Link`, `MarkRunning`,
  `MarkVisited`, `MarkCompleted`, `Show`), and at the end one per node not reached
  (`MarkUnreached`, `MarkEnd`, `Finish`; `Fail` after an `Escape`). A widget used
  meanwhile raises Streamlit's rerun at the next of these (`Rerun`): it never
  stops a node, for a node makes no such entry, and leaves the page as far as it
  came. The CLI prints once; Ctrl-C there does stop a node (`Interrupt`). `Finish`
  and `FinishCli` exchange the copy for the checkpoint, or keep it when that
  cannot be read; `Clear` is the button. `StartApp` opens a thread of a fresh id
  and `StartCli` may take one that was used. `_reset_run` is one step: it runs
  before the stream is opened. Neither client resumes, sends follow-ups or pauses
  the graph, so none of these occurs here.
* **`Underwriting`**, **`MCUnderwriting`** - the gates and the price table of
  `LoanPolicy` as one pure pipeline, over a grid of incomes, scores and debts on
  both sides of every threshold and rounding tie; `Next` changes the declared
  income.
* **`MemoryStore`**, **`MCMemoryStore`** - one user's facts in Chroma and the runs
  that use them: `Search`/`Bump` (query, then a metadata update per hit),
  `Consolidate`/`UpsertFact`/`ListUserFacts`/`EvictUser`, `Fail` anywhere,
  `Advance` of the clock between runs. Retention scores are exact integers in
  ten-thousandths.
* **`PolicyStore`**, **`MCPolicyStore`** - the clause index and the processes over
  it: `GetCollection`/`DropCollection`/`GetOrCreate` (the constructor),
  `EnsureIndexed`, `ListIds`/`DeleteIds`/`UpsertClauses` (`build_index`),
  `Recount`/`Query` (`search`), `Dangling` (a handle whose collection was
  deleted), `Killed`. An index maps clause ids to editions of their text. A
  `get_collection` that raises is swallowed whatever it raised
  (`policy_store.py:126`): over an outdated index that skips the check of its
  version, which `unchecked` remembers. What exists is taken to keep its metadata
  when it is got or created; a Chroma that overwrote it would only make such an
  index current.
* **`PolicyLookup`**, **`MCPolicyLookup`** (EXTENDS `PolicyStore`) - a credit
  assessment's retrieval: `Begin`/`ListTools` (`get_mcp_tools` around its await),
  `AskModel`, `RefuseCall`, `CallTool`, `ReadAnswer`, `ReadError`, `Timeout` (the
  loop of `agentic_rag.py`), `Explain` (the gateway's rationale). A tool call is a
  server process of `PolicyStore` that runs its own steps and is `Killed` by the
  timeout wherever it is; processes that are not a session's search or rebuild for
  others. `found`, `answered`, `erred` and `spoiled` are history; no action reads
  them.
* **`LoanGraphProofs`** <- **`LoanGraphSafetyProofs`** <-
  **`LoanGraphOutcomeProofs`** <- **`LoanGraphRefinementProofs`** and
  **`ConsoleProofs`** (each EXTENDS the one before); **`UnderwritingProofs`**,
  **`MemoryStoreProofs`**, **`PolicyProofs`** (over `PolicyLookup`, hence
  `PolicyStore`) - the theorems of section 4.

Left out on purpose: prompt and rationale wording, retrieved text (it only reaches
a prompt), redaction and logging, similarity and embeddings (a search returns any
facts of the right number), the validation of a payload (a split of `Applications`
into `Malformed` and the rest). In `LoanGraph` recall finds all that was written
or none of it: what is recalled only reaches a prompt. Branches the validation
makes unreachable stay in the model where a property shows they are
(`missing_prerequisite_state`, the offer's precondition error);
`credit_assembly_error` cannot arise from validated inputs and has no step.

## 3. Runs

| Run | Bounds | Shows |
|---|---|---|
| `Threads` | 7 applicants, 2 submissions, 2 crashes, pause before `credit_assessment`, confidences on both sides of and at the floor, summaries from the second message on, up to 2 facts a consolidation | types; every ended run has an outcome; thin files are referred; verdicts, flags and summaries are the current application's; no gate is passed; memory is written once and for offers only |
| `Conversation` | 2 submissions, 1 follow-up, 1 crash, 4 applicants, fairness | nodes find their inputs, offers are justified, decisions settle; an invocation is bounded and ends unless killed; the thread implements `Lifecycle` |
| `Underwriting` | grid on both sides of every threshold | approved is priced; an applicant the bureau lacks is never offered; more income never hurts |
| `Memory` | 2 runs, cap 2, 3 facts, 2 searches, days 0/200/400 | cap, durable facts, no resurrection, no recall counted twice, the lowest go first |
| `Policy` | 3 processes at a time, 4 started, 2 clauses + 1 retired, every earlier index | a settled index is the corpus; retired text only before a rebuild, and of an older version only where that could not be read; an undisturbed search answers |
| `Lookup` | 1 session and 1 other process, 3 started, 2 clauses, 2 calls an answer, every earlier index, fairness | the outcome is one provider's; an undisturbed search is not lost; the lookup ends |
| `Console` | 5 applicants (one malformed), 2 submissions by either client, 1 crash, a rerun between any two entries, an interrupt in any node | what is shown of verdicts, stages and path is the thread's, between any two entries and on an abandoned page |
| `ClaimFreshStart`, `ClaimConfidence`, `ClaimStubOnce`, `ClaimNotNeeded`, `ClaimBanner` | small | a documented sentence the code does not keep (section 6) |

*Why the bounds are enough.* The reflector's and router's budgets are two, and a
run costs at most eight supersteps (`StepLimit`), so one submission already
reaches every retry pattern; a second submission is the first that can inherit
anything; the follow-up is what reaches the supervisor's later branches. A crash
at each superstep is tried; two are needed only where the effect is repeated
(`Threads`). Two sessions and a cap of two reach overflow, overlap and stale
listings, and two overlapping searches a lost recall; the days lie on either side
of the recency decay (180) and the TTL (365). Three processes are enough for one
to search while two rebuild. `Lookup` has one session, for sessions share only the
tool list, which `ListElsewhere` may fill; its three starts let a second provider
search after a call was lost to a rebuild, and two calls an answer with two steps
are all the ways results add up. `Console` needs two runs for anything to be left
from one to the next. A thread is summarised from its second message in `Threads`
(its KYC stage then summarises a first application already, which the code does
after 20 messages of a longer thread) and from its fourth elsewhere. Two facts of
a consolidation tell some from all (`Threads`); elsewhere one is enough, for only
their number is kept. `CHECK_DEADLOCK FALSE` everywhere: when an instance's inputs
are used up the system is rightly idle. `SYMMETRY` is used where sessions or
processes are interchangeable (`Memory`, `Policy`), and in no run with liveness.

*Fairness.* `FairSpec` of `LoanGraph` has `WF_vars(NodeStep)`: once invoked,
LangGraph executes the pending node, and each provider, MCP and retrieval call
returns or raises. `LookupSpec` has weak fairness of a session's own steps, not of
its server process: a call that nobody answers is ended by `Timeout`, which is
always possible while it waits (`src/rag/agentic_rag.py:98`), so the lookup ends
however slow the index is. That providers answer or raise is what their client
libraries' request timeouts give; that the listing of tools and the two fact tools
do is an assumption, since nothing in the code bounds them. Nothing obliges
clients to submit or resume, other processes to act, or processes to crash.

*Guards in properties.* `GatesHold` speaks of threads without follow-ups because
the supervisor looks at neither KYC status nor confidence (section 6,
`ClaimConfidence`). `DecidedStaysDecided` excepts a failed KYC, which a follow-up
re-assesses (and a thin file's KYC refusal is then overwritten,
`reflector.py:102-131`). `ThinFileReferral` speaks of a thread's first application
and of its first run: on one whose retries are spent, by an earlier application or
by the run a follow-up comes after, the circuit breaker comes first.
`RememberedOnce` allows one consolidation for every follow-up, each of which
consolidates an application with an offer again. `RunCompletes` speaks of the
thread once its crashes are used up, so that what ends it is the graph and not a
kill. In `Lifecycle`, a failed KYC is the one case that may be assessed again
after an outcome (`Undecided`), for the same reason. `VerdictsShown` lets an
*abandoned* page lag behind: it must not show another application's profile.
`StagesShownRan` and `PathShown` except the node, and the edge, that the page was
about to enter; on a page a rerun stopped they stay missing. After a reflection
`PathShown` only says that no edge drawn stands for more than two steps taken
(section 6). `RetiredOnlyBeforeRebuild` excepts from the check of the version a
process whose look at it failed. `UndisturbedLookupRetrieves` excepts searches
another process deleted something under, and timeouts. `SettledIndexIsCorpus`
excepts a build killed between delete and upsert: after an overlapping build that
leaves a *partial* index, which `ensure_indexed` does not repair (its count is not
zero) and only an explicit rebuild does.

## 4. Proofs

Every invariant and action property a passing run checks, and the refinement, is
also a theorem: it holds for every value of the constants, so for any number of
applications, submissions, follow-ups, crashes, runs, processes and sessions. The
runs found the invariants first; the inductive ones below were checked by TLC on
the run of their component before they were proved.

*Assumptions.* Only those on the constants, each named where its constant is
declared and evaluated by TLC in every run over it:

| Assumption | Says | Because |
|---|---|---|
| `PayloadAssumption`, `RecordAssumption` | the shape of payloads and of the two data files | Pydantic and `mcp_server/data` |
| `TuningAssumption`, `MemoryAssumption`, `LookupAssumption`, `IncomeAssumption` | settings and bounds are numbers in range | `config.yaml`, constants of the code |
| `MessageAssumption` | a client's payload is not a line a node logs | payloads are JSON objects |
| `PolicyStoreAssumption` | the corpus is finite and not empty, and `TopK` is in range | documents in `rag/corpus/` |
| `NoneAssumption`, `VerdictAssumption` | `None` is no value of a field that may hold it | Python's `None` |

*The graph.*

* `TypeCorrect`. Lemmas type each handler's set of dicts (`IntakeTyped`,
  `KycCheckTyped`, ...) and `MergeTyped` the reducers, so that a step is typed
  because its dict is.
* `PreconditionsHold`, `PolicyAlwaysDecides`, `OffersJustified`, `ThreadInOrder`:
  none of the first three is inductive alone. `Safety` conjoins them with
  `ThreadInvariant`: a result exists only over its predecessor, intake sees only a
  client's message, and after an offer (unless KYC failed) only consolidation
  runs. One lemma per node (`SupervisorSafe` ... `MemoryConsolidationSafe`), one
  per input.
* `DecisionsSettle`: the action property, from `Safety` and one lemma on what a
  node step overwrites.
* `GatesAlwaysHold`: `GateInvariant` adds that without follow-ups, the way to a
  stage is the edge of the one before it, which checks status and confidence, and
  that what the reflector gave up on ends (`EscalationEnds`).
* `LoanGraphOutcomeProofs` first describes each superstep once (`SupervisorEffect`
  ... `MemoryConsolidationEffect`: where it goes, what it writes, what it leaves
  alone); every theorem after that argues from the descriptions only.
  * `OutcomesRecorded`: `OutcomeInvariant` adds that an empty log means an unspent
    budget, and that a last note of an escalating trigger is itself an escalation:
    so what ends the graph at the reflector has left one.
  * `SummaryAlwaysCurrent` and `TrailComplete`: `HistoryInvariant` adds that the
    submission stays where it was put in the message log and that everything after
    it was logged by nodes or asked by the client, and that the accumulating
    channels only grow. The trail counts the flags past the submission's mark.
  * `RunsBounded`: `PathInvariant` gives each node a `Position` on the way to the
    end; a path is never longer than its node's position plus two steps per
    reflection, and a second reflection ends the run, as the budget was charged
    for the first.
  * `ThinFilesReferred`: `ReferralInvariant`: the budget of a first application is
    not spent until its run is over, so the breaker cannot come before the
    referral.
  * `MemoryRemembersOnce`: `MemoryInvariant`: facts of the session exist only at
    consolidation or after it, one batch per crash and one for each commit.
* `GraphImplementsLifecycle`: `Spec => ImplementsLifecycle`. One lemma per node
  and input says which step of `Lifecycle` it is seen as (`IntakeSeen`: `Identify`
  or `Reflect`, ...), from the descriptions above and the history, outcome and
  safety invariants.

*The clients.* `ConsoleTyping`, `VerdictsAlwaysShown`, `StagesAlwaysRan`,
`PathsAlwaysShown`, and `ClientsKeepThePolicy`, which carries the graph's
guarantees over to threads opened and abandoned by clients. `ThreadKept` reuses
the graph's step lemmas, `StartAppThread` adds the fresh thread.
`ConsoleInvariant` strengthens them with: the copy follows the thread in the four
channels shown (`CopyFollows`: these are the ones whose reducer replaces, as
`dict.update` does); the app has visited what ran, but for the node whose update
it is entering (`VisitedRan`); until a reflection a run goes straight, each of its
nodes a new one (`StraightPath`), which is why "first visited last" is then
"last". After a reflection it re-enters at the furthest node it had reached or
goes on to the next (`Progress`, `Advances`, by the `Position` of
`PathInvariant`), so the node first visited last is the last one that ran or the
one before it (`Close`), and an edge drawn from it stands for one step or for two
(`EdgesTaken`).

*The pure pipeline.* `ApprovalsPriced`, `UnknownsNotOffered` and the action
property `MoreIncomeIsSafe`, for all incomes, scores and debts: `EstimateRounds`
bounds the rounded ratio by half a thousandth and `EstimateFalls` shows that it
never rises with income, not even across a tie; `PricesImprove` does the same for
the tiers.

*The long-term store.* `StoreTyped`, `CapHolds`, `EvictionIsFinal`,
`CapTakesTheLowest` and `DurableFactsLast`. `StoreInvariant` says what a session
may carry from one Chroma call to the next: a listing is stale only in usage, last
access and deletions, and misses only facts younger than all it holds (ids are
handed out in order); swept facts are the oldest. That is what makes an eviction
from a stale listing harmless.

*The policy index and the lookups.* `PolicyTyped`, `SettledAlways`,
`SearchesAnswer`, `OldTextsPredateRebuilds`. `StoreInvariant` of `PolicyProofs`:
what was cleared holds the latest edition only, and what a build has yet to find
of others is of the latest edition as well (`Cleared`); an outdated collection is
dropped before anyone holds a handle to it who could read its version
(`OutdatedUnused`); what a process found is still there unless another deleted it
(`FoundStays`); and starts bound the collections made, by counting the processes
still opening (`StartsCovered`). `LookupImplementsStore` shows `LookupSpec =>
Spec`, so all of these hold under a client's sessions (`LookupsKeepTheIndex`);
with `LookupInvariant` (what an attempt has found and what became of it) follow
`LookupTyped`, `OutcomesAreTheProviders` and `UndisturbedLookupsRetrieve`.

**Only model-checked**: liveness, which is out of the prover's reach, as `ENABLED`
is: `RunCompletes` and `LookupEnds`. What makes them terminate is proved, by a
variant each: a superstep always commits and lengthens a run that is never longer
than eight (`SuperstepsCommit`), and a step of a lookup always lowers its `Rank`,
which no other process raises (`LookupsAdvance`). What TLC adds is that the fair
step stays enabled. The claims of section 6 are refuted, not proved.

## 5. Plan

Done, in the order of importance to the decision: `LoanPolicy`, `LoanGraph` and
its claims, `Underwriting`, `MemoryStore`, `PolicyStore`; the promise `Lifecycle`
and its refinement, retrieval (`PolicyLookup`) over the index, the clients
(`Console`) over the graph; and the theorems above. Left:

1. That the disagreements of section 6 are the only ones of their kind: what is
   true of the rationale's stub, of the confidence floor and of the success banner
   on threads without the follow-up, the interruption or the reflection each
   counterexample needs.
2. A variant for the runs of the long-term store, and the number of facts a user
   may hold while evictions overlap.
3. Actions for the projection of messages and the quarantine, should they ever
   decide more than the wording of a prompt.

**Not modelled.** Two invocations on one thread at a time (`cli.py:265`): how
LangGraph interleaves their checkpoints is the library's code, not the
repository's. The MCP server's registration of its tools, and `run_sync`, which
keep no state; a listing of the tools therefore always holds the policy search
(`mcp_server/server.py:63`), the branch for one that does not
(`agentic_rag.py:138-142`) does not occur, and `ListTools` fails when the listing
raises. A failure of the embedding model: it raises between two calls on an index,
leaves there what `Killed` leaves, and fails a search nothing else disturbed. A
rerun in the middle of `_reset_run`, before a stream is opened. Observability and
redaction: text, no control. Configuration: read once at import; what the graph
uses of it are constants. The patterns of the quarantine and the projection of
messages for a summary: they shape text, and a payload's notes are one of three
kinds. Rendering, event logs and the other pages of the app. The reset of the tool
cache, which only tests call.

## 6. Where code and text disagree

Shown by a run:

* `tests/test_multi_turn_compression.py:23-26` calls `retry_count` and
  `reflection_log` last-value channels that a fresh input resets; their reducers
  add and append, so the second application of a thread inherits both
  (`ClaimFreshStart`).
* `config.yaml:30-32` says low-confidence outputs go to the reflector instead of
  the next stage; after an escalation a follow-up reaches `offer_draft`
  (`ClaimConfidence`).
* `tests/test_credit_agent.py:4-5` says the rationale is stubbed exactly once; the
  stub leaves no note to count (`ClaimStubOnce`).
* `src/rag/agentic_rag.py:5` says retrieval failures never masquerade as "not
  needed"; after a primary whose search failed, a fallback that asks for none is
  reported as just that, and the credit prompt says that no lookup was requested
  (`ClaimNotNeeded`).
* `app.py:783-784` announces "Indicative offer generated." for an approval, which
  a low confidence has sent to a human without an offer (`ClaimBanner`).

Met while modelling, without a run of their own: `src/graph/supervisor.py:25`
("KYC passed but no credit decision -> credit_assessment") against `:34`, which
asks whether there is a result, so that a follow-up has an applicant assessed whom
KYC failed; `mcp_server/server.py:69` ("Returns the top-k matching policy
clauses"), of which `mcp_client.py:85-98` keeps the first text block, that is one
clause of each search (`Normalized`; `evidence/mcp_transcript.json` shows one
block per clause); `docs/PHASES.md:80-82` (the app visualises the execution path)
against `app.py:271-281`, which draws from the node *first* visited last and so
records, after a retry, a transition that was two (`PathShown` bounds it); the
app's retry count, the last increment rather than the sum while a run streams
(`app.py:866`); the provider names, which `agentic_policy_lookup` resolves outside
its `try` (`agentic_rag.py:146`), so that an unsupported one fails the credit node
and the invocation (`Crash`) and not the lookup; `docs/agent-contracts.md:126`
("retry the same stage") against `routing.py:86-92`, which retries a
low-confidence KYC result at credit; `reflector.py:117-118` ("every escalation
path") against the breaker before it; `state/schema.py:100-101` ("the current
failure") against `reflector.py:135`, which classifies the last note of a log that
is never cleared; `rag/corpus/policy_01_eligibility.md:9-12` (a minimum income)
against `credit_agent.py:50-79`, which has no such gate; lost and lowered usage
counts under concurrent searches (`long_term_store.py:120-139`; `MemoryStore` has
them and `TypeOK` only shows that none is too high); the store's fallback cut over
a listing with expired facts in it, which can evict below the cap
(`long_term_store.py:178-188`); retrieval reported as `not_needed` when every
search came back empty, as one does that meets a rebuild (`agentic_rag.py:75`).
