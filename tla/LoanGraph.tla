------------------------------ MODULE LoanGraph ------------------------------
(***************************************************************************)
(* One conversation thread of the loan-origination StateGraph: the         *)
(* checkpointed state of the thread, the node scheduled next, and the      *)
(* supersteps LangGraph runs over them.                                    *)
(*                                                                         *)
(* A handler below is the set of partial updates ("the returned dict") its *)
(* node function can return for a state; Merge is the reducer LangGraph    *)
(* applies to the dict; an edge operator is the routing function consulted *)
(* on the merged state.  A superstep is all three, and commits atomically: *)
(* that is what the checkpointer persists.  Everything an LLM, the MCP     *)
(* subprocess or the memory store may answer is a choice inside the set.   *)
(***************************************************************************)
EXTENDS LoanPolicy, Sequences, FiniteSets

CONSTANTS
    Applications,     \* application payloads a client may submit
    Malformed,        \* those that do not parse or validate as a profile
    Income,           \* declared_income of a payload
    Notes,            \* its free text: "none", "clean" or "suspicious"
    ApplicantRecord,  \* applicants.json, by payload (None: not held)
    BureauRecord,     \* bureau_records.json, by payload (None: not held)
    Confidences,      \* confidences an LLM may report, in percent
    MinConfidence,    \* routing.min_confidence of config.yaml, in percent
    Threshold,        \* messages a thread may hold before it is summarised
    KeepRecent,       \* messages a summary leaves out
    InterruptBefore,  \* nodes the graph is compiled to pause before
    MemoryEnabled,    \* the invocation's memory_enabled flag
    MaxFacts,         \* bound: facts one consolidation may extract
    MaxSubmissions, MaxFollowUps, MaxCrashes   \* bounds of an instance

Workers == {"intake", "kyc_check", "credit_assessment", "offer_draft",
            "reflector", "memory_consolidation"}
Nodes == Workers \cup {"supervisor"}

LookupOf(a) == ApplicantLookup(ApplicantRecord[a])
BureauOf(a) == BureauChecks(BureauRecord[a], Income[a])

ASSUME PayloadAssumption ==
    /\ Malformed \subseteq Applications
    /\ Income \in [Applications -> Nat]
    /\ Notes \in [Applications -> {"none", "clean", "suspicious"}]
    /\ \A a \in Applications :
          /\ ApplicantRecord[a] # None =>
                ApplicantRecord[a] \in [watchlist_hit : BOOLEAN]
          /\ BureauRecord[a] # None =>
                BureauRecord[a] \in [synthetic_score : 300..900,
                                     total_outstanding : Nat,
                                     thin_file : BOOLEAN]

\* A payload is not one of the lines the nodes log, nor a follow-up question.
ASSUME MessageAssumption == Applications \cap (Workers \cup {"question"}) = {}

ASSUME TuningAssumption ==
    /\ Confidences \subseteq 0..100
    /\ MinConfidence \in 0..100
    /\ Threshold \in Nat /\ KeepRecent \in Nat /\ KeepRecent <= Threshold
    /\ InterruptBefore \subseteq Workers
    /\ MemoryEnabled \in BOOLEAN
    /\ {MaxFacts, MaxSubmissions, MaxFollowUps, MaxCrashes} \subseteq Nat

MaxRetries == 2       \* MAX_RETRIES of routing.py

VARIABLES
    state,        \* LoanApplicationState of the thread, as checkpointed
    node,         \* the node the checkpoint schedules next, or "END"
    running,      \* a process is executing the thread
    memory,       \* what each consolidation wrote to the long-term store
    graph_path,   \* nodes executed since the last input (cli.py's graph_path)
    inherited,    \* lengths of the accumulating channels at the last Submit
    used          \* submissions, follow-ups and crashes so far

vars == <<state, node, running, memory, graph_path, inherited, used>>

-----------------------------------------------------------------------------
(* Channels and reducers.                                                  *)

Appending == {"messages", "reflection_log", "quarantined_inputs",
              "compliance_flags"}
LastValue == {"applicant", "kyc_result", "credit_assessment", "offer",
              "next_node", "compressed_summary", "long_term_memory_hits"}
Channels == Appending \cup LastValue \cup {"retry_count"}

\* Mutant: compliance_flags is declared without its reducer.
Merge_FlagsReplaced(s, update) ==
    [c \in Channels |->
        IF c \notin DOMAIN update THEN s[c]
        ELSE IF c \in Appending \ {"compliance_flags"} THEN s[c] \o update[c]
        ELSE IF c = "retry_count" THEN s[c] + update[c] ELSE update[c]]

Merge(s, update) ==
    [c \in Channels |->
        IF c \notin DOMAIN update THEN s[c]
        ELSE IF c \in Appending THEN s[c] \o update[c]
        ELSE IF c \in LastValue THEN update[c] ELSE s[c] + update[c]]

\* What a channel holds before anything is written to it.
Blank(c) == IF c \in Appending THEN << >>
            ELSE IF c \in LastValue THEN None ELSE 0

\* Mutants: a field of the last application is not reset.
NewState_KeepsKyc(messages) ==
    [c \in Channels \ {"kyc_result"} |->
        IF c = "messages" THEN messages ELSE Blank(c)]
NewState_KeepsSummary(messages) ==
    [c \in Channels \ {"compressed_summary"} |->
        IF c = "messages" THEN messages ELSE Blank(c)]

\* new_state() with the given messages: the input of a fresh application.
NewState(messages) ==
    [c \in Channels |-> IF c = "messages" THEN messages ELSE Blank(c)]

-----------------------------------------------------------------------------
(* Reflection notes and the reflector's failure taxonomy.                  *)

Retryable == {"mcp_bureau_check_failure", "mcp_applicant_lookup_failure",
              "llm_kyc_failure", "llm_credit_failure",
              "llm_rationale_failure", "credit_assembly_error",
              "low_confidence_or_missing_output"}
Replan == {"intake_validation_error", "missing_application_payload"}

Classify(trigger) == IF trigger \in Retryable THEN "retry"
                     ELSE IF trigger \in Replan THEN "replan"
                     ELSE "escalate_to_human"

Note(trigger, action) == [triggered_by |-> trigger, action_taken |-> action]

Noted(trigger, action) == [reflection_log |-> <<Note(trigger, action)>>]

\* Mutant: the note carries the reflector's class, not the node's own action.
Rejected_Classified(trigger, action) ==
    [reflection_log |-> <<Note(trigger, Classify(trigger))>>,
     next_node |-> "reflector"]

\* Intake's notes name the reflector as well; only the supervisor's edge reads
\* next_node, so the name is without effect.
Rejected(trigger, action) ==
    [reflection_log |-> <<Note(trigger, action)>>, next_node |-> "reflector"]

LastOf(seq) == seq[Len(seq)]

-----------------------------------------------------------------------------
(* Context preparation: a thread is summarised once it is long, and the    *)
(* summary is then reused.  A summary is known by the number of messages   *)
(* it stands for; a failing summariser leaves the thread without one.      *)

\* summarize_if_long, and what is left of it when its LLM call fails.
Summaries(messages) ==
    IF Len(messages) <= Threshold THEN {None}
    ELSE {None, Len(messages) - KeepRecent}

PrepareContext(s) ==
    IF s.compressed_summary # None THEN {s.compressed_summary}
    ELSE Summaries(s.messages)

\* What intake reads back from long-term memory, by the consolidation that
\* wrote it; a failing search is empty.
Recall == IF MemoryEnabled THEN {<< >>, memory} ELSE {<< >>}

-----------------------------------------------------------------------------
(* Node functions: the updates each may return.                            *)

\* Mutants: KYC is taken as done; a completed thread drafts its offer again.
Dispatch_KycAssumed(s) ==
    IF s.applicant = None THEN "intake"
    ELSE IF s.credit_assessment = None THEN "credit_assessment"
    ELSE IF s.offer = None THEN "offer_draft" ELSE "END"
Dispatch_Redraft(s) ==
    IF s.applicant = None THEN "intake"
    ELSE IF s.kyc_result = None THEN "kyc_check"
    ELSE IF s.credit_assessment = None THEN "credit_assessment"
    ELSE "offer_draft"

Dispatch(s) ==
    IF s.applicant = None THEN "intake"
    ELSE IF s.kyc_result = None THEN "kyc_check"
    ELSE IF s.credit_assessment = None THEN "credit_assessment"
    ELSE IF s.offer = None THEN "offer_draft" ELSE "END"

Supervisor(s) == {[next_node |-> Dispatch(s)]}

Intake(s) ==
    IF s.messages = << >>
    THEN {Rejected("missing_application_payload", "escalate_to_human")}
    ELSE LET a == LastOf(s.messages) IN
         IF a \notin Applications \ Malformed
         THEN {Rejected("intake_validation_error", "retry")}
         ELSE {[applicant |-> a,
                next_node |-> "kyc_check",
                compressed_summary |-> summary,
                long_term_memory_hits |-> hits,
                messages |-> <<"intake">>,
                quarantined_inputs |->
                    IF Notes[a] = "none" THEN << >> ELSE <<a>>,
                compliance_flags |->
                    IF Notes[a] = "suspicious"
                    THEN <<"suspected_prompt_injection_in_free_text">>
                    ELSE << >>] :
                  summary \in PrepareContext(s), hits \in Recall}

KycCheck(s) ==
    IF s.applicant = None
    THEN {Noted("missing_prerequisite_state", "escalate_to_human")}
    ELSE LET status == ApplyKycPolicy(LookupOf(s.applicant))
         IN  {Noted("mcp_applicant_lookup_failure", "retry"),
              Noted("llm_kyc_failure", "retry")}
             \cup
             {[kyc_result |-> [status |-> status, confidence |-> c],
               next_node |-> "credit_assessment",
               compressed_summary |-> summary,
               messages |-> <<"kyc_check">>,
               compliance_flags |-> IF status = "fail"
                                    THEN <<"kyc_fail_referral">> ELSE << >>] :
                 c \in Confidences, summary \in PrepareContext(s)}

\* The explanation of a gated decision: the LLM's, with its confidence for an
\* approval only, or the stub written in its place when the LLM fails.
Rationales(decision) ==
    {[rationale |-> "llm",
      confidence |-> IF decision = "approve" THEN c
                     ELSE BaseConfidence(decision)] : c \in Confidences}

StubRationale(decision) ==
    [rationale |-> "stub", confidence |-> BaseConfidence(decision)]

RationaleFailed(s) ==
    \E i \in 1..Len(s.reflection_log) :
        s.reflection_log[i].triggered_by = "llm_rationale_failure"

Assessed(bureau, decision, explanation) ==
    [credit_assessment |->
        [thin_file |-> bureau.thin_file, score |-> bureau.synthetic_score,
         dti |-> bureau.dti, decision |-> decision,
         rationale |-> explanation.rationale,
         confidence |-> explanation.confidence],
     next_node |-> "offer_draft",
     messages |-> <<"credit_assessment">>]

CreditAssessment(s) ==
    IF s.applicant = None
    THEN {Noted("missing_prerequisite_state", "escalate_to_human")}
    ELSE {Noted("mcp_bureau_check_failure", "retry")}
         \cup
         UNION {LET decision == ApplyPolicyGates(b, Income[s.applicant])
                IN  {Assessed(b, decision, r) : r \in Rationales(decision)}
                    \cup
                    {IF RationaleFailed(s)
                     THEN Noted("llm_rationale_failure", "retry")
                     ELSE Assessed(b, decision, StubRationale(decision))} :
                b \in BureauOf(s.applicant)}

\* The states offer_draft_node raises WorkerPreconditionError for.
OfferPreconditionBroken(s) ==
    /\ ~(s.kyc_result # None /\ s.kyc_result.status = "fail")
    /\ s.credit_assessment = None \/ s.applicant = None

OfferDraft(s) ==
    LET failed == s.kyc_result # None /\ s.kyc_result.status = "fail"
        credit == s.credit_assessment
    IN  [offer |-> IF failed THEN Referral("kyc_fail")
                   ELSE PriceOffer(credit.decision, credit.score,
                                   Income[s.applicant]),
         next_node |-> "END",
         messages |-> <<"offer_draft">>]

Escalated(trigger) ==
    [reflection_log |-> <<Note(trigger, "escalate_to_human")>>,
     retry_count |-> 1]

\* Mutant: the thin-file escalation leaves no referral for the human queue.
ThinFileEscalated_NoReferral == Escalated("thin_file_manual_underwriting")

ThinFileEscalated ==
    [reflection_log |-> <<Note("thin_file_manual_underwriting",
                               "escalate_to_human")>>,
     retry_count |-> 1, offer |-> Referral("thin_file")]

\* Mutant: a reflection within the budget is not charged to it.
Charged_Free == [retry_count |-> 0]

Charged == [retry_count |-> 1]

Reflector(s) ==
    LET kyc == s.kyc_result
        ca  == s.credit_assessment
        log == s.reflection_log
    IN  {IF s.retry_count >= MaxRetries
         THEN Escalated("max_retries_exceeded")
         ELSE IF kyc # None /\ kyc.status = "manual_review"
         THEN Escalated("kyc_manual_review")
         ELSE IF ca # None /\ ca.thin_file
         THEN ThinFileEscalated
         ELSE IF log = << >>
         THEN [reflection_log |-> <<Note("low_confidence_or_missing_output",
                                         "retry")>>,
               retry_count |-> 1]
         ELSE IF Classify(LastOf(log).triggered_by) # "escalate_to_human"
                 /\ s.retry_count >= MaxRetries - 1
         THEN Escalated("max_retries_exceeded")
         ELSE Charged}

-----------------------------------------------------------------------------
(* Conditional edges: the node a merged state is routed to.                *)

AfterSupervisor(s) == IF s.next_node = None THEN "intake" ELSE s.next_node

AfterIntake(s) == IF s.applicant # None THEN "kyc_check" ELSE "reflector"

\* Mutant: manual review is not told apart from a pass.
KycInDoubt_Confidence(kyc) == kyc.confidence < MinConfidence

KycInDoubt(kyc) ==
    kyc.status = "manual_review" \/ kyc.confidence < MinConfidence

\* Mutant: whatever did not pass is sent to offer_draft.
AfterKyc_Referred(s) ==
    IF s.kyc_result = None THEN "reflector"
    ELSE IF s.kyc_result.status # "pass" THEN "offer_draft"
    ELSE "credit_assessment"

AfterKyc(s) ==
    IF s.kyc_result = None THEN "reflector"
    ELSE IF s.kyc_result.status = "fail" THEN "offer_draft"
    ELSE IF KycInDoubt(s.kyc_result) THEN "reflector"
    ELSE "credit_assessment"

AfterCredit(s) ==
    LET ca == s.credit_assessment
    IN  IF ca = None THEN "reflector"
        ELSE IF ca.confidence < MinConfidence THEN "reflector"
        ELSE IF ca.decision = "decline" THEN "offer_draft"
        ELSE IF ca.decision = "manual_underwriting" \/ ca.thin_file
             THEN "reflector" ELSE "offer_draft"

\* Mutant: the route gives up one reflection early.
RetriesSpent_Early(s) == s.retry_count >= MaxRetries - 1

RetriesSpent(s) == s.retry_count >= MaxRetries

\* Mutant: a retry goes to the stage that usually fails.
RetryStage_Credit(s) == IF s.applicant = None THEN "intake"
                        ELSE "credit_assessment"

RetryStage(s) == IF s.applicant = None THEN "intake"
                 ELSE IF s.kyc_result = None THEN "kyc_check"
                 ELSE "credit_assessment"

AfterReflection(s) ==
    LET action == LastOf(s.reflection_log).action_taken
    IN  IF RetriesSpent(s) \/ s.reflection_log = << >> THEN "END"
        ELSE IF action = "retry" THEN RetryStage(s)
        ELSE IF action = "replan"
             THEN IF s.applicant = None THEN "intake" ELSE "kyc_check"
        ELSE "END"

-----------------------------------------------------------------------------
(* Supersteps.                                                             *)

Scheduled(n) == running /\ node = n

\* A superstep ends: the update is merged and the next node scheduled.  The
\* invocation returns at the end of the graph and before an interrupt node.
Commit(merged, dest) ==
    /\ state' = merged
    /\ node' = dest
    /\ running' = (dest # "END" /\ dest \notin InterruptBefore)
    /\ graph_path' = Append(graph_path, node)
    /\ UNCHANGED <<inherited, used>>

SupervisorStep ==
    /\ Scheduled("supervisor")
    /\ \E u \in Supervisor(state) :
          LET s == Merge(state, u) IN Commit(s, AfterSupervisor(s))
    /\ UNCHANGED memory

IntakeStep ==
    /\ Scheduled("intake")
    /\ \E u \in Intake(state) :
          LET s == Merge(state, u) IN Commit(s, AfterIntake(s))
    /\ UNCHANGED memory

KycCheckStep ==
    /\ Scheduled("kyc_check")
    /\ \E u \in KycCheck(state) :
          LET s == Merge(state, u) IN Commit(s, AfterKyc(s))
    /\ UNCHANGED memory

CreditAssessmentStep ==
    /\ Scheduled("credit_assessment")
    /\ \E u \in CreditAssessment(state) :
          LET s == Merge(state, u) IN Commit(s, AfterCredit(s))
    /\ UNCHANGED memory

ReflectorStep ==
    /\ Scheduled("reflector")
    /\ \E u \in Reflector(state) :
          LET s == Merge(state, u) IN Commit(s, AfterReflection(s))
    /\ UNCHANGED memory

\* offer_draft has no edge to the reflector: a broken precondition fails the
\* invocation and leaves the node pending in the checkpoint.
OfferDraftStep ==
    /\ Scheduled("offer_draft")
    /\ IF OfferPreconditionBroken(state)
       THEN running' = FALSE
            /\ UNCHANGED <<state, node, graph_path, inherited, used>>
       ELSE Commit(Merge(state, OfferDraft(state)), "memory_consolidation")
    /\ UNCHANGED memory

-----------------------------------------------------------------------------
(* Consolidation.  The extractor answers with any number of candidates of   *)
(* any value, none of which is compared with the thread; those that pass   *)
(* the filter are upserted one by one, each under a fresh id.  Every       *)
(* failure is swallowed, so the store keeps the facts written before it:   *)
(* all of a consolidation's facts, some, or none.                          *)

Batches == [session : Nat, stored : 1..MaxFacts]

\* Mutant: what LangMem extracted is stored before the fallback's is.
Consolidated_Both ==
    {memory} \cup
    {memory \o << [session |-> used.submissions, stored |-> i],
                  [session |-> used.submissions, stored |-> j] >> :
        i, j \in 1..MaxFacts}

\* What the store may hold once the node has returned, or was killed.
Consolidated ==
    {memory} \cup
    IF MemoryEnabled
    THEN {Append(memory, [session |-> used.submissions, stored |-> n]) :
             n \in 1..MaxFacts}
    ELSE {}

MemoryConsolidationStep ==
    /\ Scheduled("memory_consolidation")
    /\ memory' \in Consolidated
    /\ Commit(state, "END")

NodeStep == \/ SupervisorStep \/ IntakeStep \/ KycCheckStep
            \/ CreditAssessmentStep \/ ReflectorStep \/ OfferDraftStep
            \/ MemoryConsolidationStep

-----------------------------------------------------------------------------
(* Inputs of the thread.  An input is merged like an update and restarts   *)
(* the graph at its entry point, whatever was pending.                     *)

Accept(update) ==
    /\ ~running
    /\ state' = Merge(state, update)
    /\ node' = "supervisor"
    /\ running' = TRUE
    /\ graph_path' = << >>

\* cli.py and app.py: a new_state() with the payload as its only message.
Submit(a) ==
    /\ used.submissions < MaxSubmissions
    /\ Accept(NewState(<<a>>))
    /\ inherited' = [messages |-> Len(state.messages),
                     retries |-> state.retry_count,
                     log |-> Len(state.reflection_log),
                     quarantined |-> Len(state.quarantined_inputs),
                     flags |-> Len(state.compliance_flags)]
    /\ used' = [used EXCEPT !.submissions = @ + 1]
    /\ UNCHANGED memory

\* A message added to a thread that already holds an application.
FollowUp ==
    /\ used.submissions > 0
    /\ used.follow_ups < MaxFollowUps
    /\ Accept([messages |-> <<"question">>])
    /\ used' = [used EXCEPT !.follow_ups = @ + 1]
    /\ UNCHANGED <<memory, inherited>>

\* invoke(None): the pending node of the checkpoint runs next.
Resume ==
    /\ ~running
    /\ node # "END"
    /\ running' = TRUE
    /\ UNCHANGED <<state, node, memory, graph_path, inherited, used>>

\* The process dies, or a node raises, before its superstep commits.  The one
\* effect that outlives it is what the store was given before that.
Crash ==
    /\ running
    /\ used.crashes < MaxCrashes
    /\ running' = FALSE
    /\ memory' \in IF node = "memory_consolidation" THEN Consolidated
                   ELSE {memory}
    /\ used' = [used EXCEPT !.crashes = @ + 1]
    /\ UNCHANGED <<state, node, graph_path, inherited>>

-----------------------------------------------------------------------------
Init ==
    /\ state = [c \in Channels |-> Blank(c)]
    /\ node = "END"
    /\ running = FALSE
    /\ memory = << >>
    /\ graph_path = << >>
    /\ inherited = [messages |-> 0, retries |-> 0, log |-> 0,
                    quarantined |-> 0, flags |-> 0]
    /\ used = [submissions |-> 0, follow_ups |-> 0, crashes |-> 0]

Next == \/ NodeStep
        \/ \E a \in Applications : Submit(a)
        \/ FollowUp
        \/ Resume
        \/ Crash

Spec == Init /\ [][Next]_vars

\* Once invoked, LangGraph runs the scheduled node: every provider, MCP and
\* retrieval call a node makes is taken to return or to fail.
FairSpec == Spec /\ WF_vars(NodeStep)

-----------------------------------------------------------------------------
(* Types.                                                                  *)

Optional(S) == S \cup {None}

Message == Applications \cup Workers \cup {"question"}

KycResult == [status : KycStatuses, confidence : 0..100]

Assessment == [thin_file : BOOLEAN, score : 300..900, dti : Nat,
               decision : Decisions, rationale : {"llm", "stub"},
               confidence : 0..100]

Offer == [principal : Nat, apr : Nat, term : Nat,
          conditions : Decisions \cup {"kyc_fail", "thin_file",
                                       "manual_pricing", "indicative"}]

Triggers == Retryable \cup Replan \cup
            {"kyc_manual_review", "thin_file_manual_underwriting",
             "max_retries_exceeded", "missing_prerequisite_state"}

\* No node writes a "replan" note, though the schema and the router know one.
ReflectionNote == [triggered_by : Triggers,
                   action_taken : {"retry", "escalate_to_human"}]

Flags == {"suspected_prompt_injection_in_free_text", "kyc_fail_referral"}

States ==
    [messages : Seq(Message), applicant : Optional(Applications),
     kyc_result : Optional(KycResult),
     credit_assessment : Optional(Assessment), offer : Optional(Offer),
     next_node : Optional(Nodes \cup {"END"}),
     retry_count : Nat, reflection_log : Seq(ReflectionNote),
     quarantined_inputs : Seq(Applications),
     compressed_summary : Optional(Nat),
     long_term_memory_hits : Optional(Seq(Batches)),
     compliance_flags : Seq(Flags)]

\* Python's None is none of the values a field may hold instead.
ASSUME NoneAssumption ==
    /\ None \notin Applications \cup Nodes \cup {"END"}
    /\ None \notin KycResult \cup Assessment \cup Offer
    /\ None \notin [principal : Nat, apr : Nat, term : Nat]

\* The thread, its schedule and its counters have the shape the code gives
\* them: every Pydantic payload validates, and no note ever asks to replan.
TypeOK ==
    /\ state \in States
    /\ node \in Nodes \cup {"END"}
    /\ running \in BOOLEAN
    /\ memory \in Seq(Batches)
    /\ graph_path \in Seq(Nodes)
    /\ inherited \in [messages : Nat, retries : Nat, log : Nat,
                      quarantined : Nat, flags : Nat]
    /\ used \in [submissions : 0..MaxSubmissions,
                 follow_ups : 0..MaxFollowUps, crashes : 0..MaxCrashes]

-----------------------------------------------------------------------------
(* Properties.  Those named here hold of the code; those the code does not *)
(* keep are in LoanGraphClaims.                                            *)

KycIs(status) == state.kyc_result # None /\ state.kyc_result.status = status

\* Every node finds what it reads, whatever inputs, resumes and crashes led
\* to it: the "unreachable" branches of kyc_check_node, credit_assessment_node
\* and offer_draft_node are, and intake never parses a worker's own message.
WorkerPreconditions ==
    /\ node \in {"supervisor", "intake"} =>
          /\ state.messages # << >>
          /\ LastOf(state.messages) \in Applications \cup {"question"}
    /\ node = "intake" => state.applicant = None
    /\ node = "kyc_check" => state.applicant # None /\ state.kyc_result = None
    /\ node = "credit_assessment" =>
          state.applicant # None /\ state.kyc_result # None
    /\ node = "offer_draft" => ~OfferPreconditionBroken(state)
    /\ node = "memory_consolidation" => state.offer # None

\* The KYC status and the credit decision held by the thread are the gates'
\* verdicts on the application held by the thread, never those of an earlier
\* application submitted on it.
PolicyDecides ==
    LET a   == state.applicant
        kyc == state.kyc_result
        ca  == state.credit_assessment
    IN  /\ kyc # None =>
              a # None /\ kyc.status = ApplyKycPolicy(LookupOf(a))
        /\ ca # None =>
              /\ a # None
              /\ \E b \in BureauOf(a) :
                    /\ ca.thin_file = b.thin_file
                    /\ ca.score = b.synthetic_score
                    /\ ca.dti = b.dti
                    /\ ca.decision = ApplyPolicyGates(b, Income[a])

\* Money is offered only on an approval of an applicant KYC did not fail, who
\* is not thin-file, and at the ceiling of the tier of the assessed score.
OfferJustified ==
    state.offer # None /\ state.offer.principal > 0 =>
        /\ ~KycIs("fail")
        /\ state.credit_assessment # None
        /\ state.credit_assessment.decision = "approve"
        /\ ~state.credit_assessment.thin_file
        /\ state.offer.principal =
              OfferConstraints(state.credit_assessment.score,
                               Income[state.applicant]).principal

\* The strengthening that makes the three above inductive: a stage is reached
\* over the one before it, intake is only ever given a client's message, and
\* nothing but a new input runs after an offer but its consolidation, unless
\* KYC failed (the supervisor re-assesses those: see LoanGraphClaims).
ThreadInvariant ==
    /\ state.kyc_result # None => state.applicant # None
    /\ state.credit_assessment # None => state.kyc_result # None
    /\ node = "reflector" /\ state.applicant = None =>
          /\ state.messages # << >>
          /\ LastOf(state.messages) \in Applications \cup {"question"}
    /\ state.offer # None => state.kyc_result # None
    /\ state.offer # None /\ ~KycIs("fail") =>
          /\ state.credit_assessment # None
          /\ node \in {"supervisor", "memory_consolidation", "END"}

\* Without follow-up messages, nobody is assessed before KYC has passed, and
\* no offer rests on an approval below the confidence floor.
GatesHold ==
    used.follow_ups = 0 =>
        /\ state.credit_assessment # None \/ node = "credit_assessment" =>
              KycIs("pass")
        /\ state.offer # None /\ state.offer.principal > 0 =>
              state.credit_assessment.confidence >= MinConfidence

\* A run that ended left an outcome: an offer, or a last note that hands the
\* application to a human.
OutcomeRecorded ==
    node = "END" /\ used.submissions > 0 =>
        \/ state.offer # None
        \/ /\ state.reflection_log # << >>
           /\ LastOf(state.reflection_log).action_taken = "escalate_to_human"

\* The most supersteps one input may cost.  LangGraph aborts an invocation
\* after 25, so no retry loop ever meets that limit.
StepLimit == 8

Visits(n) == Cardinality({i \in 1..Len(graph_path) : graph_path[i] = n})

\* One input runs a bounded number of nodes and at most MAX_RETRIES
\* reflections, over any mix of failures, crashes and resumes.
BoundedRun == Len(graph_path) <= StepLimit /\ Visits("reflector") <= MaxRetries

\* The flags raised since an application was submitted are exactly those it
\* earned: one per KYC failure and one per suspicious text, however often its
\* nodes were retried or its run was interrupted.
RaisedSince(flag) ==
    Cardinality({i \in (inherited.flags + 1)..Len(state.compliance_flags) :
                    state.compliance_flags[i] = flag})

ComplianceTrail ==
    /\ RaisedSince("kyc_fail_referral") = IF KycIs("fail") THEN 1 ELSE 0
    /\ RaisedSince("suspected_prompt_injection_in_free_text") =
          IF state.applicant # None /\ Notes[state.applicant] = "suspicious"
          THEN 1 ELSE 0

\* A cached summary of the thread was made during the current application:
\* it stands for everything said before it, but for the recent messages.
SummaryIsCurrent ==
    state.compressed_summary # None =>
        state.compressed_summary + KeepRecent > inherited.messages

\* Long-term memory holds facts of an application only once its outcome is
\* an offer, and they were written by one consolidation for each input of the
\* application, and by one more for each process that died between the
\* store's writes and the checkpoint.
Consolidations == {i \in 1..Len(memory) : memory[i].session = used.submissions}

RememberedOnce ==
    /\ Consolidations # {} => state.offer # None
    /\ Cardinality(Consolidations) <= 1 + used.follow_ups + used.crashes

\* On a thread's first application every thin file sent to manual
\* underwriting ends with a referral offer for the human queue.  A follow-up
\* or a later application may meet a retry budget that is spent already, and
\* is then handed over without one.
ThinFileReferral ==
    node = "END" /\ used.submissions = 1 /\ used.follow_ups = 0
        /\ state.credit_assessment # None /\ state.credit_assessment.thin_file =>
        state.offer # None

\* Facts settle: until the next submission, a profile or KYC result that is
\* set is never replaced, and after an offer neither the offer nor the credit
\* decision changes.  Where KYC failed they do: a follow-up has the applicant
\* re-assessed, and a thin file then overwrites the KYC refusal.
DecidedStaysDecided ==
    [][used'.submissions = used.submissions =>
        /\ state.applicant # None => state'.applicant = state.applicant
        /\ state.kyc_result # None => state'.kyc_result = state.kyc_result
        /\ state.offer # None /\ ~KycIs("fail") =>
              /\ state'.offer = state.offer
              /\ state'.credit_assessment = state.credit_assessment]_vars

\* An invocation that is not killed any more reaches the end of the graph,
\* whatever crashes and follow-ups came before: no node raises, and no loop
\* outlives the retry budget.  (Of a graph compiled without interrupts.)
RunCompletes == running /\ used.crashes = MaxCrashes ~> node = "END"
=============================================================================
