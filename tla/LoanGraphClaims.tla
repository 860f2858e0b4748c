--------------------------- MODULE LoanGraphClaims ---------------------------
(***************************************************************************)
(* What the repository's comments, tests and configuration say of the      *)
(* graph and the graph does not keep.  Each formula states a quoted        *)
(* sentence; a run of its own shows the shortest execution that breaks it. *)
(***************************************************************************)
EXTENDS LoanGraph

\* tests/test_multi_turn_compression.py:23-26: retry_count and reflection_log
\* "are plain (last-value) channels, so a fresh new_state()-shaped input
\* genuinely starts a new application on the same thread".  Their reducers add
\* and append (state/schema.py:135-136), so the second application inherits
\* the retries and the failures of the first.
FreshApplicationStartsClean ==
    node = "supervisor" /\ used.follow_ups = 0 =>
        state.retry_count = 0 /\ state.reflection_log = << >>

\* config.yaml:30-32: a credit assessment below min_confidence "is routed to
\* the reflector instead of the next stage".  After the reflector escalates
\* it, a follow-up message has the supervisor send it to offer_draft.
LowConfidenceIsNotOffered ==
    state.offer # None /\ state.offer.principal > 0 =>
        state.credit_assessment.confidence >= MinConfidence

Stubbed == state.credit_assessment # None
           /\ state.credit_assessment.rationale = "stub"

\* tests/test_credit_agent.py:4-5: the credit node "stubs a fallback rationale
\* exactly once when the LLM rationale call fails, then escalates on a second
\* such failure".  A stubbed failure leaves no note (credit_agent.py:188-207),
\* so the count it is decided by stays zero and it is stubbed every time.
StubbedOnce ==
    [][Stubbed /\ node = "credit_assessment" /\ node' # node =>
        ~(Stubbed' /\ Len(state'.messages) > Len(state.messages))]_vars
=============================================================================
