----------------------- MODULE LoanGraphOutcomeProofs -----------------------
(***************************************************************************)
(* How a run ends and what it leaves behind, for every instance: its       *)
(* outcome, its length, its compliance flags, its summary, its facts in    *)
(* long-term memory.                                                       *)
(*                                                                         *)
(* The first part says, node by node, what a superstep does to every       *)
(* channel once Safety holds; the invariants of the other parts are proved *)
(* from that description alone.                                            *)
(***************************************************************************)
EXTENDS LoanGraphSafetyProofs, FiniteSetTheorems

-----------------------------------------------------------------------------
(* What a superstep leaves alone, and what it writes.                      *)

\* The channels of the application itself and of its budget.
SameVerdicts ==
    /\ state'.applicant = state.applicant
    /\ state'.kyc_result = state.kyc_result
    /\ state'.credit_assessment = state.credit_assessment
    /\ state'.offer = state.offer

\* The channels a run accumulates, but for the notes and the retry count.
SameHistory ==
    /\ state'.messages = state.messages
    /\ state'.compliance_flags = state.compliance_flags
    /\ state'.compressed_summary = state.compressed_summary

SameNotes ==
    /\ state'.reflection_log = state.reflection_log
    /\ state'.retry_count = state.retry_count

\* One note is added and nothing else is written, but the name of the next
\* node; the retry budget is not charged.
OnlyNoted(trigger, action) ==
    /\ SameVerdicts /\ SameHistory
    /\ state'.reflection_log =
          state.reflection_log \o <<Note(trigger, action)>>
    /\ state'.retry_count = state.retry_count

\* Every superstep lengthens the path by its node and touches no counter.
LEMMA StepFrame ==
    ASSUME TypeOK, Safety, NodeStep
    PROVE  /\ graph_path' = Append(graph_path, node)
           /\ UNCHANGED <<inherited, used>>
           /\ node # "memory_consolidation" => memory' = memory
           /\ node \in Nodes
<1>1. node = "offer_draft" => ~OfferPreconditionBroken(state)
  BY DEF Safety, WorkerPreconditions
<1> QED  BY <1>1
  DEF NodeStep, SupervisorStep, IntakeStep, KycCheckStep,
      CreditAssessmentStep, ReflectorStep, OfferDraftStep,
      MemoryConsolidationStep, Commit, Scheduled, Nodes, Workers

LEMMA SupervisorEffect ==
    ASSUME TypeOK, SupervisorStep
    PROVE  /\ node = "supervisor" /\ node' = Dispatch(state)
           /\ SameVerdicts /\ SameHistory /\ SameNotes
<1>1. /\ node = "supervisor"
      /\ state' = Merge(state, [next_node |-> Dispatch(state)])
      /\ node' = AfterSupervisor(state')
  BY DEF SupervisorStep, Supervisor, Commit, Scheduled
<1>2. SameVerdicts /\ SameHistory /\ SameNotes
      /\ state'.next_node = Dispatch(state)
  BY <1>1, MergeChannels DEF SameVerdicts, SameHistory, SameNotes
<1>3. node' = Dispatch(state)
  BY <1>1, <1>2, NoneAssumption
     DEF AfterSupervisor, Dispatch, Nodes, Workers
<1> QED  BY <1>1, <1>2, <1>3

\* Intake rejects the last message, or makes it the applicant and raises a
\* flag if its text is suspicious.
LEMMA IntakeEffect ==
    ASSUME TypeOK, Safety, IntakeStep
    PROVE  /\ node = "intake" /\ state.messages # << >>
           /\ state.applicant = None /\ state.kyc_result = None
           /\ state.credit_assessment = None /\ state.offer = None
           /\ \/ /\ node' = "reflector"
                 /\ OnlyNoted("intake_validation_error", "retry")
              \/ /\ node' = "kyc_check"
                 /\ LastOf(state.messages) \in Applications \ Malformed
                 /\ state'.applicant = LastOf(state.messages)
                 /\ state'.kyc_result = None
                 /\ state'.credit_assessment = None /\ state'.offer = None
                 /\ SameNotes
                 /\ state'.messages = state.messages \o <<"intake">>
                 /\ state'.compressed_summary \in PrepareContext(state)
                 /\ state'.compliance_flags =
                       IF Notes[state'.applicant] = "suspicious"
                       THEN state.compliance_flags \o
                            <<"suspected_prompt_injection_in_free_text">>
                       ELSE state.compliance_flags
<1>1. PICK u \in Intake(state) :
        /\ node = "intake"
        /\ state' = Merge(state, u)
        /\ node' = AfterIntake(state')
  BY DEF IntakeStep, Commit, Scheduled
<1>2. /\ state.messages # << >>
      /\ state.applicant = None /\ state.kyc_result = None
      /\ state.credit_assessment = None /\ state.offer = None
  BY <1>1 DEF Safety, WorkerPreconditions, ThreadInvariant
<1>3. CASE LastOf(state.messages) \notin Applications \ Malformed
  <2>1. u = Rejected("intake_validation_error", "retry")
    BY <1>1, <1>2, <1>3 DEF Intake
  <2>2. /\ DOMAIN u = {"reflection_log", "next_node"}
        /\ u.reflection_log = <<Note("intake_validation_error", "retry")>>
    BY <2>1 DEF Rejected
  <2>3. OnlyNoted("intake_validation_error", "retry")
    <3>1. SameVerdicts /\ SameHistory
      BY <1>1, <2>2, MergeChannels DEF SameVerdicts, SameHistory
    <3>2. /\ state'.reflection_log = state.reflection_log \o u.reflection_log
          /\ state'.retry_count = state.retry_count
      BY <1>1, <2>2, MergeChannels
    <3> QED  BY <2>2, <3>1, <3>2 DEF OnlyNoted
  <2>4. node' = "reflector"
    BY <1>1, <1>2, <2>3 DEF AfterIntake, OnlyNoted, SameVerdicts
  <2> QED  BY <1>1, <1>2, <2>3, <2>4
<1>4. CASE LastOf(state.messages) \in Applications \ Malformed
  <2> DEFINE a == LastOf(state.messages)
             raised == IF Notes[a] = "suspicious"
                       THEN <<"suspected_prompt_injection_in_free_text">>
                       ELSE << >>
  <2>1. /\ DOMAIN u = {"applicant", "next_node", "compressed_summary",
                       "long_term_memory_hits", "messages",
                       "quarantined_inputs", "compliance_flags"}
        /\ u.applicant = a /\ u.messages = <<"intake">>
        /\ u.compressed_summary \in PrepareContext(state)
        /\ u.compliance_flags = raised
    BY <1>1, <1>2, <1>4 DEF Intake
  <2> HIDE DEF a, raised
  <2>2. /\ state'.applicant = a
        /\ state'.messages = state.messages \o <<"intake">>
        /\ state'.compressed_summary \in PrepareContext(state)
        /\ state'.compliance_flags = state.compliance_flags \o raised
    <3>1. /\ state'.applicant = u.applicant
          /\ state'.messages = state.messages \o u.messages
          /\ state'.compressed_summary = u.compressed_summary
          /\ state'.compliance_flags =
                state.compliance_flags \o u.compliance_flags
      BY <1>1, <2>1, MergeChannels
    <3> QED  BY <2>1, <3>1
  <2>3. /\ state'.kyc_result = None
        /\ state'.credit_assessment = None /\ state'.offer = None
        /\ SameNotes
    BY <1>1, <1>2, <2>1, MergeChannels DEF SameNotes
  <2>4. state.compliance_flags \o << >> = state.compliance_flags
    BY DEF TypeOK, States
  <2>5. state'.compliance_flags =
           IF Notes[a] = "suspicious"
           THEN state.compliance_flags \o
                <<"suspected_prompt_injection_in_free_text">>
           ELSE state.compliance_flags
    BY <2>2, <2>4 DEF raised
  <2>6. a \in Applications /\ a # None
    BY <1>4, NoneAssumption DEF a
  <2>7. node' = "kyc_check"
    BY <1>1, <2>2, <2>6 DEF AfterIntake
  <2> QED  BY <1>1, <1>2, <1>4, <2>2, <2>3, <2>5, <2>7 DEF a
<1> QED  BY <1>3, <1>4

\* KYC fails with a note, or sets the gate's status and flags a failure.
LEMMA KycCheckEffect ==
    ASSUME TypeOK, Safety, KycCheckStep
    PROVE  /\ node = "kyc_check"
           /\ state.applicant # None /\ state.kyc_result = None
           /\ state.credit_assessment = None /\ state.offer = None
           /\ \/ /\ node' = "reflector"
                 /\ \E t \in {"mcp_applicant_lookup_failure",
                              "llm_kyc_failure"} : OnlyNoted(t, "retry")
              \/ /\ node' = AfterKyc(state')
                 /\ node' \in {"reflector", "offer_draft", "credit_assessment"}
                 /\ state'.applicant = state.applicant
                 /\ state'.kyc_result # None
                 /\ state'.kyc_result.status =
                       ApplyKycPolicy(LookupOf(state.applicant))
                 /\ state'.credit_assessment = None /\ state'.offer = None
                 /\ SameNotes
                 /\ state'.messages = state.messages \o <<"kyc_check">>
                 /\ state'.compressed_summary \in PrepareContext(state)
                 /\ state'.compliance_flags =
                       IF KycIs("fail")'
                       THEN state.compliance_flags \o <<"kyc_fail_referral">>
                       ELSE state.compliance_flags
<1>1. PICK u \in KycCheck(state) :
        /\ node = "kyc_check"
        /\ state' = Merge(state, u)
        /\ node' = AfterKyc(state')
  BY DEF KycCheckStep, Commit, Scheduled
<1>2. /\ state.applicant # None /\ state.kyc_result = None
      /\ state.credit_assessment = None /\ state.offer = None
  BY <1>1 DEF Safety, WorkerPreconditions, ThreadInvariant
<1>3. ASSUME NEW t, u = Noted(t, "retry")
      PROVE  node' = "reflector" /\ OnlyNoted(t, "retry")
  <2>1. DOMAIN u = {"reflection_log"} /\ u.reflection_log = <<Note(t, "retry")>>
    BY <1>3 DEF Noted
  <2>2. SameVerdicts /\ SameHistory
    BY <1>1, <2>1, MergeChannels DEF SameVerdicts, SameHistory
  <2>3. /\ state'.reflection_log = state.reflection_log \o u.reflection_log
        /\ state'.retry_count = state.retry_count
    BY <1>1, <2>1, MergeChannels
  <2>4. OnlyNoted(t, "retry")
    BY <2>1, <2>2, <2>3 DEF OnlyNoted
  <2> QED  BY <1>1, <1>2, <2>2, <2>4 DEF AfterKyc, SameVerdicts
<1> DEFINE status == ApplyKycPolicy(LookupOf(state.applicant))
           raised == IF status = "fail" THEN <<"kyc_fail_referral">>
                     ELSE << >>
<1>4. \/ \E t \in {"mcp_applicant_lookup_failure", "llm_kyc_failure"} :
            u = Noted(t, "retry")
      \/ /\ DOMAIN u = {"kyc_result", "next_node", "compressed_summary",
                        "messages", "compliance_flags"}
         /\ \E c \in Confidences :
               u.kyc_result = [status |-> status, confidence |-> c]
         /\ u.compressed_summary \in PrepareContext(state)
         /\ u.messages = <<"kyc_check">>
         /\ u.compliance_flags = raised
  BY <1>1, <1>2 DEF KycCheck
<1> HIDE DEF status, raised
<1>5. CASE DOMAIN u = {"kyc_result", "next_node", "compressed_summary",
                       "messages", "compliance_flags"}
  <2>1. u # Noted("mcp_applicant_lookup_failure", "retry")
        /\ u # Noted("llm_kyc_failure", "retry")
    BY <1>5 DEF Noted
  <2>2. PICK c \in Confidences :
          u.kyc_result = [status |-> status, confidence |-> c]
    BY <1>4, <2>1
  <2>3. /\ u.compressed_summary \in PrepareContext(state)
        /\ u.messages = <<"kyc_check">> /\ u.compliance_flags = raised
    BY <1>4, <2>1
  <2>4. /\ state'.kyc_result = u.kyc_result
        /\ state'.applicant = state.applicant
        /\ state'.messages = state.messages \o u.messages
        /\ state'.compressed_summary = u.compressed_summary
        /\ state'.compliance_flags =
              state.compliance_flags \o u.compliance_flags
        /\ state'.credit_assessment = None /\ state'.offer = None
        /\ SameNotes
    BY <1>1, <1>2, <1>5, MergeChannels DEF SameNotes
  <2>5. status \in KycStatuses /\ c \in 0..100
    BY TuningAssumption DEF ApplyKycPolicy, KycStatuses, status
  <2>6. u.kyc_result \in KycResult
    BY <2>2, <2>5 DEF KycResult
  <2>7. state'.kyc_result # None /\ state'.kyc_result.status = status
    BY <2>2, <2>4, <2>6, NoneAssumption
  <2>8. state.compliance_flags \o << >> = state.compliance_flags
    BY DEF TypeOK, States
  <2>9. state'.compliance_flags =
           IF KycIs("fail")'
           THEN state.compliance_flags \o <<"kyc_fail_referral">>
           ELSE state.compliance_flags
    BY <2>3, <2>4, <2>7, <2>8 DEF raised, KycIs
  <2>10. node' \in {"reflector", "offer_draft", "credit_assessment"}
    BY <1>1 DEF AfterKyc
  <2>11. state'.messages = state.messages \o <<"kyc_check">>
    BY <2>3, <2>4
  <2> QED  BY <1>1, <1>2, <2>3, <2>4, <2>7, <2>9, <2>10, <2>11 DEF status
<1> QED  BY <1>1, <1>2, <1>3, <1>4, <1>5

\* The assessment fails with a note, or is set and nothing is noted.
LEMMA CreditAssessmentEffect ==
    ASSUME TypeOK, Safety, CreditAssessmentStep
    PROVE  /\ node = "credit_assessment" /\ node' = AfterCredit(state')
           /\ node' \in {"reflector", "offer_draft"}
           /\ state.applicant # None /\ state.kyc_result # None
           /\ state.offer # None => KycIs("fail")
           /\ \/ \E t \in {"mcp_bureau_check_failure",
                           "llm_rationale_failure"} : OnlyNoted(t, "retry")
              \/ /\ state'.credit_assessment # None
                 /\ state'.applicant = state.applicant
                 /\ state'.kyc_result = state.kyc_result
                 /\ state'.offer = state.offer
                 /\ SameNotes
                 /\ state'.messages = state.messages \o <<"credit_assessment">>
                 /\ state'.compliance_flags = state.compliance_flags
                 /\ state'.compressed_summary = state.compressed_summary
<1>1. PICK u \in CreditAssessment(state) :
        /\ node = "credit_assessment"
        /\ state' = Merge(state, u)
        /\ node' = AfterCredit(state')
  BY DEF CreditAssessmentStep, Commit, Scheduled
<1>2. /\ state.applicant # None /\ state.kyc_result # None
      /\ state.offer # None => KycIs("fail")
      /\ node' \in {"reflector", "offer_draft"}
  BY <1>1 DEF Safety, WorkerPreconditions, ThreadInvariant, AfterCredit
<1>3. ASSUME NEW t, u = Noted(t, "retry")
      PROVE  OnlyNoted(t, "retry")
  <2>1. DOMAIN u = {"reflection_log"} /\ u.reflection_log = <<Note(t, "retry")>>
    BY <1>3 DEF Noted
  <2>2. SameVerdicts /\ SameHistory
    BY <1>1, <2>1, MergeChannels DEF SameVerdicts, SameHistory
  <2>3. /\ state'.reflection_log = state.reflection_log \o u.reflection_log
        /\ state'.retry_count = state.retry_count
    BY <1>1, <2>1, MergeChannels
  <2> QED  BY <2>1, <2>2, <2>3 DEF OnlyNoted
<1>4. \/ \E t \in {"mcp_bureau_check_failure", "llm_rationale_failure"} :
            u = Noted(t, "retry")
      \/ /\ DOMAIN u = {"credit_assessment", "next_node", "messages"}
         /\ u.messages = <<"credit_assessment">>
  BY <1>1, <1>2 DEF CreditAssessment, Assessed
<1>5. CASE /\ DOMAIN u = {"credit_assessment", "next_node", "messages"}
           /\ u.messages = <<"credit_assessment">>
  <2>1. /\ state'.credit_assessment = u.credit_assessment
        /\ state'.applicant = state.applicant
        /\ state'.kyc_result = state.kyc_result
        /\ state'.offer = state.offer
        /\ SameNotes
        /\ state'.messages = state.messages \o u.messages
        /\ state'.compliance_flags = state.compliance_flags
        /\ state'.compressed_summary = state.compressed_summary
    BY <1>1, <1>5, MergeChannels DEF SameNotes
  <2>2. u.credit_assessment # None
    BY <1>1, <1>5, AssessedByGates
  <2> QED  BY <1>1, <1>2, <1>5, <2>1, <2>2
<1> QED  BY <1>1, <1>2, <1>3, <1>4, <1>5

\* The reflector always charges the retry budget, escalates or retries, and
\* writes nothing else but the referral of a thin file.
LEMMA ReflectorEffect ==
    ASSUME TypeOK, TypeOK', ReflectorStep
    PROVE  LET log == state.reflection_log
               ca  == state.credit_assessment
               kyc == state.kyc_result
           IN  /\ node = "reflector"
               /\ state'.applicant = state.applicant
               /\ state'.kyc_result = kyc
               /\ state'.credit_assessment = ca
               /\ SameHistory
               /\ state'.retry_count = state.retry_count + 1
               /\ \/ node' = "END"
                  \/ node' = RetryStage(state) /\ state.retry_count = 0
               /\ \/ /\ node' = "END" /\ state'.offer = state.offer
                     /\ \E t \in {"max_retries_exceeded", "kyc_manual_review"} :
                           state'.reflection_log =
                              log \o <<Note(t, "escalate_to_human")>>
                  \/ /\ node' = "END"
                     /\ ca # None /\ ca.thin_file
                     /\ state'.offer = Referral("thin_file")
                     /\ state'.reflection_log =
                           log \o <<Note("thin_file_manual_underwriting",
                                         "escalate_to_human")>>
                  \/ /\ log = << >> /\ state'.offer = state.offer
                     /\ state'.reflection_log = log \o
                           <<Note("low_confidence_or_missing_output", "retry")>>
                     /\ ~(ca # None /\ ca.thin_file)
                  \/ /\ log # << >> /\ state'.offer = state.offer
                     /\ state'.reflection_log = log
                     /\ \/ Classify(LastOf(log).triggered_by)
                              = "escalate_to_human"
                        \/ state.retry_count = 0
                     /\ ~(ca # None /\ ca.thin_file)
               /\ ca # None /\ ca.thin_file /\ state.retry_count < MaxRetries
                     /\ ~KycIs("manual_review") =>
                  state'.offer = Referral("thin_file")
<1> DEFINE log == state.reflection_log
           ca  == state.credit_assessment
           thin == ca # None /\ ca.thin_file
           inDoubt == KycIs("manual_review")
<1>1. PICK u \in Reflector(state) :
        /\ node = "reflector"
        /\ state' = Merge(state, u)
        /\ node' = AfterReflection(state')
  BY DEF ReflectorStep, Commit, Scheduled
<1>2. state.retry_count \in Nat /\ log \in Seq(ReflectionNote)
  BY DEF TypeOK, States
<1>3. \/ /\ \E t \in {"max_retries_exceeded", "kyc_manual_review"} :
               u = Escalated(t)
         /\ thin => state.retry_count >= MaxRetries \/ inDoubt
      \/ u = ThinFileEscalated /\ thin
      \/ /\ u = [reflection_log |->
                    <<Note("low_confidence_or_missing_output", "retry")>>,
                 retry_count |-> 1]
         /\ log = << >> /\ ~thin
      \/ /\ u = Charged /\ log # << >> /\ ~thin
         /\ \/ Classify(LastOf(log).triggered_by) = "escalate_to_human"
            \/ state.retry_count = 0
  BY <1>1, <1>2 DEF Reflector, KycIs, MaxRetries
<1>4. /\ DOMAIN u \subseteq {"reflection_log", "retry_count", "offer"}
      /\ "retry_count" \in DOMAIN u /\ u.retry_count = 1
  BY <1>3 DEF Escalated, ThinFileEscalated, Charged
<1>5. /\ state'.applicant = state.applicant
      /\ state'.kyc_result = state.kyc_result
      /\ state'.credit_assessment = ca
      /\ SameHistory
      /\ state'.retry_count = state.retry_count + 1
  BY <1>1, <1>4, MergeChannels DEF SameHistory
<1>6. ASSUME NEW t, NEW action, "reflection_log" \in DOMAIN u,
             u.reflection_log = <<Note(t, action)>>
      PROVE  /\ state'.reflection_log = log \o <<Note(t, action)>>
             /\ action = "escalate_to_human" => node' = "END"
  <2> DEFINE note == Note(t, action)
  <2>1. state'.reflection_log = log \o u.reflection_log
    BY <1>1, <1>6, MergeChannels
  <2>2. note.action_taken = action
    BY DEF Note
  <2> HIDE DEF note
  <2>3. state'.reflection_log = log \o <<note>>
    BY <1>6, <2>1 DEF note
  <2>4. /\ state'.reflection_log # << >>
        /\ LastOf(state'.reflection_log) = note
    BY <1>2, <2>3, LastAppended
  <2>5. action = "escalate_to_human" => node' = "END"
    BY <1>1, <2>2, <2>4 DEF AfterReflection
  <2> QED  BY <2>3, <2>5 DEF note
<1>7. "offer" \notin DOMAIN u => state'.offer = state.offer
  BY <1>1, MergeChannels
<1>8. ASSUME "reflection_log" \notin DOMAIN u
      PROVE  state'.reflection_log = log
  BY <1>1, <1>8, MergeChannels
<1>9. \/ node' = "END"
      \/ node' = RetryStage(state) /\ state.retry_count = 0
  <2>1. state'.reflection_log # << >> =>
          LastOf(state'.reflection_log).action_taken # "replan"
    BY NoReplan DEF TypeOK
  <2>2. RetryStage(state') = RetryStage(state)
    BY <1>5 DEF RetryStage
  <2> QED  BY <1>1, <1>2, <1>5, <2>1, <2>2
    DEF AfterReflection, RetriesSpent, MaxRetries
<1>10. CASE /\ \E t \in {"max_retries_exceeded", "kyc_manual_review"} :
                  u = Escalated(t)
            /\ thin => state.retry_count >= MaxRetries \/ inDoubt
  <2>1. PICK t \in {"max_retries_exceeded", "kyc_manual_review"} :
          u = Escalated(t)
    BY <1>10
  <2>2. /\ "reflection_log" \in DOMAIN u /\ "offer" \notin DOMAIN u
        /\ u.reflection_log = <<Note(t, "escalate_to_human")>>
    BY <2>1 DEF Escalated
  <2>3. /\ state'.reflection_log = log \o <<Note(t, "escalate_to_human")>>
        /\ node' = "END" /\ state'.offer = state.offer
    BY <1>6, <1>7, <2>2
  <2> QED  BY <1>1, <1>2, <1>5, <1>9, <1>10, <2>3 DEF MaxRetries
<1>11. CASE u = ThinFileEscalated /\ thin
  <2>1. /\ {"reflection_log", "offer"} \subseteq DOMAIN u
        /\ u.reflection_log = <<Note("thin_file_manual_underwriting",
                                     "escalate_to_human")>>
        /\ u.offer = Referral("thin_file")
    BY <1>11 DEF ThinFileEscalated
  <2>2. state'.offer = Referral("thin_file")
    BY <1>1, <2>1, MergeChannels
  <2>3. /\ state'.reflection_log = log \o
              <<Note("thin_file_manual_underwriting", "escalate_to_human")>>
        /\ node' = "END"
    BY <1>6, <2>1
  <2> QED  BY <1>1, <1>5, <1>9, <1>11, <2>2, <2>3
<1>12. CASE /\ u = [reflection_log |->
                       <<Note("low_confidence_or_missing_output", "retry")>>,
                    retry_count |-> 1]
            /\ log = << >> /\ ~thin
  <2>1. /\ "reflection_log" \in DOMAIN u /\ "offer" \notin DOMAIN u
        /\ u.reflection_log =
              <<Note("low_confidence_or_missing_output", "retry")>>
    BY <1>12
  <2>2. /\ state'.reflection_log = log \o
              <<Note("low_confidence_or_missing_output", "retry")>>
        /\ state'.offer = state.offer
    BY <1>6, <1>7, <2>1
  <2> QED  BY <1>1, <1>5, <1>9, <1>12, <2>2
<1>13. CASE /\ u = Charged /\ log # << >> /\ ~thin
            /\ \/ Classify(LastOf(log).triggered_by) = "escalate_to_human"
               \/ state.retry_count = 0
  <2>1. DOMAIN u = {"retry_count"}
    BY <1>13 DEF Charged
  <2>2. state'.reflection_log = log /\ state'.offer = state.offer
    BY <1>7, <1>8, <2>1
  <2> QED  BY <1>1, <1>5, <1>9, <1>13, <2>2
<1> QED  BY <1>3, <1>10, <1>11, <1>12, <1>13

\* An offer is drafted over what the thread holds; its consolidation ends it.
LEMMA OfferDraftEffect ==
    ASSUME TypeOK, Safety, OfferDraftStep
    PROVE  /\ node = "offer_draft" /\ node' = "memory_consolidation"
           /\ ~OfferPreconditionBroken(state)
           /\ state'.applicant = state.applicant
           /\ state'.kyc_result = state.kyc_result
           /\ state'.credit_assessment = state.credit_assessment
           /\ state'.offer = OfferDraft(state).offer /\ state'.offer # None
           /\ SameNotes
           /\ state'.messages = state.messages \o <<"offer_draft">>
           /\ state'.compliance_flags = state.compliance_flags
           /\ state'.compressed_summary = state.compressed_summary
<1> DEFINE u == OfferDraft(state)
<1>1. node = "offer_draft" /\ ~OfferPreconditionBroken(state)
  BY DEF OfferDraftStep, Scheduled, Safety, WorkerPreconditions
<1>2. state' = Merge(state, u) /\ node' = "memory_consolidation"
  BY <1>1 DEF OfferDraftStep, Commit
<1>3. /\ DOMAIN u = {"offer", "next_node", "messages"}
      /\ u.messages = <<"offer_draft">>
  BY DEF OfferDraft
<1>4. u.offer # None
  BY <1>1, OfferDrafted, NoneAssumption DEF TypeOK
<1> HIDE DEF u
<1>5. /\ state'.applicant = state.applicant
      /\ state'.kyc_result = state.kyc_result
      /\ state'.credit_assessment = state.credit_assessment
      /\ state'.offer = u.offer
      /\ SameNotes
      /\ state'.messages = state.messages \o u.messages
      /\ state'.compliance_flags = state.compliance_flags
      /\ state'.compressed_summary = state.compressed_summary
  BY <1>2, <1>3, MergeChannels DEF SameNotes
<1> QED  BY <1>1, <1>2, <1>3, <1>4, <1>5 DEF u

LEMMA MemoryConsolidationEffect ==
    ASSUME Safety, MemoryConsolidationStep
    PROVE  /\ node = "memory_consolidation" /\ node' = "END"
           /\ state' = state /\ state.offer # None
           /\ memory' \in Consolidated
  BY DEF MemoryConsolidationStep, Scheduled, Commit, Safety,
         WorkerPreconditions

\* A submission: a clean slate, over the same notes, budget and flags.
LEMMA SubmitEffect ==
    ASSUME TypeOK, NEW a \in Applications, Submit(a)
    PROVE  /\ node' = "supervisor" /\ graph_path' = << >> /\ memory' = memory
           /\ state'.applicant = None /\ state'.kyc_result = None
           /\ state'.credit_assessment = None /\ state'.offer = None
           /\ state'.compressed_summary = None
           /\ state'.messages = state.messages \o <<a>>
           /\ SameNotes
           /\ state'.compliance_flags = state.compliance_flags
           /\ inherited'.messages = Len(state.messages)
           /\ inherited'.flags = Len(state.compliance_flags)
           /\ used'.submissions = used.submissions + 1
           /\ used'.follow_ups = used.follow_ups
           /\ used'.crashes = used.crashes
<1> DEFINE n == NewState(<<a>>)
<1>1. /\ DOMAIN n = Channels
      /\ n.messages = <<a>> /\ n.reflection_log = << >>
      /\ n.compliance_flags = << >> /\ n.retry_count = 0
      /\ n.applicant = None /\ n.kyc_result = None
      /\ n.credit_assessment = None /\ n.offer = None
      /\ n.compressed_summary = None
  BY DEF NewState, Blank, Channels, Appending, LastValue
<1>2. state' = Merge(state, n)
  BY DEF Submit, Accept
<1> HIDE DEF n
<1>3. {"messages", "reflection_log", "compliance_flags", "retry_count",
       "applicant", "kyc_result", "credit_assessment", "offer",
       "compressed_summary"} \subseteq DOMAIN n
  BY <1>1 DEF Channels, Appending, LastValue
<1>4. /\ state'.messages = state.messages \o n.messages
      /\ state'.reflection_log = state.reflection_log \o n.reflection_log
      /\ state'.compliance_flags = state.compliance_flags \o n.compliance_flags
      /\ state'.retry_count = state.retry_count + n.retry_count
      /\ state'.applicant = n.applicant /\ state'.kyc_result = n.kyc_result
      /\ state'.credit_assessment = n.credit_assessment
      /\ state'.offer = n.offer
      /\ state'.compressed_summary = n.compressed_summary
  BY <1>2, <1>3, MergeChannels
<1>5. /\ state.reflection_log \o << >> = state.reflection_log
      /\ state.compliance_flags \o << >> = state.compliance_flags
      /\ state.retry_count + 0 = state.retry_count
  BY DEF TypeOK, States
<1>6. /\ node' = "supervisor" /\ graph_path' = << >> /\ memory' = memory
      /\ inherited'.messages = Len(state.messages)
      /\ inherited'.flags = Len(state.compliance_flags)
      /\ used' = [used EXCEPT !.submissions = used.submissions + 1]
  BY DEF Submit, Accept
<1>7. /\ used'.submissions = used.submissions + 1
      /\ used'.follow_ups = used.follow_ups /\ used'.crashes = used.crashes
  BY <1>6 DEF TypeOK
<1>8. state'.messages = state.messages \o <<a>>
  BY <1>1, <1>4
<1>9. SameNotes
  BY <1>1, <1>4, <1>5 DEF SameNotes
<1> QED  BY <1>1, <1>4, <1>5, <1>6, <1>7, <1>8, <1>9

\* A follow-up adds a message and starts over at the supervisor.
LEMMA FollowUpEffect ==
    ASSUME TypeOK, FollowUp
    PROVE  /\ node' = "supervisor" /\ graph_path' = << >> /\ memory' = memory
           /\ SameVerdicts /\ SameNotes
           /\ state'.compressed_summary = state.compressed_summary
           /\ state'.messages = state.messages \o <<"question">>
           /\ state'.compliance_flags = state.compliance_flags
           /\ inherited' = inherited
           /\ used.submissions > 0 /\ used'.submissions = used.submissions
           /\ used'.follow_ups = used.follow_ups + 1
           /\ used.follow_ups \in Nat
<1> DEFINE u == [messages |-> <<"question">>]
<1>1. DOMAIN u = {"messages"} /\ u.messages = <<"question">>
  OBVIOUS
<1>2. state' = Merge(state, u)
  BY DEF FollowUp, Accept
<1> HIDE DEF u
<1>3. /\ SameVerdicts /\ SameNotes
      /\ state'.compressed_summary = state.compressed_summary
      /\ state'.messages = state.messages \o u.messages
      /\ state'.compliance_flags = state.compliance_flags
  BY <1>1, <1>2, MergeChannels DEF SameVerdicts, SameNotes
<1>4. used' = [used EXCEPT !.follow_ups = used.follow_ups + 1]
  BY DEF FollowUp
<1>5. /\ used'.submissions = used.submissions
      /\ used'.follow_ups = used.follow_ups + 1 /\ used.follow_ups \in Nat
  BY <1>4, TuningAssumption DEF TypeOK
<1> QED  BY <1>1, <1>3, <1>5 DEF FollowUp, Accept

\* A resume, a crash and a stuttering step leave the thread as it is.
LEMMA StillEffect ==
    ASSUME TypeOK, Resume \/ Crash \/ UNCHANGED vars
    PROVE  /\ state' = state /\ node' = node /\ graph_path' = graph_path
           /\ inherited' = inherited
           /\ used'.submissions = used.submissions
           /\ used'.follow_ups = used.follow_ups
           /\ used.crashes \in Nat
           /\ \/ memory' = memory /\ used'.crashes >= used.crashes
              \/ /\ node = "memory_consolidation"
                 /\ memory' \in Consolidated
                 /\ used'.crashes = used.crashes + 1
<1>1. used \in [submissions : 0..MaxSubmissions,
                follow_ups : 0..MaxFollowUps, crashes : 0..MaxCrashes]
  BY DEF TypeOK
<1>2. used.crashes \in Nat
  BY <1>1, TuningAssumption
<1>3. CASE Crash
  <2>1. used' = [used EXCEPT !.crashes = used.crashes + 1]
    BY <1>3 DEF Crash
  <2>2. /\ used'.submissions = used.submissions
        /\ used'.follow_ups = used.follow_ups
        /\ used'.crashes = used.crashes + 1
    BY <1>1, <2>1
  <2> QED  BY <1>2, <1>3, <2>2 DEF Crash
<1>4. CASE Resume \/ UNCHANGED vars
  BY <1>2, <1>4 DEF Resume, vars
<1> QED  BY <1>3, <1>4

-----------------------------------------------------------------------------
(* The outcome of a run.                                                   *)

\* What makes OutcomeRecorded inductive: the budget is only charged over a
\* note, so the log of a charged thread is not empty; and a note whose class
\* is to escalate does escalate, so a reflection that adds no note and ends
\* the run ends it under one that hands the application to a human.
OutcomeInvariant ==
    LET log == state.reflection_log
    IN  /\ log = << >> => state.retry_count = 0
        /\ log # << >> /\ Classify(LastOf(log).triggered_by)
                             = "escalate_to_human" =>
              LastOf(log).action_taken = "escalate_to_human"
        /\ OutcomeRecorded

\* The last note of a log that a step adds one to.
LEMMA NoteAdded ==
    ASSUME TypeOK, NEW t, NEW action,
           state'.reflection_log = state.reflection_log \o <<Note(t, action)>>
    PROVE  /\ state'.reflection_log # << >>
           /\ LastOf(state'.reflection_log).triggered_by = t
           /\ LastOf(state'.reflection_log).action_taken = action
<1> DEFINE note == Note(t, action)
<1>1. note.triggered_by = t /\ note.action_taken = action
  BY DEF Note
<1> HIDE DEF note
<1>2. /\ state'.reflection_log # << >>
      /\ LastOf(state'.reflection_log) = note
  BY LastAppended DEF TypeOK, States, note
<1> QED  BY <1>1, <1>2

\* The first reflection of a thread goes back to work if the last note asks
\* for a retry.
LEMMA FirstRetryGoesOn ==
    ASSUME TypeOK, TypeOK', ReflectorStep, state.retry_count = 0,
           state'.reflection_log # << >>,
           LastOf(state'.reflection_log).action_taken = "retry"
    PROVE  node' # "END"
<1>1. node' = AfterReflection(state')
  BY DEF ReflectorStep, Commit
<1>2. state'.retry_count = 1
  BY ReflectorEffect
<1> QED  BY <1>1, <1>2
  DEF AfterReflection, RetriesSpent, MaxRetries, RetryStage

\* A note of a retryable failure or of an invalid payload.
LEMMA FailureNoted ==
    ASSUME TypeOK, NEW t \in Retryable \cup Replan, OnlyNoted(t, "retry"),
           node' # "END"
    PROVE  OutcomeInvariant'
<1>1. /\ state'.reflection_log # << >>
      /\ LastOf(state'.reflection_log).triggered_by = t
  BY NoteAdded DEF OnlyNoted
<1>2. Classify(t) # "escalate_to_human"
  BY DEF Classify
<1> QED  BY <1>1, <1>2 DEF OutcomeInvariant, OutcomeRecorded

\* A step that adds no note, and does not end the run without an offer.
LEMMA NothingNoted ==
    ASSUME OutcomeInvariant, SameNotes,
           node' = "END" => state'.offer # None
    PROVE  OutcomeInvariant'
  BY DEF OutcomeInvariant, SameNotes, OutcomeRecorded

LEMMA NodesRecordOutcome ==
    ASSUME TypeOK, TypeOK', Safety, OutcomeInvariant, NodeStep
    PROVE  OutcomeInvariant'
<1>1. CASE SupervisorStep
  <2>1. /\ node' = Dispatch(state) /\ SameVerdicts /\ SameNotes
    BY <1>1, SupervisorEffect
  <2>2. node' = "END" => state'.offer # None
    BY <2>1 DEF Dispatch, SameVerdicts
  <2> QED  BY <2>1, <2>2, NothingNoted
<1>2. CASE IntakeStep
  <2>1. CASE OnlyNoted("intake_validation_error", "retry") /\ node' # "END"
    BY <2>1, FailureNoted DEF Replan
  <2>2. CASE SameNotes /\ node' = "kyc_check"
    BY <2>2, NothingNoted
  <2>3. \/ OnlyNoted("intake_validation_error", "retry") /\ node' # "END"
        \/ SameNotes /\ node' = "kyc_check"
    BY <1>2, IntakeEffect
  <2> QED  BY <2>1, <2>2, <2>3
<1>3. CASE KycCheckStep
  <2>1. ASSUME NEW t \in {"mcp_applicant_lookup_failure", "llm_kyc_failure"},
               OnlyNoted(t, "retry"), node' # "END"
        PROVE  OutcomeInvariant'
    BY <2>1, FailureNoted DEF Retryable
  <2>2. CASE SameNotes /\ node' # "END"
    BY <2>2, NothingNoted
  <2>3. node' # "END" /\
        \/ \E t \in {"mcp_applicant_lookup_failure", "llm_kyc_failure"} :
              OnlyNoted(t, "retry")
        \/ SameNotes
    BY <1>3, KycCheckEffect
  <2> QED  BY <2>1, <2>2, <2>3
<1>4. CASE CreditAssessmentStep
  <2>1. ASSUME NEW t \in {"mcp_bureau_check_failure", "llm_rationale_failure"},
               OnlyNoted(t, "retry"), node' # "END"
        PROVE  OutcomeInvariant'
    BY <2>1, FailureNoted DEF Retryable
  <2>2. CASE SameNotes /\ node' # "END"
    BY <2>2, NothingNoted
  <2>3. node' # "END" /\
        \/ \E t \in {"mcp_bureau_check_failure", "llm_rationale_failure"} :
              OnlyNoted(t, "retry")
        \/ SameNotes
    BY <1>4, CreditAssessmentEffect
  <2> QED  BY <2>1, <2>2, <2>3
<1>5. CASE ReflectorStep
  <2> DEFINE log == state.reflection_log
             Noted1(t, action) ==
                state'.reflection_log = log \o <<Note(t, action)>>
  <2>1. /\ state'.retry_count = state.retry_count + 1
        /\ node' = "END" \/ state.retry_count = 0
        /\ \/ \E t \in Triggers : Noted1(t, "escalate_to_human")
           \/ /\ log = << >>
              /\ Noted1("low_confidence_or_missing_output", "retry")
           \/ /\ log # << >> /\ state'.reflection_log = log
              /\ \/ Classify(LastOf(log).triggered_by) = "escalate_to_human"
                 \/ state.retry_count = 0
    BY <1>5, ReflectorEffect DEF Triggers
  <2>2. state.retry_count \in Nat
    BY DEF TypeOK, States
  <2>3. ASSUME NEW t, Noted1(t, "escalate_to_human")
        PROVE  OutcomeInvariant'
    <3>1. /\ state'.reflection_log # << >>
          /\ LastOf(state'.reflection_log).action_taken = "escalate_to_human"
      BY <2>3, NoteAdded
    <3> QED  BY <3>1 DEF OutcomeInvariant, OutcomeRecorded
  <2>4. CASE /\ log = << >>
             /\ Noted1("low_confidence_or_missing_output", "retry")
    <3>1. /\ state'.reflection_log # << >>
          /\ LastOf(state'.reflection_log).triggered_by
                = "low_confidence_or_missing_output"
          /\ LastOf(state'.reflection_log).action_taken = "retry"
      BY <2>4, NoteAdded
    <3>2. node' # "END"
      BY <1>5, <2>1, <2>2, <2>4, <3>1, FirstRetryGoesOn DEF OutcomeInvariant
    <3>3. Classify("low_confidence_or_missing_output") # "escalate_to_human"
      BY DEF Classify, Retryable
    <3> QED  BY <3>1, <3>2, <3>3 DEF OutcomeInvariant, OutcomeRecorded
  <2>5. CASE /\ log # << >> /\ state'.reflection_log = log
             /\ \/ Classify(LastOf(log).triggered_by) = "escalate_to_human"
                \/ state.retry_count = 0
    <3>1. node' = "END" =>
            LastOf(log).action_taken = "escalate_to_human"
      BY <1>5, <2>1, <2>2, <2>5, FirstRetryGoesOn, NoReplan
         DEF OutcomeInvariant, TypeOK
    <3> QED  BY <2>5, <3>1 DEF OutcomeInvariant, OutcomeRecorded
  <2> HIDE DEF Noted1
  <2> QED  BY <2>1, <2>3, <2>4, <2>5
<1>6. CASE OfferDraftStep
  <2>1. SameNotes /\ node' # "END"
    BY <1>6, OfferDraftEffect
  <2> QED  BY <2>1, NothingNoted
<1>7. CASE MemoryConsolidationStep
  <2>1. state' = state /\ state.offer # None
    BY <1>7, MemoryConsolidationEffect
  <2>2. SameNotes
    BY <2>1 DEF SameNotes
  <2> QED  BY <2>1, <2>2, NothingNoted
<1> QED  BY <1>1, <1>2, <1>3, <1>4, <1>5, <1>6, <1>7 DEF NodeStep

LEMMA OutcomeStep ==
    ASSUME TypeOK, TypeOK', Safety, OutcomeInvariant, [Next]_vars
    PROVE  OutcomeInvariant'
<1>1. CASE NodeStep
  BY <1>1, NodesRecordOutcome
<1>2. ASSUME NEW a \in Applications, Submit(a)
      PROVE  OutcomeInvariant'
  <2>1. SameNotes /\ node' # "END"
    BY <1>2, SubmitEffect
  <2> QED  BY <2>1, NothingNoted
<1>3. CASE FollowUp
  <2>1. SameNotes /\ node' # "END"
    BY <1>3, FollowUpEffect
  <2> QED  BY <2>1, NothingNoted
<1>4. CASE Resume \/ Crash \/ UNCHANGED vars
  <2>1. /\ state' = state /\ node' = node
        /\ used'.submissions = used.submissions
    BY <1>4, StillEffect
  <2> QED  BY <2>1 DEF OutcomeInvariant, OutcomeRecorded
<1> QED  BY <1>1, <1>2, <1>3, <1>4 DEF Next

LEMMA OutcomeAlways == Spec => []OutcomeInvariant
<1>1. Init => OutcomeInvariant
  BY DEF Init, OutcomeInvariant, OutcomeRecorded, Blank, Channels, Appending,
         LastValue
<1>2. TypeOK /\ TypeOK' /\ Safety /\ OutcomeInvariant /\ [Next]_vars
         => OutcomeInvariant'
  BY OutcomeStep
<1> QED  BY <1>1, <1>2, Safe, TypeCorrect, PTL DEF Spec

\* However often its nodes fail, whatever is retried, resumed or asked after,
\* a run that reached the end of the graph left an offer, or a last note that
\* hands the application to a human.
THEOREM OutcomesRecorded == Spec => []OutcomeRecorded
<1>1. OutcomeInvariant => OutcomeRecorded
  BY DEF OutcomeInvariant
<1> QED  BY <1>1, OutcomeAlways, PTL

\* A stage is only ever reached over the one before it, and nothing but a new
\* input runs after the offer of an applicant KYC did not fail.
THEOREM ThreadInOrder == Spec => []ThreadInvariant
<1>1. Safety => ThreadInvariant
  BY DEF Safety
<1> QED  BY <1>1, Safe, PTL

-----------------------------------------------------------------------------
(* The history a run leaves in the accumulating channels.                  *)

\* The payload submitted last, where Submit left it in the message log.
Submission == state.messages[inherited.messages + 1]

\* Since it was submitted only nodes and follow-ups added messages, so intake
\* can make nothing else the applicant.
SubmissionKept ==
    used.submissions > 0 =>
        /\ inherited.messages < Len(state.messages)
        /\ Submission \in Applications
        /\ \A i \in (inherited.messages + 2)..Len(state.messages) :
              state.messages[i] \in Workers \cup {"question"}
        /\ state.applicant # None => state.applicant = Submission

\* What makes SummaryIsCurrent and ComplianceTrail inductive: a node runs on a
\* thread that was submitted to, and the accumulating channels only grow.
HistoryInvariant ==
    /\ node # "END" => used.submissions > 0
    /\ SubmissionKept
    /\ inherited.flags <= Len(state.compliance_flags)
    /\ SummaryIsCurrent

LEMMA AppendedEntries ==
    ASSUME NEW S, NEW seq \in Seq(S), NEW x
    PROVE  /\ Len(seq \o <<x>>) = Len(seq) + 1
           /\ \A i \in 1..Len(seq) : (seq \o <<x>>)[i] = seq[i]
           /\ (seq \o <<x>>)[Len(seq) + 1] = x
           /\ Len(seq) \in Nat
  OBVIOUS

\* A message a node or a follow-up adds leaves the submission in place.
LEMMA SubmissionStays ==
    ASSUME TypeOK, SubmissionKept, used.submissions > 0,
           used'.submissions = used.submissions, inherited' = inherited,
           \/ state'.messages = state.messages
           \/ \E x \in Workers \cup {"question"} :
                 state'.messages = state.messages \o <<x>>,
           \/ state'.applicant \in {state.applicant, None}
           \/ /\ state'.applicant = LastOf(state.messages)
              /\ state'.applicant \in Applications
    PROVE  SubmissionKept' /\ Submission' = Submission
<1> DEFINE said == state.messages
           first == inherited.messages + 1
<1>1. said \in Seq(Message) /\ inherited.messages \in Nat /\ Len(said) \in Nat
  BY DEF TypeOK, States
<1>2. /\ first <= Len(said) /\ said[first] \in Applications
      /\ \A i \in (first + 1)..Len(said) : said[i] \in Workers \cup {"question"}
      /\ state.applicant # None => state.applicant = said[first]
  BY <1>1 DEF SubmissionKept, Submission
<1>3. state'.applicant # None => state'.applicant = said[first]
  <2>1. CASE /\ state'.applicant = LastOf(said)
             /\ state'.applicant \in Applications
    <3>1. Len(said) \in first..Len(said)
      BY <1>1, <1>2
    <3>2. Len(said) = first
      BY <1>1, <1>2, <2>1, <3>1, MessageAssumption DEF LastOf
    <3> QED  BY <2>1, <3>2 DEF LastOf
  <2>2. CASE state'.applicant \in {state.applicant, None}
    BY <1>2, <2>2
  <2> QED  BY <2>1, <2>2
<1>4. CASE state'.messages = said
  BY <1>1, <1>2, <1>3, <1>4 DEF SubmissionKept, Submission
<1>5. ASSUME NEW x \in Workers \cup {"question"},
             state'.messages = said \o <<x>>
      PROVE  SubmissionKept' /\ Submission' = Submission
  <2> DEFINE later == said \o <<x>>
  <2>1. /\ Len(later) = Len(said) + 1
        /\ \A i \in 1..Len(said) : later[i] = said[i]
        /\ later[Len(said) + 1] = x
    BY <1>1, AppendedEntries
  <2> HIDE DEF later
  <2>2. later[first] = said[first] /\ first <= Len(later)
    BY <1>1, <1>2, <2>1
  <2>3. \A i \in (first + 1)..Len(later) : later[i] \in Workers \cup {"question"}
    BY <1>1, <1>2, <2>1
  <2>4. state'.messages = later /\ inherited'.messages + 1 = first
    BY <1>5 DEF later
  <2> HIDE DEF said, first
  <2>5. /\ inherited'.messages < Len(later)
        /\ inherited'.messages + 2 = first + 1
        /\ inherited'.messages + 1 = first
    BY <1>1, <2>1, <2>2, <2>4 DEF first
  <2>6. Submission' = later[first] /\ Submission = said[first]
    BY <2>4 DEF Submission, first, said
  <2> QED  BY <1>2, <1>3, <2>2, <2>3, <2>4, <2>5, <2>6 DEF SubmissionKept
<1> QED  BY <1>4, <1>5

\* A summary is reused, or made of everything said so far.
LEMMA SummaryPrepared ==
    ASSUME TypeOK, HistoryInvariant, used.submissions > 0,
           state'.compressed_summary \in PrepareContext(state),
           inherited' = inherited
    PROVE  SummaryIsCurrent'
<1>1. /\ Len(state.messages) \in Nat /\ inherited.messages \in Nat
      /\ inherited.messages < Len(state.messages) /\ KeepRecent \in Nat
  BY TuningAssumption DEF TypeOK, States, HistoryInvariant, SubmissionKept
<1>2. CASE state'.compressed_summary = state.compressed_summary
  BY <1>2 DEF HistoryInvariant, SummaryIsCurrent
<1>3. CASE state'.compressed_summary = None
  BY <1>3 DEF SummaryIsCurrent
<1>4. CASE state'.compressed_summary = Len(state.messages) - KeepRecent
  BY <1>1, <1>4 DEF SummaryIsCurrent
<1> QED  BY <1>2, <1>3, <1>4 DEF PrepareContext, Summaries

LEMMA ThreadStarted ==
    ASSUME HistoryInvariant, NodeStep
    PROVE  used.submissions > 0
<1>1. node # "END"
  BY DEF NodeStep, SupervisorStep, IntakeStep, KycCheckStep,
         CreditAssessmentStep, ReflectorStep, OfferDraftStep,
         MemoryConsolidationStep, Scheduled
<1> QED  BY <1>1 DEF HistoryInvariant

LEMMA NodesKeepHistory ==
    ASSUME TypeOK, TypeOK', Safety, HistoryInvariant, NodeStep
    PROVE  HistoryInvariant' /\ Submission' = Submission
<1>1. /\ used.submissions > 0 /\ used' = used /\ inherited' = inherited
      /\ inherited.flags \in Nat /\ Len(state.compliance_flags) \in Nat
  BY StepFrame, ThreadStarted DEF TypeOK, States
<1>2. SubmissionKept /\ SummaryIsCurrent
      /\ inherited.flags <= Len(state.compliance_flags)
  BY DEF HistoryInvariant
<1> DEFINE Quiet == state'.compliance_flags = state.compliance_flags
           Summed == \/ state'.compressed_summary = state.compressed_summary
                     \/ state'.compressed_summary \in PrepareContext(state)
           Flagged == \/ Quiet
                      \/ \E flag \in Flags :
                            state'.compliance_flags =
                               state.compliance_flags \o <<flag>>
           Logged == \/ state'.messages = state.messages
                     \/ \E x \in Workers \cup {"question"} :
                           state'.messages = state.messages \o <<x>>
           Adopted == \/ state'.applicant \in {state.applicant, None}
                      \/ /\ state'.applicant = LastOf(state.messages)
                         /\ state'.applicant \in Applications
<1>3. Summed /\ Flagged /\ Logged /\ Adopted
  <2> USE DEF Workers, Flags
  <2>1. CASE SupervisorStep
    BY <2>1, SupervisorEffect DEF SameVerdicts, SameHistory
  <2>2. CASE IntakeStep
    BY <2>2, IntakeEffect DEF OnlyNoted, SameVerdicts, SameHistory
  <2>3. CASE KycCheckStep
    BY <2>3, KycCheckEffect DEF OnlyNoted, SameVerdicts, SameHistory
  <2>4. CASE CreditAssessmentStep
    BY <2>4, CreditAssessmentEffect DEF OnlyNoted, SameVerdicts, SameHistory
  <2>5. CASE ReflectorStep
    BY <2>5, ReflectorEffect DEF SameHistory
  <2>6. CASE OfferDraftStep
    BY <2>6, OfferDraftEffect
  <2>7. CASE MemoryConsolidationStep
    BY <2>7, MemoryConsolidationEffect
  <2> QED  BY <2>1, <2>2, <2>3, <2>4, <2>5, <2>6, <2>7 DEF NodeStep
<1>4. SubmissionKept' /\ Submission' = Submission
  BY <1>1, <1>2, <1>3, SubmissionStays
<1>5. SummaryIsCurrent'
  BY <1>1, <1>2, <1>3, SummaryPrepared DEF SummaryIsCurrent
<1>6. inherited'.flags <= Len(state'.compliance_flags)
  <2>1. ASSUME NEW flag,
               state'.compliance_flags = state.compliance_flags \o <<flag>>
        PROVE  Len(state'.compliance_flags) = Len(state.compliance_flags) + 1
    BY <2>1, AppendedEntries DEF TypeOK, States
  <2>2. \/ Len(state'.compliance_flags) = Len(state.compliance_flags)
        \/ Len(state'.compliance_flags) = Len(state.compliance_flags) + 1
    BY <1>3, <2>1
  <2> QED  BY <1>1, <1>2, <2>2
<1> QED  BY <1>1, <1>4, <1>5, <1>6 DEF HistoryInvariant

LEMMA HistoryStep ==
    ASSUME TypeOK, TypeOK', Safety, HistoryInvariant, [Next]_vars
    PROVE  HistoryInvariant'
<1>0. /\ used.submissions \in Nat
      /\ Len(state.messages) \in Nat /\ Len(state.compliance_flags) \in Nat
      /\ state.messages \in Seq(Message)
  <2>1. /\ state.messages \in Seq(Message)
        /\ state.compliance_flags \in Seq(Flags)
    BY DEF TypeOK, States
  <2>2. used.submissions \in Nat
    BY TuningAssumption DEF TypeOK
  <2> QED  BY <2>1, <2>2
<1>1. CASE NodeStep
  BY <1>1, NodesKeepHistory
<1>2. ASSUME NEW a \in Applications, Submit(a)
      PROVE  HistoryInvariant'
  <2>1. /\ state'.messages = state.messages \o <<a>>
        /\ state'.applicant = None /\ state'.compressed_summary = None
        /\ state'.compliance_flags = state.compliance_flags
        /\ inherited'.messages = Len(state.messages)
        /\ inherited'.flags = Len(state.compliance_flags)
        /\ used'.submissions = used.submissions + 1
    BY <1>2, SubmitEffect
  <2>2. /\ Len(state'.messages) = Len(state.messages) + 1
        /\ state'.messages[Len(state.messages) + 1] = a
    BY <1>0, <2>1, AppendedEntries
  <2>3. SubmissionKept'
    BY <1>0, <2>1, <2>2 DEF SubmissionKept, Submission
  <2> QED  BY <1>0, <2>1, <2>3 DEF HistoryInvariant, SummaryIsCurrent
<1>3. CASE FollowUp
  <2>1. /\ SameVerdicts
        /\ state'.compressed_summary = state.compressed_summary
        /\ state'.messages = state.messages \o <<"question">>
        /\ state'.compliance_flags = state.compliance_flags
        /\ inherited' = inherited
        /\ used.submissions > 0 /\ used'.submissions = used.submissions
    BY <1>3, FollowUpEffect
  <2>2. SubmissionKept'
    BY <2>1, SubmissionStays DEF HistoryInvariant, SameVerdicts
  <2> QED  BY <2>1, <2>2 DEF HistoryInvariant, SummaryIsCurrent
<1>4. CASE Resume \/ Crash \/ UNCHANGED vars
  <2>1. /\ state' = state /\ node' = node /\ inherited' = inherited
        /\ used'.submissions = used.submissions
    BY <1>4, StillEffect
  <2> QED  BY <2>1
    DEF HistoryInvariant, SubmissionKept, Submission, SummaryIsCurrent
<1> QED  BY <1>1, <1>2, <1>3, <1>4 DEF Next

LEMMA HistoryAlways == Spec => []HistoryInvariant
<1>1. Init => HistoryInvariant
  <2> SUFFICES ASSUME Init PROVE HistoryInvariant
    OBVIOUS
  <2>1. /\ node = "END" /\ used.submissions = 0 /\ inherited.flags = 0
        /\ state.compliance_flags = << >> /\ state.compressed_summary = None
    BY DEF Init, Blank, Channels, Appending, LastValue
  <2> QED  BY <2>1 DEF HistoryInvariant, SubmissionKept, SummaryIsCurrent
<1>2. TypeOK /\ TypeOK' /\ Safety /\ HistoryInvariant /\ [Next]_vars
         => HistoryInvariant'
  BY HistoryStep
<1> QED  BY <1>1, <1>2, Safe, TypeCorrect, PTL DEF Spec

\* The context a node reuses was summarised during the application at hand,
\* over all that was said before it: no summary outlives its application.
THEOREM SummaryAlwaysCurrent == Spec => []SummaryIsCurrent
<1>1. HistoryInvariant => SummaryIsCurrent
  BY DEF HistoryInvariant
<1> QED  BY <1>1, HistoryAlways, PTL

-----------------------------------------------------------------------------
(* Counting entries of a sequence.                                         *)

\* Where x stands in seq after its first k entries.
Since(seq, k, x) == {i \in (k + 1)..Len(seq) : seq[i] = x}

LEMMA SinceFinite ==
    ASSUME NEW S, NEW seq \in Seq(S), NEW k \in Nat, NEW x
    PROVE  /\ IsFiniteSet(Since(seq, k, x))
           /\ Cardinality(Since(seq, k, x)) \in Nat
<1>1. IsFiniteSet((k + 1)..Len(seq))
  BY FS_Interval
<1>2. IsFiniteSet(Since(seq, k, x))
  BY <1>1, FS_Subset DEF Since
<1> QED  BY <1>2, FS_CardinalityType

\* An entry appended counts once if it is what is counted.
LEMMA SinceAppended ==
    ASSUME NEW S, NEW seq \in Seq(S), NEW k \in Nat, k <= Len(seq),
           NEW x, NEW y, NEW later, Len(later) = Len(seq) + 1,
           \A i \in 1..Len(seq) : later[i] = seq[i],
           later[Len(seq) + 1] = y
    PROVE  Cardinality(Since(later, k, x)) =
              Cardinality(Since(seq, k, x)) + (IF y = x THEN 1 ELSE 0)
<1> DEFINE n == Len(seq)
<1>1. /\ n \in Nat /\ Len(later) = n + 1
      /\ \A i \in 1..n : later[i] = seq[i]
      /\ later[n + 1] = y
  OBVIOUS
<1> HIDE DEF n
<1>2. IsFiniteSet(Since(seq, k, x)) /\ Cardinality(Since(seq, k, x)) \in Nat
  BY SinceFinite
<1>3. n + 1 \notin Since(seq, k, x)
  BY <1>1 DEF Since, n
<1>4. CASE y = x
  <2>1. Since(later, k, x) = Since(seq, k, x) \cup {n + 1}
    BY <1>1, <1>4 DEF Since, n
  <2> QED  BY <1>2, <1>3, <1>4, <2>1, FS_AddElement
<1>5. CASE y # x
  <2>1. Since(later, k, x) = Since(seq, k, x)
    BY <1>1, <1>5 DEF Since, n
  <2> QED  BY <1>2, <1>5, <2>1
<1> QED  BY <1>4, <1>5

LEMMA SinceEmpty ==
    ASSUME NEW S, NEW seq \in Seq(S), NEW x
    PROVE  Cardinality(Since(seq, Len(seq), x)) = 0
<1>1. Since(seq, Len(seq), x) = {}
  BY DEF Since
<1> QED  BY <1>1, FS_EmptySet

-----------------------------------------------------------------------------
(* The compliance flags.                                                   *)

\* A step that raises no flag, and gives no cause for one.
LEMMA TrailStays ==
    ASSUME ComplianceTrail, inherited' = inherited,
           state'.compliance_flags = state.compliance_flags,
           state'.applicant = state.applicant,
           KycIs("fail")' <=> KycIs("fail")
    PROVE  ComplianceTrail'
<1>1. \A flag : RaisedSince(flag)' = RaisedSince(flag)
  BY DEF RaisedSince
<1>2. CASE KycIs("fail")
  BY <1>1, <1>2 DEF ComplianceTrail
<1>3. CASE ~KycIs("fail")
  BY <1>1, <1>3 DEF ComplianceTrail
<1> QED  BY <1>2, <1>3

\* A flag raised counts once, and as no other.
LEMMA FlagRaised ==
    ASSUME TypeOK, HistoryInvariant, inherited' = inherited, NEW flag, NEW x,
           state'.compliance_flags = state.compliance_flags \o <<flag>>
    PROVE  RaisedSince(x)' = RaisedSince(x) + (IF flag = x THEN 1 ELSE 0)
<1>1. /\ state.compliance_flags \in Seq(Flags) /\ inherited.flags \in Nat
      /\ inherited.flags <= Len(state.compliance_flags)
  BY DEF TypeOK, States, HistoryInvariant
<1> DEFINE before == state.compliance_flags
           after  == state'.compliance_flags
           k      == inherited.flags
<1>2. /\ RaisedSince(x) = Cardinality(Since(before, k, x))
      /\ RaisedSince(x)' = Cardinality(Since(after, k, x))
  BY DEF RaisedSince, Since
<1>3. /\ Len(after) = Len(before) + 1
      /\ \A i \in 1..Len(before) : after[i] = before[i]
      /\ after[Len(before) + 1] = flag
  BY <1>1, AppendedEntries
<1> HIDE DEF before, after, k
<1>4. before \in Seq(Flags) /\ k \in Nat /\ k <= Len(before)
  BY <1>1 DEF before, k
<1>5. Cardinality(Since(after, k, x)) =
         Cardinality(Since(before, k, x)) + (IF flag = x THEN 1 ELSE 0)
  BY <1>3, <1>4, SinceAppended
<1> QED  BY <1>2, <1>5

LEMMA NodesKeepTrail ==
    ASSUME TypeOK, TypeOK', Safety, HistoryInvariant, ComplianceTrail, NodeStep
    PROVE  ComplianceTrail'
<1>1. inherited' = inherited
  BY StepFrame
<1> DEFINE Quiet == /\ state'.compliance_flags = state.compliance_flags
                    /\ state'.applicant = state.applicant
                    /\ state'.kyc_result = state.kyc_result
<1>2. Quiet => ComplianceTrail'
  BY <1>1, TrailStays DEF KycIs
<1>3. \A t, action : OnlyNoted(t, action) => Quiet
  BY DEF OnlyNoted, SameVerdicts, SameHistory
<1>4. CASE SupervisorStep
  BY <1>2, <1>4, SupervisorEffect DEF SameVerdicts, SameHistory
<1>5. CASE IntakeStep
  <2>1. state.applicant = None /\ state.kyc_result = None
    BY <1>5, IntakeEffect
  <2>2. \A flag \in Flags : RaisedSince(flag) = 0
    BY <2>1 DEF ComplianceTrail, KycIs, Flags
  <2>3. CASE OnlyNoted("intake_validation_error", "retry")
    BY <1>2, <1>3, <2>3
  <2> DEFINE flag == "suspected_prompt_injection_in_free_text"
             suspicious == Notes[state'.applicant] = "suspicious"
  <2>4. CASE /\ state'.applicant \in Applications
             /\ state'.kyc_result = None
             /\ state'.compliance_flags =
                   IF suspicious THEN state.compliance_flags \o <<flag>>
                   ELSE state.compliance_flags
    <3>1. state'.applicant # None /\ ~KycIs("fail")'
      BY <2>4, NoneAssumption DEF KycIs
    <3>2. CASE suspicious
      <4>1. \A x \in Flags : RaisedSince(x)' = IF flag = x THEN 1 ELSE 0
        BY <1>1, <2>2, <2>4, <3>2, FlagRaised
      <4> QED  BY <3>1, <3>2, <4>1 DEF ComplianceTrail, Flags
    <3>3. CASE ~suspicious
      <4>1. \A x \in Flags : RaisedSince(x)' = 0
        BY <1>1, <2>2, <2>4, <3>3 DEF RaisedSince
      <4> QED  BY <3>1, <3>3, <4>1 DEF ComplianceTrail, Flags
    <3> QED  BY <3>2, <3>3
  <2>5. \/ OnlyNoted("intake_validation_error", "retry")
        \/ /\ state'.applicant \in Applications
           /\ state'.kyc_result = None
           /\ state'.compliance_flags =
                 IF suspicious THEN state.compliance_flags \o <<flag>>
                 ELSE state.compliance_flags
    BY <1>5, IntakeEffect
  <2> QED  BY <2>3, <2>4, <2>5
<1>6. CASE KycCheckStep
  <2> DEFINE flag == "kyc_fail_referral"
             other == "suspected_prompt_injection_in_free_text"
  <2>1. state.applicant # None /\ state.kyc_result = None
    BY <1>6, KycCheckEffect
  <2>2. RaisedSince(flag) = 0
    BY <2>1 DEF ComplianceTrail, KycIs
  <2>3. ASSUME NEW t, OnlyNoted(t, "retry")
        PROVE  ComplianceTrail'
    BY <1>2, <1>3, <2>3
  <2>4. CASE /\ state'.applicant = state.applicant
             /\ state'.compliance_flags =
                   IF KycIs("fail")'
                   THEN state.compliance_flags \o <<flag>>
                   ELSE state.compliance_flags
    <3>1. CASE KycIs("fail")'
      <4>1. RaisedSince(flag)' = RaisedSince(flag) + 1
        BY <1>1, <2>4, <3>1, FlagRaised
      <4>2. RaisedSince(other)' = RaisedSince(other) + 0
        BY <1>1, <2>4, <3>1, FlagRaised
      <4> QED  BY <2>2, <2>4, <3>1, <4>1, <4>2 DEF ComplianceTrail
    <3>2. CASE ~KycIs("fail")'
      <4>1. /\ RaisedSince(flag)' = RaisedSince(flag)
            /\ RaisedSince(other)' = RaisedSince(other)
        BY <1>1, <2>4, <3>2 DEF RaisedSince
      <4> QED  BY <2>2, <2>4, <3>2, <4>1 DEF ComplianceTrail
    <3> QED  BY <3>1, <3>2
  <2> QED  BY <1>6, <2>3, <2>4, KycCheckEffect
<1>7. CASE CreditAssessmentStep
  BY <1>2, <1>3, <1>7, CreditAssessmentEffect
<1>8. CASE ReflectorStep
  BY <1>2, <1>8, ReflectorEffect DEF SameHistory
<1>9. CASE OfferDraftStep
  BY <1>2, <1>9, OfferDraftEffect
<1>10. CASE MemoryConsolidationStep
  BY <1>2, <1>10, MemoryConsolidationEffect
<1> QED  BY <1>4, <1>5, <1>6, <1>7, <1>8, <1>9, <1>10 DEF NodeStep

\* Each cause for concern is flagged exactly once on an application, however
\* often its nodes are retried and whatever applications came before it.
THEOREM TrailComplete == Spec => []ComplianceTrail
<1>1. Init => ComplianceTrail
  <2> SUFFICES ASSUME Init PROVE ComplianceTrail
    OBVIOUS
  <2>1. /\ state.compliance_flags = << >> /\ inherited.flags = 0
        /\ state.applicant = None /\ state.kyc_result = None
    BY DEF Init, Blank, Channels, Appending, LastValue
  <2>2. \A flag : RaisedSince(flag) = 0
    <3> TAKE flag
    <3>1. {i \in 1..0 : state.compliance_flags[i] = flag} = {}
      OBVIOUS
    <3> QED  BY <2>1, <3>1, FS_EmptySet DEF RaisedSince
  <2> QED  BY <2>1, <2>2 DEF ComplianceTrail, KycIs
<1>2. TypeOK /\ TypeOK' /\ Safety /\ HistoryInvariant /\ ComplianceTrail
         /\ [Next]_vars => ComplianceTrail'
  <2> SUFFICES ASSUME TypeOK, TypeOK', Safety, HistoryInvariant,
                      ComplianceTrail, [Next]_vars
               PROVE  ComplianceTrail'
    OBVIOUS
  <2>1. CASE NodeStep
    BY <2>1, NodesKeepTrail
  <2>2. ASSUME NEW a \in Applications, Submit(a)
        PROVE  ComplianceTrail'
    <3>1. /\ state'.applicant = None /\ state'.kyc_result = None
          /\ state'.compliance_flags = state.compliance_flags
          /\ inherited'.flags = Len(state.compliance_flags)
      BY <2>2, SubmitEffect
    <3>2. state.compliance_flags \in Seq(Flags)
      BY DEF TypeOK, States
    <3>3. \A flag : RaisedSince(flag)' =
             Cardinality(Since(state.compliance_flags,
                               Len(state.compliance_flags), flag))
      BY <3>1 DEF RaisedSince, Since
    <3>4. \A flag : RaisedSince(flag)' = 0
      BY <3>2, <3>3, SinceEmpty
    <3> QED  BY <3>1, <3>4 DEF ComplianceTrail, KycIs
  <2>3. CASE FollowUp
    <3>1. /\ SameVerdicts /\ inherited' = inherited
          /\ state'.compliance_flags = state.compliance_flags
      BY <2>3, FollowUpEffect
    <3> QED  BY <3>1, TrailStays DEF SameVerdicts, KycIs
  <2>4. CASE Resume \/ Crash \/ UNCHANGED vars
    <3>1. state' = state /\ inherited' = inherited
      BY <2>4, StillEffect
    <3> QED  BY <3>1, TrailStays DEF KycIs
  <2> QED  BY <2>1, <2>2, <2>3, <2>4 DEF Next
<1> QED  BY <1>1, <1>2, Safe, TypeCorrect, HistoryAlways, PTL DEF Spec

-----------------------------------------------------------------------------
(* The length of a run.                                                    *)

\* How many nodes a run without a reflection has executed at most when one is
\* scheduled.
Position == [supervisor |-> 0, intake |-> 1, kyc_check |-> 2,
             credit_assessment |-> 3, offer_draft |-> 4, reflector |-> 4,
             memory_consolidation |-> 5]

\* What makes BoundedRun inductive: a run that goes on has been reflected on
\* once at most, with the budget charged for it, and a reflection sends it
\* back no further than two positions ahead of where it would be without.
PathInvariant ==
    LET n == Len(graph_path)
        v == Visits("reflector")
    IN  /\ node # "END" => /\ v = 0 \/ (v = 1 /\ state.retry_count >= 1)
                           /\ n <= Position[node] + 2 * v
        /\ node = "supervisor" => v = 0
        /\ node = "reflector" =>
              /\ state.applicant = None => n <= 2 + 2 * v
              /\ state.kyc_result = None => n <= 3 + 2 * v
        /\ BoundedRun

LEMMA VisitCounted ==
    ASSUME TypeOK, node \in Nodes, graph_path' = Append(graph_path, node)
    PROVE  /\ Visits("reflector")' = Visits("reflector") +
                 (IF node = "reflector" THEN 1 ELSE 0)
           /\ Visits("reflector") \in Nat
           /\ Len(graph_path') = Len(graph_path) + 1
           /\ Len(graph_path) \in Nat
<1> DEFINE before == graph_path
           after  == graph_path'
<1>1. before \in Seq(Nodes)
  BY DEF TypeOK
<1>2. /\ Len(after) = Len(before) + 1 /\ Len(before) \in Nat
      /\ \A i \in 1..Len(before) : after[i] = before[i]
      /\ after[Len(before) + 1] = node
  BY <1>1
<1>3. /\ Visits("reflector") = Cardinality(Since(before, 0, "reflector"))
      /\ Visits("reflector")' = Cardinality(Since(after, 0, "reflector"))
  BY DEF Visits, Since
<1> HIDE DEF before, after
<1>4. 0 \in Nat /\ 0 <= Len(before)
  BY <1>2
<1>5. Cardinality(Since(after, 0, "reflector")) =
         Cardinality(Since(before, 0, "reflector"))
         + (IF node = "reflector" THEN 1 ELSE 0)
  BY <1>1, <1>2, <1>4, SinceAppended
<1>6. Cardinality(Since(before, 0, "reflector")) \in Nat
  BY <1>1, <1>4, SinceFinite
<1> QED  BY <1>2, <1>3, <1>5, <1>6 DEF before, after

LEMMA NodesBounded ==
    ASSUME TypeOK, TypeOK', Safety, PathInvariant, NodeStep
    PROVE  PathInvariant'
<1> DEFINE n == Len(graph_path)
           v == Visits("reflector")
           m == Len(graph_path')
           w == Visits("reflector")'
<1>1. /\ graph_path' = Append(graph_path, node) /\ node \in Nodes
  BY StepFrame
<1>2. /\ w = v + (IF node = "reflector" THEN 1 ELSE 0) /\ v \in Nat
      /\ m = n + 1 /\ n \in Nat
  BY <1>1, VisitCounted
<1>3. state.retry_count \in Nat
  BY DEF TypeOK, States
<1> HIDE DEF n, v, m, w
<1>4. node # "END"
  BY <1>1 DEF Nodes, Workers
<1>5. /\ v = 0 \/ (v = 1 /\ state.retry_count >= 1)
      /\ n <= Position[node] + 2 * v
      /\ node = "supervisor" => v = 0
      /\ node = "reflector" => /\ state.applicant = None => n <= 2 + 2 * v
                               /\ state.kyc_result = None => n <= 3 + 2 * v
  BY <1>4 DEF PathInvariant, n, v
\* What is left to show, of the length and the visits counted above.
<1> DEFINE Goal == /\ node' # "END" =>
                         /\ w = 0 \/ (w = 1 /\ state'.retry_count >= 1)
                         /\ m <= Position[node'] + 2 * w
                   /\ node' = "supervisor" => w = 0
                   /\ node' = "reflector" =>
                         /\ state'.applicant = None => m <= 2 + 2 * w
                         /\ state'.kyc_result = None => m <= 3 + 2 * w
                   /\ m <= 8 /\ w <= 2
<1>6. Goal => PathInvariant'
  BY DEF PathInvariant, BoundedRun, StepLimit, MaxRetries, m, w
<1> USE DEF Position
<1>7. CASE SupervisorStep
  <2>1. /\ node = "supervisor" /\ node' = Dispatch(state)
        /\ state'.retry_count = state.retry_count
    BY <1>7, SupervisorEffect DEF SameNotes
  <2>2. w = 0 /\ m = 1
    BY <1>2, <1>5, <2>1
  <2>3. node' \in {"intake", "kyc_check", "credit_assessment", "offer_draft",
                   "END"}
    BY <2>1 DEF Dispatch
  <2> QED  BY <1>6, <2>2, <2>3
<1>8. CASE IntakeStep
  <2>1. node = "intake" /\ node' \in {"reflector", "kyc_check"}
        /\ state'.retry_count = state.retry_count
    BY <1>8, IntakeEffect DEF SameNotes, OnlyNoted
  <2>2. w = v /\ m <= 2 + 2 * v
    BY <1>2, <1>5, <2>1
  <2> QED  BY <1>2, <1>5, <1>6, <2>1, <2>2
<1>9. CASE KycCheckStep
  <2>1. /\ node = "kyc_check"
        /\ node' \in {"reflector", "offer_draft", "credit_assessment"}
        /\ state'.retry_count = state.retry_count
        /\ state'.applicant # None
    BY <1>9, KycCheckEffect DEF SameNotes, OnlyNoted, SameVerdicts
  <2>2. w = v /\ m <= 3 + 2 * v
    BY <1>2, <1>5, <2>1
  <2> QED  BY <1>2, <1>5, <1>6, <2>1, <2>2
<1>10. CASE CreditAssessmentStep
  <2>1. /\ node = "credit_assessment"
        /\ node' \in {"reflector", "offer_draft"}
        /\ state'.retry_count = state.retry_count
        /\ state'.applicant # None /\ state'.kyc_result # None
    BY <1>10, CreditAssessmentEffect DEF SameNotes, OnlyNoted, SameVerdicts
  <2>2. w = v /\ m <= 4 + 2 * v
    BY <1>2, <1>5, <2>1
  <2> QED  BY <1>2, <1>5, <1>6, <2>1, <2>2
<1>11. CASE ReflectorStep
  <2>1. /\ node = "reflector"
        /\ node' = "END" \/ (node' = RetryStage(state) /\ state.retry_count = 0)
        /\ state'.retry_count = state.retry_count + 1
    BY <1>11, ReflectorEffect
  <2>2. w = v + 1 /\ m <= 5 + 2 * v
    BY <1>2, <1>5, <2>1
  <2>3. CASE node' = "END"
    BY <1>2, <1>5, <1>6, <2>2, <2>3
  <2>4. CASE node' = RetryStage(state) /\ state.retry_count = 0
    <3>1. v = 0 /\ w = 1 /\ state'.retry_count = 1
      BY <1>2, <1>3, <1>5, <2>1, <2>2, <2>4
    <3>2. \/ node' = "intake" /\ m <= 3
          \/ node' = "kyc_check" /\ m <= 4
          \/ node' = "credit_assessment" /\ m <= 5
      BY <1>2, <1>5, <2>1, <2>4, <3>1 DEF RetryStage
    <3> QED  BY <1>2, <1>6, <3>1, <3>2
  <2> QED  BY <2>1, <2>3, <2>4
<1>12. CASE OfferDraftStep
  <2>1. /\ node = "offer_draft" /\ node' = "memory_consolidation"
        /\ state'.retry_count = state.retry_count
    BY <1>12, OfferDraftEffect DEF SameNotes
  <2>2. w = v /\ m <= 5 + 2 * v
    BY <1>2, <1>5, <2>1
  <2> QED  BY <1>2, <1>5, <1>6, <2>1, <2>2
<1>13. CASE MemoryConsolidationStep
  <2>1. node = "memory_consolidation" /\ node' = "END"
    BY <1>13, MemoryConsolidationEffect
  <2>2. w = v /\ m <= 6 + 2 * v
    BY <1>2, <1>5, <2>1
  <2> QED  BY <1>2, <1>5, <1>6, <2>1, <2>2
<1> QED  BY <1>7, <1>8, <1>9, <1>10, <1>11, <1>12, <1>13 DEF NodeStep

\* One input never runs more than eight nodes nor reflects more than twice,
\* so LangGraph's own limit of 25 supersteps is never what ends a run.
THEOREM RunsBounded == Spec => []BoundedRun
<1>0. Visits("reflector") = Cardinality({i \in 1..Len(graph_path) :
                                           graph_path[i] = "reflector"})
  BY DEF Visits
<1>1. ASSUME graph_path = << >>, node \in {"supervisor", "END"}
      PROVE  PathInvariant
  <2>1. {i \in 1..Len(graph_path) : graph_path[i] = "reflector"} = {}
    BY <1>1
  <2>2. Visits("reflector") = 0 /\ Len(graph_path) = 0
    BY <1>0, <1>1, <2>1, FS_EmptySet
  <2> QED  BY <1>1, <2>2
    DEF PathInvariant, BoundedRun, StepLimit, MaxRetries, Position
<1>2. ASSUME graph_path' = << >>, node' = "supervisor"
      PROVE  PathInvariant'
  <2>1. {i \in 1..Len(graph_path') : graph_path'[i] = "reflector"} = {}
    BY <1>2
  <2>2. Visits("reflector")' = 0 /\ Len(graph_path') = 0
    BY <1>2, <2>1, FS_EmptySet DEF Visits
  <2> QED  BY <1>2, <2>2
    DEF PathInvariant, BoundedRun, StepLimit, MaxRetries, Position
<1>3. Init => PathInvariant
  BY <1>1 DEF Init
<1>4. TypeOK /\ TypeOK' /\ Safety /\ PathInvariant /\ [Next]_vars
         => PathInvariant'
  <2> SUFFICES ASSUME TypeOK, TypeOK', Safety, PathInvariant, [Next]_vars
               PROVE  PathInvariant'
    OBVIOUS
  <2>1. CASE NodeStep
    BY <2>1, NodesBounded
  <2>2. ASSUME NEW a \in Applications, Submit(a)
        PROVE  PathInvariant'
    BY <1>2, <2>2, SubmitEffect
  <2>3. CASE FollowUp
    BY <1>2, <2>3, FollowUpEffect
  <2>4. CASE Resume \/ Crash \/ UNCHANGED vars
    <3>1. state' = state /\ node' = node /\ graph_path' = graph_path
      BY <2>4, StillEffect
    <3> QED  BY <3>1 DEF PathInvariant, BoundedRun, Visits
  <2> QED  BY <2>1, <2>2, <2>3, <2>4 DEF Next
<1>5. PathInvariant => BoundedRun
  BY DEF PathInvariant
<1> QED  BY <1>3, <1>4, <1>5, Safe, TypeCorrect, PTL DEF Spec

\* What makes RunCompletes true, short of the fairness of supersteps: every
\* one of them commits and makes the run longer, for no node ever raises, and
\* no run is longer than eight.
THEOREM SuperstepsCommit ==
    Spec => [][NodeStep => /\ Len(graph_path') = Len(graph_path) + 1
                           /\ Len(graph_path') <= StepLimit]_vars
<1>1. TypeOK /\ Safety /\ BoundedRun' /\ [Next]_vars =>
        [NodeStep => /\ Len(graph_path') = Len(graph_path) + 1
                     /\ Len(graph_path') <= StepLimit]_vars
  <2> SUFFICES ASSUME TypeOK, Safety, BoundedRun', NodeStep
               PROVE  /\ Len(graph_path') = Len(graph_path) + 1
                      /\ Len(graph_path') <= StepLimit
    OBVIOUS
  <2>1. graph_path' = Append(graph_path, node)
    BY StepFrame
  <2>2. graph_path \in Seq(Nodes)
    BY DEF TypeOK
  <2>3. Len(graph_path') <= StepLimit
    BY DEF BoundedRun, StepLimit
  <2> QED  BY <2>1, <2>2, <2>3
<1> QED  BY <1>1, RunsBounded, Safe, TypeCorrect, PTL DEF Spec

-----------------------------------------------------------------------------
(* Thin files.                                                             *)

\* What makes ThinFileReferral inductive: on its first application a thread
\* is never reflected on with its budget spent, so the reflector looks at the
\* thin file before it looks at the budget.
ReferralInvariant ==
    /\ used.follow_ups = 0 /\ used.submissions <= 1 =>
          (node # "END" \/ used.submissions = 0 =>
              state.retry_count < MaxRetries)
    /\ ThinFileReferral

LEMMA NodesRefer ==
    ASSUME TypeOK, TypeOK', Safety, GateInvariant, HistoryInvariant,
           ReferralInvariant, NodeStep
    PROVE  ReferralInvariant'
<1>1. /\ used' = used /\ used.submissions > 0 /\ used.submissions \in Nat
      /\ node \in Nodes
  BY StepFrame, ThreadStarted, TuningAssumption DEF TypeOK
<1>2. node # "END"
  BY <1>1 DEF Nodes, Workers
<1>3. SUFFICES ASSUME used.follow_ups = 0, used.submissions = 1
               PROVE  /\ node' # "END" => state'.retry_count < MaxRetries
                      /\ node' = "END" /\ state'.credit_assessment # None
                            /\ state'.credit_assessment.thin_file =>
                         state'.offer # None
  BY <1>1 DEF ReferralInvariant, ThinFileReferral
<1>4. state.retry_count < MaxRetries /\ state.retry_count \in Nat
  BY <1>1, <1>2, <1>3 DEF ReferralInvariant, TypeOK, States
<1>5. CASE SupervisorStep
  BY <1>4, <1>5, SupervisorEffect DEF SameVerdicts, SameNotes, Dispatch
<1>6. CASE IntakeStep
  BY <1>4, <1>6, IntakeEffect DEF SameNotes, OnlyNoted
<1>7. CASE KycCheckStep
  BY <1>4, <1>7, KycCheckEffect DEF SameNotes, OnlyNoted
<1>8. CASE CreditAssessmentStep
  BY <1>4, <1>8, CreditAssessmentEffect DEF SameNotes, OnlyNoted
<1>9. CASE ReflectorStep
  <2>1. /\ node' = "END" \/ state.retry_count = 0
        /\ state'.retry_count = state.retry_count + 1
        /\ state'.credit_assessment = state.credit_assessment
    BY <1>9, ReflectorEffect
  <2>2. ASSUME state.credit_assessment # None, state.credit_assessment.thin_file
        PROVE  state'.offer # None
    <3>1. ~KycIs("manual_review")
      BY <1>3, <2>2 DEF GateInvariant, KycIs
    <3>2. state'.offer = Referral("thin_file")
      BY <1>4, <1>9, <2>2, <3>1, ReflectorEffect
    <3>3. Referral("thin_file") \in Offer
      BY DEF Referral, Offer
    <3> QED  BY <3>2, <3>3, NoneAssumption
  <2> QED  BY <1>4, <2>1, <2>2 DEF MaxRetries
<1>10. CASE OfferDraftStep
  BY <1>4, <1>10, OfferDraftEffect DEF SameNotes
<1>11. CASE MemoryConsolidationStep
  BY <1>11, MemoryConsolidationEffect
<1> QED  BY <1>5, <1>6, <1>7, <1>8, <1>9, <1>10, <1>11 DEF NodeStep

\* On a thread's first application no thin file is handed to a human without
\* the referral offer the queue works from, whatever failed on the way.
THEOREM ThinFilesReferred == Spec => []ThinFileReferral
<1>1. Init => ReferralInvariant
  <2> SUFFICES ASSUME Init PROVE ReferralInvariant
    OBVIOUS
  <2>1. /\ state.retry_count = 0 /\ state.credit_assessment = None
    BY DEF Init, Blank, Channels, Appending, LastValue
  <2> QED  BY <2>1 DEF ReferralInvariant, ThinFileReferral, MaxRetries
<1>2. TypeOK /\ TypeOK' /\ Safety /\ GateInvariant /\ HistoryInvariant
         /\ ReferralInvariant /\ [Next]_vars => ReferralInvariant'
  <2> SUFFICES ASSUME TypeOK, TypeOK', Safety, GateInvariant,
                      HistoryInvariant, ReferralInvariant, [Next]_vars
               PROVE  ReferralInvariant'
    OBVIOUS
  <2>0. used.submissions \in Nat /\ used.follow_ups \in Nat
    BY TuningAssumption DEF TypeOK
  <2>1. CASE NodeStep
    BY <2>1, NodesRefer
  <2>2. ASSUME NEW a \in Applications, Submit(a)
        PROVE  ReferralInvariant'
    <3>1. /\ node' = "supervisor" /\ SameNotes
          /\ used'.submissions = used.submissions + 1
          /\ used'.follow_ups = used.follow_ups
      BY <2>2, SubmitEffect
    <3> QED  BY <2>0, <3>1 DEF ReferralInvariant, ThinFileReferral, SameNotes
  <2>3. CASE FollowUp
    <3>1. used'.follow_ups # 0
      BY <2>3, FollowUpEffect
    <3> QED  BY <3>1 DEF ReferralInvariant, ThinFileReferral
  <2>4. CASE Resume \/ Crash \/ UNCHANGED vars
    <3>1. /\ state' = state /\ node' = node
          /\ used'.submissions = used.submissions
          /\ used'.follow_ups = used.follow_ups
      BY <2>4, StillEffect
    <3> QED  BY <3>1 DEF ReferralInvariant, ThinFileReferral
  <2> QED  BY <2>1, <2>2, <2>3, <2>4 DEF Next
<1>3. ReferralInvariant => ThinFileReferral
  BY DEF ReferralInvariant
<1> QED  BY <1>1, <1>2, <1>3, Safe, GateAlways, HistoryAlways, TypeCorrect, PTL
         DEF Spec

-----------------------------------------------------------------------------
(* Long-term memory.                                                       *)

\* What the store holds of a session.
StoredOf(store, session) == {i \in 1..Len(store) : store[i].session = session}

\* What makes RememberedOnce inductive: nothing is stored ahead of its
\* submission, and a run that has not ended has yet to consolidate.
MemoryInvariant ==
    LET mine == StoredOf(memory, used.submissions)
    IN  /\ \A i \in 1..Len(memory) : memory[i].session <= used.submissions
        /\ mine # {} => state.offer # None
        /\ Cardinality(mine) <= used.follow_ups + used.crashes
                                + (IF node = "END" THEN 1 ELSE 0)

LEMMA StoredFinite ==
    ASSUME NEW store \in Seq(Batches), NEW session
    PROVE  /\ IsFiniteSet(StoredOf(store, session))
           /\ Cardinality(StoredOf(store, session)) \in Nat
<1>1. IsFiniteSet(1..Len(store))
  BY FS_Interval
<1>2. IsFiniteSet(StoredOf(store, session))
  BY <1>1, FS_Subset DEF StoredOf
<1> QED  BY <1>2, FS_CardinalityType

\* Consolidation stores nothing, or one batch of the application at hand.
LEMMA StoredOnce ==
    ASSUME TypeOK, MemoryInvariant, memory' \in Consolidated
    PROVE  LET mine  == StoredOf(memory, used.submissions)
               later == StoredOf(memory', used.submissions)
           IN  /\ \A i \in 1..Len(memory') :
                     memory'[i].session <= used.submissions
               /\ Cardinality(later) <= Cardinality(mine) + 1
               /\ Cardinality(later) \in Nat /\ Cardinality(mine) \in Nat
<1> DEFINE k == used.submissions
<1>1. memory \in Seq(Batches) /\ k \in Nat
  BY TuningAssumption DEF TypeOK
<1>2. Cardinality(StoredOf(memory, k)) \in Nat /\ IsFiniteSet(StoredOf(memory, k))
  BY <1>1, StoredFinite
<1>3. CASE memory' = memory
  BY <1>1, <1>2, <1>3 DEF MemoryInvariant
<1>4. ASSUME NEW n \in 1..MaxFacts,
             memory' = Append(memory, [session |-> k, stored |-> n])
      PROVE  /\ \A i \in 1..Len(memory') : memory'[i].session <= k
             /\ Cardinality(StoredOf(memory', k)) =
                   Cardinality(StoredOf(memory, k)) + 1
  <2> DEFINE batch == [session |-> k, stored |-> n]
  <2>0. batch.session = k /\ memory' = Append(memory, batch)
    BY <1>4
  <2>1. \A i \in 1..Len(memory) : memory[i].session <= k
    BY DEF MemoryInvariant
  <2> HIDE DEF batch, k
  <2>2. /\ Len(memory') = Len(memory) + 1 /\ Len(memory) \in Nat
        /\ \A i \in 1..Len(memory) : memory'[i] = memory[i]
        /\ memory'[Len(memory) + 1] = batch
    BY <1>1, <2>0
  <2>3. \A i \in 1..Len(memory') : memory'[i].session <= k
    BY <1>1, <2>0, <2>1, <2>2
  <2>4. StoredOf(memory', k) = StoredOf(memory, k) \cup {Len(memory) + 1}
    BY <1>1, <2>0, <2>2 DEF StoredOf
  <2>5. Len(memory) + 1 \notin StoredOf(memory, k)
    BY <2>2 DEF StoredOf
  <2>6. Cardinality(StoredOf(memory', k)) = Cardinality(StoredOf(memory, k)) + 1
    <3> DEFINE mine == StoredOf(memory, k)
               new  == Len(memory) + 1
    <3>1. IsFiniteSet(mine) /\ new \notin mine
      BY <1>2, <2>5
    <3> HIDE DEF mine, new
    <3>2. Cardinality(mine \cup {new}) = Cardinality(mine) + 1
      BY <3>1, FS_AddElement
    <3> QED  BY <2>4, <3>2 DEF mine, new
  <2> QED  BY <2>3, <2>6
<1>5. CASE memory' # memory
  <2>1. PICK n \in 1..MaxFacts :
           memory' = Append(memory, [session |-> k, stored |-> n])
    BY <1>5 DEF Consolidated
  <2> QED  BY <1>2, <1>4, <2>1
<1> QED  BY <1>3, <1>5

\* No node takes an offer back.
LEMMA OfferLasts ==
    ASSUME TypeOK, TypeOK', Safety, NodeStep, state.offer # None
    PROVE  state'.offer # None
<1>1. CASE SupervisorStep
  BY <1>1, SupervisorEffect DEF SameVerdicts
<1>2. CASE IntakeStep
  BY <1>2, IntakeEffect
<1>3. CASE KycCheckStep
  BY <1>3, KycCheckEffect
<1>4. CASE CreditAssessmentStep
  <2>1. \/ \E t \in {"mcp_bureau_check_failure", "llm_rationale_failure"} :
              OnlyNoted(t, "retry")
        \/ state'.offer = state.offer
    BY <1>4, CreditAssessmentEffect
  <2>2. ASSUME NEW t, OnlyNoted(t, "retry") PROVE state'.offer = state.offer
    BY <2>2 DEF OnlyNoted, SameVerdicts
  <2> QED  BY <2>1, <2>2
<1>5. CASE ReflectorStep
  <2>1. state'.offer \in {state.offer, Referral("thin_file")}
    BY <1>5, ReflectorEffect
  <2>2. Referral("thin_file") \in Offer
    BY DEF Referral, Offer
  <2> QED  BY <2>1, <2>2, NoneAssumption
<1>6. CASE OfferDraftStep
  BY <1>6, OfferDraftEffect
<1>7. CASE MemoryConsolidationStep
  BY <1>7, MemoryConsolidationEffect
<1> QED  BY <1>1, <1>2, <1>3, <1>4, <1>5, <1>6, <1>7 DEF NodeStep

LEMMA NodesRemember ==
    ASSUME TypeOK, TypeOK', Safety, MemoryInvariant, NodeStep
    PROVE  MemoryInvariant'
<1> DEFINE k == used.submissions
<1>1. /\ used' = used /\ node \in Nodes /\ node # "END"
      /\ used.crashes \in Nat /\ used.follow_ups \in Nat
      /\ memory \in Seq(Batches)
  BY StepFrame, TuningAssumption DEF Nodes, Workers, TypeOK
<1>2. Cardinality(StoredOf(memory, k)) \in Nat
  BY <1>1, StoredFinite
<1>3. Cardinality(StoredOf(memory, k)) <= used.follow_ups + used.crashes
  BY <1>1 DEF MemoryInvariant
<1>4. CASE MemoryConsolidationStep
  <2>1. /\ node' = "END" /\ state' = state /\ memory' \in Consolidated
        /\ state.offer # None
    BY <1>4, MemoryConsolidationEffect
  <2>2. /\ \A i \in 1..Len(memory') : memory'[i].session <= k
        /\ Cardinality(StoredOf(memory', k)) <=
              Cardinality(StoredOf(memory, k)) + 1
        /\ Cardinality(StoredOf(memory', k)) \in Nat
    BY <2>1, StoredOnce
  <2>3. Cardinality(StoredOf(memory', k)) <= used.follow_ups + used.crashes + 1
    BY <1>1, <1>2, <1>3, <2>2
  <2> QED  BY <1>1, <2>1, <2>2, <2>3 DEF MemoryInvariant
<1>5. CASE ~MemoryConsolidationStep
  <2>1. node # "memory_consolidation"
    BY <1>5 DEF NodeStep, SupervisorStep, IntakeStep, KycCheckStep,
                CreditAssessmentStep, ReflectorStep, OfferDraftStep, Scheduled
  <2>2. memory' = memory
    BY <2>1, StepFrame
  <2>3. StoredOf(memory', k) # {} => state'.offer # None
    BY <2>2, OfferLasts DEF MemoryInvariant
  <2>4. Cardinality(StoredOf(memory', k)) <= used.follow_ups + used.crashes
                                            + (IF node' = "END" THEN 1 ELSE 0)
    BY <1>1, <1>2, <1>3, <2>2
  <2> QED  BY <1>1, <2>2, <2>3, <2>4 DEF MemoryInvariant
<1> QED  BY <1>4, <1>5

\* Whatever crashed, was resumed or asked again, memory holds facts of an
\* application only over its offer, from one consolidation for each of its
\* inputs and one for each crash between the store's writes and the checkpoint.
THEOREM MemoryRemembersOnce == Spec => []RememberedOnce
<1>1. Init => MemoryInvariant
  <2> SUFFICES ASSUME Init PROVE MemoryInvariant
    OBVIOUS
  <2>1. StoredOf(memory, used.submissions) = {} /\ Len(memory) = 0
    BY DEF Init, StoredOf
  <2>2. Cardinality(StoredOf(memory, used.submissions)) = 0
    BY <2>1, FS_EmptySet
  <2> QED  BY <2>1, <2>2 DEF MemoryInvariant, Init
<1>2. TypeOK /\ TypeOK' /\ Safety /\ MemoryInvariant /\ [Next]_vars
         => MemoryInvariant'
  <2> SUFFICES ASSUME TypeOK, TypeOK', Safety, MemoryInvariant, [Next]_vars
               PROVE  MemoryInvariant'
    OBVIOUS
  <2>0. /\ used.submissions \in Nat /\ used.follow_ups \in Nat
        /\ used.crashes \in Nat /\ memory \in Seq(Batches)
        /\ used'.crashes \in Nat
        /\ Cardinality(StoredOf(memory, used.submissions)) \in Nat
    <3>1. /\ used.submissions \in Nat /\ used.follow_ups \in Nat
          /\ used.crashes \in Nat /\ memory \in Seq(Batches)
          /\ used'.crashes \in Nat
      BY TuningAssumption DEF TypeOK
    <3> QED  BY <3>1, StoredFinite
  <2>1. CASE NodeStep
    BY <2>1, NodesRemember
  <2>2. ASSUME NEW a \in Applications, Submit(a)
        PROVE  MemoryInvariant'
    <3>1. /\ memory' = memory /\ node' = "supervisor"
          /\ used'.submissions = used.submissions + 1
          /\ used'.follow_ups = used.follow_ups
          /\ used'.crashes = used.crashes
      BY <2>2, SubmitEffect
    <3>2. \A i \in 1..Len(memory) : memory[i].session \in Nat
      <4>1. \A i \in 1..Len(memory) : memory[i] \in Batches
        BY <2>0
      <4>2. \A batch \in Batches : batch.session \in Nat
        BY DEF Batches
      <4> QED  BY <4>1, <4>2
    <3>3. \A i \in 1..Len(memory') :
            memory'[i].session <= used'.submissions
            /\ memory'[i].session # used'.submissions
      BY <2>0, <3>1, <3>2 DEF MemoryInvariant
    <3>4. StoredOf(memory', used'.submissions) = {}
      BY <3>3 DEF StoredOf
    <3>5. Cardinality(StoredOf(memory', used'.submissions)) = 0
      BY <3>4, FS_EmptySet
    <3> QED  BY <2>0, <3>1, <3>3, <3>4, <3>5 DEF MemoryInvariant
  <2>3. CASE FollowUp
    <3>1. /\ memory' = memory /\ used'.submissions = used.submissions
          /\ used'.follow_ups = used.follow_ups + 1
          /\ node' = "supervisor" /\ state'.offer = state.offer
      BY <2>0, <2>3, FollowUpEffect DEF SameVerdicts
    <3>2. used' = [used EXCEPT !.follow_ups = used.follow_ups + 1]
      BY <2>3 DEF FollowUp
    <3>3. used'.crashes = used.crashes
      BY <3>2 DEF TypeOK
    <3>4. Cardinality(StoredOf(memory, used.submissions))
             <= used.follow_ups + 1 + used.crashes
      BY <2>0 DEF MemoryInvariant
    <3> QED  BY <2>0, <3>1, <3>3, <3>4 DEF MemoryInvariant
  <2>4. CASE Resume \/ Crash \/ UNCHANGED vars
    <3> DEFINE k == used.submissions
    <3>1. /\ state' = state /\ node' = node
          /\ used'.submissions = k
          /\ used'.follow_ups = used.follow_ups
          /\ \/ memory' = memory /\ used'.crashes >= used.crashes
             \/ /\ node = "memory_consolidation"
                /\ memory' \in Consolidated
                /\ used'.crashes = used.crashes + 1
      BY <2>4, StillEffect
    <3>2. CASE memory' = memory /\ used'.crashes >= used.crashes
      BY <2>0, <3>1, <3>2 DEF MemoryInvariant
    <3>3. CASE /\ node = "memory_consolidation"
               /\ memory' \in Consolidated
               /\ used'.crashes = used.crashes + 1
      <4>1. /\ \A i \in 1..Len(memory') : memory'[i].session <= k
            /\ Cardinality(StoredOf(memory', k)) <=
                  Cardinality(StoredOf(memory, k)) + 1
            /\ Cardinality(StoredOf(memory', k)) \in Nat
        BY <3>3, StoredOnce
      <4>2. /\ Cardinality(StoredOf(memory, k)) <=
                  used.follow_ups + used.crashes
            /\ state.offer # None
        BY <2>0, <3>3 DEF MemoryInvariant, Safety, WorkerPreconditions
      <4>3. Cardinality(StoredOf(memory', k)) <= used.follow_ups + used'.crashes
        BY <2>0, <3>3, <4>1, <4>2
      <4> QED  BY <2>0, <3>1, <3>3, <4>1, <4>2, <4>3 DEF MemoryInvariant
    <3> QED  BY <3>1, <3>2, <3>3
  <2> QED  BY <2>1, <2>2, <2>3, <2>4 DEF Next
<1>3. TypeOK /\ MemoryInvariant => RememberedOnce
  <2> SUFFICES ASSUME TypeOK, MemoryInvariant
               PROVE  RememberedOnce
    OBVIOUS
  <2>1. /\ Consolidations = StoredOf(memory, used.submissions)
        /\ Cardinality(Consolidations) \in Nat
        /\ used.crashes \in Nat /\ used.follow_ups \in Nat
    <3>1. /\ used.crashes \in Nat /\ used.follow_ups \in Nat
          /\ memory \in Seq(Batches)
      BY TuningAssumption DEF TypeOK
    <3>2. Consolidations = StoredOf(memory, used.submissions)
      BY DEF Consolidations, StoredOf
    <3> QED  BY <3>1, <3>2, StoredFinite
  <2>2. Cardinality(Consolidations) <= 1 + used.follow_ups + used.crashes
    BY <2>1 DEF MemoryInvariant
  <2> QED  BY <2>1, <2>2 DEF MemoryInvariant, RememberedOnce
<1> QED  BY <1>1, <1>2, <1>3, Safe, TypeCorrect, PTL DEF Spec
=============================================================================
