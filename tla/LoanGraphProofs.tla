--------------------------- MODULE LoanGraphProofs ---------------------------
(***************************************************************************)
(* What holds of LoanGraph for every set of applications, every record of  *)
(* the data files, every tuning and every number of inputs and crashes.    *)
(***************************************************************************)
EXTENDS LoanGraph, TLAPS

-----------------------------------------------------------------------------
(* The reducer.                                                            *)

\* The dict a node returns holds a value of its channel's type wherever it
\* names a channel.
TypedUpdate(u) ==
    LET Writes(c) == c \in DOMAIN u
    IN  /\ Writes("messages") => u.messages \in Seq(Message)
        /\ Writes("applicant") => u.applicant \in Optional(Applications)
        /\ Writes("kyc_result") => u.kyc_result \in Optional(KycResult)
        /\ Writes("credit_assessment") =>
              u.credit_assessment \in Optional(Assessment)
        /\ Writes("offer") => u.offer \in Optional(Offer)
        /\ Writes("next_node") => u.next_node \in Optional(Nodes \cup {"END"})
        /\ Writes("retry_count") => u.retry_count \in Nat
        /\ Writes("reflection_log") => u.reflection_log \in Seq(ReflectionNote)
        /\ Writes("quarantined_inputs") =>
              u.quarantined_inputs \in Seq(Applications)
        /\ Writes("compressed_summary") =>
              u.compressed_summary \in Optional(Nat)
        /\ Writes("long_term_memory_hits") =>
              u.long_term_memory_hits \in Optional(Seq(Batches))
        /\ Writes("compliance_flags") => u.compliance_flags \in Seq(Flags)

\* Merge appends to the accumulating channels, adds to the retry count and
\* replaces the rest, channel by channel.
LEMMA MergeChannels ==
    ASSUME NEW s, NEW u
    PROVE  LET m == Merge(s, u)
               Writes(c) == c \in DOMAIN u
           IN  /\ m.messages = IF Writes("messages")
                               THEN s.messages \o u.messages ELSE s.messages
               /\ m.reflection_log =
                     IF Writes("reflection_log")
                     THEN s.reflection_log \o u.reflection_log
                     ELSE s.reflection_log
               /\ m.quarantined_inputs =
                     IF Writes("quarantined_inputs")
                     THEN s.quarantined_inputs \o u.quarantined_inputs
                     ELSE s.quarantined_inputs
               /\ m.compliance_flags =
                     IF Writes("compliance_flags")
                     THEN s.compliance_flags \o u.compliance_flags
                     ELSE s.compliance_flags
               /\ m.retry_count = IF Writes("retry_count")
                                  THEN s.retry_count + u.retry_count
                                  ELSE s.retry_count
               /\ m.applicant = IF Writes("applicant")
                                THEN u.applicant ELSE s.applicant
               /\ m.kyc_result = IF Writes("kyc_result")
                                 THEN u.kyc_result ELSE s.kyc_result
               /\ m.credit_assessment = IF Writes("credit_assessment")
                                        THEN u.credit_assessment
                                        ELSE s.credit_assessment
               /\ m.offer = IF Writes("offer") THEN u.offer ELSE s.offer
               /\ m.next_node = IF Writes("next_node")
                                THEN u.next_node ELSE s.next_node
               /\ m.compressed_summary = IF Writes("compressed_summary")
                                         THEN u.compressed_summary
                                         ELSE s.compressed_summary
               /\ m.long_term_memory_hits = IF Writes("long_term_memory_hits")
                                            THEN u.long_term_memory_hits
                                            ELSE s.long_term_memory_hits
  BY DEF Merge, Channels, Appending, LastValue

LEMMA ConcatTyped ==
    ASSUME NEW S, NEW left \in Seq(S), NEW right \in Seq(S)
    PROVE  left \o right \in Seq(S)
  OBVIOUS

\* What a node appends: nothing, or one entry.
LEMMA EntryTyped ==
    ASSUME NEW S, NEW x \in S
    PROVE  << >> \in Seq(S) /\ <<x>> \in Seq(S)
  OBVIOUS

\* A typed update leaves the thread's state typed.
LEMMA MergeTyped ==
    ASSUME NEW s \in States, NEW u, TypedUpdate(u)
    PROVE  Merge(s, u) \in States
<1> DEFINE m == Merge(s, u)
<1>1. m = [c \in Channels |-> m[c]]
  BY DEF Merge
<1>2. /\ m.messages \in Seq(Message)
      /\ m.reflection_log \in Seq(ReflectionNote)
      /\ m.quarantined_inputs \in Seq(Applications)
      /\ m.compliance_flags \in Seq(Flags)
      /\ m.retry_count \in Nat
  <2>1. m.messages \in Seq(Message)
    <3>1. s.messages \in Seq(Message)
      BY DEF States
    <3>2. CASE "messages" \in DOMAIN u
      <4>1. u.messages \in Seq(Message)
        BY <3>2 DEF TypedUpdate
      <4>2. m.messages = s.messages \o u.messages
        BY <3>2, MergeChannels
      <4> QED  BY <3>1, <4>1, <4>2, ConcatTyped
    <3> QED  BY <3>1, <3>2, MergeChannels
  <2>2. m.reflection_log \in Seq(ReflectionNote)
    <3>1. s.reflection_log \in Seq(ReflectionNote)
      BY DEF States
    <3>2. CASE "reflection_log" \in DOMAIN u
      <4>1. u.reflection_log \in Seq(ReflectionNote)
        BY <3>2 DEF TypedUpdate
      <4>2. m.reflection_log = s.reflection_log \o u.reflection_log
        BY <3>2, MergeChannels
      <4> QED  BY <3>1, <4>1, <4>2, ConcatTyped
    <3> QED  BY <3>1, <3>2, MergeChannels
  <2>3. m.quarantined_inputs \in Seq(Applications)
    <3>1. s.quarantined_inputs \in Seq(Applications)
      BY DEF States
    <3>2. CASE "quarantined_inputs" \in DOMAIN u
      <4>1. u.quarantined_inputs \in Seq(Applications)
        BY <3>2 DEF TypedUpdate
      <4>2. m.quarantined_inputs =
               s.quarantined_inputs \o u.quarantined_inputs
        BY <3>2, MergeChannels
      <4> QED  BY <3>1, <4>1, <4>2, ConcatTyped
    <3> QED  BY <3>1, <3>2, MergeChannels
  <2>4. m.compliance_flags \in Seq(Flags)
    <3>1. s.compliance_flags \in Seq(Flags)
      BY DEF States
    <3>2. CASE "compliance_flags" \in DOMAIN u
      <4>1. u.compliance_flags \in Seq(Flags)
        BY <3>2 DEF TypedUpdate
      <4>2. m.compliance_flags = s.compliance_flags \o u.compliance_flags
        BY <3>2, MergeChannels
      <4> QED  BY <3>1, <4>1, <4>2, ConcatTyped
    <3> QED  BY <3>1, <3>2, MergeChannels
  <2>5. m.retry_count \in Nat
    <3>1. s.retry_count \in Nat
      BY DEF States
    <3>2. CASE "retry_count" \in DOMAIN u
      <4>1. u.retry_count \in Nat
        BY <3>2 DEF TypedUpdate
      <4>2. m.retry_count = s.retry_count + u.retry_count
        BY <3>2, MergeChannels
      <4> HIDE DEF m
      <4> QED  BY <3>1, <4>1, <4>2
    <3>3. CASE "retry_count" \notin DOMAIN u
      BY <3>1, <3>3, MergeChannels
    <3> QED  BY <3>2, <3>3
  <2> QED  BY <2>1, <2>2, <2>3, <2>4, <2>5
<1>3. /\ m.applicant \in Optional(Applications)
      /\ m.kyc_result \in Optional(KycResult)
      /\ m.credit_assessment \in Optional(Assessment)
      /\ m.offer \in Optional(Offer)
      /\ m.next_node \in Optional(Nodes \cup {"END"})
      /\ m.compressed_summary \in Optional(Nat)
      /\ m.long_term_memory_hits \in Optional(Seq(Batches))
  BY MergeChannels DEF TypedUpdate, States
<1> HIDE DEF m
<1>4. m \in States
  BY <1>1, <1>2, <1>3 DEF States, Channels, Appending, LastValue
<1> QED  BY <1>4 DEF m

-----------------------------------------------------------------------------
(* The nodes return typed updates.                                         *)

\* The rounded debt ratio is a natural number.
LEMMA DtiIsNatural ==
    ASSUME NEW outstanding \in Nat, NEW income \in Nat
    PROVE  DtiEstimates(outstanding, income) \subseteq Nat
<1> DEFINE base == Larger(income, 12)
<1>1. base \in Nat /\ base > 0
  BY DEF Larger
<1>2. 500 * outstanding \in Nat
  OBVIOUS
<1> HIDE DEF base
<1>3. (500 * outstanding) \div base \in Nat
  BY <1>1, <1>2
<1> QED  BY <1>3 DEF DtiEstimates, base

\* What bureau_check answers for any application passes its schema.
LEMMA BureauTyped ==
    ASSUME NEW a \in Applications, NEW b \in BureauOf(a)
    PROVE  b \in [synthetic_score : 300..900, thin_file : BOOLEAN, dti : Nat]
<1>1. Income[a] \in Nat /\ Income[a] \div 500 \in Nat
  BY PayloadAssumption
<1>2. CASE BureauRecord[a] = None
  <2>1. DtiEstimates(UnknownOutstanding, Income[a]) \subseteq Nat
    BY <1>1, DtiIsNatural DEF UnknownOutstanding
  <2> DEFINE score == Larger(300, IF 300 + Income[a] \div 500 <= 500
                                  THEN 300 + Income[a] \div 500 ELSE 500)
  <2>2. score \in 300..900
    BY <1>1 DEF Larger
  <2>3. PICK d \in Nat : b = [synthetic_score |-> score, thin_file |-> TRUE,
                              dti |-> d]
    BY <1>2, <2>1 DEF BureauOf, BureauChecks
  <2> HIDE DEF score
  <2> QED  BY <2>2, <2>3
<1>3. CASE BureauRecord[a] # None
  <2>1. BureauRecord[a] \in [synthetic_score : 300..900,
                             total_outstanding : Nat, thin_file : BOOLEAN]
    BY <1>3, PayloadAssumption
  <2>2. DtiEstimates(BureauRecord[a].total_outstanding, Income[a])
            \subseteq Nat
    BY <1>1, <2>1, DtiIsNatural
  <2> QED  BY <1>3, <2>1, <2>2 DEF BureauOf, BureauChecks
<1> QED  BY <1>2, <1>3

\* The zero offers and the tier table's ceilings pass the OfferDraft schema.
LEMMA PriceTyped ==
    ASSUME NEW d \in Decisions, NEW score \in 300..900, NEW income \in Nat
    PROVE  PriceOffer(d, score, income) \in Offer
  BY DEF PriceOffer, OfferConstraints, Referral, Offer, Decisions,
         PremiumIncome

LEMMA ContextTyped ==
    ASSUME NEW s \in States
    PROVE  PrepareContext(s) \subseteq Optional(Nat)
<1>1. s.messages \in Seq(Message) /\ s.compressed_summary \in Optional(Nat)
  BY DEF States
<1>2. Len(s.messages) \in Nat
  BY <1>1
<1>3. Len(s.messages) > Threshold => Len(s.messages) - KeepRecent \in Nat
  BY <1>2, TuningAssumption
<1> QED  BY <1>1, <1>2, <1>3, TuningAssumption DEF PrepareContext, Summaries,
     Optional

LEMMA SupervisorTyped ==
    ASSUME NEW s \in States, NEW u \in Supervisor(s)
    PROVE  TypedUpdate(u)
  BY DEF Supervisor, Dispatch, TypedUpdate, Nodes, Workers, Optional

LEMMA NotedTyped ==
    ASSUME NEW t \in Triggers, NEW action \in {"retry", "escalate_to_human"}
    PROVE  TypedUpdate(Noted(t, action))
  BY DEF Noted, Note, TypedUpdate, ReflectionNote

LEMMA RejectedTyped ==
    ASSUME NEW t \in Triggers, NEW action \in {"retry", "escalate_to_human"}
    PROVE  TypedUpdate(Rejected(t, action))
  BY DEF Rejected, Note, TypedUpdate, ReflectionNote, Nodes, Workers, Optional

LEMMA IntakeTyped ==
    ASSUME NEW s \in States, memory \in Seq(Batches), NEW u \in Intake(s)
    PROVE  TypedUpdate(u)
<1>1. CASE u = Rejected("missing_application_payload", "escalate_to_human")
           \/ u = Rejected("intake_validation_error", "retry")
  BY <1>1, RejectedTyped DEF Triggers, Replan
<1>2. CASE ~(u = Rejected("missing_application_payload", "escalate_to_human")
             \/ u = Rejected("intake_validation_error", "retry"))
  <2>1. PICK a \in Applications, summary \in PrepareContext(s),
             hits \in Recall :
             u = [applicant |-> a, next_node |-> "kyc_check",
                  compressed_summary |-> summary,
                  long_term_memory_hits |-> hits,
                  messages |-> <<"intake">>,
                  quarantined_inputs |->
                      IF Notes[a] = "none" THEN << >> ELSE <<a>>,
                  compliance_flags |->
                      IF Notes[a] = "suspicious"
                      THEN <<"suspected_prompt_injection_in_free_text">>
                      ELSE << >>]
    BY <1>2 DEF Intake
  <2>2. summary \in Optional(Nat)
    BY ContextTyped
  <2>3. hits \in Seq(Batches)
    <3>1. hits = << >> \/ hits = memory
      BY DEF Recall
    <3>2. << >> \in Seq(Batches)
      OBVIOUS
    <3> QED  BY <3>1, <3>2, Zenon
  <2>4. /\ u.applicant \in Optional(Applications)
        /\ u.next_node \in Optional(Nodes \cup {"END"})
        /\ u.compressed_summary \in Optional(Nat)
        /\ u.long_term_memory_hits \in Optional(Seq(Batches))
    BY <2>1, <2>2, <2>3 DEF Workers, Nodes, Optional
  <2>5. u.messages \in Seq(Message)
    BY <2>1 DEF Message, Workers
  <2>6. u.quarantined_inputs \in Seq(Applications)
    BY <2>1
  <2>7. u.compliance_flags \in Seq(Flags)
    <3>1. \/ u.compliance_flags = << >>
          \/ u.compliance_flags = <<"suspected_prompt_injection_in_free_text">>
      BY <2>1
    <3>2. "suspected_prompt_injection_in_free_text" \in Flags
      BY DEF Flags
    <3> QED  BY <3>1, <3>2, EntryTyped, Zenon
  <2>8. DOMAIN u = {"applicant", "next_node", "compressed_summary",
                    "long_term_memory_hits", "messages",
                    "quarantined_inputs", "compliance_flags"}
    BY <2>1
  <2> QED  BY <2>4, <2>5, <2>6, <2>7, <2>8 DEF TypedUpdate
<1> QED  BY <1>1, <1>2

LEMMA KycCheckTyped ==
    ASSUME NEW s \in States, NEW u \in KycCheck(s)
    PROVE  TypedUpdate(u)
<1>1. CASE \E t \in {"missing_prerequisite_state",
                     "mcp_applicant_lookup_failure", "llm_kyc_failure"},
              action \in {"retry", "escalate_to_human"} : u = Noted(t, action)
  BY <1>1, NotedTyped DEF Triggers, Retryable
<1>2. CASE ~\E t \in {"missing_prerequisite_state",
                      "mcp_applicant_lookup_failure", "llm_kyc_failure"},
               action \in {"retry", "escalate_to_human"} :
               u = Noted(t, action)
  <2> DEFINE status == ApplyKycPolicy(LookupOf(s.applicant))
  <2>1. PICK c \in Confidences, summary \in PrepareContext(s) :
             u = [kyc_result |-> [status |-> status, confidence |-> c],
                  next_node |-> "credit_assessment",
                  compressed_summary |-> summary,
                  messages |-> <<"kyc_check">>,
                  compliance_flags |-> IF status = "fail"
                                       THEN <<"kyc_fail_referral">>
                                       ELSE << >>]
    BY <1>2 DEF KycCheck
  <2>2. status \in KycStatuses /\ c \in 0..100
    BY TuningAssumption DEF ApplyKycPolicy, KycStatuses
  <2>3. summary \in Optional(Nat)
    BY ContextTyped
  <2> HIDE DEF status
  <2>4. /\ u.kyc_result \in Optional(KycResult)
        /\ u.next_node \in Optional(Nodes \cup {"END"})
        /\ u.compressed_summary \in Optional(Nat)
    BY <2>1, <2>2, <2>3 DEF Workers, Nodes, Optional, KycResult
  <2>5. u.messages \in Seq(Message)
    BY <2>1 DEF Message, Workers
  <2>6. u.compliance_flags \in Seq(Flags)
    <3>1. \/ u.compliance_flags = << >>
          \/ u.compliance_flags = <<"kyc_fail_referral">>
      BY <2>1
    <3>2. "kyc_fail_referral" \in Flags
      BY DEF Flags
    <3> QED  BY <3>1, <3>2, EntryTyped, Zenon
  <2>7. DOMAIN u = {"kyc_result", "next_node", "compressed_summary",
                    "messages", "compliance_flags"}
    BY <2>1
  <2> QED  BY <2>4, <2>5, <2>6, <2>7 DEF TypedUpdate
<1> QED  BY <1>1, <1>2

LEMMA CreditAssessmentTyped ==
    ASSUME NEW s \in States, NEW u \in CreditAssessment(s)
    PROVE  TypedUpdate(u)
<1> DEFINE Failures == {"missing_prerequisite_state",
                        "mcp_bureau_check_failure", "llm_rationale_failure"}
           Failed == \E t \in Failures,
                        action \in {"retry", "escalate_to_human"} :
                         u = Noted(t, action)
<1>1. CASE Failed
  BY <1>1, NotedTyped DEF Triggers, Retryable
<1>2. CASE ~Failed
  <2>1. s.applicant \in Applications
    BY <1>2 DEF CreditAssessment, States, Optional
  <2>2. PICK b \in BureauOf(s.applicant) :
          LET d == ApplyPolicyGates(b, Income[s.applicant])
          IN  \/ \E r \in Rationales(d) : u = Assessed(b, d, r)
              \/ u = Assessed(b, d, StubRationale(d))
    BY <1>2 DEF CreditAssessment
  <2> DEFINE d == ApplyPolicyGates(b, Income[s.applicant])
  <2>3. /\ b \in [synthetic_score : 300..900, thin_file : BOOLEAN, dti : Nat]
        /\ d \in Decisions
    BY <2>1, BureauTyped DEF ApplyPolicyGates, Decisions
  <2> HIDE DEF d
  <2>4. PICK r \in [rationale : {"llm", "stub"}, confidence : 0..100] :
          u = Assessed(b, d, r)
    BY <2>2, TuningAssumption
       DEF d, Rationales, StubRationale, BaseConfidence
  <2> QED  BY <2>3, <2>4 DEF TypedUpdate, Assessed, Assessment, Message,
                             Workers, Nodes, Optional
<1> QED  BY <1>1, <1>2

\* What offer_draft_node writes is an offer, if it does not raise.
LEMMA OfferDrafted ==
    ASSUME NEW s \in States, ~OfferPreconditionBroken(s)
    PROVE  OfferDraft(s).offer \in Offer
<1> DEFINE failed == s.kyc_result # None /\ s.kyc_result.status = "fail"
           ca == s.credit_assessment
<1>1. CASE failed
  <2>1. OfferDraft(s).offer = Referral("kyc_fail")
    BY <1>1 DEF OfferDraft
  <2>2. Referral("kyc_fail") \in Offer
    BY DEF Referral, Offer
  <2> QED  BY <2>1, <2>2
<1>2. CASE ~failed
  <2>1. ca \in Assessment /\ s.applicant \in Applications
    BY <1>2 DEF OfferPreconditionBroken, States, Optional
  <2>2. /\ ca.decision \in Decisions /\ ca.score \in 300..900
        /\ Income[s.applicant] \in Nat
    BY <2>1, PayloadAssumption DEF Assessment
  <2>3. PriceOffer(ca.decision, ca.score, Income[s.applicant]) \in Offer
    BY <2>2, PriceTyped, Zenon
  <2>4. OfferDraft(s).offer =
          PriceOffer(ca.decision, ca.score, Income[s.applicant])
    BY <1>2 DEF OfferDraft
  <2> QED  BY <2>3, <2>4
<1> QED  BY <1>1, <1>2

LEMMA OfferDraftTyped ==
    ASSUME NEW s \in States, ~OfferPreconditionBroken(s)
    PROVE  TypedUpdate(OfferDraft(s))
<1> DEFINE u == OfferDraft(s)
<1>1. u.offer \in Offer
  BY OfferDrafted
<1>2. /\ u.next_node = "END" /\ u.messages = <<"offer_draft">>
      /\ DOMAIN u = {"offer", "next_node", "messages"}
  BY DEF OfferDraft
<1> HIDE DEF u
<1>3. u.messages \in Seq(Message)
  BY <1>2 DEF Message, Workers
<1> QED  BY <1>1, <1>2, <1>3 DEF u, TypedUpdate, Optional

LEMMA EscalatedTyped ==
    ASSUME NEW t \in Triggers
    PROVE  TypedUpdate(Escalated(t))
  BY DEF Escalated, Note, TypedUpdate, ReflectionNote

\* The notes and referrals the reflector writes.
LEMMA ReflectorTyped ==
    ASSUME NEW s \in States, NEW u \in Reflector(s)
    PROVE  TypedUpdate(u)
<1>1. \/ u = Escalated("max_retries_exceeded")
      \/ u = Escalated("kyc_manual_review")
      \/ u = ThinFileEscalated
      \/ u = [reflection_log |->
                 <<Note("low_confidence_or_missing_output", "retry")>>,
              retry_count |-> 1]
      \/ u = Charged
  BY DEF Reflector
<1>2. TypedUpdate(Escalated("max_retries_exceeded"))
  BY EscalatedTyped DEF Triggers
<1>3. TypedUpdate(Escalated("kyc_manual_review"))
  BY EscalatedTyped DEF Triggers
<1>4. TypedUpdate(ThinFileEscalated)
  BY DEF ThinFileEscalated, Note, TypedUpdate, ReflectionNote, Triggers,
         Referral, Offer, Optional
<1>5. TypedUpdate([reflection_log |->
                     <<Note("low_confidence_or_missing_output", "retry")>>,
                   retry_count |-> 1])
  BY DEF Note, TypedUpdate, ReflectionNote, Triggers, Retryable
<1>6. TypedUpdate(Charged)
  BY DEF Charged, TypedUpdate
<1> QED  BY <1>1, <1>2, <1>3, <1>4, <1>5, <1>6

-----------------------------------------------------------------------------
(* Routing stays inside the graph.                                         *)

LEMMA RoutesTyped ==
    ASSUME NEW s \in States
    PROVE  {AfterSupervisor(s), AfterIntake(s), AfterKyc(s), AfterCredit(s),
            AfterReflection(s)} \subseteq Nodes \cup {"END"}
<1>1. s.next_node \in Optional(Nodes \cup {"END"})
  BY DEF States
<1>2. AfterSupervisor(s) \in Nodes \cup {"END"}
  BY <1>1 DEF AfterSupervisor, Optional, Nodes, Workers
<1>3. {AfterIntake(s), AfterKyc(s), AfterCredit(s), AfterReflection(s)}
         \subseteq Nodes \cup {"END"}
  BY DEF AfterIntake, AfterKyc, AfterCredit, AfterReflection, RetryStage,
         Nodes, Workers
<1> QED  BY <1>2, <1>3

\* A superstep that merges a typed update and follows an edge of the graph.
LEMMA CommitTyped ==
    ASSUME TypeOK, node \in Nodes, NEW u, TypedUpdate(u),
           NEW dest \in Nodes \cup {"END"}, Commit(Merge(state, u), dest),
           memory' \in Seq(Batches)
    PROVE  TypeOK'
<1>1. state' \in States
  BY MergeTyped DEF TypeOK, Commit
<1>2. graph_path' \in Seq(Nodes)
  BY DEF TypeOK, Commit
<1> QED  BY <1>1, <1>2 DEF TypeOK, Commit

-----------------------------------------------------------------------------
(* Consolidation and the inputs.                                           *)

LEMMA ConsolidatedTyped ==
    ASSUME TypeOK
    PROVE  Consolidated \subseteq Seq(Batches)
<1>1. used.submissions \in Nat /\ memory \in Seq(Batches)
  BY TuningAssumption DEF TypeOK
<1>2. ASSUME NEW n \in 1..MaxFacts
      PROVE  Append(memory, [session |-> used.submissions, stored |-> n])
                \in Seq(Batches)
  <2>1. [session |-> used.submissions, stored |-> n] \in Batches
    BY <1>1 DEF Batches
  <2> QED  BY <1>1, <2>1
<1> QED  BY <1>1, <1>2 DEF Consolidated

LEMMA NewStateTyped ==
    ASSUME NEW messages \in Seq(Message)
    PROVE  TypedUpdate(NewState(messages))
<1> DEFINE n == NewState(messages)
<1>1. /\ n.messages = messages
      /\ n.reflection_log = << >> /\ n.quarantined_inputs = << >>
      /\ n.compliance_flags = << >> /\ n.retry_count = 0
      /\ n.applicant = None /\ n.kyc_result = None
      /\ n.credit_assessment = None /\ n.offer = None
      /\ n.next_node = None /\ n.compressed_summary = None
      /\ n.long_term_memory_hits = None
  BY DEF NewState, Blank, Channels, Appending, LastValue
<1> HIDE DEF n
<1>2. TypedUpdate(n)
  BY <1>1 DEF TypedUpdate, Optional
<1> QED  BY <1>2 DEF n

LEMMA BlankTyped == [c \in Channels |-> Blank(c)] \in States
<1> DEFINE b == [c \in Channels |-> Blank(c)]
<1>1. /\ b.messages = << >> /\ b.reflection_log = << >>
      /\ b.quarantined_inputs = << >> /\ b.compliance_flags = << >>
      /\ b.retry_count = 0
      /\ b.applicant = None /\ b.kyc_result = None
      /\ b.credit_assessment = None /\ b.offer = None
      /\ b.next_node = None /\ b.compressed_summary = None
      /\ b.long_term_memory_hits = None
  BY DEF Blank, Channels, Appending, LastValue
<1>2. b = [c \in Channels |-> b[c]]
  OBVIOUS
<1> HIDE DEF b
<1>3. /\ b.messages \in Seq(Message)
      /\ b.reflection_log \in Seq(ReflectionNote)
      /\ b.quarantined_inputs \in Seq(Applications)
      /\ b.compliance_flags \in Seq(Flags)
      /\ b.retry_count \in Nat
  BY <1>1
<1>4. /\ b.applicant \in Optional(Applications)
      /\ b.kyc_result \in Optional(KycResult)
      /\ b.credit_assessment \in Optional(Assessment)
      /\ b.offer \in Optional(Offer)
      /\ b.next_node \in Optional(Nodes \cup {"END"})
      /\ b.compressed_summary \in Optional(Nat)
      /\ b.long_term_memory_hits \in Optional(Seq(Batches))
  BY <1>1 DEF Optional
<1>5. b \in States
  BY <1>2, <1>3, <1>4 DEF States, Channels, Appending, LastValue
<1> QED  BY <1>5 DEF b

-----------------------------------------------------------------------------
(* The theorem.                                                            *)

LEMMA TypeInit ==
    ASSUME Init
    PROVE  TypeOK
<1>1. state \in States
  BY BlankTyped DEF Init
<1>2. /\ used \in [submissions : 0..MaxSubmissions,
                   follow_ups : 0..MaxFollowUps, crashes : 0..MaxCrashes]
      /\ inherited \in [messages : Nat, retries : Nat, log : Nat,
                        quarantined : Nat, flags : Nat]
  BY TuningAssumption DEF Init
<1>3. memory \in Seq(Batches) /\ graph_path \in Seq(Nodes)
  BY DEF Init
<1> QED  BY <1>1, <1>2, <1>3 DEF TypeOK, Init

LEMMA NodeStepTyped ==
    ASSUME TypeOK, NodeStep
    PROVE  TypeOK'
<1> USE DEF Scheduled
<1>0. state \in States /\ memory \in Seq(Batches)
  BY DEF TypeOK
<1>1. CASE SupervisorStep
  <2>1. PICK u \in Supervisor(state) :
          Commit(Merge(state, u), AfterSupervisor(Merge(state, u)))
    BY <1>1 DEF SupervisorStep
  <2>2. TypedUpdate(u)
    BY <1>0, SupervisorTyped
  <2>3. AfterSupervisor(Merge(state, u)) \in Nodes \cup {"END"}
    BY <1>0, <2>2, MergeTyped, RoutesTyped
  <2>4. node \in Nodes /\ memory' \in Seq(Batches)
    BY <1>0, <1>1 DEF SupervisorStep, Nodes
  <2> QED  BY <2>1, <2>2, <2>3, <2>4, CommitTyped
<1>2. CASE IntakeStep
  <2>1. PICK u \in Intake(state) :
          Commit(Merge(state, u), AfterIntake(Merge(state, u)))
    BY <1>2 DEF IntakeStep
  <2>2. TypedUpdate(u)
    BY <1>0, IntakeTyped
  <2>3. AfterIntake(Merge(state, u)) \in Nodes \cup {"END"}
    BY <1>0, <2>2, MergeTyped, RoutesTyped
  <2>4. node \in Nodes /\ memory' \in Seq(Batches)
    BY <1>0, <1>2 DEF IntakeStep, Nodes, Workers
  <2> QED  BY <2>1, <2>2, <2>3, <2>4, CommitTyped
<1>3. CASE KycCheckStep
  <2>1. PICK u \in KycCheck(state) :
          Commit(Merge(state, u), AfterKyc(Merge(state, u)))
    BY <1>3 DEF KycCheckStep
  <2>2. TypedUpdate(u)
    BY <1>0, KycCheckTyped
  <2>3. AfterKyc(Merge(state, u)) \in Nodes \cup {"END"}
    BY <1>0, <2>2, MergeTyped, RoutesTyped
  <2>4. node \in Nodes /\ memory' \in Seq(Batches)
    BY <1>0, <1>3 DEF KycCheckStep, Nodes, Workers
  <2> QED  BY <2>1, <2>2, <2>3, <2>4, CommitTyped
<1>4. CASE CreditAssessmentStep
  <2>1. PICK u \in CreditAssessment(state) :
          Commit(Merge(state, u), AfterCredit(Merge(state, u)))
    BY <1>4 DEF CreditAssessmentStep
  <2>2. TypedUpdate(u)
    BY <1>0, CreditAssessmentTyped
  <2>3. AfterCredit(Merge(state, u)) \in Nodes \cup {"END"}
    BY <1>0, <2>2, MergeTyped, RoutesTyped
  <2>4. node \in Nodes /\ memory' \in Seq(Batches)
    BY <1>0, <1>4 DEF CreditAssessmentStep, Nodes, Workers
  <2> QED  BY <2>1, <2>2, <2>3, <2>4, CommitTyped
<1>5. CASE ReflectorStep
  <2>1. PICK u \in Reflector(state) :
          Commit(Merge(state, u), AfterReflection(Merge(state, u)))
    BY <1>5 DEF ReflectorStep
  <2>2. TypedUpdate(u)
    BY <1>0, ReflectorTyped
  <2>3. AfterReflection(Merge(state, u)) \in Nodes \cup {"END"}
    BY <1>0, <2>2, MergeTyped, RoutesTyped
  <2>4. node \in Nodes /\ memory' \in Seq(Batches)
    BY <1>0, <1>5 DEF ReflectorStep, Nodes, Workers
  <2> QED  BY <2>1, <2>2, <2>3, <2>4, CommitTyped
<1>6. CASE OfferDraftStep
  <2>1. node \in Nodes /\ memory' \in Seq(Batches)
    BY <1>0, <1>6 DEF OfferDraftStep, Nodes, Workers
  <2>2. CASE OfferPreconditionBroken(state)
    BY <1>6, <2>1, <2>2 DEF OfferDraftStep, TypeOK
  <2>3. CASE ~OfferPreconditionBroken(state)
    <3>1. TypedUpdate(OfferDraft(state))
      BY <1>0, <2>3, OfferDraftTyped
    <3>2. Commit(Merge(state, OfferDraft(state)), "memory_consolidation")
      BY <1>6, <2>3 DEF OfferDraftStep
    <3>3. "memory_consolidation" \in Nodes \cup {"END"}
      BY DEF Nodes, Workers
    <3> QED  BY <2>1, <3>1, <3>2, <3>3, CommitTyped
  <2> QED  BY <2>2, <2>3
<1>7. CASE MemoryConsolidationStep
  <2>1. memory' \in Seq(Batches)
    BY <1>7, ConsolidatedTyped DEF MemoryConsolidationStep
  <2>2. graph_path' \in Seq(Nodes)
    BY <1>7 DEF MemoryConsolidationStep, Commit, TypeOK, Nodes, Workers
  <2> QED  BY <1>7, <2>1, <2>2 DEF MemoryConsolidationStep, Commit, TypeOK
<1> QED  BY <1>1, <1>2, <1>3, <1>4, <1>5, <1>6, <1>7 DEF NodeStep

LEMMA InputsTyped ==
    ASSUME TypeOK,
           (\E a \in Applications : Submit(a)) \/ FollowUp \/ Resume \/ Crash
    PROVE  TypeOK'
<1>0. /\ state \in States /\ memory \in Seq(Batches)
      /\ used \in [submissions : 0..MaxSubmissions,
                   follow_ups : 0..MaxFollowUps, crashes : 0..MaxCrashes]
      /\ {MaxSubmissions, MaxFollowUps, MaxCrashes} \subseteq Nat
  BY TuningAssumption DEF TypeOK
<1>1. ASSUME NEW a \in Applications, Submit(a)
      PROVE  TypeOK'
  <2>1. TypedUpdate(NewState(<<a>>))
    <3>1. a \in Message
      BY DEF Message
    <3>2. <<a>> \in Seq(Message)
      BY <3>1, EntryTyped
    <3> QED  BY <3>2, NewStateTyped
  <2>2. state' \in States
    BY <1>0, <1>1, <2>1, MergeTyped DEF Submit, Accept
  <2>3. inherited' \in [messages : Nat, retries : Nat, log : Nat,
                        quarantined : Nat, flags : Nat]
    BY <1>0, <1>1 DEF Submit, States
  <2>4. used' \in [submissions : 0..MaxSubmissions,
                   follow_ups : 0..MaxFollowUps, crashes : 0..MaxCrashes]
    <3>1. /\ used' = [used EXCEPT !.submissions = used.submissions + 1]
          /\ used.submissions < MaxSubmissions
      BY <1>1 DEF Submit
    <3> QED  BY <1>0, <3>1
  <2> QED  BY <1>1, <2>2, <2>3, <2>4 DEF Submit, Accept, TypeOK, Nodes
<1>2. CASE FollowUp
  <2>1. TypedUpdate([messages |-> <<"question">>])
    BY DEF TypedUpdate, Message
  <2>2. state' \in States
    BY <1>0, <1>2, <2>1, MergeTyped DEF FollowUp, Accept
  <2>3. used' \in [submissions : 0..MaxSubmissions,
                   follow_ups : 0..MaxFollowUps, crashes : 0..MaxCrashes]
    BY <1>0, <1>2 DEF FollowUp
  <2> QED  BY <1>2, <2>2, <2>3 DEF FollowUp, Accept, TypeOK, Nodes
<1>3. CASE Resume
  BY <1>3 DEF Resume, TypeOK
<1>4. CASE Crash
  <2>1. memory' \in Seq(Batches)
    BY <1>0, <1>4, ConsolidatedTyped DEF Crash
  <2>2. used' \in [submissions : 0..MaxSubmissions,
                   follow_ups : 0..MaxFollowUps, crashes : 0..MaxCrashes]
    BY <1>0, <1>4 DEF Crash
  <2> QED  BY <1>4, <2>1, <2>2 DEF Crash, TypeOK
<1> QED  BY <1>1, <1>2, <1>3, <1>4

\* Whatever the providers, the MCP tools and the memory store answer, and
\* however inputs, pauses, resumes and crashes follow one another, the thread
\* holds a valid LoanApplicationState and a node of the graph is next.
THEOREM TypeCorrect == Spec => []TypeOK
<1>1. Init => TypeOK
  BY TypeInit
<1>2. TypeOK /\ [Next]_vars => TypeOK'
  <2>1. CASE UNCHANGED vars
    BY <2>1 DEF vars, TypeOK
  <2>2. TypeOK /\ Next => TypeOK'
    BY NodeStepTyped, InputsTyped DEF Next
  <2> QED  BY <2>1, <2>2
<1> QED  BY <1>1, <1>2, PTL DEF Spec
=============================================================================
