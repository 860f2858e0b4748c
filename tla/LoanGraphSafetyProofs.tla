------------------------ MODULE LoanGraphSafetyProofs ------------------------
(***************************************************************************)
(* The safety of the graph's routing and of its gates, for every instance. *)
(*                                                                         *)
(* WorkerPreconditions, PolicyDecides and OfferJustified are proved        *)
(* together, because each needs the others: a verdict is the gates' on the *)
(* application at hand because no worker runs out of turn, and an offer is *)
(* justified because the verdict it was priced from is the gates'.         *)
(***************************************************************************)
EXTENDS LoanGraphProofs

Safety == /\ WorkerPreconditions
          /\ ThreadInvariant
          /\ PolicyDecides
          /\ OfferJustified

-----------------------------------------------------------------------------
(* Sequences.                                                              *)

LEMMA LastAppended ==
    ASSUME NEW S, NEW seq \in Seq(S), NEW x
    PROVE  seq \o <<x>> # << >> /\ LastOf(seq \o <<x>>) = x
  BY DEF LastOf

\* No note in the log asks to replan: that branch of the router is dead.
LEMMA NoReplan ==
    ASSUME NEW s \in States, s.reflection_log # << >>
    PROVE  LastOf(s.reflection_log).action_taken
              \in {"retry", "escalate_to_human"}
<1>1. s.reflection_log \in Seq(ReflectionNote)
  BY DEF States
<1>2. LastOf(s.reflection_log) \in ReflectionNote
  BY <1>1 DEF LastOf
<1> QED  BY <1>2 DEF ReflectionNote

-----------------------------------------------------------------------------
(* One lemma per node.                                                     *)

LEMMA SupervisorSafe ==
    ASSUME TypeOK, Safety, SupervisorStep
    PROVE  Safety'
<1>1. /\ node = "supervisor"
      /\ state' = Merge(state, [next_node |-> Dispatch(state)])
      /\ node' = AfterSupervisor(state')
  BY DEF SupervisorStep, Supervisor, Commit, Scheduled
<1>2. /\ state'.messages = state.messages
      /\ state'.applicant = state.applicant
      /\ state'.kyc_result = state.kyc_result
      /\ state'.credit_assessment = state.credit_assessment
      /\ state'.offer = state.offer
      /\ state'.next_node = Dispatch(state)
  BY <1>1, MergeChannels
<1>3. node' = Dispatch(state)
  BY <1>1, <1>2, NoneAssumption
     DEF AfterSupervisor, Dispatch, Nodes, Workers
<1>4. WorkerPreconditions'
  BY <1>1, <1>2, <1>3
     DEF Safety, WorkerPreconditions, OfferPreconditionBroken, Dispatch
<1>5. ThreadInvariant'
  BY <1>1, <1>2, <1>3
     DEF Safety, ThreadInvariant, KycIs, Dispatch
<1>6. PolicyDecides' /\ OfferJustified'
  BY <1>2 DEF Safety, PolicyDecides, OfferJustified, KycIs
<1> QED  BY <1>4, <1>5, <1>6 DEF Safety

LEMMA IntakeSafe ==
    ASSUME TypeOK, Safety, IntakeStep
    PROVE  Safety'
<1>1. PICK u \in Intake(state) :
        /\ node = "intake"
        /\ state' = Merge(state, u)
        /\ node' = AfterIntake(state')
  BY DEF IntakeStep, Commit, Scheduled
<1>2. /\ state.messages # << >>
      /\ LastOf(state.messages) \in Applications \cup {"question"}
      /\ state.applicant = None /\ state.kyc_result = None
      /\ state.credit_assessment = None /\ state.offer = None
  BY <1>1 DEF Safety, WorkerPreconditions, ThreadInvariant
<1>3. /\ state'.kyc_result = state.kyc_result
      /\ state'.credit_assessment = state.credit_assessment
      /\ state'.offer = state.offer
  <2>1. DOMAIN u \cap {"kyc_result", "credit_assessment", "offer"} = {}
    BY DEF Intake, Rejected
  <2> QED  BY <1>1, <2>1, MergeChannels
<1>4. \/ /\ state'.applicant = state.applicant
         /\ state'.messages = state.messages
      \/ state'.applicant \in Applications
  <2>1. \/ DOMAIN u \cap {"applicant", "messages"} = {}
        \/ "applicant" \in DOMAIN u /\ u.applicant \in Applications
    BY DEF Intake, Rejected
  <2> QED  BY <1>1, <2>1, MergeChannels
<1>5. WorkerPreconditions'
  BY <1>1, <1>2, <1>3, <1>4, NoneAssumption
     DEF WorkerPreconditions, AfterIntake
<1>6. ThreadInvariant'
  BY <1>1, <1>2, <1>3, <1>4, NoneAssumption DEF ThreadInvariant, AfterIntake
<1>7. PolicyDecides' /\ OfferJustified'
  BY <1>2, <1>3 DEF PolicyDecides, OfferJustified
<1> QED  BY <1>5, <1>6, <1>7 DEF Safety

LEMMA KycCheckSafe ==
    ASSUME TypeOK, Safety, KycCheckStep
    PROVE  Safety'
<1> DEFINE status == ApplyKycPolicy(LookupOf(state.applicant))
<1>1. PICK u \in KycCheck(state) :
        /\ node = "kyc_check"
        /\ state' = Merge(state, u)
        /\ node' = AfterKyc(state')
  BY DEF KycCheckStep, Commit, Scheduled
<1>2. /\ state.applicant # None /\ state.kyc_result = None
      /\ state.credit_assessment = None /\ state.offer = None
  BY <1>1 DEF Safety, WorkerPreconditions, ThreadInvariant
<1>3. /\ state'.applicant = state.applicant
      /\ state'.credit_assessment = state.credit_assessment
      /\ state'.offer = state.offer
  <2>1. DOMAIN u \cap {"applicant", "credit_assessment", "offer"} = {}
    BY DEF KycCheck, Noted
  <2> QED  BY <1>1, <2>1, MergeChannels
<1>4. \/ state'.kyc_result = None
      \/ state'.kyc_result # None /\ state'.kyc_result.status = status
  <2>1. \/ "kyc_result" \notin DOMAIN u
        \/ /\ "kyc_result" \in DOMAIN u
           /\ \E c \in Confidences :
                 u.kyc_result = [status |-> status, confidence |-> c]
    BY DEF KycCheck, Noted
  <2>2. ASSUME NEW c \in Confidences
        PROVE  [status |-> status, confidence |-> c] # None
    <3>1. status \in KycStatuses /\ c \in 0..100
      BY TuningAssumption DEF ApplyKycPolicy, KycStatuses
    <3> HIDE DEF status
    <3>2. [status |-> status, confidence |-> c] \in KycResult
      BY <3>1 DEF KycResult
    <3> QED  BY <3>2, NoneAssumption
  <2> HIDE DEF status
  <2>3. CASE "kyc_result" \notin DOMAIN u
    BY <1>1, <1>2, <2>3, MergeChannels
  <2>4. CASE "kyc_result" \in DOMAIN u
    <3>1. state'.kyc_result = u.kyc_result
      BY <1>1, <2>4, MergeChannels
    <3> QED  BY <2>1, <2>2, <2>4, <3>1
  <2> QED  BY <2>3, <2>4
<1> HIDE DEF status
<1>5. WorkerPreconditions'
  BY <1>1, <1>2, <1>3, <1>4
     DEF WorkerPreconditions, AfterKyc, OfferPreconditionBroken
<1>6. ThreadInvariant'
  BY <1>1, <1>2, <1>3, <1>4 DEF ThreadInvariant, AfterKyc
<1>7. PolicyDecides' /\ OfferJustified'
  BY <1>2, <1>3, <1>4 DEF PolicyDecides, OfferJustified, status
<1> QED  BY <1>5, <1>6, <1>7 DEF Safety

\* What credit_assessment_node assesses is the gates' verdict on the bureau's
\* answer for the application at hand.
LEMMA AssessedByGates ==
    ASSUME TypeOK, NEW u \in CreditAssessment(state),
           "credit_assessment" \in DOMAIN u
    PROVE  /\ u.credit_assessment # None
           /\ \E b \in BureauOf(state.applicant) :
                 /\ u.credit_assessment.thin_file = b.thin_file
                 /\ u.credit_assessment.score = b.synthetic_score
                 /\ u.credit_assessment.dti = b.dti
                 /\ u.credit_assessment.decision =
                       ApplyPolicyGates(b, Income[state.applicant])
<1> DEFINE G(b) == ApplyPolicyGates(b, Income[state.applicant])
<1>1. PICK b \in BureauOf(state.applicant) :
        \E r \in Rationales(G(b)) \cup {StubRationale(G(b))} :
           u = Assessed(b, G(b), r)
  BY DEF CreditAssessment, Noted
<1>2. PICK r \in Rationales(G(b)) \cup {StubRationale(G(b))} :
        u = Assessed(b, G(b), r)
  BY <1>1
<1>3. u.credit_assessment # None
  <2>1. state.applicant \in Applications
    BY DEF CreditAssessment, Noted, TypeOK, States, Optional
  <2>2. /\ b \in [synthetic_score : 300..900, thin_file : BOOLEAN, dti : Nat]
        /\ G(b) \in Decisions
    BY <2>1, BureauTyped DEF ApplyPolicyGates, Decisions
  <2>3. r \in [rationale : {"llm", "stub"}, confidence : 0..100]
    BY <1>2, TuningAssumption DEF Rationales, StubRationale, BaseConfidence
  <2> HIDE DEF G
  <2>4. u.credit_assessment \in Assessment
    BY <1>2, <2>2, <2>3 DEF Assessed, Assessment
  <2> QED  BY <2>4, NoneAssumption
<1> QED  BY <1>2, <1>3 DEF Assessed

LEMMA CreditAssessmentSafe ==
    ASSUME TypeOK, Safety, CreditAssessmentStep
    PROVE  Safety'
<1>1. PICK u \in CreditAssessment(state) :
        /\ node = "credit_assessment"
        /\ state' = Merge(state, u)
        /\ node' = AfterCredit(state')
  BY DEF CreditAssessmentStep, Commit, Scheduled
<1>2. /\ state.applicant # None /\ state.kyc_result # None
      /\ state.offer # None => KycIs("fail")
  BY <1>1 DEF Safety, WorkerPreconditions, ThreadInvariant
<1>3. /\ state'.applicant = state.applicant
      /\ state'.kyc_result = state.kyc_result
      /\ state'.offer = state.offer
  <2>1. DOMAIN u \cap {"applicant", "kyc_result", "offer"} = {}
    BY DEF CreditAssessment, Noted, Assessed
  <2> QED  BY <1>1, <2>1, MergeChannels
<1>4. \/ state'.credit_assessment = state.credit_assessment
      \/ /\ "credit_assessment" \in DOMAIN u
         /\ state'.credit_assessment = u.credit_assessment
  BY <1>1, MergeChannels
<1>5. PolicyDecides'
  BY <1>2, <1>3, <1>4, AssessedByGates DEF Safety, PolicyDecides
<1>6. WorkerPreconditions'
  BY <1>1, <1>2, <1>3
     DEF WorkerPreconditions, AfterCredit, OfferPreconditionBroken
<1>7. ThreadInvariant'
  BY <1>1, <1>2, <1>3 DEF Safety, ThreadInvariant, KycIs, AfterCredit
<1>8. OfferJustified'
  BY <1>2, <1>3 DEF Safety, OfferJustified, KycIs
<1> QED  BY <1>5, <1>6, <1>7, <1>8 DEF Safety

LEMMA ReflectorSafe ==
    ASSUME TypeOK, TypeOK', Safety, ReflectorStep
    PROVE  Safety'
<1>1. PICK u \in Reflector(state) :
        /\ node = "reflector"
        /\ state' = Merge(state, u)
        /\ node' = AfterReflection(state')
  BY DEF ReflectorStep, Commit, Scheduled
<1>2. state.offer # None => KycIs("fail") /\ ~(state.offer.principal > 0)
  BY <1>1 DEF Safety, ThreadInvariant, OfferJustified, KycIs
<1>3. /\ state'.messages = state.messages
      /\ state'.applicant = state.applicant
      /\ state'.kyc_result = state.kyc_result
      /\ state'.credit_assessment = state.credit_assessment
  <2>1. DOMAIN u \cap {"messages", "applicant", "kyc_result",
                       "credit_assessment"} = {}
    BY DEF Reflector, Escalated, ThinFileEscalated, Charged
  <2> QED  BY <1>1, <2>1, MergeChannels
<1>4. \/ state'.offer = state.offer
      \/ /\ state'.offer = Referral("thin_file")
         /\ state.credit_assessment # None /\ node' = "END"
  <2>1. CASE "offer" \notin DOMAIN u
    BY <1>1, <2>1, MergeChannels
  <2>2. CASE "offer" \in DOMAIN u
    <3>1. u = ThinFileEscalated /\ state.credit_assessment # None
      BY <2>2 DEF Reflector, Escalated, Charged
    <3> DEFINE note == Note("thin_file_manual_underwriting",
                            "escalate_to_human")
    <3>2. /\ state'.offer = Referral("thin_file")
          /\ state'.reflection_log = state.reflection_log \o <<note>>
      <4>1. /\ {"offer", "reflection_log"} \subseteq DOMAIN u
            /\ u.offer = Referral("thin_file")
            /\ u.reflection_log = <<note>>
        BY <3>1 DEF ThinFileEscalated
      <4> HIDE DEF note
      <4> QED  BY <1>1, <4>1, MergeChannels
    <3>3. /\ state'.reflection_log # << >>
          /\ LastOf(state'.reflection_log) = note
      BY <3>2, LastAppended DEF TypeOK, States
    <3> QED  BY <1>1, <3>1, <3>2, <3>3 DEF AfterReflection, Note
  <2> QED  BY <2>1, <2>2
<1>5. state'.offer # None => ~(state'.offer.principal > 0)
  BY <1>2, <1>4 DEF Referral
<1>6. node' = RetryStage(state') \/ node' = "END"
  <2>1. state'.reflection_log # << >> =>
          LastOf(state'.reflection_log).action_taken # "replan"
    BY NoReplan DEF TypeOK
  <2> QED  BY <1>1, <2>1 DEF AfterReflection
<1>7. WorkerPreconditions'
  BY <1>1, <1>3, <1>6
     DEF Safety, WorkerPreconditions, ThreadInvariant, RetryStage
<1>8. ThreadInvariant'
  BY <1>1, <1>2, <1>3, <1>4, <1>6
     DEF Safety, ThreadInvariant, KycIs, RetryStage
<1>9. PolicyDecides' /\ OfferJustified'
  BY <1>3, <1>5 DEF Safety, PolicyDecides, OfferJustified
<1> QED  BY <1>7, <1>8, <1>9 DEF Safety

LEMMA OfferDraftSafe ==
    ASSUME TypeOK, Safety, OfferDraftStep
    PROVE  Safety'
<1> DEFINE kyc == state.kyc_result
           ca  == state.credit_assessment
           failed == kyc # None /\ kyc.status = "fail"
<1>1. node = "offer_draft" /\ ~OfferPreconditionBroken(state)
  BY DEF OfferDraftStep, Scheduled, Safety, WorkerPreconditions
<1>2. /\ state' = Merge(state, OfferDraft(state))
      /\ node' = "memory_consolidation"
  BY <1>1 DEF OfferDraftStep, Commit
<1>3. /\ state'.applicant = state.applicant
      /\ state'.kyc_result = kyc
      /\ state'.credit_assessment = ca
      /\ state'.offer = OfferDraft(state).offer
  BY <1>2, MergeChannels DEF OfferDraft
<1>4. state'.offer \in Offer /\ state'.offer # None
  BY <1>1, <1>3, OfferDrafted, NoneAssumption DEF TypeOK
<1>5. CASE failed
  <2>1. state'.offer.principal = 0
    BY <1>3, <1>5 DEF OfferDraft, Referral
  <2>2. KycIs("fail")' /\ state'.kyc_result # None
    BY <1>3, <1>5 DEF KycIs
  <2>3. WorkerPreconditions' /\ ThreadInvariant'
    BY <1>2, <1>3, <1>4, <2>2
       DEF Safety, WorkerPreconditions, ThreadInvariant
  <2>4. PolicyDecides'
    BY <1>3 DEF Safety, PolicyDecides
  <2>5. OfferJustified'
    BY <2>1 DEF OfferJustified
  <2> QED  BY <2>3, <2>4, <2>5 DEF Safety
<1>6. CASE ~failed
  <2>1. ca # None /\ state.applicant # None
    BY <1>1, <1>6 DEF OfferPreconditionBroken
  <2>2. state'.offer =
          PriceOffer(ca.decision, ca.score, Income[state.applicant])
    BY <1>3, <1>6 DEF OfferDraft
  <2>3. state'.offer.principal > 0 =>
          /\ ca.decision = "approve"
          /\ state'.offer.principal =
                OfferConstraints(ca.score, Income[state.applicant]).principal
    BY <2>2 DEF PriceOffer, Referral
  <2>4. ca.decision = "approve" => ~ca.thin_file
    BY <2>1 DEF Safety, PolicyDecides, ApplyPolicyGates
  <2>5. OfferJustified'
    BY <1>3, <1>6, <2>1, <2>3, <2>4 DEF OfferJustified, KycIs
  <2>6. kyc # None
    BY <2>1 DEF Safety, ThreadInvariant
  <2> QED  BY <1>2, <1>3, <1>4, <2>1, <2>5, <2>6
    DEF Safety, WorkerPreconditions, ThreadInvariant, PolicyDecides
<1> QED  BY <1>5, <1>6

LEMMA MemoryConsolidationSafe ==
    ASSUME Safety, MemoryConsolidationStep
    PROVE  Safety'
<1>1. state' = state /\ node' = "END"
  BY DEF MemoryConsolidationStep, Commit
<1> QED  BY <1>1 DEF Safety, WorkerPreconditions, ThreadInvariant,
                     PolicyDecides, OfferJustified, KycIs

-----------------------------------------------------------------------------
(* Inputs.                                                                 *)

\* A submission clears whatever the thread held, and is its last message.
LEMMA Submitted ==
    ASSUME TypeOK, NEW a \in Applications, Submit(a)
    PROVE  /\ node' = "supervisor"
           /\ state'.messages # << >> /\ LastOf(state'.messages) = a
           /\ state'.applicant = None /\ state'.kyc_result = None
           /\ state'.credit_assessment = None /\ state'.offer = None
<1> DEFINE n == NewState(<<a>>)
<1>1. {"messages", "applicant", "kyc_result", "credit_assessment", "offer"}
         \subseteq DOMAIN n
  BY DEF NewState, Channels, Appending, LastValue
<1>2. /\ n.messages = <<a>> /\ n.applicant = None
      /\ n.kyc_result = None /\ n.credit_assessment = None
      /\ n.offer = None
  BY DEF NewState, Blank, Channels, Appending, LastValue
<1> HIDE DEF n
<1>3. state' = Merge(state, n) /\ node' = "supervisor"
  BY DEF Submit, Accept, n
<1>4. /\ state'.messages = state.messages \o <<a>>
      /\ state'.applicant = None /\ state'.kyc_result = None
      /\ state'.credit_assessment = None /\ state'.offer = None
  BY <1>1, <1>2, <1>3, MergeChannels
<1>5. state'.messages # << >> /\ LastOf(state'.messages) = a
  BY <1>4, LastAppended DEF TypeOK, States
<1> QED  BY <1>3, <1>4, <1>5

LEMMA SubmitSafe ==
    ASSUME TypeOK, NEW a \in Applications, Submit(a)
    PROVE  Safety'
  BY Submitted DEF Safety, WorkerPreconditions, ThreadInvariant,
                   PolicyDecides, OfferJustified

LEMMA FollowUpSafe ==
    ASSUME TypeOK, Safety, FollowUp
    PROVE  Safety'
<1>1. /\ state' = Merge(state, [messages |-> <<"question">>])
      /\ node' = "supervisor"
  BY DEF FollowUp, Accept
<1>2. /\ state'.messages = state.messages \o <<"question">>
      /\ state'.applicant = state.applicant
      /\ state'.kyc_result = state.kyc_result
      /\ state'.credit_assessment = state.credit_assessment
      /\ state'.offer = state.offer
  BY <1>1, MergeChannels
<1>3. state'.messages # << >> /\ LastOf(state'.messages) = "question"
  BY <1>2, LastAppended DEF TypeOK, States
<1> QED  BY <1>1, <1>2, <1>3 DEF Safety, WorkerPreconditions,
                     ThreadInvariant, PolicyDecides, OfferJustified, KycIs

-----------------------------------------------------------------------------
(* The theorems.                                                           *)

LEMMA SafetyInit == Init => Safety
<1> SUFFICES ASSUME Init PROVE Safety
  OBVIOUS
<1>1. /\ node = "END" /\ state.applicant = None /\ state.kyc_result = None
      /\ state.credit_assessment = None /\ state.offer = None
  BY DEF Init, Blank, Channels, Appending, LastValue
<1> QED  BY <1>1 DEF Safety, WorkerPreconditions, ThreadInvariant,
                     PolicyDecides, OfferJustified

LEMMA SafetyStep == TypeOK /\ TypeOK' /\ Safety /\ [Next]_vars => Safety'
<1> SUFFICES ASSUME TypeOK, TypeOK', Safety, [Next]_vars PROVE Safety'
  OBVIOUS
<1>1. CASE NodeStep
  BY <1>1, SupervisorSafe, IntakeSafe, KycCheckSafe, CreditAssessmentSafe,
     ReflectorSafe, OfferDraftSafe, MemoryConsolidationSafe DEF NodeStep
<1>2. CASE \E a \in Applications : Submit(a)
  BY <1>2, SubmitSafe
<1>3. CASE FollowUp
  BY <1>3, FollowUpSafe
<1>4. CASE Resume \/ Crash \/ UNCHANGED vars
  <2>1. state' = state /\ node' = node
    BY <1>4 DEF Resume, Crash, vars
  <2> QED  BY <2>1 DEF Safety, WorkerPreconditions, ThreadInvariant,
                       PolicyDecides, OfferJustified, KycIs
<1> QED  BY <1>1, <1>2, <1>3, <1>4 DEF Next

LEMMA Safe == Spec => []Safety
<1>1. TypeOK /\ TypeOK' /\ Safety /\ [Next]_vars => Safety'
  BY SafetyStep
<1> QED  BY <1>1, SafetyInit, TypeCorrect, PTL DEF Spec

\* No node is ever entered without what it reads, so no "unreachable" branch
\* of a node is reached and offer_draft never raises.
THEOREM PreconditionsHold == Spec => []WorkerPreconditions
<1>1. Safety => WorkerPreconditions
  BY DEF Safety
<1> QED  BY <1>1, Safe, PTL

\* No LLM answer, retry, follow-up or earlier application of the thread ever
\* changes a KYC status or a credit decision from what the gates make of the
\* application at hand.
THEOREM PolicyAlwaysDecides == Spec => []PolicyDecides
<1>1. Safety => PolicyDecides
  BY DEF Safety
<1> QED  BY <1>1, Safe, PTL

\* Money is only ever offered to an approved applicant with a full credit
\* file whom KYC did not fail, at the ceiling of their tier.
THEOREM OffersJustified == Spec => []OfferJustified
<1>1. Safety => OfferJustified
  BY DEF Safety
<1> QED  BY <1>1, Safe, PTL

-----------------------------------------------------------------------------
(* What settles.                                                           *)

\* The step formula of DecidedStaysDecided.
Settled ==
    /\ state.applicant # None => state'.applicant = state.applicant
    /\ state.kyc_result # None => state'.kyc_result = state.kyc_result
    /\ state.offer # None /\ ~KycIs("fail") =>
          /\ state'.offer = state.offer
          /\ state'.credit_assessment = state.credit_assessment

LEMMA NodesSettle ==
    ASSUME TypeOK, Safety, NodeStep
    PROVE  Settled
<1> USE DEF Scheduled, Commit
<1>1. CASE SupervisorStep
  <2>1. state' = Merge(state, [next_node |-> Dispatch(state)])
    BY <1>1 DEF SupervisorStep, Supervisor
  <2> QED  BY <2>1, MergeChannels DEF Settled
<1>2. CASE IntakeStep
  <2>1. PICK u \in Intake(state) : state' = Merge(state, u)
    BY <1>2 DEF IntakeStep
  <2>2. state.applicant = None /\ state.kyc_result = None /\ state.offer = None
    BY <1>2 DEF IntakeStep, Safety, WorkerPreconditions, ThreadInvariant
  <2> QED  BY <2>2 DEF Settled
<1>3. CASE KycCheckStep
  <2>1. PICK u \in KycCheck(state) : state' = Merge(state, u)
    BY <1>3 DEF KycCheckStep
  <2>2. state.kyc_result = None /\ state.offer = None
    BY <1>3 DEF KycCheckStep, Safety, WorkerPreconditions, ThreadInvariant
  <2>3. "applicant" \notin DOMAIN u
    BY DEF KycCheck, Noted
  <2> QED  BY <2>1, <2>2, <2>3, MergeChannels DEF Settled
<1>4. CASE CreditAssessmentStep
  <2>1. PICK u \in CreditAssessment(state) : state' = Merge(state, u)
    BY <1>4 DEF CreditAssessmentStep
  <2>2. state.offer # None => KycIs("fail")
    BY <1>4 DEF CreditAssessmentStep, Safety, ThreadInvariant
  <2>3. DOMAIN u \cap {"applicant", "kyc_result"} = {}
    BY DEF CreditAssessment, Noted, Assessed
  <2> QED  BY <2>1, <2>2, <2>3, MergeChannels DEF Settled
<1>5. CASE ReflectorStep
  <2>1. PICK u \in Reflector(state) : state' = Merge(state, u)
    BY <1>5 DEF ReflectorStep
  <2>2. state.offer # None => KycIs("fail")
    BY <1>5 DEF ReflectorStep, Safety, ThreadInvariant
  <2>3. DOMAIN u \cap {"applicant", "kyc_result"} = {}
    BY DEF Reflector, Escalated, ThinFileEscalated, Charged
  <2> QED  BY <2>1, <2>2, <2>3, MergeChannels DEF Settled
<1>6. CASE OfferDraftStep
  <2>1. /\ state.offer # None => KycIs("fail")
        /\ ~OfferPreconditionBroken(state)
    BY <1>6 DEF OfferDraftStep, Safety, ThreadInvariant, WorkerPreconditions
  <2>2. state' = Merge(state, OfferDraft(state))
    BY <1>6, <2>1 DEF OfferDraftStep
  <2>3. DOMAIN OfferDraft(state) \cap {"applicant", "kyc_result"} = {}
    BY DEF OfferDraft
  <2> QED  BY <2>1, <2>2, <2>3, MergeChannels DEF Settled
<1>7. CASE MemoryConsolidationStep
  BY <1>7 DEF MemoryConsolidationStep, Settled
<1> QED  BY <1>1, <1>2, <1>3, <1>4, <1>5, <1>6, <1>7 DEF NodeStep

\* Between two submissions, no retry, resume, crash or follow-up replaces a
\* profile, a KYC result, or the offer and decision of a KYC-cleared applicant.
THEOREM DecisionsSettle == Spec => DecidedStaysDecided
<1>1. TypeOK /\ Safety /\ [Next]_vars =>
        [used'.submissions = used.submissions =>
            /\ state.applicant # None => state'.applicant = state.applicant
            /\ state.kyc_result # None => state'.kyc_result = state.kyc_result
            /\ state.offer # None /\ ~KycIs("fail") =>
                  /\ state'.offer = state.offer
                  /\ state'.credit_assessment = state.credit_assessment]_vars
  <2> SUFFICES ASSUME TypeOK, Safety, Next,
                      used'.submissions = used.submissions
               PROVE  Settled
    BY DEF Settled
  <2>1. CASE NodeStep
    BY <2>1, NodesSettle
  <2>2. CASE \E a \in Applications : Submit(a)
    <3>1. used' = [used EXCEPT !.submissions = used.submissions + 1]
      BY <2>2 DEF Submit
    <3>2. used.submissions \in Nat /\ used'.submissions = used.submissions + 1
      BY <3>1, TuningAssumption DEF TypeOK
    <3> QED  BY <3>2
  <2>3. CASE FollowUp
    <3>1. state' = Merge(state, [messages |-> <<"question">>])
      BY <2>3 DEF FollowUp, Accept
    <3> QED  BY <3>1, MergeChannels DEF Settled
  <2>4. CASE Resume \/ Crash
    BY <2>4 DEF Resume, Crash, Settled
  <2> QED  BY <2>1, <2>2, <2>3, <2>4 DEF Next
<1> QED  BY <1>1, Safe, TypeCorrect, PTL DEF Spec, DecidedStaysDecided

-----------------------------------------------------------------------------
(* The gates.                                                              *)

Confident == state.credit_assessment.confidence >= MinConfidence

\* The strengthening of GatesHold: the supervisor only ever sees a fresh
\* application, no failed applicant is reflected on, and an offer is drafted
\* over a KYC failure or a confident assessment.
GateInvariant ==
    used.follow_ups = 0 =>
        /\ node = "supervisor" => state.kyc_result = None
        /\ node = "reflector" => ~KycIs("fail")
        /\ node = "credit_assessment" \/ state.credit_assessment # None =>
              KycIs("pass")
        /\ node = "offer_draft" /\ ~KycIs("fail") => Confident
        /\ state.offer # None /\ state.offer.principal > 0 => Confident

LEMMA EscalationEnds ==
    ASSUME NEW s \in States, NEW t
    PROVE  AfterReflection(Merge(s, Escalated(t))) = "END"
<1> DEFINE m == Merge(s, Escalated(t))
           note == Note(t, "escalate_to_human")
<1>1. m.reflection_log = s.reflection_log \o <<note>>
  BY MergeChannels DEF Escalated
<1>2. m.reflection_log # << >> /\ LastOf(m.reflection_log) = note
  BY <1>1, LastAppended DEF States
<1> HIDE DEF m
<1>3. AfterReflection(m) = "END"
  BY <1>2 DEF AfterReflection, Note
<1> QED  BY <1>3 DEF m

LEMMA NodesGated ==
    ASSUME TypeOK, TypeOK', Safety, GateInvariant, NodeStep
    PROVE  GateInvariant'
<1> USE DEF Scheduled, Commit
<1> SUFFICES ASSUME used.follow_ups = 0, used' = used
             PROVE  GateInvariant'
  BY DEF NodeStep, SupervisorStep, IntakeStep, KycCheckStep,
         CreditAssessmentStep, ReflectorStep, OfferDraftStep,
         MemoryConsolidationStep, GateInvariant
<1>1. CASE SupervisorStep
  <2>1. /\ node = "supervisor"
        /\ state' = Merge(state, [next_node |-> Dispatch(state)])
        /\ node' = AfterSupervisor(state')
    BY <1>1 DEF SupervisorStep, Supervisor
  <2>2. /\ state.kyc_result = None /\ state.credit_assessment = None
        /\ state.offer = None
    BY <2>1 DEF GateInvariant, Safety, ThreadInvariant
  <2>3. /\ state'.kyc_result = None /\ state'.credit_assessment = None
        /\ state'.offer = None /\ state'.next_node \in {"intake", "kyc_check"}
    BY <2>1, <2>2, MergeChannels DEF Dispatch
  <2> QED  BY <2>1, <2>3 DEF GateInvariant, AfterSupervisor
<1>2. CASE IntakeStep
  <2>1. PICK u \in Intake(state) :
          /\ node = "intake"
          /\ state' = Merge(state, u) /\ node' = AfterIntake(state')
    BY <1>2 DEF IntakeStep
  <2>2. /\ state.kyc_result = None /\ state.credit_assessment = None
        /\ state.offer = None
    BY <2>1 DEF Safety, WorkerPreconditions, ThreadInvariant
  <2>3. DOMAIN u \cap {"kyc_result", "credit_assessment", "offer"} = {}
    BY DEF Intake, Rejected
  <2>4. /\ state'.kyc_result = None /\ state'.credit_assessment = None
        /\ state'.offer = None
    BY <2>1, <2>2, <2>3, MergeChannels
  <2> QED  BY <2>1, <2>4 DEF GateInvariant, AfterIntake, KycIs
<1>3. CASE KycCheckStep
  <2>1. PICK u \in KycCheck(state) :
          state' = Merge(state, u) /\ node' = AfterKyc(state')
    BY <1>3 DEF KycCheckStep
  <2>2. state.credit_assessment = None /\ state.offer = None
    BY <1>3 DEF KycCheckStep, Safety, WorkerPreconditions, ThreadInvariant
  <2>3. DOMAIN u \cap {"credit_assessment", "offer"} = {}
    BY DEF KycCheck, Noted
  <2>4. state'.credit_assessment = None /\ state'.offer = None
    BY <2>1, <2>2, <2>3, MergeChannels
  <2>5. state'.kyc_result # None => state'.kyc_result.status \in KycStatuses
    BY DEF TypeOK, States, Optional, KycResult
  <2> QED  BY <2>1, <2>4, <2>5
    DEF GateInvariant, AfterKyc, KycIs, KycInDoubt, KycStatuses
<1>4. CASE CreditAssessmentStep
  <2>1. PICK u \in CreditAssessment(state) :
          state' = Merge(state, u) /\ node' = AfterCredit(state')
    BY <1>4 DEF CreditAssessmentStep
  <2>2. KycIs("pass") /\ state.offer = None
    BY <1>4 DEF CreditAssessmentStep, GateInvariant, Safety, ThreadInvariant,
                KycIs
  <2>3. DOMAIN u \cap {"kyc_result", "offer"} = {}
    BY DEF CreditAssessment, Noted, Assessed
  <2>4. state'.kyc_result = state.kyc_result /\ state'.offer = None
    BY <2>1, <2>2, <2>3, MergeChannels
  <2>5. /\ MinConfidence \in 0..100
        /\ state'.credit_assessment # None =>
              state'.credit_assessment.confidence \in 0..100
    BY TuningAssumption DEF TypeOK, States, Optional, Assessment
  <2>6. node' = "offer_draft" => Confident'
    BY <2>1, <2>5 DEF AfterCredit, Confident
  <2>7. node' # "supervisor"
    BY <2>1 DEF AfterCredit
  <2> QED  BY <2>2, <2>4, <2>6, <2>7 DEF GateInvariant, KycIs
<1>5. CASE ReflectorStep
  <2>1. PICK u \in Reflector(state) :
          /\ node = "reflector"
          /\ state' = Merge(state, u) /\ node' = AfterReflection(state')
    BY <1>5 DEF ReflectorStep
  <2>2. ~KycIs("fail") /\ state.offer = None
    BY <2>1 DEF GateInvariant, Safety, ThreadInvariant
  <2>3. DOMAIN u \cap {"kyc_result", "credit_assessment"} = {}
    BY DEF Reflector, Escalated, ThinFileEscalated, Charged
  <2>4. /\ state'.kyc_result = state.kyc_result
        /\ state'.credit_assessment = state.credit_assessment
    BY <2>1, <2>3, MergeChannels
  <2>5. state'.offer # None => ~(state'.offer.principal > 0)
    <3>1. \/ "offer" \notin DOMAIN u
          \/ "offer" \in DOMAIN u /\ u.offer.principal = 0
      BY DEF Reflector, Escalated, ThinFileEscalated, Charged, Referral
    <3>2. \/ state'.offer = None
          \/ state'.offer.principal = 0
      BY <2>1, <2>2, <3>1, MergeChannels
    <3> QED  BY <3>2
  <2>6. KycIs("manual_review") => node' = "END"
    <3>1. KycIs("manual_review") =>
            \E t : u = Escalated(t)
      BY DEF KycIs, Reflector
    <3> QED  BY <2>1, <3>1, EscalationEnds DEF TypeOK
  <2>7. \/ node' = "END"
        \/ node' \in {"intake", "kyc_check"}
        \/ node' = "credit_assessment" /\ state.kyc_result # None
    BY <2>1, <2>4, NoReplan DEF AfterReflection, RetryStage, TypeOK
  <2>8. state.kyc_result # None => state.kyc_result.status \in KycStatuses
    BY DEF TypeOK, States, Optional, KycResult
  <2> QED  BY <2>2, <2>4, <2>5, <2>6, <2>7, <2>8
    DEF GateInvariant, KycIs, KycStatuses
<1>6. CASE OfferDraftStep
  <2>1. ~OfferPreconditionBroken(state)
    BY <1>6 DEF OfferDraftStep, Safety, WorkerPreconditions
  <2>2. /\ node = "offer_draft" /\ node' = "memory_consolidation"
        /\ state' = Merge(state, OfferDraft(state))
    BY <1>6, <2>1 DEF OfferDraftStep
  <2>3. /\ state'.kyc_result = state.kyc_result
        /\ state'.credit_assessment = state.credit_assessment
        /\ state'.offer = OfferDraft(state).offer
    BY <2>2, MergeChannels DEF OfferDraft
  <2>4. KycIs("fail") => state'.offer.principal = 0
    BY <2>3 DEF KycIs, OfferDraft, Referral
  <2> QED  BY <2>2, <2>3, <2>4 DEF GateInvariant, KycIs, Confident
<1>7. CASE MemoryConsolidationStep
  BY <1>7 DEF MemoryConsolidationStep, GateInvariant, KycIs, Confident
<1> QED  BY <1>1, <1>2, <1>3, <1>4, <1>5, <1>6, <1>7 DEF NodeStep

LEMMA GatesStep ==
    ASSUME TypeOK, TypeOK', Safety, GateInvariant, [Next]_vars
    PROVE  GateInvariant'
<1>1. CASE NodeStep
  BY <1>1, NodesGated
<1>2. ASSUME NEW a \in Applications, Submit(a)
      PROVE  GateInvariant'
  <2>1. /\ node' = "supervisor" /\ state'.kyc_result = None
        /\ state'.credit_assessment = None /\ state'.offer = None
    BY <1>2, Submitted
  <2> QED  BY <2>1 DEF GateInvariant
<1>3. CASE FollowUp
  <2>1. used' = [used EXCEPT !.follow_ups = used.follow_ups + 1]
    BY <1>3 DEF FollowUp
  <2>2. used.follow_ups \in Nat /\ used'.follow_ups = used.follow_ups + 1
    BY <2>1, TuningAssumption DEF TypeOK
  <2> QED  BY <2>2 DEF GateInvariant
<1>4. CASE Resume \/ Crash \/ UNCHANGED vars
  <2>1. /\ state' = state /\ node' = node
        /\ used'.follow_ups = used.follow_ups
    BY <1>4 DEF Resume, Crash, vars, TypeOK
  <2> QED  BY <2>1 DEF GateInvariant, KycIs, Confident
<1> QED  BY <1>1, <1>2, <1>3, <1>4 DEF Next

LEMMA GateAlways == Spec => []GateInvariant
<1>1. Init => GateInvariant
  <2> SUFFICES ASSUME Init PROVE GateInvariant
    OBVIOUS
  <2>1. /\ node = "END" /\ state.credit_assessment = None
        /\ state.offer = None
    BY DEF Init, Blank, Channels, Appending, LastValue
  <2> QED  BY <2>1 DEF GateInvariant
<1>2. TypeOK /\ TypeOK' /\ Safety /\ GateInvariant /\ [Next]_vars
         => GateInvariant'
  BY GatesStep
<1> QED  BY <1>1, <1>2, Safe, TypeCorrect, PTL DEF Spec

\* On a thread that is only ever given applications, nobody is assessed
\* before KYC has passed and no offer rests on an unsure approval.
THEOREM GatesAlwaysHold == Spec => []GatesHold
<1>1. GateInvariant => GatesHold
  BY DEF GateInvariant, GatesHold, Confident
<1> QED  BY <1>1, GateAlways, PTL
=============================================================================
