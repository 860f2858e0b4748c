---------------------- MODULE LoanGraphRefinementProofs ----------------------
(***************************************************************************)
(* The graph implements Lifecycle, for every instance.  Each node's step   *)
(* is matched with the step of Lifecycle it is seen as; the description of *)
(* the step is that of LoanGraphOutcomeProofs.                             *)
(***************************************************************************)
EXTENDS LoanGraphOutcomeProofs, LoanGraphRefinement

\* What is known of a thread whenever it takes a step.
Known == /\ TypeOK /\ Safety /\ HistoryInvariant /\ OutcomeInvariant

\* Lifecycle prices and refers as the graph does.
LEMMA SamePolicy ==
    /\ \A reason : Promise!Referral(reason) = Referral(reason)
    /\ \A decision, score, income :
          Promise!PriceOffer(decision, score, income)
             = PriceOffer(decision, score, income)
  BY DEF Promise!Referral, Referral, Promise!PriceOffer, PriceOffer,
         Promise!OfferConstraints, OfferConstraints, Promise!PremiumIncome,
         PremiumIncome

\* What is seen of an assessment: it is one, with the gates' fields.
LEMMA AssessmentSeen ==
    ASSUME NEW ca \in Assessment
    PROVE  /\ Gated(ca) # None
           /\ Gated(ca) = [thin_file |-> ca.thin_file, score |-> ca.score,
                           dti |-> ca.dti, decision |-> ca.decision]
<1>1. ca # None
  BY NoneAssumption
<1>2. Gated(ca) = [f \in {"thin_file", "score", "dti", "decision"} |-> ca[f]]
  BY <1>1 DEF Gated
<1>3. Gated(ca) = [thin_file |-> ca.thin_file, score |-> ca.score,
                   dti |-> ca.dti, decision |-> ca.decision]
  BY <1>2
<1>4. Gated(ca) \in [thin_file : BOOLEAN, score : 300..900, dti : Nat,
                     decision : Decisions]
  BY <1>3 DEF Assessment
<1> QED  BY <1>3, <1>4, VerdictAssumption

LEMMA StatusSeen ==
    ASSUME TypeOK, state.kyc_result # None
    PROVE  state.kyc_result.status # None
<1>1. state.kyc_result \in KycResult
  BY DEF TypeOK, States, Optional
<1>2. state.kyc_result.status \in KycStatuses
  BY <1>1 DEF KycResult
<1> QED  BY <1>2, VerdictAssumption

\* The payload is seen unchanged by every superstep.
LEMMA SubmittedSeen ==
    ASSUME Known, Known', NodeStep
    PROVE  /\ LastSubmitted' = LastSubmitted
           /\ LastSubmitted = Submission /\ Submission' = Submission
           /\ used.submissions > 0 /\ used' = used
           /\ node # "END"
<1>1. Submission' = Submission
  BY NodesKeepHistory DEF Known
<1>2. used' = used /\ used.submissions > 0 /\ node \in Nodes
  BY StepFrame, ThreadStarted DEF Known
<1>3. used.submissions # 0 /\ used'.submissions # 0
  BY <1>2, TuningAssumption DEF Known, TypeOK
<1>4. LastSubmitted = Submission /\ LastSubmitted' = Submission'
  BY <1>3 DEF LastSubmitted, Submission
<1> QED  BY <1>1, <1>2, <1>4 DEF Nodes, Workers

LEMMA NotesSeen ==
    ASSUME SameNotes
    PROVE  HandedOver' = HandedOver
  BY DEF SameNotes, HandedOver

\* A superstep that decides nothing is a reflection: whatever it notes, it
\* does not end the run without an outcome.
LEMMA SeenAsReflect ==
    ASSUME Known, Known', NodeStep,
           state'.applicant = state.applicant,
           state'.kyc_result = state.kyc_result,
           state'.credit_assessment = state.credit_assessment,
           \/ state'.offer = state.offer
           \/ /\ state.credit_assessment # None
              /\ state.credit_assessment.thin_file
              /\ state.offer = None \/ KycIs("fail")
              /\ state'.offer = Referral("thin_file")
    PROVE  Promise!Reflect
<1>1. /\ LastSubmitted' = LastSubmitted /\ node # "END"
      /\ used'.submissions > 0
  BY SubmittedSeen
<1>2. ~(node' # "END") => state'.offer # None \/ HandedOver'
  BY <1>1 DEF Known, OutcomeInvariant, OutcomeRecorded, HandedOver
<1>3. HandedOver' \in BOOLEAN /\ (node' # "END") \in BOOLEAN
  BY DEF HandedOver
<1>4. state.credit_assessment # None =>
         /\ Gated(state.credit_assessment) # None
         /\ Gated(state.credit_assessment).thin_file
               = state.credit_assessment.thin_file
  <2>1. state.credit_assessment \in Optional(Assessment)
    BY DEF Known, TypeOK, States
  <2> QED  BY <2>1, AssessmentSeen DEF Optional
<1>5. \/ state'.offer = state.offer
      \/ /\ Gated(state.credit_assessment) # None
         /\ Gated(state.credit_assessment).thin_file
         /\ state.offer = None \/ KycIs("fail")
         /\ state'.offer = Promise!Referral("thin_file")
  BY <1>4, SamePolicy
<1> QED  BY <1>1, <1>2, <1>3, <1>5
  DEF Promise!Reflect, Promise!Undecided, KycIs

\* A superstep that writes nothing seen and does not end the run.
LEMMA SeenAsStutter ==
    ASSUME Known, Known', NodeStep, SameVerdicts, SameNotes, node' # "END"
    PROVE  UNCHANGED Promise!vars
<1>1. LastSubmitted' = LastSubmitted /\ node # "END"
  BY SubmittedSeen
<1>2. HandedOver' = HandedOver
  BY NotesSeen
<1> QED  BY <1>1, <1>2 DEF Promise!vars, SameVerdicts

-----------------------------------------------------------------------------
(* One lemma per node that decides something.                              *)

LEMMA IntakeSeen ==
    ASSUME Known, Known', IntakeStep
    PROVE  Promise!Identify \/ Promise!Reflect
<1>1. NodeStep
  BY DEF NodeStep
<1>2. CASE OnlyNoted("intake_validation_error", "retry")
  BY <1>1, <1>2, SeenAsReflect DEF OnlyNoted, SameVerdicts
<1>3. CASE ~OnlyNoted("intake_validation_error", "retry")
  <2>1. /\ node' = "kyc_check"
        /\ LastOf(state.messages) \in Applications \ Malformed
        /\ state'.applicant = LastOf(state.messages)
        /\ state.applicant = None
        /\ state'.kyc_result = state.kyc_result
        /\ state'.credit_assessment = state.credit_assessment
        /\ state'.offer = state.offer /\ SameNotes
    BY <1>3, IntakeEffect DEF Known
  <2>2. /\ LastSubmitted' = LastSubmitted /\ LastSubmitted = Submission
        /\ Submission' = Submission /\ node # "END"
        /\ used'.submissions > 0
    BY <1>1, SubmittedSeen
  <2>3. state'.applicant # None
    BY <2>1, NoneAssumption
  <2>4. state'.applicant = Submission
    BY <2>2, <2>3 DEF Known, HistoryInvariant, SubmissionKept
  <2>5. HandedOver' = HandedOver
    BY <2>1, NotesSeen
  <2> QED  BY <2>1, <2>2, <2>4, <2>5 DEF Promise!Identify
<1> QED  BY <1>2, <1>3

LEMMA KycCheckSeen ==
    ASSUME Known, Known', KycCheckStep
    PROVE  Promise!Vet \/ Promise!Reflect
<1>1. NodeStep
  BY DEF NodeStep
<1>2. ASSUME NEW t, OnlyNoted(t, "retry")
      PROVE  Promise!Reflect
  BY <1>1, <1>2, SeenAsReflect DEF OnlyNoted, SameVerdicts
<1>3. ASSUME \A t : ~OnlyNoted(t, "retry")
      PROVE  Promise!Vet
  <2>1. /\ node' # "END"
        /\ state.applicant # None /\ state.kyc_result = None
        /\ state'.applicant = state.applicant
        /\ state'.kyc_result # None
        /\ state'.kyc_result.status = ApplyKycPolicy(LookupOf(state.applicant))
        /\ state'.credit_assessment = state.credit_assessment
        /\ state'.offer = state.offer /\ SameNotes
    BY <1>3, KycCheckEffect DEF Known
  <2>2. LastSubmitted' = LastSubmitted /\ node # "END"
    BY <1>1, SubmittedSeen
  <2>3. HandedOver' = HandedOver
    BY <2>1, NotesSeen
  <2>4. Promise!Verdict(state.applicant)
           = ApplyKycPolicy(LookupOf(state.applicant))
    BY DEF Promise!Verdict, Promise!ApplyKycPolicy, ApplyKycPolicy,
           Promise!ApplicantLookup, ApplicantLookup, LookupOf
  <2> QED  BY <2>1, <2>2, <2>3, <2>4 DEF Promise!Vet
<1> QED  BY <1>2, <1>3

\* What the gates make of an application is what Lifecycle assesses it as.
LEMMA GatesSeen ==
    ASSUME NEW a \in Applications, NEW b \in BureauOf(a)
    PROVE  [thin_file |-> b.thin_file, score |-> b.synthetic_score,
            dti |-> b.dti, decision |-> ApplyPolicyGates(b, Income[a])]
              \in Promise!Assessments(a)
<1>1. \A record, income :
         Promise!BureauChecks(record, income) = BureauChecks(record, income)
  BY DEF Promise!BureauChecks, BureauChecks, Promise!DtiEstimates,
         DtiEstimates, Promise!Larger, Larger, Promise!UnknownOutstanding,
         UnknownOutstanding
<1>2. \A bureau, income :
         Promise!ApplyPolicyGates(bureau, income)
            = ApplyPolicyGates(bureau, income)
  BY DEF Promise!ApplyPolicyGates, ApplyPolicyGates, Promise!MaxDti, MaxDti,
         Promise!PremiumIncome, PremiumIncome
<1> QED  BY <1>1, <1>2 DEF Promise!Assessments, BureauOf

LEMMA CreditAssessmentSeen ==
    ASSUME Known, Known', CreditAssessmentStep
    PROVE  Promise!Assess \/ Promise!Reflect
<1>1. NodeStep
  BY DEF NodeStep
<1>2. ASSUME NEW t, OnlyNoted(t, "retry")
      PROVE  Promise!Reflect
  BY <1>1, <1>2, SeenAsReflect DEF OnlyNoted, SameVerdicts
<1>3. ASSUME \A t : ~OnlyNoted(t, "retry")
      PROVE  Promise!Assess
  <2>1. /\ node' # "END"
        /\ state.applicant # None /\ state.kyc_result # None
        /\ state.offer # None => KycIs("fail")
        /\ state'.credit_assessment # None
        /\ state'.applicant = state.applicant
        /\ state'.kyc_result = state.kyc_result
        /\ state'.offer = state.offer /\ SameNotes
    BY <1>3, CreditAssessmentEffect DEF Known
  <2>2. LastSubmitted' = LastSubmitted /\ node # "END"
    BY <1>1, SubmittedSeen
  <2>3. HandedOver' = HandedOver
    BY <2>1, NotesSeen
  <2> DEFINE a == state.applicant
             ca == state'.credit_assessment
  <2>4. PICK b \in BureauOf(a) :
          /\ ca.thin_file = b.thin_file /\ ca.score = b.synthetic_score
          /\ ca.dti = b.dti /\ ca.decision = ApplyPolicyGates(b, Income[a])
    BY <2>1 DEF Known, Safety, PolicyDecides
  <2>5. a \in Applications /\ ca \in Assessment
    BY <2>1 DEF Known, TypeOK, States, Optional
  <2>6. Gated(ca) \in Promise!Assessments(a)
    BY <2>4, <2>5, AssessmentSeen, GatesSeen
  <2>7. state.kyc_result.status # None
    BY <2>1, StatusSeen DEF Known
  <2> QED  BY <2>1, <2>2, <2>3, <2>6, <2>7
    DEF Promise!Assess, Promise!Undecided, KycIs
<1> QED  BY <1>2, <1>3

LEMMA ReflectorSeen ==
    ASSUME Known, Known', ReflectorStep
    PROVE  Promise!Reflect
<1>1. NodeStep
  BY DEF NodeStep
<1>2. state.offer = None \/ KycIs("fail")
  BY ReflectorEffect DEF Known, Safety, ThreadInvariant
<1>3. /\ state'.applicant = state.applicant
      /\ state'.kyc_result = state.kyc_result
      /\ state'.credit_assessment = state.credit_assessment
      /\ \/ state'.offer = state.offer
         \/ /\ state.credit_assessment # None
            /\ state.credit_assessment.thin_file
            /\ state'.offer = Referral("thin_file")
  BY ReflectorEffect DEF Known
<1> QED  BY <1>1, <1>2, <1>3, SeenAsReflect

LEMMA OfferDraftSeen ==
    ASSUME Known, Known', OfferDraftStep
    PROVE  Promise!Price
<1>1. NodeStep
  BY DEF NodeStep
<1>2. /\ node = "offer_draft" /\ node' # "END"
      /\ ~OfferPreconditionBroken(state)
      /\ state'.applicant = state.applicant
      /\ state'.kyc_result = state.kyc_result
      /\ state'.credit_assessment = state.credit_assessment
      /\ state'.offer = OfferDraft(state).offer /\ SameNotes
  BY OfferDraftEffect DEF Known
<1>3. LastSubmitted' = LastSubmitted /\ node # "END"
  BY <1>1, SubmittedSeen
<1>4. HandedOver' = HandedOver
  BY <1>2, NotesSeen
<1>5. /\ KycIs("fail") \/ state.credit_assessment # None
      /\ state.offer = None \/ KycIs("fail")
      /\ state.kyc_result # None
  BY <1>2 DEF OfferPreconditionBroken, KycIs, Known, Safety, ThreadInvariant
<1>6. state.kyc_result.status # None
  BY <1>5, StatusSeen DEF Known
<1> DEFINE ca == state.credit_assessment
<1>7. ca # None => /\ Gated(ca) # None /\ Gated(ca).decision = ca.decision
                   /\ Gated(ca).score = ca.score
  <2>1. ca \in Optional(Assessment)
    BY DEF Known, TypeOK, States
  <2> QED  BY <2>1, AssessmentSeen DEF Optional
<1>8. state'.offer = IF state.kyc_result.status = "fail"
                     THEN Promise!Referral("kyc_fail")
                     ELSE Promise!PriceOffer(Gated(ca).decision,
                                             Gated(ca).score,
                                             Income[state.applicant])
  BY <1>2, <1>5, <1>7, SamePolicy DEF OfferDraft, KycIs
<1> HIDE DEF ca
<1> QED  BY <1>2, <1>3, <1>4, <1>5, <1>6, <1>7, <1>8
  DEF Promise!Price, Promise!Undecided, KycIs, ca

-----------------------------------------------------------------------------
(* The refinement.                                                         *)

\* The step of Lifecycle a superstep is seen as.
LEMMA NodesSeen ==
    ASSUME Known, Known', NodeStep
    PROVE  [Promise!Next]_(Promise!vars)
<1>1. CASE SupervisorStep
  <2>1. SameVerdicts /\ SameNotes
    BY <1>1, SupervisorEffect DEF Known
  <2>2. CASE node' # "END"
    BY <2>1, <2>2, SeenAsStutter
  <2>3. CASE node' = "END"
    <3>1. Promise!Reflect
      BY <2>1, SeenAsReflect DEF SameVerdicts
    <3> QED  BY <3>1 DEF Promise!Next
  <2> QED  BY <2>2, <2>3
<1>2. CASE IntakeStep
  BY <1>2, IntakeSeen DEF Promise!Next
<1>3. CASE KycCheckStep
  BY <1>3, KycCheckSeen DEF Promise!Next
<1>4. CASE CreditAssessmentStep
  BY <1>4, CreditAssessmentSeen DEF Promise!Next
<1>5. CASE ReflectorStep
  BY <1>5, ReflectorSeen DEF Promise!Next
<1>6. CASE OfferDraftStep
  BY <1>6, OfferDraftSeen DEF Promise!Next
<1>7. CASE MemoryConsolidationStep
  <2>1. state' = state
    BY <1>7, MemoryConsolidationEffect DEF Known
  <2>2. Promise!Reflect
    BY <2>1, SeenAsReflect
  <2> QED  BY <2>2 DEF Promise!Next
<1> QED  BY <1>1, <1>2, <1>3, <1>4, <1>5, <1>6, <1>7 DEF NodeStep

LEMMA SubmitSeen ==
    ASSUME Known, Known', NEW a \in Applications, Submit(a)
    PROVE  Promise!Submit(a)
<1>1. /\ node' = "supervisor" /\ SameNotes
      /\ state'.applicant = None /\ state'.kyc_result = None
      /\ state'.credit_assessment = None /\ state'.offer = None
      /\ state'.messages = state.messages \o <<a>>
      /\ inherited'.messages = Len(state.messages)
      /\ used'.submissions = used.submissions + 1
  BY SubmitEffect DEF Known
<1>2. used'.submissions # 0
  <2>1. used.submissions \in Nat
    BY TuningAssumption DEF Known, TypeOK
  <2> QED  BY <1>1, <2>1
<1>3. (state.messages \o <<a>>)[Len(state.messages) + 1] = a
  BY AppendedEntries DEF Known, TypeOK, States
<1>4. LastSubmitted' = a
  BY <1>1, <1>2, <1>3 DEF LastSubmitted
<1>5. HandedOver' = HandedOver
  BY <1>1, NotesSeen
<1> QED  BY <1>1, <1>4, <1>5 DEF Promise!Submit, Gated

LEMMA FollowUpSeen ==
    ASSUME Known, Known', FollowUp
    PROVE  Promise!Reopen
<1>1. /\ node' = "supervisor" /\ SameVerdicts /\ SameNotes
      /\ state'.messages = state.messages \o <<"question">>
      /\ inherited' = inherited
      /\ used.submissions > 0 /\ used'.submissions = used.submissions
  BY FollowUpEffect DEF Known
<1>2. Submission' = Submission
  <2>1. SubmissionKept
    BY DEF Known, HistoryInvariant
  <2> QED  BY <1>1, <2>1, SubmissionStays DEF Known, SameVerdicts
<1>3. used.submissions # 0
  BY <1>1, TuningAssumption DEF Known, TypeOK
<1>4. LastSubmitted = Submission /\ LastSubmitted' = Submission'
  BY <1>1, <1>3 DEF LastSubmitted, Submission
<1>5. Submission # None
  BY <1>1, NoneAssumption DEF Known, HistoryInvariant, SubmissionKept
<1>6. HandedOver' = HandedOver
  BY <1>1, NotesSeen
<1> QED  BY <1>1, <1>2, <1>4, <1>5, <1>6 DEF Promise!Reopen, SameVerdicts

\* Nobody outside sees a resume or a crash.
LEMMA StillSeen ==
    ASSUME Known, Resume \/ Crash \/ UNCHANGED vars
    PROVE  UNCHANGED Promise!vars
<1>1. /\ state' = state /\ node' = node /\ inherited' = inherited
      /\ used'.submissions = used.submissions
  BY StillEffect DEF Known
<1> QED  BY <1>1 DEF Promise!vars, LastSubmitted, HandedOver, Gated

\* Through supersteps, retries, follow-ups, crashes, resumes and further
\* applications, a thread lives the life Lifecycle promises an application:
\* identified, vetted, assessed and priced in that order by the gates alone,
\* and closed only on an offer or a hand-over.
THEOREM GraphImplementsLifecycle == Spec => ImplementsLifecycle
<1>1. Init => Promise!Init
  <2> SUFFICES ASSUME Init PROVE Promise!Init
    OBVIOUS
  <2>1. /\ used.submissions = 0 /\ node = "END"
        /\ state.applicant = None /\ state.kyc_result = None
        /\ state.credit_assessment = None /\ state.offer = None
        /\ state.reflection_log = << >>
    BY DEF Init, Blank, Channels, Appending, LastValue
  <2> QED  BY <2>1 DEF Promise!Init, LastSubmitted, Gated, HandedOver
<1>2. Known /\ Known' /\ [Next]_vars => [Promise!Next]_(Promise!vars)
  <2> SUFFICES ASSUME Known, Known', [Next]_vars
               PROVE  [Promise!Next]_(Promise!vars)
    OBVIOUS
  <2>1. CASE NodeStep
    BY <2>1, NodesSeen
  <2>2. ASSUME NEW a \in Applications, Submit(a)
        PROVE  Promise!Next
    BY <2>2, SubmitSeen DEF Promise!Next
  <2>3. CASE FollowUp
    BY <2>3, FollowUpSeen DEF Promise!Next
  <2>4. CASE Resume \/ Crash \/ UNCHANGED vars
    BY <2>4, StillSeen
  <2> QED  BY <2>1, <2>2, <2>3, <2>4 DEF Next
<1>3. Spec => []Known
  BY TypeCorrect, Safe, HistoryAlways, OutcomeAlways, PTL DEF Known
<1> QED  BY <1>1, <1>2, <1>3, PTL
         DEF Spec, ImplementsLifecycle, Promise!Spec
=============================================================================
