------------------------------ MODULE Lifecycle ------------------------------
(***************************************************************************)
(* What the copilot promises about an application, without the graph: no   *)
(* node, message, retry, checkpoint or model.  An application is           *)
(* identified, vetted, assessed and priced in that order, each time with   *)
(* the verdict the policy gates give on its own records, and its case is   *)
(* closed only on an offer or on a hand-over to a human.                   *)
(***************************************************************************)
EXTENDS LoanPolicy

CONSTANTS Applications, Malformed, Income, ApplicantRecord, BureauRecord

VARIABLES
    submitted,   \* the last payload a client submitted
    applicant,   \* the payload intake accepted as a profile
    kyc,         \* its KYC status
    credit,      \* its credit assessment
    offer,       \* its offer, or the referral in its place
    handed,      \* the latest reflection hands the case to a human
    open         \* the case is being worked on, or waits to be

vars == <<submitted, applicant, kyc, credit, offer, handed, open>>

Verdict(a) == ApplyKycPolicy(ApplicantLookup(ApplicantRecord[a]))

Assessments(a) ==
    {[thin_file |-> b.thin_file, score |-> b.synthetic_score, dti |-> b.dti,
      decision |-> ApplyPolicyGates(b, Income[a])] :
        b \in BureauChecks(BureauRecord[a], Income[a])}

Init ==
    /\ submitted = None /\ applicant = None
    /\ kyc = None /\ credit = None /\ offer = None
    /\ handed = FALSE /\ open = FALSE

\* A new application takes the thread over, whatever became of the last one.
Submit(a) ==
    /\ submitted' = a
    /\ applicant' = None /\ kyc' = None /\ credit' = None /\ offer' = None
    /\ open' = TRUE
    /\ UNCHANGED handed

\* A further message reopens the case.
Reopen ==
    /\ submitted # None
    /\ open' = TRUE
    /\ UNCHANGED <<submitted, applicant, kyc, credit, offer, handed>>

Identify ==
    /\ open /\ applicant = None
    /\ submitted \notin Malformed
    /\ applicant' = submitted
    /\ UNCHANGED <<submitted, kyc, credit, offer, handed, open>>

Vet ==
    /\ open /\ applicant # None /\ kyc = None
    /\ kyc' = Verdict(applicant)
    /\ UNCHANGED <<submitted, applicant, credit, offer, handed, open>>

\* What is still to be decided: nothing, once there is an offer.  A KYC
\* refusal is an exception: a reopened case is then assessed after all.
Undecided == offer = None \/ kyc = "fail"

Assess ==
    /\ open /\ kyc # None /\ Undecided
    /\ credit' \in Assessments(applicant)
    /\ UNCHANGED <<submitted, applicant, kyc, offer, handed, open>>

\* A KYC failure is refused whatever the assessment; everyone else is priced.
Price ==
    /\ open /\ kyc # None /\ Undecided
    /\ kyc # "fail" => credit # None
    /\ offer' = IF kyc = "fail" THEN Referral("kyc_fail")
                ELSE PriceOffer(credit.decision, credit.score,
                                Income[applicant])
    /\ UNCHANGED <<submitted, applicant, kyc, credit, handed, open>>

\* A worker or the reflector notes a failure, to be retried or handed over.
\* It may refer a thin file and close the case, but not without an outcome.
Reflect ==
    /\ open
    /\ handed' \in BOOLEAN
    /\ offer' = offer
       \/ /\ credit # None /\ credit.thin_file /\ Undecided
          /\ offer' = Referral("thin_file")
    /\ open' \in BOOLEAN
    /\ ~open' => offer' # None \/ handed'
    /\ UNCHANGED <<submitted, applicant, kyc, credit>>

Next == \/ \E a \in Applications : Submit(a)
        \/ Reopen \/ Identify \/ Vet \/ Assess \/ Price \/ Reflect

Spec == Init /\ [][Next]_vars
=============================================================================
