---------------------------- MODULE Underwriting ----------------------------
(***************************************************************************)
(* One applicant underwritten again and again: the gates of LoanPolicy, run *)
(* as kyc_check, credit_assessment and offer_draft run them on an applicant *)
(* whose MCP records stay and whose declared income changes between        *)
(* applications.  No LLM answer reaches any of these values.               *)
(***************************************************************************)
EXTENDS LoanPolicy

CONSTANTS BureauRecords,     \* what the bureau file may hold, None included
          ApplicantRecords,  \* what the applicant file may hold, None included
          Incomes            \* incomes an application may declare

ASSUME IncomeAssumption == Incomes \subseteq Nat

ASSUME RecordAssumption ==
    /\ \A r \in ApplicantRecords \ {None} : r \in [watchlist_hit : BOOLEAN]
    /\ \A r \in BureauRecords \ {None} :
          r \in [synthetic_score : 300..900, total_outstanding : Nat,
                thin_file : BOOLEAN]

\* Python's None is neither a decision, nor a tier, nor an offer.
ASSUME NoneAssumption ==
    /\ None \notin Decisions
    /\ None \notin [principal : Nat, apr : Nat, term : Nat]
    /\ None \notin [principal : Nat, apr : Nat, term : Nat,
                    conditions : Decisions \cup {"kyc_fail", "manual_pricing",
                                                 "indicative"}]

VARIABLES applicant, bureau_record,   \* the MCP records of the applicant
          income,                     \* the income last declared
          bureau, decision, offer     \* what the graph made of it

vars == <<applicant, bureau_record, income, bureau, decision, offer>>

KycStatus == ApplyKycPolicy(ApplicantLookup(applicant))

DecisionFor(b, i) == IF KycStatus = "pass" THEN ApplyPolicyGates(b, i) ELSE None

\* What offer_draft writes for the applications that are routed to it.
OfferFor(b, i) ==
    IF KycStatus = "fail" THEN Referral("kyc_fail")
    ELSE IF DecisionFor(b, i) \in {"approve", "decline"}
    THEN PriceOffer(DecisionFor(b, i), b.synthetic_score, i)
    ELSE None

Init ==
    /\ applicant \in ApplicantRecords
    /\ bureau_record \in BureauRecords
    /\ income \in Incomes
    /\ bureau \in BureauChecks(bureau_record, income)
    /\ decision = DecisionFor(bureau, income)
    /\ offer = OfferFor(bureau, income)

Apply(i) ==
    /\ income' = i
    /\ bureau' \in BureauChecks(bureau_record, i)
    /\ decision' = DecisionFor(bureau', i)
    /\ offer' = OfferFor(bureau', i)
    /\ UNCHANGED <<applicant, bureau_record>>

Next == \E i \in Incomes : Apply(i)

Spec == Init /\ [][Next]_vars

-----------------------------------------------------------------------------
Offered == offer # None /\ offer.principal > 0

\* The credit gates and the pricing table agree on who can be priced: every
\* approval has a tier, so offer_draft's "requires manual review" branch is
\* dead, and a positive offer never exceeds the debt cap it was gated by.
ApprovedIsPriced ==
    /\ decision = "approve" => Offered
    /\ Offered => bureau.dti <= 500 /\ (income <= 75000 => bureau.dti <= 400)

\* An applicant missing from either data file is left to a human or declined,
\* whatever income is declared: no synthetic record earns an offer.
UnknownIsNeverOffered ==
    applicant = None \/ bureau_record = None => ~Offered

\* Declaring a higher income never loses an approval nor worsens the offer.
\* It lowers the debt ratio, raises the cap and may change the tier at once.
MoreIncomeNeverHurts ==
    [][income' > income /\ Offered =>
        /\ Offered'
        /\ offer'.principal >= offer.principal
        /\ offer'.term >= offer.term
        /\ offer'.apr <= offer.apr]_vars
=============================================================================
