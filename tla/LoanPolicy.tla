----------------------------- MODULE LoanPolicy -----------------------------
(***************************************************************************)
(* The deterministic half of the copilot: the synthetic MCP facts          *)
(* (mcp_server/tools.py), the KYC and credit gates and the PRICE-001 tier  *)
(* table.  No LLM takes part in any of these.                              *)
(*                                                                         *)
(* Units: a ratio (debt to income) is in thousandths, the precision        *)
(* bureau_check rounds to; a confidence is in percent; an APR is in tenths *)
(* of a percent; an income is a whole number of rupees a year.             *)
(***************************************************************************)
EXTENDS Integers

CONSTANT None   \* Python's None, and a record a data file does not hold

Decisions == {"approve", "decline", "manual_underwriting"}
KycStatuses == {"pass", "fail", "manual_review"}
Larger(a, b) == IF a >= b THEN a ELSE b

-----------------------------------------------------------------------------
(* MCP tools over the two synthetic data files.                            *)

\* record is None or [watchlist_hit |-> BOOLEAN]
ApplicantLookup(record) ==
    [found |-> record # None,
     synthetic_watchlist_hit |-> IF record = None THEN FALSE
                                 ELSE record.watchlist_hit]

\* round((outstanding / 24) / max(income / 12, 1), 3), in thousandths.  On an
\* exact tie Python may take either neighbour (binary fractions), so the set
\* then has two members.
DtiEstimates(outstanding, income) ==
    LET base  == Larger(income, 12)
        floor == (500 * outstanding) \div base
        rest  == (500 * outstanding) % base
    IN  {d \in {floor, floor + 1} :
            IF d = floor THEN 2 * rest <= base ELSE 2 * rest >= base}

\* An applicant the bureau does not hold owes 1500 a month over 24 months.
UnknownOutstanding == 1500 * 24

\* record is None or [synthetic_score, total_outstanding, thin_file]
BureauChecks(record, income) ==
    IF record = None
    THEN {[synthetic_score |-> Larger(300, IF 300 + income \div 500 <= 500
                                           THEN 300 + income \div 500 ELSE 500),
           thin_file |-> TRUE, dti |-> d] :
             d \in DtiEstimates(UnknownOutstanding, income)}
    ELSE {[synthetic_score |-> record.synthetic_score,
           thin_file |-> record.thin_file, dti |-> d] :
             d \in DtiEstimates(record.total_outstanding, income)}

-----------------------------------------------------------------------------
(* Policy gates.                                                           *)

\* Mutant: an applicant the file does not hold passes.
ApplyKycPolicy_WatchlistOnly(lookup) ==
    IF lookup.synthetic_watchlist_hit THEN "fail" ELSE "pass"

ApplyKycPolicy(lookup) ==
    IF lookup.synthetic_watchlist_hit THEN "fail"
    ELSE IF ~lookup.found THEN "manual_review" ELSE "pass"

PremiumIncome == 75000

\* Mutants: one cap for all; the caps of the two income tiers exchanged.
MaxDti_OneCap(income) == 500
MaxDti_Exchanged(income) == IF income > PremiumIncome THEN 400 ELSE 500

MaxDti(income) == IF income > PremiumIncome THEN 500 ELSE 400

ApplyPolicyGates(bureau, income) ==
    IF bureau.thin_file
    THEN IF bureau.dti > 600 THEN "decline" ELSE "manual_underwriting"
    ELSE IF bureau.synthetic_score < 600 \/ bureau.dti > 500
         THEN "manual_underwriting"
         ELSE IF bureau.dti > MaxDti(income) THEN "decline" ELSE "approve"

BaseConfidence(decision) == IF decision = "approve" THEN 85 ELSE 100

\* The tier's ceiling; None below the lowest tier.
OfferConstraints(score, income) ==
    IF score >= 750 THEN [principal |-> 5000000, apr |-> 85, term |-> 60]
    ELSE IF score >= 700
         THEN IF income > PremiumIncome
              THEN [principal |-> 3000000, apr |-> 95, term |-> 48]
              ELSE [principal |-> 1500000, apr |-> 105, term |-> 36]
    ELSE IF score >= 650 THEN [principal |-> 750000, apr |-> 120, term |-> 36]
    ELSE IF score >= 600 THEN [principal |-> 500000, apr |-> 135, term |-> 24]
    ELSE None

-----------------------------------------------------------------------------
(* Offers: a zero offer is a referral note, and names why it was written.  *)

Referral(reason) ==
    [principal |-> 0, apr |-> 0, term |-> 0, conditions |-> reason]

\* Mutant: the decision is not consulted.
PriceOffer_AnyDecision(decision, score, income) ==
    LET tier == OfferConstraints(score, income)
    IN  IF tier = None THEN Referral("manual_pricing")
        ELSE [principal |-> tier.principal, apr |-> tier.apr,
              term |-> tier.term, conditions |-> "indicative"]

\* What offer_draft issues once KYC has not failed.
PriceOffer(decision, score, income) ==
    LET tier == OfferConstraints(score, income)
    IN  IF decision # "approve" THEN Referral(decision)
        ELSE IF tier = None THEN Referral("manual_pricing")
        ELSE [principal |-> tier.principal, apr |-> tier.apr,
              term |-> tier.term, conditions |-> "indicative"]
=============================================================================
