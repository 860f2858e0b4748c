-------------------------- MODULE UnderwritingProofs -------------------------
(***************************************************************************)
(* What the gates and the price table make of any applicant, whatever the  *)
(* records and whatever incomes are declared in turn.                      *)
(***************************************************************************)
EXTENDS Underwriting, TLAPS

-----------------------------------------------------------------------------
(* The rounded debt ratio.                                                 *)

\* An estimate is within half a thousandth of the ratio; all is natural.
LEMMA EstimateRounds ==
    ASSUME NEW outstanding \in Nat, NEW i \in Nat,
           NEW d \in DtiEstimates(outstanding, i)
    PROVE  LET base == Larger(i, 12)
           IN  /\ d \in Nat /\ base \in Nat /\ base >= 12
               /\ 2 * (d * base) - base <= 1000 * outstanding
               /\ 1000 * outstanding <= 2 * (d * base) + base
<1> DEFINE base == Larger(i, 12)
           debt == 500 * outstanding
           floor == debt \div base
           rest == debt % base
<1>1. base \in Nat /\ base >= 12 /\ debt \in Nat
  BY DEF Larger
<1>2. d \in {floor, floor + 1} /\ IF d = floor THEN 2 * rest <= base
                                   ELSE 2 * rest >= base
  BY DEF DtiEstimates
<1> HIDE DEF base, debt
<1>3. /\ floor \in Nat /\ rest \in Nat /\ rest < base
      /\ debt = floor * base + rest
  BY <1>1
<1> HIDE DEF floor, rest
<1> DEFINE product == floor * base
<1>4. product \in Nat /\ (floor + 1) * base = product + base
  BY <1>1, <1>3
<1>5. 1000 * outstanding = 2 * product + 2 * rest
  BY <1>1, <1>3 DEF debt
<1>6. \/ d * base = product /\ 2 * rest <= base
      \/ d * base = product + base /\ 2 * rest >= base
  BY <1>2, <1>4
<1>7. d \in Nat
  BY <1>2, <1>3
<1> HIDE DEF product
<1>8. /\ 2 * (d * base) - base <= 1000 * outstanding
      /\ 1000 * outstanding <= 2 * (d * base) + base
  BY <1>1, <1>3, <1>4, <1>5, <1>6
<1> QED  BY <1>1, <1>7, <1>8 DEF base

\* A higher income never rounds to a higher ratio, not even across a tie:
\* below an income of 12, where the base stays the same, there is none.
LEMMA EstimateFalls ==
    ASSUME NEW outstanding \in Nat, NEW i \in Nat, NEW j \in Nat, i < j,
           NEW d \in DtiEstimates(outstanding, i),
           NEW e \in DtiEstimates(outstanding, j)
    PROVE  e <= d /\ d \in Nat /\ e \in Nat
<1> DEFINE b == Larger(i, 12)
           c == Larger(j, 12)
<1>1. /\ d \in Nat /\ b \in Nat /\ b >= 12
      /\ 1000 * outstanding <= 2 * (d * b) + b
  BY EstimateRounds
<1>2. /\ e \in Nat /\ c \in Nat /\ c >= 12
      /\ 2 * (e * c) - c <= 1000 * outstanding
  BY EstimateRounds
<1>3. b < c \/ (b = 12 /\ c = 12)
  BY DEF Larger
<1> HIDE DEF b, c
<1>4. ASSUME e > d PROVE FALSE
  <2>1. PICK k \in Nat : e = d + 1 + k
    <3>1. e - d - 1 \in Nat /\ e = d + 1 + (e - d - 1)
      BY <1>1, <1>2, <1>4
    <3> QED  BY <3>1
  <2>2. e * c = d * c + c + k * c /\ k * c \in Nat /\ d * c \in Nat
    BY <1>1, <1>2, <2>1
  <2>3. 2 * (d * c) + c <= 2 * (d * b) + b
    BY <1>1, <1>2, <2>2
  <2>4. CASE b < c
    <3>1. PICK l \in Nat : c = b + 1 + l
      <4>1. c - b - 1 \in Nat /\ c = b + 1 + (c - b - 1)
        BY <1>1, <1>2, <2>4
      <4> QED  BY <4>1
    <3>2. d * c = d * b + d + d * l /\ d * l \in Nat /\ d * b \in Nat
      BY <1>1, <3>1
    <3> QED  BY <1>1, <2>3, <3>1, <3>2
  <2>5. CASE b = 12 /\ c = 12
    <3>1. /\ 1000 * outstanding <= 24 * d + 12
          /\ 24 * e - 12 <= 1000 * outstanding
      BY <1>1, <1>2, <2>5
    <3>2. 1000 * outstanding = 24 * d + 12
      BY <1>1, <1>2, <1>4, <3>1
    <3>3. 2 * (125 * outstanding - 3 * d) = 3
          /\ 125 * outstanding - 3 * d \in Int
      BY <1>1, <3>2
    <3> QED  BY <3>3
  <2> QED  BY <1>3, <2>4, <2>5
<1> QED  BY <1>1, <1>2, <1>4

-----------------------------------------------------------------------------
(* What is held is what the gates make of the records and the income.      *)

Underwritten ==
    /\ applicant \in ApplicantRecords
    /\ bureau_record \in BureauRecords
    /\ income \in Incomes
    /\ bureau \in BureauChecks(bureau_record, income)
    /\ decision = DecisionFor(bureau, income)
    /\ offer = OfferFor(bureau, income)

LEMMA UnderwrittenAlways == Spec => []Underwritten
<1>1. Init => Underwritten
  BY DEF Init, Underwritten
<1>2. Underwritten /\ [Next]_vars => Underwritten'
  <2> SUFFICES ASSUME Underwritten, [Next]_vars PROVE Underwritten'
    OBVIOUS
  <2>1. ASSUME NEW i \in Incomes, Apply(i)
        PROVE  Underwritten'
    BY <2>1 DEF Apply, Underwritten, DecisionFor, OfferFor, KycStatus
  <2>2. CASE UNCHANGED vars
    BY <2>2 DEF vars, Underwritten, DecisionFor, OfferFor, KycStatus
  <2> QED  BY <2>1, <2>2 DEF Next
<1> QED  BY <1>1, <1>2, PTL DEF Spec

\* What a bureau check answers of a record, and of none.
LEMMA BureauAnswers ==
    ASSUME NEW r \in BureauRecords, NEW i \in Nat, NEW b \in BureauChecks(r, i)
    PROVE  /\ b.dti \in Nat /\ b.synthetic_score \in Nat
           /\ b.thin_file \in BOOLEAN
           /\ r = None => b.thin_file
           /\ r # None => /\ r.total_outstanding \in Nat
                          /\ b.dti \in DtiEstimates(r.total_outstanding, i)
                          /\ b.synthetic_score = r.synthetic_score
                          /\ b.thin_file = r.thin_file
<1>1. CASE r = None
  <2> DEFINE score == Larger(300, IF 300 + i \div 500 <= 500
                                  THEN 300 + i \div 500 ELSE 500)
  <2>1. PICK d \in DtiEstimates(UnknownOutstanding, i) :
          b = [synthetic_score |-> score, thin_file |-> TRUE, dti |-> d]
    BY <1>1 DEF BureauChecks
  <2>2. score \in Nat
    BY DEF Larger
  <2> HIDE DEF score
  <2>3. d \in Nat
    BY EstimateRounds DEF UnknownOutstanding
  <2> QED  BY <1>1, <2>1, <2>2, <2>3
<1>2. CASE r # None
  <2>1. r \in [synthetic_score : 300..900, total_outstanding : Nat,
               thin_file : BOOLEAN]
    BY <1>2, RecordAssumption
  <2>2. PICK d \in DtiEstimates(r.total_outstanding, i) :
          b = [synthetic_score |-> r.synthetic_score,
               thin_file |-> r.thin_file, dti |-> d]
    BY <1>2 DEF BureauChecks
  <2>3. d \in Nat
    BY <2>1, EstimateRounds
  <2> QED  BY <1>2, <2>1, <2>2, <2>3
<1> QED  BY <1>1, <1>2

\* The gates approve full files only, within both caps and from the lowest
\* tier up.
LEMMA ApprovalMeans ==
    ASSUME NEW b, b.dti \in Nat, b.synthetic_score \in Nat, NEW i \in Nat
    PROVE  ApplyPolicyGates(b, i) = "approve" <=>
              /\ ~b.thin_file /\ b.synthetic_score >= 600
              /\ b.dti <= 500 /\ (i <= 75000 => b.dti <= 400)
  BY DEF ApplyPolicyGates, MaxDti, PremiumIncome

\* Money is offered to the approved, and to all of them: every approved score
\* has a tier.
LEMMA OfferedMeans ==
    ASSUME Underwritten
    PROVE  /\ Offered <=> decision = "approve"
           /\ Offered => /\ KycStatus = "pass"
                         /\ ApplyPolicyGates(bureau, income) = "approve"
                         /\ offer = PriceOffer("approve",
                                               bureau.synthetic_score, income)
<1>1. /\ income \in Nat /\ bureau.dti \in Nat
      /\ bureau.synthetic_score \in Nat
      /\ decision = DecisionFor(bureau, income)
      /\ offer = OfferFor(bureau, income)
  BY IncomeAssumption, BureauAnswers DEF Underwritten
<1>2. CASE decision = "approve"
  <2>1. /\ KycStatus = "pass"
        /\ ApplyPolicyGates(bureau, income) = "approve"
        /\ offer = PriceOffer("approve", bureau.synthetic_score, income)
    BY <1>1, <1>2, NoneAssumption DEF DecisionFor, OfferFor, Decisions
  <2>2. bureau.synthetic_score >= 600
    BY <1>1, <2>1, ApprovalMeans
  <2>3. Offered
    <3> DEFINE tier == OfferConstraints(bureau.synthetic_score, income)
               made == [principal |-> tier.principal, apr |-> tier.apr,
                        term |-> tier.term, conditions |-> "indicative"]
    <3>1. /\ tier \in [principal : Nat, apr : Nat, term : Nat]
          /\ tier.principal > 0
      BY <1>1, <2>2 DEF OfferConstraints
    <3> HIDE DEF tier
    <3>2. offer = made
      BY <2>1, <3>1, NoneAssumption DEF PriceOffer, tier
    <3>3. made # None /\ made.principal > 0
      BY <3>1, NoneAssumption
    <3> QED  BY <3>2, <3>3 DEF Offered
  <2> QED  BY <1>2, <2>1, <2>3
<1>3. CASE decision # "approve"
  <2>1. \/ offer = None
        \/ offer = Referral("kyc_fail")
        \/ offer = Referral("decline")
    BY <1>1, <1>3 DEF OfferFor, PriceOffer
  <2> QED  BY <1>3, <2>1 DEF Offered, Referral
<1> QED  BY <1>2, <1>3

\* Every approval is priced, whatever its score and income, and an offer
\* always respects the debt caps.
THEOREM ApprovalsPriced == Spec => []ApprovedIsPriced
<1>1. Underwritten => ApprovedIsPriced
  <2> SUFFICES ASSUME Underwritten PROVE ApprovedIsPriced
    OBVIOUS
  <2>1. /\ income \in Nat /\ bureau.dti \in Nat
        /\ bureau.synthetic_score \in Nat
    BY IncomeAssumption, BureauAnswers DEF Underwritten
  <2>2. Offered => bureau.dti <= 500 /\ (income <= 75000 => bureau.dti <= 400)
    BY <2>1, ApprovalMeans, OfferedMeans
  <2> QED  BY <2>2, OfferedMeans DEF ApprovedIsPriced
<1> QED  BY <1>1, UnderwrittenAlways, PTL

\* No declared income earns an offer to an applicant either file does not hold.
THEOREM UnknownsNotOffered == Spec => []UnknownIsNeverOffered
<1>1. Underwritten => UnknownIsNeverOffered
  <2> SUFFICES ASSUME Underwritten, Offered
               PROVE  applicant # None /\ bureau_record # None
    BY DEF UnknownIsNeverOffered
  <2>1. applicant # None
    BY OfferedMeans DEF KycStatus, ApplyKycPolicy, ApplicantLookup
  <2>2. ~bureau.thin_file
    <3>1. income \in Nat /\ bureau.dti \in Nat
          /\ bureau.synthetic_score \in Nat
      BY IncomeAssumption, BureauAnswers DEF Underwritten
    <3> QED  BY <3>1, OfferedMeans, ApprovalMeans
  <2>3. bureau_record # None
    BY <2>2, IncomeAssumption, BureauAnswers DEF Underwritten
  <2> QED  BY <2>1, <2>3
<1> QED  BY <1>1, UnderwrittenAlways, PTL

\* Of two prices for one score the one for the higher income is no worse.
LEMMA PricesImprove ==
    ASSUME NEW score \in Nat, score >= 600, NEW i \in Nat, NEW j \in Nat, i < j
    PROVE  LET was == PriceOffer("approve", score, i)
               now == PriceOffer("approve", score, j)
           IN  /\ now.principal >= was.principal
               /\ now.term >= was.term /\ now.apr <= was.apr
<1> DEFINE old == OfferConstraints(score, i)
           new == OfferConstraints(score, j)
<1>1. /\ old \in [principal : Nat, apr : Nat, term : Nat]
      /\ new \in [principal : Nat, apr : Nat, term : Nat]
      /\ new.principal >= old.principal /\ new.term >= old.term
      /\ new.apr <= old.apr
  BY DEF OfferConstraints, PremiumIncome
<1>2. old # None /\ new # None
  BY <1>1, NoneAssumption
<1> HIDE DEF old, new
<1> QED  BY <1>1, <1>2 DEF PriceOffer, old, new

\* Declaring more, of the same records, never costs an approval, and never
\* lowers the sum, shortens the term or raises the rate: the rounding of the
\* ratio, its cap and the tier all move the applicant's way.
THEOREM MoreIncomeIsSafe == Spec => MoreIncomeNeverHurts
<1>1. Underwritten /\ Underwritten' /\ [Next]_vars =>
        [income' > income /\ Offered =>
            /\ Offered'
            /\ offer'.principal >= offer.principal
            /\ offer'.term >= offer.term
            /\ offer'.apr <= offer.apr]_vars
  <2> SUFFICES ASSUME Underwritten, Underwritten', Next,
                      income' > income, Offered
               PROVE  /\ Offered'
                      /\ offer'.principal >= offer.principal
                      /\ offer'.term >= offer.term
                      /\ offer'.apr <= offer.apr
    OBVIOUS
  <2> DEFINE r == bureau_record
  <2>1. applicant' = applicant /\ bureau_record' = r
    BY DEF Next, Apply
  <2>2. income \in Nat /\ income' \in Nat /\ r \in BureauRecords
    BY IncomeAssumption DEF Underwritten
  <2>3. /\ bureau \in BureauChecks(r, income)
        /\ bureau' \in BureauChecks(r, income')
    BY <2>1 DEF Underwritten
  <2>4. /\ bureau.dti \in Nat /\ bureau.synthetic_score \in Nat
        /\ bureau'.dti \in Nat /\ bureau'.synthetic_score \in Nat
        /\ r = None => bureau.thin_file
    BY <2>2, <2>3, BureauAnswers
  <2>5. /\ KycStatus = "pass" /\ ApplyPolicyGates(bureau, income) = "approve"
        /\ offer = PriceOffer("approve", bureau.synthetic_score, income)
    BY OfferedMeans
  <2>6. /\ ~bureau.thin_file /\ bureau.synthetic_score >= 600
        /\ bureau.dti <= 500 /\ (income <= 75000 => bureau.dti <= 400)
    BY <2>2, <2>4, <2>5, ApprovalMeans
  <2>7. /\ bureau'.synthetic_score = bureau.synthetic_score
        /\ ~bureau'.thin_file /\ bureau'.dti <= bureau.dti
    <3>1. /\ r.total_outstanding \in Nat
          /\ bureau.dti \in DtiEstimates(r.total_outstanding, income)
          /\ bureau'.dti \in DtiEstimates(r.total_outstanding, income')
          /\ bureau.synthetic_score = r.synthetic_score
          /\ bureau'.synthetic_score = r.synthetic_score
          /\ bureau.thin_file = r.thin_file
          /\ bureau'.thin_file = r.thin_file
      BY <2>2, <2>3, <2>4, <2>6, BureauAnswers
    <3>2. income < income'
      BY <2>2
    <3> QED  BY <2>2, <2>6, <3>1, <3>2, EstimateFalls
  <2>8. ApplyPolicyGates(bureau', income') = "approve"
    BY <2>2, <2>4, <2>6, <2>7, ApprovalMeans
  <2>9. decision' = "approve"
    BY <2>1, <2>5, <2>8 DEF Underwritten, DecisionFor, KycStatus
  <2>10. Offered' /\ offer' = PriceOffer("approve", bureau'.synthetic_score,
                                         income')
    <3>1. (Underwritten => (Offered <=> decision = "approve")
             /\ (Offered => offer = PriceOffer("approve",
                                       bureau.synthetic_score, income)))'
      BY OfferedMeans, PTL
    <3> QED  BY <2>9, <3>1
  <2>11. income < income'
    BY <2>2
  <2> QED  BY <2>2, <2>4, <2>5, <2>6, <2>7, <2>10, <2>11, PricesImprove
<1> QED  BY <1>1, UnderwrittenAlways, PTL DEF Spec, MoreIncomeNeverHurts
=============================================================================
