----------------------------- MODULE MCLoanGraph -----------------------------
(***************************************************************************)
(* LoanGraph on small sets of applications.  Each application stands for   *)
(* one path the gates can send an applicant down.                          *)
(***************************************************************************)
EXTENDS LoanGraphClaims, LoanGraphRefinement

CONSTANTS
    strong,      \* approved in the premium tier; its free text is suspicious
    stretched,   \* a debt ratio of 0.45 on a standard income: declined
    weak,        \* a score of 550: manual underwriting
    thin,        \* a thin file with a score that would otherwise price
    flagged,     \* on the watchlist: KYC fails; a thin file, suspicious text
    unknown,     \* held by neither data file: KYC manual review
    broken       \* does not parse

Score(a) == IF a = strong THEN 760 ELSE IF a = weak THEN 550 ELSE 640

MCIncome == [a \in Applications |-> IF a = strong THEN 90000 ELSE 60000]

MCNotes == [a \in Applications |-> IF a \in {strong, flagged} THEN "suspicious"
                                   ELSE IF a = thin THEN "clean"
                                   ELSE "none"]

MCApplicantRecord ==
    [a \in Applications |-> IF a = unknown THEN None
                            ELSE [watchlist_hit |-> a = flagged]]

MCBureauRecord ==
    [a \in Applications |->
        IF a = unknown THEN None
        ELSE [synthetic_score |-> Score(a),
              total_outstanding |-> IF a = stretched THEN 54000 ELSE 12000,
              thin_file |-> a \in {thin, flagged}]]
=============================================================================
