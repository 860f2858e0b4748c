------------------------------ MODULE MCConsole ------------------------------
(***************************************************************************)
(* Console over the applications of MCLoanGraph.                           *)
(***************************************************************************)
EXTENDS Console

CONSTANTS strong, thin, flagged, unknown, broken

MCIncome == [a \in Applications |-> IF a = strong THEN 90000 ELSE 60000]

MCNotes == [a \in Applications |-> IF a = strong THEN "suspicious" ELSE "none"]

MCApplicantRecord ==
    [a \in Applications |-> IF a = unknown THEN None
                            ELSE [watchlist_hit |-> a = flagged]]

MCBureauRecord ==
    [a \in Applications |->
        IF a = unknown THEN None
        ELSE [synthetic_score |-> IF a = strong THEN 760 ELSE 640,
              total_outstanding |-> 12000, thin_file |-> a = thin]]
=============================================================================
