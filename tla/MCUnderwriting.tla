--------------------------- MODULE MCUnderwriting ---------------------------
(***************************************************************************)
(* Underwriting on both sides of every threshold of the gates, the tiers   *)
(* and the rounding of the debt ratio.                                     *)
(***************************************************************************)
EXTENDS Underwriting

MCScores == {300, 499, 599, 600, 649, 650, 699, 700, 749, 750, 900}

\* 60030 rounds to exactly 0.400 of 75000; 37500 is exactly 0.500 of 37500.
MCOutstanding == {0, 12000, 30000, 37500, 37538, 60000, 60030, 60075, 75000}

MCBureauRecords ==
    {None} \cup [synthetic_score : MCScores,
                 total_outstanding : MCOutstanding, thin_file : BOOLEAN]

MCApplicantRecords == {None} \cup [watchlist_hit : BOOLEAN]

MCIncomes == {0, 11, 12, 13, 24999, 25000, 30000, 31250, 37500, 60000,
              75000, 75001, 75100, 90000, 250000}
=============================================================================
