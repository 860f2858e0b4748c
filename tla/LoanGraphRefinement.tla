------------------------- MODULE LoanGraphRefinement -------------------------
(***************************************************************************)
(* The graph implements Lifecycle: seen through the mapping below, every   *)
(* superstep, input, resume and crash of a thread is a step of the life of *)
(* one application, or none at all.                                        *)
(***************************************************************************)
EXTENDS LoanGraph

\* The payload the last Submit left in the message log of the thread.
LastSubmitted == IF used.submissions = 0 THEN None
                 ELSE state.messages[inherited.messages + 1]

\* An assessment without its explanation and the confidence in it.
Gated(assessment) ==
    IF assessment = None THEN None
    ELSE [f \in {"thin_file", "score", "dti", "decision"} |-> assessment[f]]

\* Python's None is neither a status nor what is seen of an assessment.
ASSUME VerdictAssumption ==
    None \notin KycStatuses \cup
               [thin_file : BOOLEAN, score : 300..900, dti : Nat,
                decision : Decisions]

HandedOver == /\ state.reflection_log # << >>
              /\ LastOf(state.reflection_log).action_taken
                    = "escalate_to_human"

Promise == INSTANCE Lifecycle WITH
    submitted <- LastSubmitted,
    applicant <- state.applicant,
    kyc <- IF state.kyc_result = None THEN None ELSE state.kyc_result.status,
    credit <- Gated(state.credit_assessment),
    offer <- state.offer,
    handed <- HandedOver,
    open <- node # "END"

\* The thread keeps the promise of Lifecycle: stages in order, verdicts that
\* are the gates' own, nothing decided twice, no case closed without an
\* outcome, over any retries, follow-ups, crashes and further applications.
ImplementsLifecycle == Promise!Spec
=============================================================================
