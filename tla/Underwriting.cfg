\* Every threshold of the policy, and every change of declared income.
CONSTANTS
    None = None
    BureauRecords <- MCBureauRecords
    ApplicantRecords <- MCApplicantRecords
    Incomes <- MCIncomes
SPECIFICATION Spec
INVARIANTS ApprovedIsPriced UnknownIsNeverOffered
PROPERTY MoreIncomeNeverHurts
