\* Applications one after the other on the same thread, which pauses before
\* credit_assessment, with two crashes.
CONSTANTS
    None = None
    strong = strong
    stretched = stretched
    weak = weak
    thin = thin
    flagged = flagged
    unknown = unknown
    broken = broken
    Malformed = {broken}
    Income <- MCIncome
    Notes <- MCNotes
    ApplicantRecord <- MCApplicantRecord
    BureauRecord <- MCBureauRecord
    MinConfidence = 55
    Applications = {strong, stretched, weak, thin, flagged, unknown, broken}
    Confidences = {40, 55, 90}
    Threshold = 1
    KeepRecent = 1
    InterruptBefore = {"credit_assessment"}
    MemoryEnabled = TRUE
    MaxFacts = 2
    MaxSubmissions = 2
    MaxFollowUps = 0
    MaxCrashes = 2
SPECIFICATION Spec
CHECK_DEADLOCK FALSE
INVARIANTS TypeOK OutcomeRecorded ThinFileReferral RememberedOnce PolicyDecides GatesHold ComplianceTrail SummaryIsCurrent
