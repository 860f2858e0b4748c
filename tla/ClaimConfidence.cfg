\* A follow-up on a low-confidence approval.
CONSTANTS
    None = None
    strong = strong
    stretched = stretched
    weak = weak
    thin = thin
    flagged = flagged
    unknown = unknown
    broken = broken
    Malformed = {broken}
    Income <- MCIncome
    Notes <- MCNotes
    ApplicantRecord <- MCApplicantRecord
    BureauRecord <- MCBureauRecord
    MinConfidence = 55
    Applications = {strong, stretched, weak, thin, flagged, unknown, broken}
    Confidences = {40, 90}
    MaxFacts = 1
    MaxSubmissions = 1
    MaxFollowUps = 1
    MaxCrashes = 0
    Threshold = 3
    KeepRecent = 1
    InterruptBefore = {}
    MemoryEnabled = FALSE
SPECIFICATION Spec
CHECK_DEADLOCK FALSE
INVARIANT LowConfidenceIsNotOffered
