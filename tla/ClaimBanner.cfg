\* An approval that ends without an offer, as the app shows it.
CONSTANTS
    None = None
    strong = strong
    thin = thin
    flagged = flagged
    unknown = unknown
    broken = broken
    Applications = {strong, thin, flagged, unknown, broken}
    Malformed = {broken}
    Income <- MCIncome
    Notes <- MCNotes
    ApplicantRecord <- MCApplicantRecord
    BureauRecord <- MCBureauRecord
    MinConfidence = 55
    Confidences = {40, 90}
    Threshold = 10
    KeepRecent = 1
    InterruptBefore = {}
    MemoryEnabled = TRUE
    MaxFacts = 1
    MaxSubmissions = 1
    MaxFollowUps = 0
    MaxCrashes = 0
SPECIFICATION ConsoleSpec
CHECK_DEADLOCK FALSE
INVARIANT SuccessMeansOffer
