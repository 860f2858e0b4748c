\* The app and the CLI run two applications, the CLI on a used thread.
CONSTANTS
    None = None
    strong = strong
    thin = thin
    flagged = flagged
    unknown = unknown
    broken = broken
    Applications = {strong, thin, flagged, unknown, broken}
    Malformed = {broken}
    Income <- MCIncome
    Notes <- MCNotes
    ApplicantRecord <- MCApplicantRecord
    BureauRecord <- MCBureauRecord
    MinConfidence = 55
    Confidences = {40, 90}
    Threshold = 10
    KeepRecent = 1
    InterruptBefore = {}
    MemoryEnabled = TRUE
    MaxFacts = 1
    MaxSubmissions = 2
    MaxFollowUps = 0
    MaxCrashes = 1
SPECIFICATION ConsoleSpec
CHECK_DEADLOCK FALSE
INVARIANTS ConsoleTypeOK VerdictsShown StagesShownRan PathShown
