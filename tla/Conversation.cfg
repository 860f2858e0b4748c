\* Follow-up messages and a crash on a thread that takes two applications.
CONSTANTS
    None = None
    strong = strong
    stretched = stretched
    weak = weak
    thin = thin
    flagged = flagged
    unknown = unknown
    broken = broken
    Malformed = {}
    Income <- MCIncome
    Notes <- MCNotes
    ApplicantRecord <- MCApplicantRecord
    BureauRecord <- MCBureauRecord
    MinConfidence = 55
    Applications = {strong, thin, flagged, unknown}
    Confidences = {40, 90}
    Threshold = 3
    KeepRecent = 1
    InterruptBefore = {}
    MemoryEnabled = TRUE
    MaxFacts = 1
    MaxSubmissions = 2
    MaxFollowUps = 1
    MaxCrashes = 1
SPECIFICATION FairSpec
CHECK_DEADLOCK FALSE
INVARIANTS WorkerPreconditions ThreadInvariant OfferJustified BoundedRun
PROPERTIES RunCompletes DecidedStaysDecided ImplementsLifecycle
