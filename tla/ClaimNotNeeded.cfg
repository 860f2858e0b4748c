\* A lookup whose failure ends as one that was not needed.
CONSTANTS
    Processes = {session, other}
    Sessions = {session}
    Corpus = {eligibility, dti}
    Retired = {}
    TopK = 2
    MaxStarts = 3
    MaxCalls = 2
SPECIFICATION LookupSpec
CHECK_DEADLOCK FALSE
INVARIANT FailureIsNeverNotNeeded
