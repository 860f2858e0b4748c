\* A credit assessment searches the index while another process searches it
\* or rebuilds it.
CONSTANTS
    Processes = {session, other}
    Sessions = {session}
    Corpus = {eligibility, dti}
    Retired = {}
    TopK = 2
    MaxStarts = 3
    MaxCalls = 2
SPECIFICATION LookupSpec
CHECK_DEADLOCK FALSE
INVARIANTS LookupTypeOK OutcomeIsTheProviders UndisturbedLookupRetrieves
PROPERTY LookupEnds
