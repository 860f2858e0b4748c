\* Three processes at a time search and rebuild one index, four in all.
CONSTANTS
    Processes = {p1, p2, p3}
    Corpus = {eligibility, dti}
    Retired = {repealed}
    TopK = 2
    MaxStarts = 4
SYMMETRY Alike
SPECIFICATION Spec
CHECK_DEADLOCK FALSE
INVARIANTS TypeOK SettledIndexIsCorpus UndisturbedSearchAnswers
PROPERTIES RetiredOnlyBeforeRebuild
