\* Two runs of one user over one store.
CONSTANTS
    Sessions = {cli, web}
    FactTypes <- MCTypes
    MaxFacts = 2
    TopK = 2
    Days <- MCDays
    MaxCreated = 3
    MaxSearches = 2
SYMMETRY Alike
SPECIFICATION Spec
CHECK_DEADLOCK FALSE
INVARIANTS TypeOK WithinCap
PROPERTIES EvictedStaysEvicted DurableFactsKept CapEvictsTheLowest
