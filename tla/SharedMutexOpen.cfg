SPECIFICATION FairSpec
CONSTANTS
    Procs = {p1, p2, p3}
    Nobody = Nobody
    MaxDeaths = 2
INVARIANTS
    OneInitialiser
    OpenedIsInitialised
    FewInits
PROPERTIES
    OpenReturns
CHECK_DEADLOCK FALSE
