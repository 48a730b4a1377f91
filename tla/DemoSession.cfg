SPECIFICATION FairSpec
CONSTANT
    Callers <- AllCallers
INVARIANTS
    PendingIsInFlight Released UndisturbedSucceeds
PROPERTY
    EveryRunEnds
CHECK_DEADLOCK FALSE
