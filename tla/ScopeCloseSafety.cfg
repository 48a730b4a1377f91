SPECIFICATION FairSpec
CONSTANTS
    c1 = c1
    c2 = c2
    c3 = c3
    r1 = r1
    r2 = r2
    Closers = {c1, c2}
    Resources = {r1, r2}
    Hasty = {c1, c2}
    MaxCalls = 3
INVARIANTS
    CompleteMeansClean CleanedUpOnce NothingForgotten
PROPERTIES
    BudgetKept ImplementsLifetime
CHECK_DEADLOCK FALSE
