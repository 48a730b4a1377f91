SPECIFICATION FairSpec
CONSTANTS
    c1 = c1
    c2 = c2
    c3 = c3
    r1 = r1
    r2 = r2
    Closers = {c1, c2, c3}
    Resources = {r1}
    Hasty = {c3}
    MaxCalls = 3
PROPERTIES
    BudgetKept
CHECK_DEADLOCK FALSE
