SPECIFICATION FairSpec
CONSTANTS
    c1 = c1
    c2 = c2
    c3 = c3
    Callers = {c1, c2, c3}
    MaxAttempts = 2
INVARIANTS
    OneAttempt VerdictsAgree
PROPERTIES
    OriginalError EveryCallReturns
CHECK_DEADLOCK FALSE
