SPECIFICATION Spec
CONSTANTS
    i1 = i1
    i2 = i2
    s1 = s1
    s2 = s2
    s3 = s3
    t1 = t1
    t2 = t2
    t3 = t3
    Ids = {i1, i2}
    Scopes = {s1, s2, s3}
    Tasks = {t1, t2, t3}
    NoScope = NoScope
    ReuseIds = TRUE
INVARIANTS
    UnfinishedReachable
SYMMETRY Alike
CHECK_DEADLOCK FALSE
