SPECIFICATION Spec
CONSTANTS
    s1 = s1
    s2 = s2
    c1 = c1
    c2 = c2
    c3 = c3
    base = base
    sub = sub
    e1 = e1
    e2 = e2
    NoScope = NoScope
    CatchAll = CatchAll
    Scopes = {s1, s2}
    Conns = {c1, c2, c3}
    Types = {base, sub}
    Events = {e1, e2}
    Source <- Homes
    Target <- Ends
    ListensTo <- Listens
    Priority <- Priorities
    MRO <- Orders
    EmittedOn <- Places
    TypeOf <- TypesOf
    FailFast = {sub}
    NonDroppable = {e1}
    Direct = {c1}
    Filtered = {c3}
    MaxDepth = 2
INVARIANTS
    CacheCurrent ReceiversAccounted NoSilentDrop FinishedUnlinked
CHECK_DEADLOCK FALSE
