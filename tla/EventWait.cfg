SPECIFICATION FairSpec
CONSTANTS
    s1 = s1
    s2 = s2
    d1 = d1
    d2 = d2
    d3 = d3
    d4 = d4
    e1 = e1
    e2 = e2
    inside = inside
    across = across
    child = child
    NoHost = NoHost
    Deliveries = {d1, d2, d3, d4}
    EventOf <- EventsOf
    ScopeOf <- ScopesOf
    Observers = {d4}
    Named <- NamedOf
    Minimum <- Minima
    Uncontracted = {e2}
    ForRequired = {e1}
    Waiters = {inside, across, child}
    Host <- Hosts
    Children = {child}
    Unlimited = {inside, child}
INVARIANTS
    NeverSleepsOnSettled
PROPERTIES
    SuccessIsComplete EveryWaitEnds
CHECK_DEADLOCK FALSE
