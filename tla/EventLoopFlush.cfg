SPECIFICATION Spec
CONSTANTS
    d1 = d1
    d2 = d2
    d3 = d3
    e1 = e1
    e2 = e2
    f1 = f1
    f2 = f2
    Deliveries = {d1, d2}
    Events = {e1}
    EventOf <- OneEventOfTwo
    Capacities = {0}
    Budgeted = {}
    Flushers = {f1, f2}
    NoDelivery = NoDelivery
    GatherYields = TRUE
INVARIANTS
    FlushLosesNothing
SYMMETRY Alike
CHECK_DEADLOCK FALSE
