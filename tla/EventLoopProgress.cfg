SPECIFICATION FairSpec
CONSTANTS
    d1 = d1
    d2 = d2
    d3 = d3
    e1 = e1
    e2 = e2
    f1 = f1
    f2 = f2
    Deliveries = {d1, d2}
    Events = {e1}
    EventOf <- OneEventOfTwo
    Capacities = {1}
    Budgeted = {d1, d2}
    Flushers = {f1}
    NoDelivery = NoDelivery
    GatherYields = TRUE
INVARIANTS
    ReportsAreFinal
PROPERTIES
    OnlyCutFlushLoses FlushEnds EveryAdmissionSettles StopEndsConsumer
CHECK_DEADLOCK FALSE
