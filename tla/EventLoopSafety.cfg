SPECIFICATION Spec
CONSTANTS
    d1 = d1
    d2 = d2
    d3 = d3
    e1 = e1
    e2 = e2
    f1 = f1
    f2 = f2
    Deliveries = {d1, d2, d3}
    Events = {e1, e2}
    EventOf <- EventsOfThree
    Capacities = {0, 1}
    Budgeted = {d3}
    Flushers = {}
    NoDelivery = NoDelivery
    GatherYields = TRUE
INVARIANTS
    QueueIsWaiting OneHandler RecordsAgree InterruptedOnce
    StatsConserve PendingCountMatches CompleteIsFinal
PROPERTIES
    SettledIsFinal ImplementsSerialDelivery
SYMMETRY Alike
CHECK_DEADLOCK FALSE
