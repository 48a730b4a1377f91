SPECIFICATION Spec
CONSTANTS
    s1 = s1
    s2 = s2
    k1 = k1
    k2 = k2
    b1 = b1
    b2 = b2
    a1 = a1
    a2 = a2
    a3 = a3
    w1 = w1
    w2 = w2
    AnySession = AnySession
    NoBridge = NoBridge
    NoMessage = NoMessage
    NoWaiter = NoWaiter
    Scopes = {s1, s2}
    Sessions = {k1, k2}
    Bridges = {b1, b2}
    Waiters = {w1, w2}
    Attachments = {a1, a2, a3}
    Home <- Homes
    Session <- Bound
    Carries <- Carriers
    Timed = {w1}
    MaxMessages = 2
INVARIANTS
    RetainedUntilReleased FinishedHoldsNothing OneListener ArmedWhilePending
CHECK_DEADLOCK FALSE
