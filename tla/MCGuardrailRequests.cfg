SPECIFICATION Spec
CONSTANTS
    w = w
    q = q
    a1 = a1
    a2 = a2
    c1 = c1
    c2 = c2
    c3 = c3
    mon = mon
    t1 = t1
    t2 = t2
    t3 = t3
    t4 = t4
    None = None
    Requests = {w, q, a1, a2, c1, c2, c3, mon, t1, t2, t3, t4}
    Route <- MCRoute
    IdOf <- MCIdOf
    SessionOf <- MCSessionOf
    Malformed = {t2, t4}
    Calls <- MCCalls
    TokenOf <- MCTokenOf
    Monitors <- MCMonitors
    Scenes <- MCScenes
    Capacity = 2
INVARIANTS
    PermitsAreSafe
    AllowedMayRun
    DecidesButFor
    EvidenceHolds
    LastRequestsKept
CHECK_DEADLOCK FALSE
