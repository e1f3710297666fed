SPECIFICATION FairSpec
CONSTANTS
    a1 = a1
    a2 = a2
    a3 = a3
    b1 = b1
    b2 = b2
    b3 = b3
    d1 = d1
    d2 = d2
    d3 = d3
    x1 = x1
    x2 = x2
    x3 = x3
    x4 = x4
    k1 = k1
    o1 = o1
    o2 = o2
    o3 = o3
    r1 = r1
    None = None
    Gauge = {0, 50}
    MaxVersion = 4
    Callers = {a1, a2, a3, b1, b2, b3, d1, d2, d3, x1, x2, x3, x4}
    Role <- MCRole
    SessionOf <- MCSessionOf
    RequestOf <- MCRequestOf
    Replies <- MCReplies
    Sampled = {a1, a2, a3}
    TooLong = {b3}
    Verdict <- MCVerdict
    Accepted <- MCAccepted
    Confirmations = {k1}
    Providers <- MCProviders
    Operators = {o1, o2, o3}
    CallOf <- MCCallOf
    Resets = {r1}
    ResetOf <- MCResetOf
    Companies <- MCCompanies
    MaxHistory = 3
    MaxCached = 1
INVARIANTS
    TypeOK
    LogTellsState
    RequestRunsOnce
    OneInside
    MemoryIsContiguous
    TruthfulAnswers
    ActsAsDecided
    ConfirmedOnce
PROPERTIES
    CallsReturn
    MonitorHears
CHECK_DEADLOCK FALSE
