SPECIFICATION FairSpec
CONSTANTS
    t1 = t1
    t2 = t2
    p1 = p1
    x1 = x1
    x2 = x2
    e1 = e1
    e2 = e2
    k1 = k1
    k2 = k2
    c1 = c1
    r1 = r1
    None = None
    Sessions <- MCSessions
    Turns = {t1, t2}
    SessionOf <- MCSessionOf
    Proposals = {p1}
    Executions = {x1, x2}
    Emitters = {e1, e2}
    Emits <- MCEmits
    Subscribers = {k1, k2}
    Since <- MCSince
    Connections = {c1}
    Follows <- MCFollows
    Resets = {r1}
    ResetScope <- MCResetScope
    Companies <- MCCompanies
    MaxEvents = 5
    MaxPending = 2
    MaxChunks = 2
INVARIANTS
    ExecutionFollowsAllow
    AnswersAreWhole
    DeliveredInOrder
    NoStrandedEvent
PROPERTIES
    OnlyLateAcksSkip
    DeliveryCompletes
CHECK_DEADLOCK FALSE
