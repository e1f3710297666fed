SPECIFICATION FairSpec
CONSTANTS
    a1 = a1
    h1 = h1
    h2 = h2
    c1 = c1
    c2 = c2
    s1 = s1
    s2 = s2
    None = None
    Actions = {a1, h1, h2}
    Sessions = {s1}
    IntentOf <- MCIntentOf
    SessionOf <- MCOneSession
    Ticks = {k1}
    Resets = {x1}
INVARIANTS
    StopHandledOnce
    ListedIsMonitored
    SweptStaysStopped
PROPERTIES
    StopReachesVehicle
    WorkersFinish
CHECK_DEADLOCK FALSE
