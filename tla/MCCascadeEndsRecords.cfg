SPECIFICATION Spec
CONSTANTS
    a1 = a1
    h1 = h1
    h2 = h2
    c1 = c1
    c2 = c2
    s1 = s1
    s2 = s2
    None = None
    Actions = {a1, h2}
    Sessions = {s1, s2}
    IntentOf <- MCIntentOf
    SessionOf <- MCTwoSessions
    Ticks = {k1}
    Resets = {}
PROPERTIES
    CascadeEndsRecords
CHECK_DEADLOCK FALSE
