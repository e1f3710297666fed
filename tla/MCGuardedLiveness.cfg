SPECIFICATION FairSpec
CONSTANTS
    t1 = t1
    t2 = t2
    s1 = s1
    s2 = s2
    r1 = r1
    r2 = r2
    a1 = a1
    a2 = a2
    act1 = act1
    None = None
    Turns = {t1}
    Attempts = {a1}
    Sessions = {s1}
    SessionOf <- MCSessionOf
    VehicleStates <- MCVehicleStates
    Policy <- MCPolicy
    StopsIn <- MCStopsIn
    Rules = {r1, r2}
    Monitored = {t1}
    ActionIds = {act1}
    ActionId <- MCActionId
    Handled = {t1}
    Versions = {1, 2}
    Resets = {x1}
    PermitTTL = 1
    ConfirmTTL = 0
    MaxTime = 1
    MaxVersion = 1
PROPERTIES
    ManagerSpec
    GatewaySpec
    ConfirmationSettles
    EveryCallReturns
CHECK_DEADLOCK FALSE
