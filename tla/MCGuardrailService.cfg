SPECIFICATION GuardrailSpec
CONSTANTS
    t1 = t1
    t2 = t2
    s1 = s1
    s2 = s2
    r1 = r1
    r2 = r2
    act1 = act1
    None = None
    Turns = {t1, t2}
    Attempts = {a1, a2}
    Sessions = {s1, s2}
    SessionOf <- MCSessionOf
    VehicleStates <- MCVehicleStates
    Policy <- MCPolicy
    StopsIn <- MCStopsIn
    Rules = {r1, r2}
    Monitored = {t2}
    ActionIds = {act1}
    ActionId <- MCActionId
    PermitTTL = 1
    ConfirmTTL = 0
    MaxTime = 1
    MaxVersion = 2
INVARIANTS
    OnePermitPerProposal
    ConfirmedPermitIsFresh
PROPERTY
    OnlyOwnerTakesToken
CHECK_DEADLOCK FALSE
