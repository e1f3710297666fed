-------------------------- MODULE MCGuardrailRequests --------------------------
(* A small instance of GuardrailRequests for TLC. *)
EXTENDS GuardrailRequests

CONSTANTS w, q, a1, a2, c1, c2, c3, mon, t1, t2, t3, t4

MCRoute ==
    [r \in Requests |-> CASE r \in {c1, c2, c3} -> "confirm"
                          [] r = mon            -> "monitor"
                          [] r = q              -> "query"
                          [] OTHER              -> "action"]
\* t1 and t3 are different requests with one id.
MCIdOf ==
    [r \in Requests |-> CASE r \in {w, q, a1, mon, t1, t3} -> "id1"
                          [] r \in {a2, t2}              -> "id2"
                          [] r = c1                      -> "id3"
                          [] r = c2                      -> "id4"
                          [] OTHER                       -> "id5"]
MCSessionOf == [r \in Requests |-> IF r \in {c3, a2} THEN "s2" ELSE "s1"]
MCTokenOf   == [r \in Requests |-> CASE r \in {c1, c3} -> a1 [] r = c2 -> c1
                                     [] OTHER -> None]

Call(tool, key) ==
    [tool |-> tool,
     arguments |-> IF Len(key) = 3
                   THEN [action |-> key[1], target |-> key[2], value |-> key[3]]
                   ELSE [action |-> key[1], target |-> key[2]]]
EveryCall ==
    UNION {{Call(tool, key) : key \in DOMAIN MappingRules[tool]}
              : tool \in DOMAIN MappingRules}
NoCall == Call("control_light", <<"turn_on", "trunk">>)
AskFeature == Call("explain_vehicle_feature", <<"explain", "pet_mode">>)
Gear   == Call("query_vehicle_state", <<"get", "gear">>)
Port   == Call("control_access", <<"open", "charge_port">>)
Window == Call("control_cabin", <<"open", "driver_window">>)
Pet    == Call("control_special_mode", <<"activate", "pet_mode">>)
Lock   == Call("control_access", <<"lock", "all_doors">>)

MCCalls ==
    [r \in Requests |-> CASE r = w -> EveryCall
                          [] r = q -> {NoCall, AskFeature, Gear, Port}
                          [] r = a1 -> {Port, Window}
                          [] r = a2 -> {Pet}
                          [] OTHER -> {Lock}]
Asked(intent, state) == [intent |-> intent, state |-> state]
MCMonitors ==
    [r \in Requests |->
        {Asked(i, None) : i \in MonitoredIntents \cup {"open_door"}}
        \cup {Asked("activate_campmode", [battery_pct |-> 10]),
              Asked("activate_hda", [hand_off_wheel_duration_seconds |-> 16]),
              Asked("activate_petmode", [battery_pct |-> None]),
              Asked("activate_aac", [speed |-> None]),
              Asked("activate_aac", [tyre_pressure |-> 2])}]

With(s) == s @@ StateDefaults
Parked  == StateDefaults
Driving == With([gear |-> "D", speed |-> 50])
Rainy   == With([gear |-> "D", speed |-> 40, rain_sensor |-> TRUE,
                 lowbeam_mode |-> "On"])
LowBattery == With([battery_pct |-> 8])
Creeping == With([gear |-> "R", speed |-> 2, battery_pct |-> 25, avh |-> FALSE,
                  acc_state |-> "ACTIVE", ambient_light |-> "night",
                  esc |-> FALSE, door_lock_state |-> "unlocked"])
HandsOff == With([speed |-> 100, gear |-> "D", acc_state |-> "ACTIVE",
                  hand_off_wheel_duration_seconds |-> 16, fog_light |-> TRUE,
                  hazard_light |-> TRUE, profile |-> "GUEST"])
InPetMode == With([pet_mode_active |-> TRUE, battery_pct |-> 26])
Unknown == With([rain_sensor |-> None, battery_pct |-> None, avh |-> None,
                 door_lock_state |-> None])

Speeds(S) == {[speed |-> n] : n \in S}
Scene(requests, initial, changes, last) ==
    [requests |-> requests, initial |-> initial, changes |-> changes,
     last |-> last]
MCScenes ==
    {Scene({w}, {Parked, Creeping, HandsOff, InPetMode, Unknown},
           {Parked, Driving, Rainy, LowBattery, [gear |-> "P"],
            [valet_mode_active |-> TRUE]}
           \cup Speeds({0, 1, 9, 15, 81, 150}), 2),
     Scene({q}, {Parked, Unknown}, {Driving}, 2),
     Scene({mon}, {Creeping, HandsOff, Unknown},
           {LowBattery, [autopark_state |-> "ACTIVE", speed |-> 15], Parked}, 3),
     Scene({a1, c1, c2}, {Parked, Rainy},
           {[rain_sensor |-> TRUE], [rain_sensor |-> FALSE]}
           \cup Speeds({0, 81}), 3),
     Scene({a1, c1, c3}, {Rainy}, {[rain_sensor |-> FALSE]} \cup Speeds({0, 1}), 3),
     Scene({a1, a2}, {Parked}, {Driving, InPetMode}, 3),
     Scene({t1, t2, t3, t4}, {Parked}, {}, 1)}
===============================================================================
