---------------------------- MODULE MCAgentRuntime ----------------------------
(* A small instance of AgentRuntime for TLC. *)
EXTENDS AgentRuntime

CONSTANTS a1, a2, a3, b1, b2, b3, d1, d2, d3, x1, x2, x3, x4, k1, o1, o2, o3, r1

\* a: turns of sample utterances; b: turns a model must read; d and x: calls
\* of the coordinator.
MCRole ==
    [c \in Callers |-> CASE c \in {a1, a2, a3, b1, b2, b3} -> "turn"
                         [] c \in {d1, d2, d3} -> "decide"
                         [] OTHER -> "resolve"]
MCSessionOf == [c \in Callers |-> IF c \in {b2, b3} THEN "s2" ELSE "s1"]
\* a1 and a2 are one request sent twice.
MCRequestOf ==
    [c \in Callers |-> CASE c \in {a1, a2} -> "r1" [] c \in {a3, b3} -> "r2"
                         [] c \in {b1, b2} -> "r3" [] c = d1 -> "q1"
                         [] OTHER -> "q2"]

Signal  == Action("control_light", "turn_on", "left_turn_signal")
Hazards == Action("control_light", "turn_on", "hazard_light")
Camp    == Action("control_special_mode", "activate", "camp_mode")
Pet     == Action("control_special_mode", "activate", "pet_mode")
Speed   == Action("query_vehicle_state", "get", "current_speed")
Park    == ValuedAction("control_transmission", "shift", "gear", "park")
Seat    == ValuedAction("control_cabin", "adjust", "driver_seat_position",
                        "forward")
Home    == ValuedAction("control_vehicle_capability", "set",
                        "set_navigation_destination", "home")
Nothing == Action("control_light", "turn_on", "trunk")

MCReplies ==
    [c \in Callers |-> CASE c \in {a1, a2} -> {Signal}
                         [] c = a3 -> {Hazards}
                         [] c = b1 -> {Speed, Park, Seat, None}
                         [] c = b2 -> {Camp, Home}
                         [] c = b3 -> {Pet}
                         [] c = d1 -> {Camp, Pet, Nothing}
                         [] OTHER -> {Pet}]

Decision(request, intent, outcome, id) ==
    [request |-> request, intent |-> intent, outcome |-> outcome, id |-> id]
MCVerdict ==
    [c \in Callers |->
        CASE c = d1 -> Decision("q1", "activate_campmode", "ALLOW", None)
          [] c = d2 -> Decision("q2", "activate_petmode", "CONFIRM", k1)
          [] c = d3 -> Decision("q2", "activate_petmode", "BLOCK_UNSAFE", None)
          [] c \in {x1, x2} -> Decision("q2", "activate_petmode", "ALLOW", k1)
          [] c = x3 -> Decision("q2", "activate_petmode", "CONFIRM", k1)
          [] c = x4 -> Decision("q1", "activate_campmode", "ALLOW", k1)
          [] OTHER -> None]

MCCallOf ==
    o1 :> [op |-> "controls", list |-> <<[field |-> "gear", value |-> "park"],
                                         [field |-> "speed", value |-> 50]>>]
    @@ o2 :> [op |-> "preset", name |-> "driving"]
    @@ o3 :> [op |-> "reset"]
MCResetOf == [r \in Resets |-> "s1"]

MCCompanies ==
    {{a1, a2, a3, r1, o1}, {a1, b1, o1, o2}, {b1, b2, b3}, {b1, b2, o3},
     {d1, a3, o2}, {d1, d2, x1, o1}, {d2, x1, x2, x3}, {d2, x1, x2, x4},
     {d1, d3, a1}}
MCAccepted == {x1, x3, x4}
MCProviders == <<"openai", "gemini">>
===============================================================================
