------------------------------- MODULE Vehicle -------------------------------
(***************************************************************************)
(* The simulated vehicle: VehicleStateMachine with its append-only event   *)
(* store (vehicle/state/machine.py, events.py), the invariants a           *)
(* VehicleState enforces on construction (model.py), the data-driven       *)
(* handlers the agent drives it with (vehicle/execution/generic.py over    *)
(* behaviors/catalog.py) and the operator's SimulationController           *)
(* (simulation/controller.py).                                             *)
(*                                                                         *)
(* A patch function is modelled by the set of the states it can return:    *)
(* one state, or none when it raises. The machine calls it under its lock, *)
(* so a transition is one step; what happens before and after the lock is  *)
(* a step of its own in the module that runs the threads (AgentRuntime).   *)
(*                                                                         *)
(* Data: speeds in km/h from a small set, seat positions in tenths of the  *)
(* axis, enum members by their lower-case names, the driver's door alone,  *)
(* active actions by their intent (an entry is replaced, never doubled, so *)
(* its id tells nothing more). Timestamps and provenance are left out.     *)
(***************************************************************************)
EXTENDS Integers, Sequences, FiniteSets, SequencesExt

CONSTANTS
    Gauge,          \* what a Speed control may ask for
    MaxVersion      \* bound: no commit past this version

ASSUME BoundAssumption == MaxVersion \in Nat

VARIABLES
    state,          \* VehicleStateMachine._state without its version
    version,        \* VehicleState.state_version
    events          \* VehicleEventStore._events

vehicleVars == <<state, version, events>>

Gears      == {"park", "reverse", "neutral", "drive"}
LightModes == {"off", "on"}
DriveModes == {"eco", "normal", "sport"}
SeatMax    == 10
PowerDependentAdas == {"activate_aac", "activate_hda", "activate_autopark"}

\* DEFAULT_VEHICLE_STATE: parked, locked, powered off.
Default ==
    [powered_on |-> FALSE, charging |-> FALSE,
     speed |-> 0, gear |-> "park", epb_engaged |-> TRUE,
     door |-> "locked", trunk_open |-> FALSE, bonnet_open |-> FALSE,
     charge_port_open |-> FALSE,
     highbeam |-> "off", lowbeam |-> "off", auto_highbeam_active |-> FALSE,
     left_turn_signal |-> FALSE, right_turn_signal |-> FALSE,
     hazard_light |-> FALSE, cornering_light |-> FALSE,
     interior_light |-> FALSE,
     driver_seat_position |-> 5, driver_seat_angle |-> 5,
     rear_seat_folded |-> FALSE, windows_open |-> FALSE,
     sunroof_open |-> FALSE, mirrors_folded |-> FALSE, hud_active |-> TRUE,
     drive_mode |-> "normal", creep_mode_active |-> FALSE,
     camp_mode_active |-> FALSE, pet_mode_active |-> FALSE,
     valet_mode_active |-> FALSE,
     acc_state |-> "off", hda_active |-> FALSE,
     lane_keep_assist_active |-> FALSE, tcs_active |-> TRUE,
     avh_active |-> FALSE, hand_on_steeringwheel |-> TRUE,
     rain_sensor |-> FALSE, ambient_light |-> "day",
     obstacle_detected |-> FALSE, driver_present |-> TRUE,
     notification_center_open |-> FALSE,
     active_actions |-> {}]

(***************************************************************************)
(* What __post_init__ checks: within one group of fields as soon as the    *)
(* group is built, and across the groups when the snapshot is built.       *)
(***************************************************************************)
AdasHolds(s) == s.hda_active => s.acc_state = "active"

ModesHold(s) ==
    Cardinality({m \in {"camp_mode_active", "pet_mode_active",
                        "valet_mode_active"} : s[m]}) <= 1

CabinHolds(s) == /\ s.driver_seat_position \in 0..SeatMax
                 /\ s.driver_seat_angle \in 0..SeatMax

SnapshotHolds(s) ==
    /\ s.gear = "park" => s.speed = 0
    /\ ~s.powered_on => /\ s.acc_state # "active"
                        /\ ~s.hda_active
                        /\ s.active_actions \cap PowerDependentAdas = {}

Coherent(s) ==
    AdasHolds(s) /\ ModesHold(s) /\ CabinHolds(s) /\ SnapshotHolds(s)

\* Fault: the snapshot is taken as it comes.
Unchecked(s) == {s}

\* dataclasses.replace: the new snapshot, or an exception.
Built(s) == {t \in {s} : Coherent(t)}
Replaced(s, field, value) == Built([s EXCEPT ![field] = value])

\* One patch after another on the same snapshot, each one validated.
Composed(s, patches, Patch(_, _)) ==
    FoldLeft(LAMBDA built, p : UNION {Patch(t, p) : t \in built}, {s}, patches)

(***************************************************************************)
(* VehicleStateMachine.apply and reset: the next snapshot, its version and *)
(* its event are committed together under the lock.                        *)
(***************************************************************************)

\* Fault: the event shows the vehicle before the change.
StaleEvent(kind, by, snapshot) ==
    [previous |-> version, next |-> version + 1, kind |-> kind, by |-> by,
     snapshot |-> state]

Event(kind, by, snapshot) ==
    [previous |-> version, next |-> version + 1, kind |-> kind, by |-> by,
     snapshot |-> snapshot]

\* The machine builds every snapshot anew, with its version and its time.
Stamped(candidates) == UNION {Built(s) : s \in candidates}

Commit(candidates, kind, by) ==
    /\ version < MaxVersion
    /\ \E next \in Stamped(candidates) :
         /\ state' = next
         /\ version' = version + 1
         /\ events' = Append(events, Event(kind, by, next))

(***************************************************************************)
(* The behaviour catalogue: one configuration per intent.                  *)
(***************************************************************************)
Toggle(f, d)       == [type |-> "toggle", field |-> f, default |-> d]
Setter(f, ms, d)   == [type |-> "enum", field |-> f, members |-> ms,
                       default |-> d]
Position(f)        == [type |-> "position", field |-> f]
PositionAt(f, d)   == [type |-> "position", field |-> f, default |-> d]
Timed(f)           == [type |-> "timed", field |-> f]
OneShot(f)         == [type |-> "one_shot", field |-> f]
ActiveAction(f)    == [type |-> "active_action", field |-> f]
Compound(subs)     == [type |-> "compound", subs |-> subs]
Access             == [type |-> "access"]
NoField            == "none"

Lights ==
    [turnon_highbeam          |-> Setter("highbeam", LightModes, "on"),
     turnoff_highbeam         |-> Setter("highbeam", LightModes, "off"),
     turnon_lowbeam           |-> Setter("lowbeam", LightModes, "on"),
     turnoff_lowbeam          |-> Setter("lowbeam", LightModes, "off"),
     activate_ahb             |-> Toggle("auto_highbeam_active", TRUE),
     turnon_turnsignal_right  |-> Toggle("right_turn_signal", TRUE),
     turnoff_turnsignal_right |-> Toggle("right_turn_signal", FALSE),
     turnon_turnsignal_left   |-> Toggle("left_turn_signal", TRUE),
     turnoff_turnsignal_left  |-> Toggle("left_turn_signal", FALSE),
     turnon_hazardlight       |->
        Compound(<<Toggle("left_turn_signal", TRUE),
                   Toggle("right_turn_signal", TRUE),
                   Toggle("hazard_light", TRUE)>>),
     turnoff_hazardlight      |->
        Compound(<<Toggle("left_turn_signal", FALSE),
                   Toggle("right_turn_signal", FALSE),
                   Toggle("hazard_light", FALSE)>>),
     turnon_corneringlight    |-> Toggle("cornering_light", TRUE),
     turnon_interiorlight     |-> Toggle("interior_light", TRUE)]

AccessBehaviors ==
    [open_door       |-> Access,
     open_trunk      |-> Toggle("trunk_open", TRUE),
     open_chargeport |-> Toggle("charge_port_open", TRUE),
     OPEN_BONNET     |-> Toggle("bonnet_open", TRUE),
     lock_doors      |-> OneShot(NoField),
     unlock_doors    |-> OneShot(NoField)]

Cabin ==
    [AD_WIPER_MAX           |-> OneShot(NoField),
     ad_steeringwheel       |-> OneShot(NoField),
     ad_driverseat_pos      |-> Position("driver_seat_position"),
     ad_driverseat_angle    |-> Position("driver_seat_angle"),
     restore_driverseat_pos |->
        Compound(<<PositionAt("driver_seat_position", 5),
                   PositionAt("driver_seat_angle", 5)>>),
     fold_backseat          |-> Timed("rear_seat_folded"),
     open_window            |-> Toggle("windows_open", TRUE),
     open_sunroof           |-> Toggle("sunroof_open", TRUE),
     fold_mirrors           |-> Timed("mirrors_folded"),
     deactivate_hud         |-> Toggle("hud_active", FALSE)]

DrivingModes ==
    [switch_drivemode_sport  |-> Setter("drive_mode", DriveModes, "sport"),
     switch_drivemode_eco    |-> Setter("drive_mode", DriveModes, "eco"),
     switch_drivemode_normal |-> Setter("drive_mode", DriveModes, "normal")]

SpecialModes ==
    [activate_campmode  |-> ActiveAction("camp_mode_active"),
     activate_petmode   |-> ActiveAction("pet_mode_active"),
     activate_valetmode |-> ActiveAction("valet_mode_active"),
     activate_creepmode |-> Toggle("creep_mode_active", TRUE)]

Transmission ==
    [SHIFT_GEAR_REVERSE |-> Setter("gear", Gears, "reverse"),
     shift_gear_park    |-> Setter("gear", Gears, "park"),
     activate_epb       |-> Toggle("epb_engaged", TRUE)]

Adas ==
    [activate_autopark |-> ActiveAction(NoField),
     activate_aac      |-> ActiveAction(NoField),
     activate_hda      |-> ActiveAction(NoField),
     turnoff_LKA       |-> Toggle("lane_keep_assist_active", FALSE),
     activate_tcs      |-> Toggle("tcs_active", TRUE),
     activate_avh      |-> Toggle("avh_active", TRUE)]

\* The candidate capabilities touch no state; one stands for all the others.
Ui ==
    [open_noti_center           |-> OneShot("notification_center_open"),
     turnon_LKA                 |-> OneShot(NoField),
     set_navigation_destination |-> OneShot(NoField)]

Behaviors == Lights @@ AccessBehaviors @@ Cabin @@ DrivingModes
                @@ SpecialModes @@ Transmission @@ Adas @@ Ui

\* validate_behavior_config: what a configuration must name.
WellConfigured(cfg) ==
    CASE cfg.type \in {"toggle", "enum", "position", "timed"} -> cfg.field # NoField
      [] cfg.type = "compound" ->
            cfg.subs # <<>> /\ \A sub \in ToSet(cfg.subs) : sub.field # NoField
      [] OTHER -> TRUE

\* validate_behavior_catalog_readiness, at start-up.
CatalogReady == \A intent \in DOMAIN Behaviors : WellConfigured(Behaviors[intent])

ASSUME CatalogAssumption == CatalogReady

\* Queries and the explicit refusal: handlers that only read the version.
Readers == {"get_current_speed", "get_battery_pct", "get_gear",
            "get_door_lock_status", "get_avh_status", "explain_feature",
            "deactivate_esc"}

HandledIntents == DOMAIN Behaviors \cup Readers

(***************************************************************************)
(* The handlers. "args" is the proposal's argument mapping: the tool       *)
(* registry admits "action", "target" and a word as "value"; a handler     *)
(* called directly may also get a number as "level" or as "delta".         *)
(***************************************************************************)
OnWords  == {"on", "enable", "activate"}
OffWords == {"off", "disable", "deactivate"}

\* A word outside both lists flips the field, whatever the intent's name.
Toggled(s, cfg, args) ==
    LET word == IF "action" \in DOMAIN args THEN args.action ELSE "toggle"
        wanted == CASE word \in OnWords  -> TRUE
                    [] word \in OffWords -> FALSE
                    [] OTHER             -> ~s[cfg.field]
    IN Replaced(s, cfg.field, wanted)

EnumSet(s, cfg, args) ==
    LET word == IF "value" \in DOMAIN args THEN args.value ELSE cfg.default
    IN UNION {Replaced(s, cfg.field, m) : m \in cfg.members \cap {word}}

\* The delta is added to the field of the snapshot under the lock. Neither of
\* the two behaviours has a default: without a number the handler raises.
Positioned(s, cfg, args) ==
    LET target == CASE "value" \in DOMAIN args -> {}
                    [] "level" \in DOMAIN args -> {args.level}
                    [] "delta" \in DOMAIN args -> {s[cfg.field] + args.delta}
                    [] OTHER                   -> {}
    IN UNION {Replaced(s, cfg.field, v) : v \in target \cap 0..SeatMax}

\* An unknown word without "open" or "lock" in it closes and unlocks.
DoorAfter(word) ==
    CASE word \in {"open", "unlock_and_open"} -> "open"
      [] word = "lock"                        -> "locked"
      [] OTHER                                -> "unlocked"

\* The list of active actions and the mode's flag change together.
Activated(s, intent, cfg) ==
    LET listed == [s EXCEPT !.active_actions = @ \cup {intent}]
    IN IF cfg.field = NoField
       THEN Built(listed)
       ELSE UNION {Replaced(t, cfg.field, TRUE) : t \in Built(listed)}

\* A part of a compound takes its configured default.
PartPatch(s, part) == Replaced(s, part.field, part.default)

\* The snapshots the handler of an intent can leave: none when it raises.
HandlerPatch(s, intent, args) ==
    LET cfg == Behaviors[intent] IN
    CASE cfg.type = "toggle"        -> Toggled(s, cfg, args)
      [] cfg.type = "enum"          -> EnumSet(s, cfg, args)
      [] cfg.type = "position"      -> Positioned(s, cfg, args)
      [] cfg.type = "access"        -> Replaced(s, "door", DoorAfter(args.action))
      [] cfg.type \in {"timed", "one_shot"} -> Replaced(s, cfg.field, TRUE)
      [] cfg.type = "active_action" -> Activated(s, intent, cfg)
      [] cfg.type = "compound"      -> Composed(s, cfg.subs, PartPatch)

\* A handler that fires an event without a field, or only reads.
Unreflected == {i \in DOMAIN Behaviors : Behaviors[i] = OneShot(NoField)}
OnlyReads(intent) == intent \in Readers \cup Unreflected

(***************************************************************************)
(* The operator's controls and presets.                                    *)
(***************************************************************************)
\* A car that starts moving leaves Park and releases its parking brake.
SpeedPatch(s, kph) ==
    Built(IF kph = 0 THEN [s EXCEPT !.speed = 0]
          ELSE [s EXCEPT !.speed = kph,
                         !.gear = IF @ = "park" THEN "drive" ELSE @,
                         !.epb_engaged = FALSE])

ControlPatch(s, c) ==
    CASE c.field = "speed" -> SpeedPatch(s, c.value)
      [] c.field = "driver_attention" ->
           Built([s EXCEPT !.hand_on_steeringwheel = c.value,
                           !.driver_present = TRUE])
      [] OTHER -> Replaced(s, c.field, c.value)

Controls ==
         {[field |-> "speed", value |-> v] : v \in Gauge}
    \cup {[field |-> "gear", value |-> g] : g \in Gears}
    \cup {[field |-> "ambient_light", value |-> l] : l \in {"day", "night"}}
    \cup {[field |-> f, value |-> b] :
             f \in {"powered_on", "rain_sensor", "obstacle_detected",
                    "driver_attention"}, b \in BOOLEAN}

Preset(name) ==
    LET On == [Default EXCEPT !.powered_on = TRUE] IN
    CASE name = "parked"      -> Default
      [] name = "driving"     -> [On EXCEPT !.speed = 30, !.gear = "drive",
                                            !.epb_engaged = FALSE]
      [] name = "highway_hda" -> [On EXCEPT !.speed = 100, !.gear = "drive",
                                            !.epb_engaged = FALSE,
                                            !.acc_state = "active",
                                            !.hda_active = TRUE]
      [] name = "charging"    -> [On EXCEPT !.charging = TRUE]
      [] name = "camp"        -> [On EXCEPT !.camp_mode_active = TRUE]

PresetNames == {"parked", "driving", "highway_hda", "charging", "camp"}

\* What an operator's call hands to the machine, with the kind of its event.
OperatorPatch(s, call) ==
    CASE call.op = "controls" -> Composed(s, call.list, ControlPatch)
      [] call.op = "preset"   -> Built(Preset(call.name))
      [] call.op = "reset"    -> {Default}

ActorKind(call) == IF call.op = "reset" THEN "system" ELSE "operator"

VehicleInit ==
    /\ state = Default
    /\ version = 0
    /\ events = <<>>
=============================================================================
