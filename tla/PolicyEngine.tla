----------------------------- MODULE PolicyEngine -----------------------------
(***************************************************************************)
(* The guardrail's policy: the workbook of 109 rules (guardrail/policy/    *)
(* constraints.csv, after the rewrites of conditions.py), and the engine   *)
(* that resolves an intent and a snapshot of the vehicle to one outcome or *)
(* fails closed (engine.py). A pure function; the requests that use it run *)
(* in GuardrailRequests.                                                   *)
(*                                                                         *)
(* A rule is its number and its outcome. Two rules of which the second's   *)
(* condition is the first's, negated, are written as one Split.            *)
(***************************************************************************)
EXTENDS Integers

CONSTANT None       \* Python's None: an unknown value

Outcomes == {"ALLOW", "CONFIRM", "BLOCK_UNSAFE", "BLOCK_UNAVAILABLE", "ANSWER",
             "UNKNOWN", "NOT_VOICE_ACTIONABLE"}

ASSUME NoneAssumption == None \notin BOOLEAN \cup Int \cup Outcomes

OrNone(S) == S \cup {None}

VehicleStates ==
    [gear : {"P", "R", "N", "D"}, speed : Nat, rain_sensor : OrNone(BOOLEAN),
     ambient_light : {"day", "night"}, battery_pct : OrNone(Nat),
     avh : OrNone(BOOLEAN), epb : BOOLEAN, camp_mode_active : BOOLEAN,
     pet_mode_active : BOOLEAN, valet_mode_active : BOOLEAN,
     profile : {"OWNER", "GUEST", "VALET"},
     autopark_state : {"ACTIVE", "INACTIVE"}, acc_state : {"ACTIVE", "INACTIVE"},
     hand_off_wheel_duration_seconds : Nat, fog_light : BOOLEAN,
     hazard_light : BOOLEAN, lowbeam_mode : {"On", "Off"}, esc : BOOLEAN,
     door_lock_state : {"locked", "unlocked", None}]

\* _STATE_DEFAULTS: parked, safe, daytime, healthy.
StateDefaults ==
    [gear |-> "P", speed |-> 0, rain_sensor |-> FALSE, ambient_light |-> "day",
     battery_pct |-> 100, avh |-> TRUE, epb |-> TRUE,
     camp_mode_active |-> FALSE, pet_mode_active |-> FALSE,
     valet_mode_active |-> FALSE, profile |-> "OWNER",
     autopark_state |-> "INACTIVE", acc_state |-> "INACTIVE",
     hand_off_wheel_duration_seconds |-> 0, fog_light |-> FALSE,
     hazard_light |-> FALSE, lowbeam_mode |-> "Off", esc |-> TRUE,
     door_lock_state |-> "locked"]

\* Variables of the conditions that are the request's, not the vehicle's.
RequestParams == {"target_angle", "kb_has_feature"}

(***************************************************************************)
(* Conditions.                                                             *)
(***************************************************************************)
\* Fault: the workbook's "speed < 3" is taken literally.
AlmostStill(s) == s.speed < 3

\* normalize: "speed < 3" means at rest.
Still(s) == s.speed = 0

ParkedStill(s) == s.gear = "P" /\ Still(s)

AnyMode(s) == s.camp_mode_active \/ s.pet_mode_active \/ s.valet_mode_active

CampEligible(s) == ParkedStill(s) /\ s.epb /\ s.battery_pct > 25

\* Fault: pet mode is allowed to start on any battery.
PetOnAnyBattery(s) == s.gear = "P"

PetEligible(s)  == s.gear = "P" /\ s.battery_pct > 25
HdaEligible(s)  == /\ s.acc_state = "ACTIVE" /\ s.gear # "R"
                   /\ s.speed > 0 /\ s.speed < 150
Cornering(s)    == s.lowbeam_mode = "On" /\ ~s.fog_light /\ s.speed <= 40

Rule(n, outcome, holds) ==
    IF holds THEN {[rule |-> n, outcome |-> outcome]} ELSE {}
Always(n, outcome) == Rule(n, outcome, TRUE)
Split(n, holds, outcome, otherwise) ==
    Rule(n, outcome, holds) \cup Rule(n + 1, otherwise, ~holds)

\* R034, R038 and R041.
ModeActive(n, s) == Rule(n, "BLOCK_UNAVAILABLE", AnyMode(s))

\* The gate rules of an intent that match.
AccessRules(intent, s) ==
    CASE intent = "open_door"     -> Split(1, ParkedStill(s), "ALLOW", "BLOCK_UNSAFE")
      [] intent = "open_trunk"    -> Split(3, Still(s), "ALLOW", "BLOCK_UNSAFE")
      [] intent = "open_chargeport" ->
            Rule(5, "ALLOW", Still(s) /\ s.rain_sensor = FALSE)
            \cup Rule(6, "CONFIRM", Still(s) /\ s.rain_sensor = TRUE)
            \cup Rule(7, "ALLOW", Still(s) /\ s.rain_sensor = None)
            \cup Rule(8, "BLOCK_UNSAFE", ~Still(s))
      [] intent = "lock_doors"    -> Always(17, "ALLOW")
      [] intent = "unlock_doors"  -> Split(18, s.speed < 10, "ALLOW", "BLOCK_UNSAFE")
      [] intent = "OPEN_BONNET"   -> Split(20, ParkedStill(s), "ALLOW", "BLOCK_UNSAFE")
      [] OTHER -> {}

\* A beam is confirmed by day, or by night, and allowed at the other time.
Beam(n, confirmed, allowed, s) ==
    Rule(n, "CONFIRM", s.ambient_light = confirmed)
    \cup Rule(n + 1, "ALLOW", s.ambient_light = allowed)

LightRules(intent, s) ==
    CASE intent = "turnoff_highbeam" -> Beam(9, "night", "day", s)
      [] intent = "turnon_highbeam"  -> Beam(11, "day", "night", s)
      [] intent = "turnoff_lowbeam"  -> Beam(13, "night", "day", s)
      [] intent = "turnon_lowbeam"   -> Beam(15, "day", "night", s)
      [] intent = "activate_ahb" ->
            Split(78, ~s.fog_light, "ALLOW", "BLOCK_UNAVAILABLE")
      [] intent = "turnon_turnsignal_right" ->
            Split(80, ~s.hazard_light, "ALLOW", "BLOCK_UNAVAILABLE")
      [] intent = "turnon_turnsignal_left" ->
            Split(82, ~s.hazard_light, "ALLOW", "BLOCK_UNAVAILABLE")
      [] intent = "turnoff_turnsignal_right" -> Always(84, "ALLOW")
      [] intent = "turnoff_turnsignal_left"  -> Always(85, "ALLOW")
      [] intent = "turnon_hazardlight"       -> Always(86, "ALLOW")
      [] intent = "turnoff_hazardlight"      -> Always(87, "ALLOW")
      [] intent = "turnon_corneringlight" ->
            Split(88, Cornering(s), "ALLOW", "BLOCK_UNAVAILABLE")
      [] intent = "turnon_interiorlight" -> Split(90, Still(s), "ALLOW", "CONFIRM")
      [] OTHER -> {}

\* Opening the roof or a window: dry or wet, but not at speed.
Airing(dry, fast, wet, s) ==
    Rule(fast, "BLOCK_UNSAFE", s.speed > 80)
    \cup Rule(wet, "CONFIRM", s.rain_sensor = TRUE /\ s.speed <= 80)
    \cup Rule(dry, "CONFIRM", ~(s.rain_sensor = TRUE) /\ s.speed <= 80)

\* The seat rules compare the request's target_angle, p.target_angle.
CabinRules(intent, s, p) ==
    CASE intent = "AD_WIPER_MAX" ->
            Rule(22, "ALLOW", s.rain_sensor = TRUE)
            \cup Rule(23, "CONFIRM", s.rain_sensor = FALSE)
      [] intent = "ad_steeringwheel" ->
            Rule(44, "ALLOW", s.speed = 0) \cup Rule(45, "BLOCK_UNSAFE", ~Still(s))
      [] intent = "fold_backseat" -> Split(49, ParkedStill(s), "ALLOW", "CONFIRM")
      [] intent = "open_sunroof"  -> Airing(53, 51, 52, s)
      [] intent = "open_window"   -> Airing(59, 60, 61, s)
      [] intent = "ad_driverseat_angle" ->
            Rule(54, "ALLOW", Still(s))
            \cup Rule(55, "ALLOW", ~Still(s) /\ p.target_angle <= 110)
            \cup Rule(56, "BLOCK_UNSAFE", ~Still(s) /\ p.target_angle > 110)
      [] intent = "ad_driverseat_pos" -> Split(57, Still(s), "ALLOW", "BLOCK_UNSAFE")
      [] intent = "restore_driverseat_pos" ->
            Rule(62, "ALLOW", Still(s))
            \cup Rule(63, "CONFIRM", ~Still(s) /\ p.target_angle < 110)
            \cup Rule(64, "BLOCK_UNSAFE", ~Still(s) /\ p.target_angle >= 110)
      [] intent = "deactivate_hud" -> Always(67, "CONFIRM")
      [] intent = "fold_mirrors" ->
            Split(76, s.speed < 16, "ALLOW", "BLOCK_UNAVAILABLE")
      [] OTHER -> {}

ModeRules(intent, s) ==
    CASE intent = "switch_drivemode_sport" ->
            Rule(24, "ALLOW", s.battery_pct >= 25)
            \cup Rule(25, "CONFIRM", s.battery_pct < 25)
      [] intent = "switch_drivemode_eco"    -> Always(26, "ALLOW")
      [] intent = "switch_drivemode_normal" -> Always(27, "ALLOW")
      [] intent = "activate_creepmode" ->
            Split(28, s.avh = FALSE, "ALLOW", "BLOCK_UNAVAILABLE")
      [] intent = "activate_campmode" ->
            Split(31, CampEligible(s), "ALLOW", "BLOCK_UNAVAILABLE")
            \cup ModeActive(34, s)
      [] intent = "activate_petmode" ->
            Split(35, PetEligible(s), "ALLOW", "BLOCK_UNAVAILABLE")
            \cup ModeActive(38, s)
      [] intent = "activate_valetmode" ->
            Split(39, s.profile # "GUEST", "ALLOW", "BLOCK_UNAVAILABLE")
            \cup ModeActive(41, s)
      [] OTHER -> {}

DrivingRules(intent, s) ==
    CASE intent = "turnoff_LKA" -> Always(30, "CONFIRM")
      [] intent = "SHIFT_GEAR_REVERSE" ->
            Rule(42, "ALLOW", s.speed = 0 /\ s.gear # "D")
            \cup Rule(43, "BLOCK_UNSAFE", ~(Still(s) /\ s.gear # "D"))
      [] intent = "activate_autopark" ->
            Split(46, s.speed < 15, "ALLOW", "BLOCK_UNAVAILABLE")
      [] intent = "activate_epb" ->
            Split(65, s.gear = "P", "ALLOW", "BLOCK_UNAVAILABLE")
      [] intent = "activate_aac" ->
            Split(68, s.speed > 20 /\ s.speed < 150, "ALLOW", "BLOCK_UNAVAILABLE")
      [] intent = "activate_hda" ->
            Split(71, HdaEligible(s), "ALLOW", "BLOCK_UNAVAILABLE")
      [] intent = "shift_gear_park" ->
            Split(74, Still(s), "ALLOW", "BLOCK_UNAVAILABLE")
      [] intent = "activate_tcs"   -> Split(92, s.esc, "ALLOW", "BLOCK_UNAVAILABLE")
      [] intent = "deactivate_esc" -> Always(94, "NOT_VOICE_ACTIONABLE")
      [] intent = "activate_avh" ->
            Split(95, s.gear # "P", "ALLOW", "BLOCK_UNAVAILABLE")
      [] OTHER -> {}

InfoRules(intent, s, p) ==
    CASE intent = "open_noti_center" ->
            Split(97, s.profile \notin {"GUEST", "VALET"}, "ALLOW",
                  "BLOCK_UNAVAILABLE")
      [] intent = "get_current_speed" -> Rule(99, "ANSWER", s.speed # None)
      [] intent = "get_battery_pct" ->
            Split(100, s.battery_pct # None, "ANSWER", "UNKNOWN")
      [] intent = "get_gear" -> Split(102, s.gear # None, "ANSWER", "UNKNOWN")
      [] intent = "get_door_lock_status" ->
            Split(104, s.door_lock_state # None, "ANSWER", "UNKNOWN")
      [] intent = "get_avh_status" -> Split(106, s.avh # None, "ANSWER", "UNKNOWN")
      [] intent = "explain_feature" ->
            Split(108, p.kb_has_feature, "ANSWER", "UNKNOWN")
      [] OTHER -> {}

\* The five monitor rules.
MonitorRules(intent, s) ==
    CASE intent = "activate_campmode" ->
            Rule(33, "BLOCK_UNAVAILABLE", s.battery_pct < 15)
      [] intent = "activate_petmode" ->
            Rule(37, "BLOCK_UNAVAILABLE", s.battery_pct < 25)
      [] intent = "activate_autopark" ->
            Rule(48, "BLOCK_UNSAFE", s.autopark_state = "ACTIVE" /\ ~(s.speed < 15))
      [] intent = "activate_aac" ->
            Rule(70, "ALLOW", s.acc_state = "ACTIVE" /\ s.speed = 0)
      [] intent = "activate_hda" ->
            Rule(73, "BLOCK_UNSAFE", s.hand_off_wheel_duration_seconds > 15)
      [] OTHER -> {}

(***************************************************************************)
(* The catalogue.                                                          *)
(***************************************************************************)
AccessIntents == {"open_door", "open_trunk", "open_chargeport", "lock_doors",
                  "unlock_doors", "OPEN_BONNET"}
LightIntents  == {"turnoff_highbeam", "turnon_highbeam", "turnoff_lowbeam",
                  "turnon_lowbeam", "activate_ahb", "turnon_turnsignal_right",
                  "turnon_turnsignal_left", "turnoff_turnsignal_right",
                  "turnoff_turnsignal_left", "turnon_hazardlight",
                  "turnoff_hazardlight", "turnon_corneringlight",
                  "turnon_interiorlight"}
SeatIntents   == {"ad_driverseat_angle", "restore_driverseat_pos"}
CabinIntents  == {"AD_WIPER_MAX", "ad_steeringwheel", "fold_backseat",
                  "open_sunroof", "open_window", "ad_driverseat_pos",
                  "deactivate_hud", "fold_mirrors"} \cup SeatIntents
ModeIntents   == {"switch_drivemode_sport", "switch_drivemode_eco",
                  "switch_drivemode_normal", "activate_creepmode",
                  "activate_campmode", "activate_petmode", "activate_valetmode"}
DrivingIntents == {"turnoff_LKA", "SHIFT_GEAR_REVERSE", "activate_autopark",
                   "activate_epb", "activate_aac", "activate_hda",
                   "shift_gear_park", "activate_tcs", "deactivate_esc",
                   "activate_avh"}
InfoIntents   == {"open_noti_center", "get_current_speed", "get_battery_pct",
                  "get_gear", "get_door_lock_status", "get_avh_status",
                  "explain_feature"}
Intents == AccessIntents \cup LightIntents \cup CabinIntents \cup ModeIntents
             \cup DrivingIntents \cup InfoIntents

MonitoredIntents == {"activate_campmode", "activate_petmode",
                     "activate_autopark", "activate_aac", "activate_hda"}

\* Each table is silent on the intents of the others.
GateRules(intent, s, p) ==
    AccessRules(intent, s) \cup LightRules(intent, s) \cup CabinRules(intent, s, p)
      \cup ModeRules(intent, s) \cup DrivingRules(intent, s)
      \cup InfoRules(intent, s, p)

\* What the workbook's authors call unsafe unless the car is at rest, creeping
\* at 1 or 2 km/h included (the "speed < 3" decision, conditions.py); and the
\* modes that exclude each other.
AtRestIntents == {"open_door", "open_trunk", "open_chargeport", "OPEN_BONNET",
                  "ad_driverseat_pos", "ad_steeringwheel", "SHIFT_GEAR_REVERSE",
                  "shift_gear_park", "activate_campmode"}
SpecialModes == {"activate_campmode", "activate_petmode", "activate_valetmode"}

Matches(intent, mode, s, p) ==
    IF mode = "monitor" THEN MonitorRules(intent, s) ELSE GateRules(intent, s, p)

\* Every condition of every rule of the intent is evaluated, each operand of
\* an AND or OR in it too: a request parameter that is not supplied, or a
\* number that is None, fails the whole evaluation, whichever rule would match.
ReadsParameter(intent, mode) ==
    IF mode = "monitor" THEN {}
    ELSE CASE intent \in SeatIntents      -> {"target_angle"}
           [] intent = "explain_feature"  -> {"kb_has_feature"}
           [] OTHER                       -> {}
ReadsBattery(intent, mode) ==
    \/ intent \in {"activate_campmode", "activate_petmode"}
    \/ intent = "switch_drivemode_sport" /\ mode = "gate"

(***************************************************************************)
(* PolicyEngine.evaluate. A failure has outcome None and a reason.         *)
(***************************************************************************)
Fails(reason) == [outcome |-> None, rule |-> 0, reason |-> reason]
NoTrigger     == [outcome |-> None, rule |-> 0, reason |-> "NO_MONITOR_TRIGGER"]

FailClosed(d) == d.outcome = None /\ d.reason # "NO_MONITOR_TRIGGER"

\* What the policy may leave undecided: a seat angle no request supplies, a
\* battery level that is unknown, a wiper while the rain is unknown, an intent
\* without a rule.
Excused(intent, mode, reason) ==
    \/ reason = "CONDITION_EVAL_ERROR" /\ intent \in SeatIntents
    \/ reason = "ENGINE_EVAL_ERROR" /\ ReadsBattery(intent, mode)
    \/ reason = "NO_MATCHING_POLICY" /\ intent = "AD_WIPER_MAX"
    \/ reason = "INTENT_NOT_IN_CATALOG" /\ intent \notin Intents
    \/ reason = "NO_RULE_FOR_PHASE" /\ intent \notin MonitoredIntents

Priority == {34, 38, 41}

Unanimous(ms) == \A m, n \in ms : m.outcome = n.outcome

\* Fault: the mode exclusion has no precedence.
AllMatches(ms) == ms

\* On disagreement the rules of the highest priority win.
Winners(ms) ==
    IF Unanimous(ms) THEN ms ELSE {m \in ms : m.rule \in Priority}

\* The first of the winners, as the workbook lists them.
Chosen(ms) ==
    LET m == CHOOSE m \in ms : \A n \in ms : m.rule <= n.rule
    IN [outcome |-> m.outcome, rule |-> m.rule, reason |-> "POLICY"]

Resolve(mode, ms) ==
    IF ms = {} THEN IF mode = "monitor" THEN NoTrigger ELSE Fails("NO_MATCHING_POLICY")
    ELSE LET winners == Winners(ms) IN
         IF winners = {} \/ ~Unanimous(winners) THEN Fails("POLICY_AMBIGUITY")
                                                ELSE Chosen(winners)

Evaluate(intent, mode, s, p) ==
    IF intent \notin Intents THEN Fails("INTENT_NOT_IN_CATALOG")
    ELSE IF mode = "monitor" /\ intent \notin MonitoredIntents
         THEN Fails("NO_RULE_FOR_PHASE")
    ELSE IF ~(ReadsParameter(intent, mode) \subseteq DOMAIN p)
         THEN Fails("CONDITION_EVAL_ERROR")
    ELSE IF ReadsBattery(intent, mode) /\ s.battery_pct = None
         THEN Fails("ENGINE_EVAL_ERROR")
    ELSE Resolve(mode, Matches(intent, mode, s, p))
=============================================================================
