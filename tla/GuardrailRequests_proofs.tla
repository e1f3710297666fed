------------------------ MODULE GuardrailRequests_proofs ------------------------
(***************************************************************************)
(* The permits of the guardrail's requests are safe, and its decisions     *)
(* complete, for all requests, snapshots, interleavings and capacities.    *)
(*                                                                         *)
(* The argument: a thread that has judged holds the policy's decision for  *)
(* a snapshot whose version it still names, and a version's snapshot never *)
(* changes. What the policy promises of every snapshot then holds of every *)
(* answer. The first part is about that: the rules never contradict each   *)
(* other beyond what precedence settles, and which actions they let happen *)
(* only at rest, or one at a time. The last part is about the traces: the  *)
(* ids newer than a trace in the recorder are those begun since, so it is  *)
(* evicted neither early nor with an event lost.                           *)
(***************************************************************************)
EXTENDS GuardrailRequests, TLAPS, WellFoundedInduction, FiniteSetTheorems, SequenceTheorems

Match == [rule : Nat, outcome : Outcomes]

ParamsTyped(p) == "target_angle" \in DOMAIN p => p.target_angle \in Int

(***************************************************************************)
(* The rules of each table are rules.                                      *)
(***************************************************************************)
LEMMA AccessTypes == ASSUME NEW i, NEW s PROVE AccessRules(i, s) \subseteq Match
BY DEF AccessRules, Rule, Split, Always, Match, Outcomes

LEMMA LightTypes == ASSUME NEW i, NEW s PROVE LightRules(i, s) \subseteq Match
BY DEF LightRules, Beam, Rule, Split, Always, Match, Outcomes

LEMMA AiringTypes ==
    ASSUME NEW n \in Nat, NEW k \in Nat, NEW m \in Nat, NEW s
    PROVE  Airing(n, k, m, s) \subseteq Match
BY DEF Airing, Rule, Match, Outcomes

LEMMA CabinTypes == ASSUME NEW i, NEW s, NEW p PROVE CabinRules(i, s, p) \subseteq Match
<1>1. CASE i = "open_sunroof"
      BY <1>1, AiringTypes DEF CabinRules
<1>2. CASE i = "open_window"
      BY <1>2, AiringTypes DEF CabinRules
<1>3. CASE i \notin {"open_sunroof", "open_window"}
      BY <1>3 DEF CabinRules, Rule, Split, Always, Match, Outcomes
<1> QED BY <1>1, <1>2, <1>3

LEMMA ModeTypes == ASSUME NEW i, NEW s PROVE ModeRules(i, s) \subseteq Match
BY DEF ModeRules, ModeActive, Rule, Split, Always, Match, Outcomes

LEMMA DrivingTypes == ASSUME NEW i, NEW s PROVE DrivingRules(i, s) \subseteq Match
BY DEF DrivingRules, Rule, Split, Always, Match, Outcomes

LEMMA InfoTypes == ASSUME NEW i, NEW s, NEW p PROVE InfoRules(i, s, p) \subseteq Match
BY DEF InfoRules, Rule, Split, Match, Outcomes

LEMMA MonitorTypes == ASSUME NEW i, NEW s PROVE MonitorRules(i, s) \subseteq Match
BY DEF MonitorRules, Rule, Match, Outcomes

LEMMA MatchTypes ==
    ASSUME NEW i \in Intents, NEW mode \in {"gate", "monitor"}, NEW s, NEW p
    PROVE  Matches(i, mode, s, p) \in SUBSET Match
<1>1. MonitorRules(i, s) \subseteq Match
      BY MonitorTypes
<1>2. GateRules(i, s, p) \subseteq Match
      BY AccessTypes, LightTypes, CabinTypes, ModeTypes, DrivingTypes, InfoTypes
      DEF GateRules
<1> QED BY <1>1, <1>2 DEF Matches

(***************************************************************************)
(* They agree with each other, but for the mode exclusion.                 *)
(***************************************************************************)
LEMMA AccessAgree == ASSUME NEW i, NEW s, s.speed \in Nat PROVE Unanimous(AccessRules(i, s))
<1>1. CASE i = "open_chargeport"
  <2>1. CASE s.rain_sensor = TRUE
        BY <1>1, <2>1, NoneAssumption DEF AccessRules, Rule, Unanimous
  <2>2. CASE s.rain_sensor = FALSE
        BY <1>1, <2>2, NoneAssumption DEF AccessRules, Rule, Unanimous
  <2>3. CASE ~(s.rain_sensor = TRUE) /\ ~(s.rain_sensor = FALSE)
        BY <1>1, <2>3 DEF AccessRules, Rule, Unanimous
  <2> QED BY <2>1, <2>2, <2>3
<1>2. CASE i # "open_chargeport"
      BY <1>2 DEF AccessRules, Rule, Split, Always, Unanimous, Still, ParkedStill
<1> QED BY <1>1, <1>2

LEMMA LightAgree == ASSUME NEW i, NEW s, s.speed \in Nat PROVE Unanimous(LightRules(i, s))
BY DEF LightRules, Beam, Rule, Split, Always, Unanimous, Still, Cornering

LEMMA CabinAgree ==
    ASSUME NEW i, NEW s, s.speed \in Nat, NEW p, i \in SeatIntents => p.target_angle \in Int
    PROVE  Unanimous(CabinRules(i, s, p))
<1>1. ASSUME NEW n \in Nat, NEW k \in Nat, NEW m \in Nat
      PROVE  Unanimous(Airing(n, k, m, s))
      BY DEF Airing, Rule, Unanimous
<1>2. CASE i \in SeatIntents
      BY <1>2 DEF CabinRules, SeatIntents, Rule, Unanimous, Still
<1>3. \A n, holds, outcome, otherwise : Unanimous(Split(n, holds, outcome, otherwise))
      BY DEF Split, Rule, Unanimous
<1>4. CASE i \in {"AD_WIPER_MAX", "ad_steeringwheel", "deactivate_hud"}
      BY <1>4 DEF CabinRules, Rule, Always, Unanimous, Still
<1>5. CASE i \in {"fold_backseat", "ad_driverseat_pos", "fold_mirrors"}
      BY <1>3, <1>5 DEF CabinRules
<1>6. CASE i \in {"open_sunroof", "open_window"}
      BY <1>1, <1>6 DEF CabinRules
<1>7. CASE i \notin CabinIntents
      BY <1>7 DEF CabinRules, CabinIntents, SeatIntents, Unanimous
<1> QED BY <1>2, <1>4, <1>5, <1>6, <1>7 DEF CabinIntents

LEMMA DrivingAgree == ASSUME NEW i, NEW s, s.speed \in Nat PROVE Unanimous(DrivingRules(i, s))
BY DEF DrivingRules, Rule, Split, Always, Unanimous, Still, HdaEligible

LEMMA InfoAgree == ASSUME NEW i, NEW s, NEW p PROVE Unanimous(InfoRules(i, s, p))
BY DEF InfoRules, Rule, Split, Unanimous

LEMMA MonitorAgree == ASSUME NEW i, NEW s PROVE Unanimous(MonitorRules(i, s))
BY DEF MonitorRules, Rule, Unanimous

LEMMA ModeAgree ==
    ASSUME NEW i, NEW s,
           i = "switch_drivemode_sport" => s.battery_pct \in Int,
           i \in SpecialModes => ~AnyMode(s)
    PROVE  Unanimous(ModeRules(i, s))
BY DEF ModeRules, ModeActive, SpecialModes, Rule, Split, Always, Unanimous

(***************************************************************************)
(* What an evaluation that is not refused out of hand knows.               *)
(***************************************************************************)
\* The snapshot as far as the rules' coverage rests on it.
Measured(s) ==
    /\ s.speed \in Nat /\ s.battery_pct \in OrNone(Nat)
    /\ s.rain_sensor \in OrNone(BOOLEAN) /\ s.ambient_light \in {"day", "night"}

LEMMA StatesMeasured == ASSUME NEW s \in VehicleStates PROVE Measured(s)
BY DEF VehicleStates, Measured

Evaluable(i, mode, s, p) ==
    /\ i \in Intents
    /\ mode = "monitor" => i \in MonitoredIntents
    /\ ReadsParameter(i, mode) \subseteq DOMAIN p
    /\ ReadsBattery(i, mode) => s.battery_pct # None

LEMMA EvaluatedByRules ==
    ASSUME NEW i, NEW mode, NEW s, NEW p, Evaluable(i, mode, s, p)
    PROVE  Evaluate(i, mode, s, p) = Resolve(mode, Matches(i, mode, s, p))
BY DEF Evaluable, Evaluate

LEMMA RefusedOutOfHand ==
    ASSUME NEW i, NEW mode, NEW s, NEW p, ~Evaluable(i, mode, s, p)
    PROVE  /\ Evaluate(i, mode, s, p).outcome = None
           /\ Evaluate(i, mode, s, p).reason \in
                 {"INTENT_NOT_IN_CATALOG", "NO_RULE_FOR_PHASE",
                  "CONDITION_EVAL_ERROR", "ENGINE_EVAL_ERROR"}
BY DEF Evaluable, Evaluate, Fails

(***************************************************************************)
(* The rule that decides.                                                  *)
(***************************************************************************)
LEMMA LeastRule ==
    ASSUME NEW ms \in SUBSET Match, ms # {}
    PROVE  \E m \in ms : \A n \in ms : m.rule <= n.rule
<1> DEFINE T == {m.rule : m \in ms}
           R == OpToRel(<, Nat)
<1>1. T \subseteq Nat /\ T # {}
      BY DEF Match
<1>2. IsWellFoundedOn(R, Nat)
      BY NatLessThanWellFounded
<1>3. \A y, z \in Nat : y < z => <<y, z>> \in R
      BY DEF OpToRel
<1> HIDE DEF R, T
<1>4. PICK x \in T : \A y \in T : ~(<<y, x>> \in R)
      BY <1>1, <1>2, WFMin
<1>5. ASSUME NEW y \in T PROVE x <= y
  <2>1. x \in Nat /\ y \in Nat
        BY <1>1
  <2>2. ~(y < x)
        BY <2>1, <1>3, <1>4, Zenon
  <2> QED BY <2>1, <2>2
<1> QED BY <1>5 DEF T

\* A decision is the outcome of a rule that matched: of a rule with priority
\* if the matches disagree.
LEMMA DecidedByMatch ==
    ASSUME NEW mode, NEW ms \in SUBSET Match, Resolve(mode, ms).outcome # None
    PROVE  \E m \in ms : /\ Resolve(mode, ms).outcome = m.outcome
                          /\ m \in Winners(ms)
                          /\ Unanimous(Winners(ms))
<1>1. ms # {} /\ Winners(ms) # {} /\ Unanimous(Winners(ms))
      BY DEF Resolve, Fails, NoTrigger
<1>2. Winners(ms) \subseteq ms
      BY DEF Winners
<1>3. \E m \in Winners(ms) : \A n \in Winners(ms) : m.rule <= n.rule
      BY <1>1, <1>2, LeastRule
<1>4. Chosen(Winners(ms)).outcome \in {m.outcome : m \in Winners(ms)}
      BY <1>3 DEF Chosen
<1> QED BY <1>1, <1>2, <1>4 DEF Resolve

(***************************************************************************)
(* The theorems.                                                           *)
(***************************************************************************)
\* A table is silent on what is not its own.
LEMMA Silent ==
    ASSUME NEW i, NEW s, NEW p
    PROVE  /\ i \notin AccessIntents => AccessRules(i, s) = {}
           /\ i \notin LightIntents => LightRules(i, s) = {}
           /\ i \notin CabinIntents => CabinRules(i, s, p) = {}
           /\ i \notin ModeIntents => ModeRules(i, s) = {}
           /\ i \notin DrivingIntents => DrivingRules(i, s) = {}
           /\ i \notin InfoIntents => InfoRules(i, s, p) = {}
<1>1. i \notin AccessIntents => AccessRules(i, s) = {}
      BY DEF AccessIntents, AccessRules
<1>2. i \notin LightIntents => LightRules(i, s) = {}
      BY DEF LightIntents, LightRules
<1>3. i \notin CabinIntents => CabinRules(i, s, p) = {}
      BY DEF CabinIntents, SeatIntents, CabinRules
<1>4. i \notin ModeIntents => ModeRules(i, s) = {}
      BY DEF ModeIntents, ModeRules
<1>5. i \notin DrivingIntents => DrivingRules(i, s) = {}
      BY DEF DrivingIntents, DrivingRules
<1>6. i \notin InfoIntents => InfoRules(i, s, p) = {}
      BY DEF InfoIntents, InfoRules
<1> QED BY <1>1, <1>2, <1>3, <1>4, <1>5, <1>6

LEMMA Disjoint ==
    /\ AccessIntents \cap (LightIntents \cup CabinIntents \cup ModeIntents
                             \cup DrivingIntents \cup InfoIntents) = {}
    /\ LightIntents \cap (CabinIntents \cup ModeIntents \cup DrivingIntents
                            \cup InfoIntents) = {}
    /\ CabinIntents \cap (ModeIntents \cup DrivingIntents \cup InfoIntents) = {}
    /\ ModeIntents \cap (DrivingIntents \cup InfoIntents) = {}
    /\ DrivingIntents \cap InfoIntents = {}
BY DEF AccessIntents, LightIntents, CabinIntents, SeatIntents, ModeIntents, DrivingIntents,
       InfoIntents

LEMMA OneTable ==
    ASSUME NEW i, NEW s, NEW p
    PROVE  /\ i \in AccessIntents => GateRules(i, s, p) = AccessRules(i, s)
           /\ i \in LightIntents => GateRules(i, s, p) = LightRules(i, s)
           /\ i \in CabinIntents => GateRules(i, s, p) = CabinRules(i, s, p)
           /\ i \in ModeIntents => GateRules(i, s, p) = ModeRules(i, s)
           /\ i \in DrivingIntents => GateRules(i, s, p) = DrivingRules(i, s)
           /\ i \in InfoIntents => GateRules(i, s, p) = InfoRules(i, s, p)
BY Silent, Disjoint DEF GateRules

LEMMA ModeExcluded ==
    ASSUME NEW i \in SpecialModes, NEW s, AnyMode(s), NEW p
    PROVE  LET ms == GateRules(i, s, p) IN
           /\ Winners(ms) # {}
           /\ \A m \in Winners(ms) : m.outcome = "BLOCK_UNAVAILABLE"
<1> DEFINE ms == ModeRules(i, s)
<1>1. GateRules(i, s, p) = ms
      BY OneTable DEF SpecialModes, ModeIntents
<1>2. PICK n \in Priority : [rule |-> n, outcome |-> "BLOCK_UNAVAILABLE"] \in ms
  <2>1. CASE i = "activate_campmode"
        BY <2>1 DEF ModeRules, ModeActive, Rule, Priority
  <2>2. CASE i = "activate_petmode"
        BY <2>2 DEF ModeRules, ModeActive, Rule, Priority
  <2>3. CASE i = "activate_valetmode"
        BY <2>3 DEF ModeRules, ModeActive, Rule, Priority
  <2> QED BY <2>1, <2>2, <2>3 DEF SpecialModes
<1>3. \A m \in ms : m.rule \in Priority => m.outcome = "BLOCK_UNAVAILABLE"
      BY DEF ModeRules, ModeActive, SpecialModes, Rule, Split, Priority
<1> HIDE DEF ms
<1> QED BY <1>1, <1>2, <1>3 DEF Winners, Unanimous

LEMMA WinnersAgree ==
    ASSUME NEW i, NEW mode \in {"gate", "monitor"}, NEW s, Measured(s), NEW p, ParamsTyped(p),
           Evaluable(i, mode, s, p)
    PROVE  LET ms == Matches(i, mode, s, p) IN
           ms # {} => Winners(ms) # {} /\ Unanimous(Winners(ms))
<1>1. CASE mode = "monitor"
      BY <1>1, MonitorAgree DEF Matches, Winners
<1>2. CASE mode = "gate" /\ i \in SpecialModes /\ AnyMode(s)
      BY <1>2, ModeExcluded DEF Matches, Unanimous
<1>3. CASE mode = "gate" /\ ~(i \in SpecialModes /\ AnyMode(s))
  <2>1. i \in SeatIntents => p.target_angle \in Int
        BY <1>3 DEF Evaluable, ReadsParameter, ParamsTyped, SeatIntents
  <2>2. i = "switch_drivemode_sport" => s.battery_pct \in Int
    <3>1. s.battery_pct \in Nat \cup {None}
          BY DEF Measured, OrNone
    <3> QED BY <1>3, <3>1 DEF Evaluable, ReadsBattery
  <2>3. i \in Intents /\ s.speed \in Nat
        BY DEF Evaluable, Measured
  <2>4. /\ Unanimous(AccessRules(i, s)) /\ Unanimous(LightRules(i, s))
        /\ Unanimous(CabinRules(i, s, p)) /\ Unanimous(ModeRules(i, s))
        /\ Unanimous(DrivingRules(i, s)) /\ Unanimous(InfoRules(i, s, p))
        BY <1>3, <2>1, <2>2, <2>3, AccessAgree, LightAgree, CabinAgree, ModeAgree, DrivingAgree,
           InfoAgree
  <2>5. Unanimous(GateRules(i, s, p))
        BY <2>3, <2>4, OneTable DEF Intents
  <2> QED BY <1>3, <2>5 DEF Matches, Winners
<1> QED BY <1>1, <1>2, <1>3

\* Whatever the snapshot and the request, precedence settles every
\* disagreement: the engine never gives up because its rules contradict each
\* other (PolicyEngine.evaluate's POLICY_AMBIGUITY).
THEOREM NeverAmbiguous ==
    ASSUME NEW i, NEW mode \in {"gate", "monitor"}, NEW s, Measured(s), NEW p,
           ParamsTyped(p)
    PROVE  Evaluate(i, mode, s, p).reason # "POLICY_AMBIGUITY"
<1>1. CASE Evaluable(i, mode, s, p)
  <2>1. Evaluate(i, mode, s, p) = Resolve(mode, Matches(i, mode, s, p))
        BY <1>1, EvaluatedByRules
  <2>2. LET ms == Matches(i, mode, s, p) IN
        ms # {} => Winners(ms) # {} /\ Unanimous(Winners(ms))
        BY <1>1, WinnersAgree
  <2> QED BY <2>1, <2>2 DEF Resolve, Fails, NoTrigger, Chosen
<1>2. CASE ~Evaluable(i, mode, s, p)
      BY <1>2, RefusedOutOfHand
<1> QED BY <1>1, <1>2

LEMMA AtRestRules ==
    ASSUME NEW i \in AtRestIntents, NEW s, NEW p, NEW m \in GateRules(i, s, p),
           m.outcome \in {"ALLOW", "CONFIRM"}
    PROVE  s.speed = 0
<1>1. CASE i \in AccessIntents
  <2>1. GateRules(i, s, p) = AccessRules(i, s)
        BY <1>1, OneTable
  <2>2. i \in {"open_door", "open_trunk", "open_chargeport", "OPEN_BONNET"}
        BY <1>1 DEF AtRestIntents, AccessIntents
  <2> QED BY <2>1, <2>2 DEF AccessRules, Rule, Split, Still, ParkedStill
<1>2. CASE i \in {"ad_driverseat_pos", "ad_steeringwheel"}
  <2>1. GateRules(i, s, p) = CabinRules(i, s, p)
        BY <1>2, OneTable DEF CabinIntents
  <2> QED BY <1>2, <2>1 DEF CabinRules, Rule, Split, Still
<1>3. CASE i \in {"SHIFT_GEAR_REVERSE", "shift_gear_park"}
  <2>1. GateRules(i, s, p) = DrivingRules(i, s)
        BY <1>3, OneTable DEF DrivingIntents
  <2> QED BY <1>3, <2>1 DEF DrivingRules, Rule, Split, Still
<1>4. CASE i = "activate_campmode"
  <2>1. GateRules(i, s, p) = ModeRules(i, s)
        BY <1>4, OneTable DEF ModeIntents
  <2> QED BY <1>4, <2>1 DEF ModeRules, ModeActive, Rule, Split, CampEligible, ParkedStill, Still
<1> QED BY <1>1, <1>2, <1>3, <1>4 DEF AtRestIntents, AccessIntents

\* What decides an evaluation that has an outcome.
LEMMA DecidedByRule ==
    ASSUME NEW i, NEW mode \in {"gate", "monitor"}, NEW s, NEW p,
           Evaluate(i, mode, s, p).outcome # None
    PROVE  /\ Evaluable(i, mode, s, p)
           /\ \E m \in Matches(i, mode, s, p) :
                 /\ Evaluate(i, mode, s, p).outcome = m.outcome
                 /\ m \in Winners(Matches(i, mode, s, p))
<1>1. Evaluable(i, mode, s, p)
      BY RefusedOutOfHand
<1>2. i \in Intents
      BY <1>1 DEF Evaluable
<1> DEFINE ms == Matches(i, mode, s, p)
<1>3. ms \in SUBSET Match
      BY <1>2, MatchTypes
<1>4. Evaluate(i, mode, s, p) = Resolve(mode, ms)
      BY <1>1, EvaluatedByRules
<1> HIDE DEF ms
<1>5. \E m \in ms : Resolve(mode, ms).outcome = m.outcome /\ m \in Winners(ms)
      BY <1>3, <1>4, DecidedByMatch
<1> QED BY <1>1, <1>4, <1>5 DEF ms

LEMMA LetHappen ==
    ASSUME NEW i, NEW s, NEW p, Evaluate(i, "gate", s, p).outcome \in {"ALLOW", "CONFIRM"}
    PROVE  /\ Evaluable(i, "gate", s, p)
           /\ \E m \in GateRules(i, s, p) : /\ m.outcome \in {"ALLOW", "CONFIRM"}
                                            /\ m \in Winners(GateRules(i, s, p))
<1>1. Evaluate(i, "gate", s, p).outcome # None
      BY NoneAssumption DEF Outcomes
<1>2. Matches(i, "gate", s, p) = GateRules(i, s, p)
      BY DEF Matches
<1> QED BY <1>1, <1>2, DecidedByRule

\* The guardrail lets happen what must happen at rest only when the snapshot
\* says speed 0: the workbook's "speed < 3" does not let it creep.
THEOREM OnlyAtRest ==
    ASSUME NEW i \in AtRestIntents, NEW s, NEW p,
           Evaluate(i, "gate", s, p).outcome \in {"ALLOW", "CONFIRM"}
    PROVE  s.speed = 0
BY LetHappen, AtRestRules

\* No special mode is let start over another one: the mode exclusion wins
\* over the mode's own rules.
THEOREM OneModeAtATime ==
    ASSUME NEW i \in SpecialModes, NEW s, NEW p,
           Evaluate(i, "gate", s, p).outcome \in {"ALLOW", "CONFIRM"}
    PROVE  ~AnyMode(s)
BY LetHappen, ModeExcluded

\* What may start on a snapshot, the monitor does not stop on it, the highway
\* assist with hands off the wheel aside.
THEOREM StartsMayRun ==
    ASSUME NEW i \in MonitoredIntents, NEW s, Measured(s), NEW p, NEW q,
           Evaluate(i, "gate", s, p).outcome \in {"ALLOW", "CONFIRM"}
    PROVE  \/ Evaluate(i, "monitor", s, q).outcome \in {None, "ALLOW"}
           \/ i = "activate_hda" /\ s.hand_off_wheel_duration_seconds > 15
<1> SUFFICES ASSUME Evaluate(i, "monitor", s, q).outcome \notin {None, "ALLOW"}
             PROVE  i = "activate_hda" /\ s.hand_off_wheel_duration_seconds > 15
    OBVIOUS
<1>1. Evaluable(i, "gate", s, p)
      BY LetHappen
<1>2. PICK m \in GateRules(i, s, p) : m.outcome \in {"ALLOW", "CONFIRM"}
      BY LetHappen
<1>3. PICK n \in MonitorRules(i, s) : n.outcome # "ALLOW"
  <2>1. Matches(i, "monitor", s, q) = MonitorRules(i, s)
        BY DEF Matches
  <2> QED BY <2>1, DecidedByRule
<1>4. CASE i \in {"activate_campmode", "activate_petmode"}
  <2>1. s.battery_pct \in Nat
        BY <1>1, <1>4 DEF Measured, OrNone, Evaluable, ReadsBattery
  <2>2. GateRules(i, s, p) = ModeRules(i, s)
        BY <1>4, OneTable DEF ModeIntents
  <2>3. s.battery_pct > 25
        BY <1>2, <1>4, <2>2
        DEF ModeRules, ModeActive, Rule, Split, CampEligible, PetEligible
  <2> QED BY <1>3, <1>4, <2>1, <2>3 DEF MonitorRules, Rule
<1>5. CASE i \in {"activate_autopark", "activate_aac", "activate_hda"}
  <2>1. GateRules(i, s, p) = DrivingRules(i, s)
        BY <1>5, OneTable DEF DrivingIntents
  <2> QED BY <1>2, <1>3, <1>5, <2>1 DEF DrivingRules, MonitorRules, Rule, Split
<1> QED BY <1>4, <1>5 DEF MonitoredIntents

\* One half of a split rule matches.
LEMMA SplitMatches ==
    \A n, holds, outcome, otherwise : Split(n, holds, outcome, otherwise) # {}
BY DEF Split, Rule

LEMMA AlwaysMatches == \A n, outcome : Always(n, outcome) # {}
BY DEF Always, Rule

\* Every intent but the wiper's has a rule for every snapshot.
LEMMA SomeRule ==
    ASSUME NEW i \in Intents \ {"AD_WIPER_MAX"}, NEW s, Measured(s), NEW p, ParamsTyped(p),
           Evaluable(i, "gate", s, p)
    PROVE  GateRules(i, s, p) # {}
<1>1. s.speed \in Nat /\ s.rain_sensor \in {TRUE, FALSE, None} /\ s.ambient_light \in {"day", "night"}
      BY DEF Measured, OrNone
<1>2. CASE i \in AccessIntents
  <2>1. GateRules(i, s, p) = AccessRules(i, s)
        BY <1>2, OneTable
  <2>2. CASE i = "open_chargeport"
    <3>1. CASE Still(s) /\ s.rain_sensor = FALSE
          BY <2>1, <2>2, <3>1 DEF AccessRules, Rule
    <3>2. CASE Still(s) /\ s.rain_sensor = TRUE
          BY <2>1, <2>2, <3>2 DEF AccessRules, Rule
    <3>3. CASE Still(s) /\ s.rain_sensor = None
          BY <2>1, <2>2, <3>3 DEF AccessRules, Rule
    <3>4. CASE ~Still(s)
          BY <2>1, <2>2, <3>4 DEF AccessRules, Rule
    <3> QED BY <1>1, <2>1, <3>1, <3>2, <3>3, <3>4
  <2>3. CASE i # "open_chargeport"
        BY <1>2, <2>1, <2>3 DEF AccessIntents, AccessRules, Rule, Split, Always
  <2> QED BY <2>2, <2>3
<1>3. CASE i \in LightIntents
  <2>1. GateRules(i, s, p) = LightRules(i, s)
        BY <1>3, OneTable
  <2>2. CASE i \in {"turnoff_highbeam", "turnon_highbeam", "turnoff_lowbeam", "turnon_lowbeam"}
    <3>1. \A n : Beam(n, "night", "day", s) # {} /\ Beam(n, "day", "night", s) # {}
          BY <1>1 DEF Beam, Rule
    <3> QED BY <2>1, <2>2, <3>1 DEF LightRules
  <2>3. CASE i \in {"activate_ahb", "turnon_turnsignal_right", "turnon_turnsignal_left"}
        BY <2>1, <2>3, SplitMatches DEF LightRules
  <2>4. CASE i \in {"turnoff_turnsignal_right", "turnoff_turnsignal_left",
                    "turnon_hazardlight", "turnoff_hazardlight"}
        BY <2>1, <2>4, AlwaysMatches DEF LightRules
  <2>5. CASE i \in {"turnon_corneringlight", "turnon_interiorlight"}
        BY <2>1, <2>5, SplitMatches DEF LightRules
  <2> QED BY <1>3, <2>2, <2>3, <2>4, <2>5 DEF LightIntents
<1>4. CASE i \in CabinIntents
  <2>1. GateRules(i, s, p) = CabinRules(i, s, p)
        BY <1>4, OneTable
  <2>2. CASE i \in SeatIntents
    <3>1. p.target_angle \in Int
          BY <2>2 DEF Evaluable, ReadsParameter, ParamsTyped, SeatIntents
    <3>2. CASE Still(s)
      <4>1. CASE i = "ad_driverseat_angle"
            BY <2>1, <3>2, <4>1 DEF CabinRules, Rule
      <4>2. CASE i = "restore_driverseat_pos"
            BY <2>1, <3>2, <4>2 DEF CabinRules, Rule
      <4> QED BY <2>2, <4>1, <4>2 DEF SeatIntents
    <3>3. CASE ~Still(s) /\ i = "ad_driverseat_angle"
      <4>1. CASE p.target_angle <= 110
            BY <2>1, <3>3, <4>1 DEF CabinRules, Rule
      <4>2. CASE p.target_angle > 110
            BY <2>1, <3>3, <4>2 DEF CabinRules, Rule
      <4> QED BY <3>1, <4>1, <4>2
    <3>4. CASE ~Still(s) /\ i = "restore_driverseat_pos"
      <4>1. CASE p.target_angle < 110
            BY <2>1, <3>4, <4>1 DEF CabinRules, Rule
      <4>2. CASE p.target_angle >= 110
            BY <2>1, <3>4, <4>2 DEF CabinRules, Rule
      <4> QED BY <3>1, <4>1, <4>2
    <3> QED BY <2>2, <3>2, <3>3, <3>4 DEF SeatIntents
  <2>3. ASSUME NEW n \in Nat, NEW k \in Nat, NEW m \in Nat
        PROVE  Airing(n, k, m, s) # {}
    <3>1. CASE s.speed > 80
          BY <3>1 DEF Airing, Rule
    <3>2. CASE s.speed <= 80 /\ s.rain_sensor = TRUE
          BY <3>2 DEF Airing, Rule
    <3>3. CASE s.speed <= 80 /\ ~(s.rain_sensor = TRUE)
          BY <3>3 DEF Airing, Rule
    <3>4. s.speed > 80 \/ s.speed <= 80
          BY <1>1
    <3> QED BY <3>1, <3>2, <3>3, <3>4, Zenon
  <2>4. CASE i \in {"open_sunroof", "open_window"}
        BY <2>1, <2>3, <2>4 DEF CabinRules
  <2>5. CASE i = "ad_steeringwheel"
        BY <2>1, <2>5 DEF CabinRules, Rule, Still
  <2>6. CASE i \in {"fold_backseat", "ad_driverseat_pos", "fold_mirrors"}
        BY <2>1, <2>6, SplitMatches DEF CabinRules
  <2>7. CASE i = "deactivate_hud"
        BY <2>1, <2>7, AlwaysMatches DEF CabinRules
  <2> QED BY <1>4, <2>2, <2>4, <2>5, <2>6, <2>7 DEF CabinIntents
<1>5. CASE i \in ModeIntents
  <2>1. GateRules(i, s, p) = ModeRules(i, s)
        BY <1>5, OneTable
  <2>2. i = "switch_drivemode_sport" => s.battery_pct \in Nat
        BY DEF Evaluable, ReadsBattery, Measured, OrNone
  <2>3. CASE i = "switch_drivemode_sport"
    <3>1. CASE s.battery_pct >= 25
          BY <2>1, <2>3, <3>1 DEF ModeRules, Rule
    <3>2. CASE s.battery_pct < 25
          BY <2>1, <2>3, <3>2 DEF ModeRules, Rule
    <3> QED BY <2>2, <2>3, <3>1, <3>2
  <2>4. CASE i # "switch_drivemode_sport"
        BY <1>5, <2>1, <2>4 DEF ModeIntents, ModeRules, Rule, Split, Always
  <2> QED BY <2>3, <2>4
<1>6. CASE i \in DrivingIntents
  <2>1. GateRules(i, s, p) = DrivingRules(i, s)
        BY <1>6, OneTable
  <2>2. CASE i \in {"turnoff_LKA", "SHIFT_GEAR_REVERSE"}
        BY <2>1, <2>2 DEF DrivingRules, Rule, Always, Still
  <2>3. CASE i \in {"activate_autopark", "activate_epb", "activate_aac", "activate_hda"}
        BY <2>1, <2>3, SplitMatches DEF DrivingRules
  <2>4. CASE i \in {"shift_gear_park", "activate_tcs", "deactivate_esc", "activate_avh"}
        BY <2>1, <2>4, SplitMatches, AlwaysMatches DEF DrivingRules
  <2> QED BY <1>6, <2>2, <2>3, <2>4 DEF DrivingIntents
<1>7. CASE i \in InfoIntents
  <2>1. GateRules(i, s, p) = InfoRules(i, s, p)
        BY <1>7, OneTable
  <2>2. s.speed # None
        BY <1>1, NoneAssumption
  <2>3. CASE i \in {"open_noti_center", "explain_feature"}
        BY <2>1, <2>3, SplitMatches DEF InfoRules
  <2>4. CASE i = "get_current_speed"
        BY <2>1, <2>2, <2>4 DEF InfoRules, Rule
  <2>5. CASE i \in {"get_battery_pct", "get_gear", "get_door_lock_status", "get_avh_status"}
        BY <2>1, <2>5, SplitMatches DEF InfoRules
  <2> QED BY <1>7, <2>3, <2>4, <2>5 DEF InfoIntents
<1> QED BY <1>2, <1>3, <1>4, <1>5, <1>6, <1>7 DEF Intents

\* Whatever the snapshot, the policy decides every request but for what
\* Excused names (PolicyEngine.evaluate's fail-closed returns).
THEOREM AlwaysDecides ==
    ASSUME NEW i, NEW mode \in {"gate", "monitor"}, NEW s, Measured(s), NEW p, ParamsTyped(p),
           mode = "gate" /\ i = "explain_feature" => "kb_has_feature" \in DOMAIN p,
           FailClosed(Evaluate(i, mode, s, p))
    PROVE  Excused(i, mode, Evaluate(i, mode, s, p).reason)
<1>1. CASE Evaluable(i, mode, s, p)
  <2> DEFINE ms == Matches(i, mode, s, p)
  <2>1. Evaluate(i, mode, s, p) = Resolve(mode, ms)
        BY <1>1, EvaluatedByRules
  <2>2. ms # {} => Winners(ms) # {} /\ Unanimous(Winners(ms))
        BY <1>1, WinnersAgree
  <2>3. ms \in SUBSET Match
        BY <1>1, MatchTypes DEF Evaluable
  <2>4. CASE ms # {}
    <3>1. PICK m \in Winners(ms) : Resolve(mode, ms).outcome = m.outcome
      <4>1. Winners(ms) \in SUBSET Match
            BY <2>3 DEF Winners
      <4>2. \E m \in Winners(ms) : \A n \in Winners(ms) : m.rule <= n.rule
            BY <2>2, <2>4, <4>1, LeastRule
      <4>3. Chosen(Winners(ms)).outcome \in {m.outcome : m \in Winners(ms)}
            BY <4>2 DEF Chosen
      <4> HIDE DEF ms
      <4> QED BY <2>2, <2>4, <4>3 DEF Resolve
    <3>2. m.outcome \in Outcomes
          BY <2>3, <3>1 DEF Winners, Match
    <3> QED BY <2>1, <3>1, <3>2, NoneAssumption DEF FailClosed
  <2>5. CASE ms = {}
    <3>1. mode = "gate"
          BY <2>1, <2>5 DEF FailClosed, Resolve, NoTrigger
    <3>2. i = "AD_WIPER_MAX"
          BY <1>1, <2>5, <3>1, SomeRule DEF Matches, Evaluable
    <3> QED BY <2>1, <2>5, <3>1, <3>2 DEF Resolve, Fails, Excused
  <2> QED BY <2>4, <2>5
<1>2. CASE ~Evaluable(i, mode, s, p)
      BY <1>2 DEF Evaluable, Evaluate, Fails, Excused, ReadsParameter
<1> QED BY <1>1, <1>2

\* A gate evaluation without an outcome has failed closed; what is explained
\* is never asked to be confirmed.
LEMMA GateAnswers ==
    ASSUME NEW i, NEW s, NEW p, Evaluate(i, "gate", s, p).outcome = None
    PROVE  FailClosed(Evaluate(i, "gate", s, p))
<1>1. CASE Evaluable(i, "gate", s, p)
  <2> DEFINE ms == Matches(i, "gate", s, p)
  <2>1. Evaluate(i, "gate", s, p) = Resolve("gate", ms)
        BY <1>1, EvaluatedByRules
  <2> HIDE DEF ms
  <2>2. Resolve("gate", ms).reason \in {"NO_MATCHING_POLICY", "POLICY_AMBIGUITY", "POLICY"}
        BY DEF Resolve, Fails, Chosen
  <2> QED BY <2>1, <2>2 DEF FailClosed
<1>2. CASE ~Evaluable(i, "gate", s, p)
      BY <1>2, RefusedOutOfHand DEF FailClosed
<1> QED BY <1>1, <1>2

LEMMA ExplainedUnasked ==
    ASSUME NEW s, NEW p
    PROVE  Evaluate("explain_feature", "gate", s, p).outcome # "CONFIRM"
<1> SUFFICES ASSUME Evaluate("explain_feature", "gate", s, p).outcome = "CONFIRM"
             PROVE  FALSE
    OBVIOUS
<1>1. PICK m \in GateRules("explain_feature", s, p) : m.outcome = "CONFIRM"
      BY NoneAssumption, DecidedByRule DEF Matches, Outcomes
<1>2. GateRules("explain_feature", s, p) = InfoRules("explain_feature", s, p)
      BY OneTable DEF InfoIntents
<1> QED BY <1>1, <1>2 DEF InfoRules, Rule, Split

-----------------------------------------------------------------------------
\* The requests.

Fields == {"speed", "battery_pct", "rain_sensor", "ambient_light"}
Known(v) == Measured(v) /\ Fields \subseteq DOMAIN v

HistoryInv ==
    /\ scene \in Scenes
    /\ version \in Nat \ {0} /\ DOMAIN snapshots = 1..version
    /\ vehicle = snapshots[version]
    /\ \A n \in 1..version : Known(snapshots[n])

TokenInv == \A t \in DOMAIN tokens : tokens[t].intent # "explain_feature"

Waiting == {"absent", "sent", "begun", "dispatched"}
Working == {"mapped", "read"}
Deciding == {"judged", "concluding"}
Over == {"ending", "answered"}

\* A thread q of request r knows the snapshot v by its version, or the agent
\* supplied it.
Names(r, q, v) ==
    \/ q.version \in 1..version /\ v = snapshots[q.version]
    \/ q.version = 0 /\ Route[r] = "monitor"

\* The decision of a thread q of request r is the policy's, for a snapshot it
\* knows.
Judged(r, q) ==
    \E v : /\ Known(v)
           /\ q.decision = Evaluate(q.intent, Mode(r), v, q.params)
           /\ Names(r, q, v)

\* The engine is given what the rules of the intent read, but for an angle.
Asked(r, q) ==
    /\ "target_angle" \notin DOMAIN q.params
    /\ Route[r] # "monitor" /\ q.intent = "explain_feature" =>
          "kb_has_feature" \in DOMAIN q.params

Holds(r, q) ==
    /\ q.pc \in Waiting \cup Working \cup Deciding \cup Over
    /\ q.pc \in Waiting => DOMAIN q.params = {}
    /\ q.pc \in Waiting \cup Working => q.decision = Nothing
    /\ q.pc \in Working \cup Deciding => Asked(r, q)
    /\ q.pc \in Waiting => q.version = 0
    /\ q.pc = "read" => Known(q.state) /\ Names(r, q, q.state)
    /\ q.pc \in Deciding => Judged(r, q)
    /\ q.pc \in Over => \/ q.decision = Nothing /\ q.reply = "ERROR"
                        \/ /\ Judged(r, q) /\ Asked(r, q)
                           /\ q.reply = "ALLOW" /\ Route[r] # "monitor" =>
                                 q.decision.outcome \in {"ALLOW", "CONFIRM"}

Keys == {"pc", "intent", "params", "confirmed", "state", "version", "decision", "reply", "code"}

ThreadInv(r) == DOMAIN req[r] = Keys /\ Holds(r, req[r])

IInv ==
    /\ HistoryInv
    /\ TokenInv
    /\ DOMAIN req = Requests /\ \A r \in Requests : ThreadInv(r)

LEMMA Overridden ==
    ASSUME NEW c, Completed(c) \in VehicleStates, NEW v, Known(v)
    PROVE  Known(Onto(v, c))
<1>1. Known(Completed(c))
      BY StatesMeasured DEF Known, VehicleStates, Fields
<1>2. \A x \in Fields : Onto(v, c)[x] = v[x] \/ Onto(v, c)[x] = Completed(c)[x]
      BY DEF Known, Fields, Onto, Completed, StateDefaults
<1>3. Fields \subseteq DOMAIN Onto(v, c)
      BY DEF Known, Onto
<1> QED BY <1>1, <1>2, <1>3 DEF Known, Measured, Fields

LEMMA InitHolds == Init => IInv
<1> SUFFICES ASSUME Init PROVE IInv
    OBVIOUS
<1>1. HistoryInv
  <2>1. vehicle \in VehicleStates
        BY RequestsAssumption DEF Init
  <2>2. Known(vehicle)
        BY <2>1, StatesMeasured DEF Known, VehicleStates, Fields
  <2> QED BY <2>2 DEF Init, HistoryInv
<1>2. TokenInv
      BY DEF Init, TokenInv
<1>3. DOMAIN req = Requests
      BY DEF Init
<1>4. ASSUME NEW r \in Requests PROVE ThreadInv(r)
  <2>1. req[r].pc \in {"sent", "absent"} /\ DOMAIN req[r] = Keys
        BY DEF Init, Idle, Keys
  <2>2. req[r].params = <<>> /\ req[r].decision = Nothing /\ req[r].version = 0
        BY DEF Init, Idle
  <2> QED BY <2>1, <2>2 DEF ThreadInv, Holds, Waiting, Working, Deciding, Over
<1> QED BY <1>1, <1>2, <1>3, <1>4 DEF IInv

(***************************************************************************)
(* A step of one request's thread.                                         *)
(***************************************************************************)
LEMMA OneThread ==
    ASSUME IInv, NEW r \in Requests, UNCHANGED storeVars,
           DOMAIN req' = Requests, \A x \in Requests \ {r} : req'[x] = req[x],
           DOMAIN req'[r] = Keys, Holds(r, req'[r]), TokenInv'
    PROVE  IInv'
<1>1. version' = version /\ snapshots' = snapshots
      BY DEF storeVars
<1>2. HistoryInv'
      BY DEF IInv, HistoryInv, storeVars
<1>3. ASSUME NEW x \in Requests PROVE ThreadInv(x)'
  <2>1. DOMAIN req'[x] = Keys /\ Holds(x, req'[x])
        BY DEF IInv, ThreadInv
  <2> QED BY <1>1, <2>1 DEF ThreadInv, Holds, Judged, Names, Asked, Mode
<1> QED BY <1>2, <1>3 DEF IInv

\* Threads that have not judged yet end with an error or go on waiting.
LEMMA Rejects ==
    ASSUME IInv, NEW r \in Requests, NEW code, req[r].pc \in Waiting, Errs(r, code),
           UNCHANGED storeVars, TokenInv'
    PROVE  IInv'
<1>1. /\ req'[r].pc = "ending" /\ req'[r].reply = "ERROR"
      /\ req'[r].decision = req[r].decision /\ DOMAIN req'[r] = Keys
      BY DEF IInv, ThreadInv, Keys, Errs, Ends
<1>2. req[r].decision = Nothing
      BY DEF IInv, ThreadInv, Holds
<1>3. Holds(r, req'[r])
      BY <1>1, <1>2 DEF Holds, Waiting, Working, Deciding, Over
<1> QED BY <1>1, <1>3, OneThread DEF IInv, Errs, Ends

LEMMA GoesOn ==
    ASSUME IInv, NEW r \in Requests, NEW pc, Goes(r, pc), UNCHANGED storeVars, TokenInv',
           \/ req[r].pc \in Waiting /\ pc \in Waiting
           \/ req[r].pc \in Deciding /\ pc \in Deciding
           \/ req[r].pc \in Over /\ pc \in Over
    PROVE  IInv'
<1>1. /\ req'[r].pc = pc /\ DOMAIN req'[r] = Keys
      /\ \A k \in Keys \ {"pc"} : req'[r][k] = req[r][k]
      BY DEF IInv, ThreadInv, Keys, Goes
<1>2. Holds(r, req[r])
      BY DEF IInv, ThreadInv
<1>3. Holds(r, req'[r])
      BY <1>1, <1>2 DEF Holds, Judged, Names, Asked, Keys, Waiting, Working, Deciding, Over
<1> QED BY <1>1, <1>3, OneThread DEF IInv, Goes

LEMMA MapStep == ASSUME IInv, NEW r \in Requests, MapTool(r) PROVE IInv'
<1>1. PICK call \in Calls[r] : \E intent \in Reviewed(call) :
          req' = [req EXCEPT ![r].pc = "mapped", ![r].intent = intent,
                             ![r].params = ParamsFor(intent, call)]
      BY DEF MapTool
<1>2. PICK intent \in Reviewed(call) :
          req' = [req EXCEPT ![r].pc = "mapped", ![r].intent = intent,
                             ![r].params = ParamsFor(intent, call)]
      BY <1>1
<1>3. /\ req'[r].pc = "mapped" /\ req'[r].intent = intent
      /\ req'[r].params = ParamsFor(intent, call)
      /\ req'[r].decision = req[r].decision /\ DOMAIN req'[r] = Keys
      BY <1>2 DEF IInv, ThreadInv, Keys
<1>4. req[r].decision = Nothing
      BY DEF MapTool, WellFormed, At, IInv, ThreadInv, Holds, Waiting
<1>5. Asked(r, req'[r])
      BY <1>3 DEF Asked, ParamsFor
<1>6. Holds(r, req'[r])
      BY <1>3, <1>4, <1>5 DEF Holds, Waiting, Working, Deciding, Over
<1> QED BY <1>2, <1>3, <1>6, OneThread DEF MapTool, IInv, TokenInv

LEMMA ConsumeStep == ASSUME IInv, NEW r \in Requests, ConsumeToken(r) PROVE IInv'
<1>1. /\ req'[r].pc = "mapped" /\ req'[r].intent = tokens[TokenOf[r]].intent
      /\ req'[r].params = req[r].params
      /\ req'[r].decision = req[r].decision /\ DOMAIN req'[r] = Keys
      BY DEF ConsumeToken, IInv, ThreadInv, Keys
<1>2. req[r].decision = Nothing /\ DOMAIN req[r].params = {}
      BY DEF ConsumeToken, WellFormed, At, IInv, ThreadInv, Holds, Waiting
<1>3. tokens[TokenOf[r]].intent # "explain_feature"
      BY DEF ConsumeToken, NoToken, IInv, TokenInv
<1>4. Holds(r, req'[r])
      BY <1>1, <1>2, <1>3 DEF Holds, Names, Asked, Waiting, Working, Deciding, Over
<1>5. TokenInv'
      BY DEF ConsumeToken, Without, IInv, TokenInv
<1> QED BY <1>1, <1>4, <1>5, OneThread DEF ConsumeToken, IInv

LEMMA AskStep == ASSUME IInv, NEW r \in Requests, AskMonitor(r) PROVE IInv'
<1>1. PICK m \in Monitors[r] :
          /\ m.state # None => WireTyped(m.state)
          /\ req' = IF m.state = None
                    THEN [req EXCEPT ![r].pc = "mapped", ![r].intent = m.intent]
                    ELSE [req EXCEPT ![r].pc = "read", ![r].intent = m.intent,
                                     ![r].state = Completed(m.state)]
      BY DEF AskMonitor
<1>2. Route[r] = "monitor"
      BY DEF AskMonitor, WellFormed
<1>3. /\ req'[r].params = req[r].params
      /\ req'[r].decision = req[r].decision /\ req'[r].version = req[r].version
      /\ DOMAIN req'[r] = Keys
      BY <1>1 DEF IInv, ThreadInv, Keys
<1>4. req[r].decision = Nothing /\ DOMAIN req[r].params = {} /\ req[r].version = 0
      BY DEF AskMonitor, WellFormed, At, IInv, ThreadInv, Holds, Waiting
<1>5. \/ req'[r].pc = "mapped"
      \/ req'[r].pc = "read" /\ Known(req'[r].state)
  <2>1. CASE m.state = None
        BY <1>1, <2>1 DEF IInv, ThreadInv, Keys
  <2>2. CASE m.state # None
    <3>1. Completed(m.state) \in VehicleStates
          BY <1>1, <2>2, RequestsAssumption
    <3>2. Known(Completed(m.state))
          BY <3>1, StatesMeasured DEF Known, VehicleStates, Fields
    <3> QED BY <1>1, <2>2, <3>2 DEF IInv, ThreadInv, Keys
  <2> QED BY <2>1, <2>2
<1>6. Holds(r, req'[r])
      BY <1>2, <1>3, <1>4, <1>5 DEF Holds, Names, Asked, Waiting, Working, Deciding, Over
<1> QED BY <1>1, <1>3, <1>6, OneThread DEF AskMonitor, IInv, TokenInv

LEMMA ReadStep == ASSUME IInv, NEW r \in Requests, ReadSnapshot(r) PROVE IInv'
<1>1. /\ req'[r].pc = "read" /\ req'[r].state = vehicle /\ req'[r].version = version
      /\ req'[r].params = req[r].params /\ req'[r].intent = req[r].intent
      /\ req'[r].decision = req[r].decision /\ DOMAIN req'[r] = Keys
      BY DEF ReadSnapshot, IInv, ThreadInv, Keys
<1>2. req[r].decision = Nothing /\ Asked(r, req[r])
      BY DEF ReadSnapshot, At, IInv, ThreadInv, Holds, Working
<1>3. Known(vehicle) /\ version \in 1..version /\ vehicle = snapshots[version]
      BY DEF IInv, HistoryInv
<1>4. Holds(r, req'[r])
      BY <1>1, <1>2, <1>3 DEF Holds, Names, Asked, Waiting, Working, Deciding, Over
<1> QED BY <1>1, <1>4, OneThread DEF ReadSnapshot, IInv, TokenInv

LEMMA JudgeStep == ASSUME IInv, NEW r \in Requests, Judge(r) PROVE IInv'
<1> DEFINE d == Evaluate(req[r].intent, Mode(r), req[r].state, req[r].params)
<1>1. /\ req'[r].pc \in Deciding /\ req'[r].decision = d /\ req'[r].version = req[r].version
      /\ req'[r].params = req[r].params /\ req'[r].intent = req[r].intent
      /\ DOMAIN req'[r] = Keys
      /\ DOMAIN req' = Requests /\ \A x \in Requests \ {r} : req'[x] = req[x]
      BY DEF Judge, JudgedVersion, IInv, ThreadInv, Keys, Deciding
<1>2. /\ Asked(r, req[r]) /\ Known(req[r].state)
      /\ Names(r, req[r], req[r].state)
      BY DEF Judge, At, IInv, ThreadInv, Holds, Working
<1> HIDE DEF d
<1>3. Judged(r, req'[r])
      BY <1>1, <1>2 DEF Judged, Names, d
<1>4. Holds(r, req'[r])
      BY <1>1, <1>2, <1>3 DEF Holds, Names, Asked, Waiting, Working, Deciding, Over
<1> QED BY <1>1, <1>4, OneThread DEF Judge, IInv, TokenInv

\* What a thread that concludes knows, and keeps.
LEMMA Concludes ==
    ASSUME IInv, NEW r \in Requests, At(r, "concluding"), NEW reply, NEW code,
           Ends(r, reply, code),
           reply = "ALLOW" /\ Route[r] # "monitor" => Outcome(r) \in {"ALLOW", "CONFIRM"},
           UNCHANGED storeVars, TokenInv'
    PROVE  IInv'
<1>1. /\ req'[r].pc = "ending" /\ req'[r].reply = reply
      /\ req'[r].params = req[r].params /\ req'[r].intent = req[r].intent
      /\ req'[r].decision = req[r].decision /\ req'[r].version = req[r].version
      /\ DOMAIN req'[r] = Keys
      BY DEF Ends, IInv, ThreadInv, Keys
<1>2. Judged(r, req[r]) /\ Asked(r, req[r])
      BY DEF At, IInv, ThreadInv, Holds, Deciding
<1>3. Judged(r, req'[r]) /\ Asked(r, req'[r])
      BY <1>1, <1>2 DEF Judged, Names, Asked
<1>4. Holds(r, req'[r])
      BY <1>1, <1>3 DEF Holds, Outcome, Waiting, Working, Deciding, Over
<1> QED BY <1>1, <1>4, OneThread DEF IInv, Ends

LEMMA AnswerStep == ASSUME IInv, NEW r \in Requests, AnswerDecision(r) PROVE IInv'
<1>1. ASSUME Reply(r) = "ALLOW", Route[r] # "monitor"
      PROVE  Outcome(r) \in {"ALLOW", "CONFIRM"}
  <2>1. PICK v : req[r].decision = Evaluate(req[r].intent, Mode(r), v, req[r].params)
        BY DEF AnswerDecision, At, IInv, ThreadInv, Holds, Deciding, Judged
  <2>2. Outcome(r) # None
        BY <1>1, <2>1, GateAnswers DEF AnswerDecision, Outcome, Mode
  <2> QED BY <1>1, <2>2 DEF Reply, SameRule
<1> QED BY <1>1, Concludes DEF AnswerDecision, IInv, TokenInv

LEMMA ConfirmStep == ASSUME IInv, NEW r \in Requests, AskConfirmation(r) PROVE IInv'
<1>1. Outcome(r) = "CONFIRM"
      BY DEF AskConfirmation, Reply
<1>2. PICK v : req[r].decision = Evaluate(req[r].intent, Mode(r), v, req[r].params)
      BY DEF AskConfirmation, At, IInv, ThreadInv, Holds, Deciding, Judged
<1>3. req[r].intent # "explain_feature"
      BY <1>1, <1>2, ExplainedUnasked DEF Outcome, Mode, AskConfirmation
<1>4. TokenInv'
      BY <1>3 DEF AskConfirmation, IInv, TokenInv
<1> QED BY <1>4, Concludes DEF AskConfirmation

LEMMA ChangeStep ==
    ASSUME IInv, NEW c \in scene.changes, ChangeVehicle(c)
    PROVE  IInv'
<1>1. /\ version' = version + 1 /\ vehicle' = Onto(vehicle, c) /\ scene' = scene
      /\ snapshots' = Append(snapshots, Onto(vehicle, c))
      /\ req' = req /\ tokens' = tokens
      BY DEF ChangeVehicle
<1>2. Known(Onto(vehicle, c))
  <2>1. Known(vehicle) /\ Completed(c) \in VehicleStates
        BY RequestsAssumption DEF IInv, HistoryInv
  <2> QED BY <2>1, Overridden
<1>3. /\ DOMAIN snapshots' = 1..version'
      /\ snapshots'[version'] = vehicle'
      /\ \A n \in 1..version : snapshots'[n] = snapshots[n]
      BY <1>1 DEF IInv, HistoryInv
<1>4. HistoryInv'
      BY <1>1, <1>2, <1>3 DEF IInv, HistoryInv
<1>5. ASSUME NEW r \in Requests PROVE ThreadInv(r)'
  <2>1. DOMAIN req[r] = Keys /\ Holds(r, req[r])
        BY DEF IInv, ThreadInv
  <2>2. 1..version \subseteq 1..version'
        BY <1>1 DEF IInv, HistoryInv
  <2> QED BY <1>1, <1>3, <2>1, <2>2 DEF ThreadInv, Holds, Judged, Names, Asked, Mode
<1> QED BY <1>1, <1>4, <1>5 DEF IInv, TokenInv

LEMMA ThreadStep == ASSUME IInv, NEW r \in Requests, Handle(r) PROVE IInv'
<1>1. ASSUME NEW pc, Goes(r, pc), UNCHANGED <<storeVars, tokens>>,
             \/ req[r].pc \in Waiting /\ pc \in Waiting
             \/ req[r].pc \in Deciding /\ pc \in Deciding
             \/ req[r].pc \in Over /\ pc \in Over
      PROVE  IInv'
      BY <1>1, GoesOn DEF IInv, TokenInv
<1>2. ASSUME NEW code, req[r].pc \in Waiting, Errs(r, code), UNCHANGED <<storeVars, tokens>>
      PROVE  IInv'
      BY <1>2, Rejects DEF IInv, TokenInv
<1>3. CASE Begin(r)
      BY <1>1, <1>3 DEF Begin, At, Waiting
<1>4. CASE Start(r)
      BY <1>1, <1>4 DEF Start, At, Waiting
<1>5. CASE RejectMalformed(r)
      BY <1>2, <1>5 DEF RejectMalformed, At, Waiting
<1>6. CASE FailMapping(r)
      BY <1>2, <1>6 DEF FailMapping, WellFormed, At, Waiting
<1>7. CASE RefuseCommand(r)
      BY <1>2, <1>7 DEF RefuseCommand, WellFormed, At, Waiting
<1>8. CASE RejectToken(r)
      BY <1>2, <1>8 DEF RejectToken, WellFormed, At, Waiting
<1>9. CASE RejectSnapshot(r)
      BY <1>2, <1>9 DEF RejectSnapshot, WellFormed, At, Waiting
<1>10. CASE ExpireToken(r)
  <2>1. TokenInv'
        BY <1>10 DEF ExpireToken, Without, IInv, TokenInv
  <2> QED BY <1>10, <2>1, Rejects DEF ExpireToken, WellFormed, At, Waiting
<1>11. CASE RecordRoute(r)
      BY <1>1, <1>11 DEF RecordRoute, At, Deciding
<1>12. CASE End(r)
      BY <1>1, <1>12 DEF End, At, Over
<1>13. CASE ReportFailure(r)
  <2>1. PICK code : Ends(r, "ERROR", code)
        BY <1>13 DEF ReportFailure, Errs
  <2> QED BY <1>13, <2>1, Concludes DEF ReportFailure, IInv, TokenInv
<1> QED BY <1>3, <1>4, <1>5, <1>6, <1>7, <1>8, <1>9, <1>10, <1>11, <1>12, <1>13, MapStep,
           ConsumeStep, AskStep, ReadStep, JudgeStep, AnswerStep, ConfirmStep
        DEF Handle

LEMMA NextHolds == IInv /\ [Next]_vars => IInv'
<1> SUFFICES ASSUME IInv, [Next]_vars PROVE IInv'
    OBVIOUS
<1>1. CASE UNCHANGED vars
  <2>1. /\ scene' = scene /\ vehicle' = vehicle /\ version' = version
        /\ snapshots' = snapshots /\ req' = req /\ tokens' = tokens
        BY <1>1 DEF vars, storeVars
  <2> QED BY <2>1 DEF IInv, HistoryInv, TokenInv, ThreadInv, Holds, Judged, Names, Asked, Mode
<1>2. ASSUME NEW r \in Requests, Handle(r) PROVE IInv'
      BY <1>2, ThreadStep
<1>3. ASSUME NEW c \in scene.changes, ChangeVehicle(c) PROVE IInv'
      BY <1>3, ChangeStep
<1> QED BY <1>1, <1>2, <1>3 DEF Next

LEMMA Inductive == Spec => []IInv
BY InitHolds, NextHolds, PTL DEF Spec

(***************************************************************************)
(* The theorems.                                                           *)
(***************************************************************************)
\* What a permit rests on.
LEMMA PermitRests ==
    ASSUME IInv, NEW r \in Requests, Permitted(r)
    PROVE  /\ req[r].version \in 1..version /\ Known(Then(r))
           /\ Evaluate(req[r].intent, "gate", Then(r), req[r].params).outcome
                 \in {"ALLOW", "CONFIRM"}
<1>1. Judged(r, req[r]) /\ req[r].decision.outcome \in {"ALLOW", "CONFIRM"}
      BY DEF Permitted, Answered, IInv, ThreadInv, Holds, Over
<1> QED BY <1>1 DEF Permitted, Judged, Names, Mode, Then

\* A permit for an action the car must stand still for rests on a version, of
\* the vehicle, with speed 0, and one for a special mode on one without
\* another (_action and _confirm of app.py).
THEOREM SafePermits == Spec => []PermitsAreSafe
<1>1. IInv => PermitsAreSafe
  <2> SUFFICES ASSUME IInv, NEW r \in Requests, Permitted(r)
               PROVE  /\ req[r].version \in 1..version
                      /\ req[r].intent \in AtRestIntents => Then(r).speed = 0
                      /\ req[r].intent \in SpecialModes => ~AnyMode(Then(r))
      BY DEF PermitsAreSafe
  <2> QED BY PermitRests, OnlyAtRest, OneModeAtATime
<1> QED BY <1>1, Inductive, PTL

\* What the guardrail permits to start, its monitor does not stop on the same
\* version of the vehicle, the highway assist with hands off aside.
THEOREM PermittedMayRun == Spec => []AllowedMayRun
<1>1. IInv => AllowedMayRun
  <2> SUFFICES ASSUME IInv, NEW r \in Requests, Permitted(r),
                      req[r].intent \in MonitoredIntents
               PROVE  \/ Evaluate(req[r].intent, "monitor", Then(r), <<>>).outcome
                            \in {None, "ALLOW"}
                      \/ /\ req[r].intent = "activate_hda"
                         /\ Then(r).hand_off_wheel_duration_seconds > 15
      BY DEF AllowedMayRun
  <2> QED BY PermitRests, StartsMayRun DEF Known
<1> QED BY <1>1, Inductive, PTL

\* No request the guardrail maps is left undecided but for what Excused names:
\* an angle nobody supplies, an unknown battery or rain, an intent without a
\* rule (engine.py's fail-closed returns, as app.py reports them).
THEOREM RequestsDecided == Spec => []DecidesButFor
<1>1. IInv => DecidesButFor
  <2> SUFFICES ASSUME IInv, NEW r \in Requests, Answered(r), req[r].decision # Nothing,
                      FailClosed(req[r].decision)
               PROVE  Excused(req[r].intent, Mode(r), req[r].decision.reason)
      BY DEF DecidesButFor
  <2>1. Judged(r, req[r]) /\ Asked(r, req[r])
        BY DEF Answered, IInv, ThreadInv, Holds, Over
  <2>2. PICK v : Known(v) /\ req[r].decision = Evaluate(req[r].intent, Mode(r), v, req[r].params)
        BY <2>1 DEF Judged
  <2>3. Mode(r) \in {"gate", "monitor"} /\ (Mode(r) = "gate" => Route[r] # "monitor")
        BY DEF Mode
  <2> QED BY <2>1, <2>2, <2>3, AlwaysDecides DEF Asked, ParamsTyped, Known
<1> QED BY <1>1, Inductive, PTL

(***************************************************************************)
(* The evidence.                                                           *)
(***************************************************************************)
\* A decision on record is of a thread that has judged, and whose request is
\* settled: it is the policy's for the version it names.
Borne(r, q, e) ==
    e.type = "constraint_evaluated" =>
        /\ q.pc \in Deciding \cup Over
        /\ e.version > 0 =>
              LET d == Evaluate(q.intent, Mode(r), snapshots[e.version], q.params)
              IN e.version \in 1..version /\ d.outcome = e.outcome /\ d.rule = e.rule

EvidenceInv ==
    /\ DOMAIN evidence = Requests
    /\ \A r \in Requests :
          /\ \E n \in Nat : DOMAIN evidence[r] = 1..n
          /\ \A i \in DOMAIN evidence[r] : Borne(r, req[r], evidence[r][i])

\* A step of one thread that leaves its request alone once it has judged, and
\* records at most one event.
LEMMA OneRecord ==
    ASSUME EvidenceInv, NEW r \in Requests, UNCHANGED storeVars,
           \A x \in Requests \ {r} : req'[x] = req[x],
           \/ req[r].pc \in Waiting \cup Working
           \/ /\ req'[r].pc \in Deciding \cup Over
              /\ req'[r].intent = req[r].intent /\ req'[r].params = req[r].params,
           \/ UNCHANGED evidence
           \/ \E e : /\ evidence' = [evidence EXCEPT ![r] = Append(@, e)]
                     /\ Borne(r, req'[r], e)
    PROVE  EvidenceInv'
<1>1. version' = version /\ snapshots' = snapshots
      BY DEF storeVars
<1>2. ASSUME NEW i \in DOMAIN evidence[r]
      PROVE  Borne(r, req'[r], evidence[r][i])
      BY DEF EvidenceInv, Borne, Waiting, Working, Deciding, Over
<1>3. /\ \E n \in Nat : DOMAIN evidence'[r] = 1..n
      /\ \A i \in DOMAIN evidence'[r] : Borne(r, req'[r], evidence'[r][i])
  <2>1. CASE UNCHANGED evidence
        BY <1>2, <2>1 DEF EvidenceInv
  <2>2. ASSUME NEW e, evidence' = [evidence EXCEPT ![r] = Append(@, e)], Borne(r, req'[r], e)
        PROVE  /\ \E n \in Nat : DOMAIN evidence'[r] = 1..n
               /\ \A i \in DOMAIN evidence'[r] : Borne(r, req'[r], evidence'[r][i])
    <3>1. PICK n \in Nat : DOMAIN evidence[r] = 1..n
          BY DEF EvidenceInv
    <3>2. evidence'[r] = Append(evidence[r], e)
          BY <2>2 DEF EvidenceInv
    <3>3. /\ DOMAIN evidence'[r] = 1..(n + 1) /\ evidence'[r][n + 1] = e
          /\ \A i \in 1..n : evidence'[r][i] = evidence[r][i]
          BY <3>1, <3>2
    <3> QED BY <1>2, <2>2, <3>1, <3>3
  <2> QED BY <2>1, <2>2
<1>4. ASSUME NEW x \in Requests \ {r}
      PROVE  /\ \E n \in Nat : DOMAIN evidence'[x] = 1..n
             /\ \A i \in DOMAIN evidence'[x] : Borne(x, req'[x], evidence'[x][i])
  <2>1. evidence'[x] = evidence[x] /\ req'[x] = req[x]
        BY DEF EvidenceInv
  <2> QED BY <2>1 DEF EvidenceInv
<1>5. DOMAIN evidence' = Requests
      BY DEF EvidenceInv
<1>6. ASSUME NEW x \in Requests, NEW i \in DOMAIN evidence'[x]
      PROVE  Borne(x, req[x], evidence[x][i])'
  <2>1. Borne(x, req'[x], evidence'[x][i])
        BY <1>3, <1>4
  <2> QED BY <1>1, <2>1 DEF Borne
<1>7. \A x \in Requests : \E n \in Nat : DOMAIN evidence'[x] = 1..n
      BY <1>3, <1>4
<1> QED BY <1>5, <1>6, <1>7 DEF EvidenceInv

LEMMA OtherEvents ==
    ASSUME NEW r, NEW type, type # "constraint_evaluated", NEW d, NEW v,
           RecordEvent(r, Event(r, type, d, v))
    PROVE  \E e : /\ evidence' = [evidence EXCEPT ![r] = Append(@, e)]
                 /\ Borne(r, req'[r], e)
<1> DEFINE e == Event(r, type, d, v)
<1>1. e.type # "constraint_evaluated"
      BY DEF Event
<1>2. evidence' = [evidence EXCEPT ![r] = Append(@, e)]
      BY DEF RecordEvent
<1> HIDE DEF e
<1> QED BY <1>1, <1>2 DEF Borne

LEMMA EvidenceStep ==
    ASSUME IInv, EvidenceInv, NEW r \in Requests, Handle(r)
    PROVE  EvidenceInv'
<1>1. ASSUME NEW pc, Goes(r, pc), UNCHANGED storeVars,
             \/ req[r].pc \in Waiting
             \/ req[r].pc \in Deciding \cup Over /\ pc \in Deciding \cup Over,
             \/ UNCHANGED evidence
             \/ \E type : type # "constraint_evaluated" /\ Record(r, type)
      PROVE  EvidenceInv'
  <2>1. /\ \A x \in Requests \ {r} : req'[x] = req[x]
        /\ req'[r].pc = pc /\ req'[r].intent = req[r].intent /\ req'[r].params = req[r].params
        BY <1>1 DEF Goes, IInv, ThreadInv, Keys
  <2>2. \/ UNCHANGED evidence
        \/ \E e : /\ evidence' = [evidence EXCEPT ![r] = Append(@, e)]
                  /\ Borne(r, req'[r], e)
        BY <1>1, OtherEvents DEF Record
  <2> QED BY <1>1, <2>1, <2>2, OneRecord
<1>2. ASSUME NEW reply, NEW code, Ends(r, reply, code), UNCHANGED storeVars,
             req[r].pc \in Waiting \/ req[r].pc \in Deciding,
             \/ UNCHANGED evidence
             \/ \E type, d, v : /\ type # "constraint_evaluated"
                                /\ RecordEvent(r, Event(r, type, d, v))
      PROVE  EvidenceInv'
  <2>1. /\ \A x \in Requests \ {r} : req'[x] = req[x]
        /\ req'[r].pc \in Over
        /\ req'[r].intent = req[r].intent /\ req'[r].params = req[r].params
        BY <1>2 DEF Ends, IInv, ThreadInv, Keys, Over
  <2>2. \/ UNCHANGED evidence
        \/ \E e : /\ evidence' = [evidence EXCEPT ![r] = Append(@, e)]
                  /\ Borne(r, req'[r], e)
        BY <1>2, OtherEvents
  <2> QED BY <1>2, <2>1, <2>2, OneRecord
<1>3. ASSUME req[r].pc \in Waiting \cup Working, UNCHANGED storeVars,
             \A x \in Requests \ {r} : req'[x] = req[x],
             \/ UNCHANGED evidence
             \/ \E type : type # "constraint_evaluated" /\ Record(r, type)
      PROVE  EvidenceInv'
  <2>1. \/ UNCHANGED evidence
        \/ \E e : /\ evidence' = [evidence EXCEPT ![r] = Append(@, e)]
                  /\ Borne(r, req'[r], e)
        BY <1>3, OtherEvents DEF Record
  <2> QED BY <1>3, <2>1, OneRecord
<1>4. CASE Begin(r)
      BY <1>1, <1>4 DEF Begin, At, Waiting
<1>5. CASE Start(r)
      BY <1>1, <1>5 DEF Start, At, Waiting
<1>6. CASE RejectMalformed(r) \/ RefuseCommand(r) \/ RejectToken(r) \/ ExpireToken(r)
             \/ RejectSnapshot(r)
      BY <1>2, <1>6
      DEF RejectMalformed, RefuseCommand, RejectToken, ExpireToken, RejectSnapshot, WellFormed,
          At, Waiting, Errs, traceVars
<1>7. CASE FailMapping(r)
      BY <1>2, <1>7 DEF FailMapping, WellFormed, At, Waiting, Errs, Record
<1>8. CASE MapTool(r) \/ ConsumeToken(r) \/ AskMonitor(r) \/ ReadSnapshot(r)
      BY <1>3, <1>8
      DEF MapTool, ConsumeToken, AskMonitor, ReadSnapshot, WellFormed, At, Waiting, Working,
          traceVars, IInv
<1>9. CASE Judge(r)
  <2> DEFINE d == Evaluate(req[r].intent, Mode(r), req[r].state, req[r].params)
             e == Event(r, "constraint_evaluated", d, req[r].version)
  <2>1. /\ req'[r].pc \in Deciding
        /\ req'[r].params = req[r].params /\ req'[r].intent = req[r].intent
        /\ \A x \in Requests \ {r} : req'[x] = req[x]
        BY <1>9 DEF Judge, IInv, ThreadInv, Keys, Deciding
  <2>2. evidence' = [evidence EXCEPT ![r] = Append(@, e)]
        BY <1>9 DEF Judge, RecordEvent, JudgedVersion
  <2>3. req[r].pc = "read" /\ Names(r, req[r], req[r].state)
        BY <1>9 DEF Judge, At, IInv, ThreadInv, Holds
  <2>4. e.version = req[r].version /\ e.outcome = d.outcome /\ e.rule = d.rule
        BY DEF Event
  <2> HIDE DEF d, e
  <2>5. Borne(r, req'[r], e)
        BY <2>1, <2>3, <2>4 DEF Borne, Names, d
  <2> QED BY <1>9, <2>1, <2>2, <2>3, <2>5, OneRecord DEF Judge, Working
<1>10. CASE RecordRoute(r)
      BY <1>1, <1>10 DEF RecordRoute, At, Deciding
<1>11. CASE ReportFailure(r) \/ AnswerDecision(r)
      BY <1>2, <1>11 DEF ReportFailure, AnswerDecision, Errs, At, Deciding, traceVars
<1>12. CASE AskConfirmation(r)
      BY <1>2, <1>12 DEF AskConfirmation, At, Deciding
<1>13. CASE End(r)
      BY <1>1, <1>13 DEF End, At, Over
<1> QED BY <1>4, <1>5, <1>6, <1>7, <1>8, <1>9, <1>10, <1>11, <1>12, <1>13 DEF Handle

LEMMA EvidenceNext == IInv /\ EvidenceInv /\ [Next]_vars => EvidenceInv'
<1> SUFFICES ASSUME IInv, EvidenceInv, [Next]_vars PROVE EvidenceInv'
    OBVIOUS
<1>1. CASE UNCHANGED vars
  <2>1. /\ version' = version /\ snapshots' = snapshots
        /\ req' = req /\ evidence' = evidence
        BY <1>1 DEF vars, storeVars, traceVars
  <2> QED BY <2>1 DEF EvidenceInv, Borne, Mode
<1>2. ASSUME NEW r \in Requests, Handle(r) PROVE EvidenceInv'
      BY <1>2, EvidenceStep
<1>3. ASSUME NEW c \in scene.changes, ChangeVehicle(c) PROVE EvidenceInv'
  <2>1. /\ version' = version + 1 /\ snapshots' = Append(snapshots, Onto(vehicle, c))
        /\ req' = req /\ evidence' = evidence
        BY <1>3 DEF ChangeVehicle, traceVars
  <2>2. version \in Nat /\ DOMAIN snapshots = 1..version
        BY DEF IInv, HistoryInv
  <2>3. 1..version \subseteq 1..version' /\ \A n \in 1..version : snapshots'[n] = snapshots[n]
        BY <2>1, <2>2
  <2>4. ASSUME NEW r \in Requests, NEW e, Borne(r, req[r], e) PROVE Borne(r, req[r], e)'
        BY <2>1, <2>3, <2>4 DEF Borne, Mode
  <2> QED BY <2>1, <2>4 DEF EvidenceInv
<1> QED BY <1>1, <1>2, <1>3 DEF Next

\* The decision on record for a request is the policy's for the version the
\* event names, whatever has changed since (TraceRecorder.record, called with
\* the snapshot's version and the decision made on that snapshot).
THEOREM EvidenceIsTrue == Spec => []EvidenceHolds
<1>1. Init => EvidenceInv
  <2> SUFFICES ASSUME Init PROVE EvidenceInv
      OBVIOUS
  <2>1. evidence = [r \in Requests |-> <<>>]
        BY DEF Init
  <2>2. \A r \in Requests : DOMAIN evidence[r] = 1..0
        BY <2>1
  <2> QED BY <2>1, <2>2 DEF EvidenceInv
<1>2. Spec => []EvidenceInv
      BY <1>1, Inductive, EvidenceNext, PTL DEF Spec
<1>3. EvidenceInv => EvidenceHolds
      BY DEF EvidenceInv, Borne, EvidenceHolds
<1> QED BY <1>2, <1>3, PTL

(***************************************************************************)
(* The traces.                                                             *)
(***************************************************************************)
Listing(q) == q \in Seq(ToSet(q))
IsTrace(t) == t = [id |-> t.id, events |-> t.events] /\ Listing(t.events)
OneEach(q) == \A m, n \in DOMAIN q : q[m].id = q[n].id => m = n

\* The ids of the traces that are newer than the n-th.
IdsAfter(q, n) == {q[m].id : m \in (n + 1)..Len(q)}

\* The events of r in the trace q are v.
Keeps(q, r, v) ==
    LET mine == {i \in DOMAIN q : q[i].by = r}
    IN /\ Cardinality(mine) = Len(v)
       /\ \A i \in mine : q[i] = v[Cardinality({j \in mine : j <= i})]

\* Not only is a request among the last kept: what is newer than its trace is
\* what has begun since, so that its age in the recorder is its age.
KeptAt(i, n) ==
    /\ traces[n].id = IdOf[begun[i]] /\ IdsAfter(traces, n) = IdsSince(i)
    /\ Keeps(traces[n].events, begun[i], evidence[begun[i]])

TraceInv ==
    /\ Listing(traces) /\ OneEach(traces)
    /\ \A n \in DOMAIN traces : IsTrace(traces[n])
    /\ begun \in Seq(Requests)
    /\ DOMAIN evidence = Requests
    /\ \A r \in Requests : /\ Listing(evidence[r])
                           /\ req[r].pc = "sent" => evidence[r] = <<>>
    /\ \A i \in DOMAIN begun :
          IdOf[begun[i]] \notin IdsSince(i) /\ Cardinality(IdsSince(i)) < Capacity =>
              \E n \in DOMAIN traces : KeptAt(i, n)

LEMMA Lists == ASSUME NEW S, NEW q \in Seq(S) PROVE Listing(q)
<1>1. q = [i \in 1..Len(q) |-> q[i]] /\ DOMAIN q = 1..Len(q) /\ Len(q) \in Nat
      OBVIOUS
<1>2. \A i \in 1..Len(q) : q[i] \in ToSet(q)
      BY <1>1 DEF ToSet
<1>3. q \in [1..Len(q) -> ToSet(q)]
      BY <1>1, <1>2
<1> QED BY <1>1, <1>3 DEF Listing

\* What is left of a sequence without one of its elements, and what its
\* newest n elements are.
LEMMA Removed ==
    ASSUME NEW S, NEW q \in Seq(S), NEW k \in DOMAIN q
    PROVE  /\ RemoveAt(q, k) \in Seq(S) /\ Len(RemoveAt(q, k)) = Len(q) - 1
           /\ \A i \in 1..(Len(q) - 1) :
                 RemoveAt(q, k)[i] = IF i < k THEN q[i] ELSE q[i + 1]
<1> DEFINE a == SubSeq(q, 1, k - 1)
           b == SubSeq(q, k + 1, Len(q))
           L == Len(q)
<1>1. L \in Nat /\ k \in 1..L /\ \A i \in 1..L : q[i] \in S
      OBVIOUS
<1>2. /\ a \in Seq(S) /\ Len(a) = k - 1
      /\ \A i \in 1..(k - 1) : a[i] = q[i]
  <2>1. \A i \in 1..(k - 1) : q[i] \in S
        BY <1>1
  <2> HIDE DEF L
  <2>2. /\ a \in Seq(S) /\ Len(a) = (IF 1 <= k - 1 THEN (k - 1) - 1 + 1 ELSE 0)
        /\ \A i \in 1..((k - 1) - 1 + 1) : a[i] = q[1 + i - 1]
        BY <1>1, <2>1, SubSeqProperties
  <2> HIDE DEF a
  <2> QED BY <1>1, <2>2
<1>3. /\ b \in Seq(S) /\ Len(b) = L - k
      /\ \A i \in 1..(L - k) : b[i] = q[k + i]
  <2>1. \A i \in (k + 1)..L : q[i] \in S
        BY <1>1
  <2>2. /\ b \in Seq(S) /\ Len(b) = (IF k + 1 <= L THEN L - (k + 1) + 1 ELSE 0)
        /\ \A i \in 1..(L - (k + 1) + 1) : b[i] = q[(k + 1) + i - 1]
        BY <1>1, <2>1, SubSeqProperties
  <2> HIDE DEF b, L
  <2> QED BY <1>1, <2>2
<1>4. RemoveAt(q, k) = a \o b
      BY DEF RemoveAt
<1> HIDE DEF a, b
<1>5. /\ a \o b \in Seq(S) /\ Len(a \o b) = Len(a) + Len(b)
      /\ \A i \in 1..(Len(a) + Len(b)) :
            (a \o b)[i] = IF i <= Len(a) THEN a[i] ELSE b[i - Len(a)]
      BY <1>2, <1>3, ConcatProperties
<1> HIDE DEF L
<1>6. ASSUME NEW i \in 1..(L - 1)
      PROVE  (a \o b)[i] = IF i < k THEN q[i] ELSE q[i + 1]
  <2>1. CASE i < k
    <3>1. i <= Len(a) /\ i \in 1..(k - 1) /\ i \in 1..(Len(a) + Len(b))
          BY <1>1, <1>2, <1>3, <2>1
    <3>2. (a \o b)[i] = a[i]
          BY <1>5, <3>1
    <3> QED BY <1>2, <2>1, <3>1, <3>2
  <2>2. CASE ~(i < k)
    <3>1. i - (k - 1) \in 1..(L - k) /\ k + (i - (k - 1)) = i + 1
          BY <1>1, <2>2
    <3>2. ~(i <= Len(a)) /\ i - Len(a) = i - (k - 1) /\ i \in 1..(Len(a) + Len(b))
          BY <1>1, <1>2, <1>3, <2>2
    <3>3. (a \o b)[i] = b[i - (k - 1)]
          BY <1>5, <3>2
    <3> QED BY <1>3, <2>2, <3>1, <3>3
  <2> QED BY <2>1, <2>2
<1>7. Len(a) + Len(b) = L - 1
      BY <1>1, <1>2, <1>3
<1>8. a \o b \in Seq(S) /\ Len(a \o b) = L - 1
      BY <1>5, <1>7
<1> QED BY <1>4, <1>6, <1>8 DEF L

\* How many traces go.
Oldest(c, q) == IF Len(q) > c THEN Len(q) - c ELSE 0

LEMMA NewestLast ==
    ASSUME NEW S, NEW q \in Seq(S), NEW c \in Nat
    PROVE  LET d == Oldest(c, q)
               w == Newest(c, q)
           IN  /\ d \in Nat /\ d <= Len(q) /\ w \in Seq(S) /\ Len(w) = Len(q) - d
               /\ \A i \in 1..(Len(q) - d) : w[i] = q[i + d]
<1> DEFINE d == Oldest(c, q)
<1>1. PICK L \in Nat : L = Len(q)
      OBVIOUS
<1>2. d \in Nat /\ d <= L /\ (L > c => d = L - c) /\ (~(L > c) => d = 0)
      BY <1>1 DEF Oldest
<1> HIDE DEF d
<1>3. Newest(c, q) = SubSeq(q, d + 1, L)
  <2>1. (IF L > c THEN L - c + 1 ELSE 1) = d + 1
        BY <1>2
  <2> QED BY <1>1, <2>1 DEF Newest
<1>4. d + 1 \in Int /\ L \in Int /\ \A i \in (d + 1)..L : q[i] \in S
      BY <1>1, <1>2
<1>5. /\ SubSeq(q, d + 1, L) \in Seq(S)
      /\ Len(SubSeq(q, d + 1, L)) = (IF d + 1 <= L THEN L - (d + 1) + 1 ELSE 0)
      /\ \A i \in 1..(L - (d + 1) + 1) : SubSeq(q, d + 1, L)[i] = q[(d + 1) + i - 1]
      BY <1>4, SubSeqProperties
<1>6. /\ (IF d + 1 <= L THEN L - (d + 1) + 1 ELSE 0) = L - d
      /\ L - (d + 1) + 1 = L - d
      /\ \A i \in 1..(L - d) : (d + 1) + i - 1 = i + d
      BY <1>2
<1>7. \A i \in 1..(L - d) : SubSeq(q, d + 1, L)[i] = q[i + d]
      BY <1>5, <1>6
<1> QED BY <1>1, <1>2, <1>3, <1>5, <1>6, <1>7 DEF d

\* The traces w are those of q but for that of an id.
LacksOnly(w, q, id) ==
    /\ OneEach(w)
    /\ \A m \in DOMAIN w : w[m].id # id /\ \E n \in DOMAIN q : w[m] = q[n]
    /\ \A n \in DOMAIN q : q[n].id # id =>
          \E m \in DOMAIN w : w[m] = q[n] /\ IdsAfter(w, m) = IdsAfter(q, n) \ {id}

LEMMA RemovedKeeps ==
    ASSUME NEW S, NEW q \in Seq(S), OneEach(q), NEW k \in DOMAIN q
    PROVE  RemoveAt(q, k) \in Seq(S) /\ LacksOnly(RemoveAt(q, k), q, q[k].id)
<1> DEFINE w == RemoveAt(q, k)
<1>1. PICK L \in Nat : L = Len(q) /\ DOMAIN q = 1..L /\ k \in 1..L
      OBVIOUS
<1>2. /\ w \in Seq(S) /\ Len(w) = L - 1 /\ DOMAIN w = 1..(L - 1)
      /\ \A i \in 1..(L - 1) : w[i] = IF i < k THEN q[i] ELSE q[i + 1]
  <2>1. /\ w \in Seq(S) /\ Len(w) = L - 1
        /\ \A i \in 1..(L - 1) : w[i] = IF i < k THEN q[i] ELSE q[i + 1]
        BY <1>1, Removed
  <2> QED BY <2>1
<1>3. ASSUME NEW m \in 1..(L - 1)
      PROVE  \E n \in 1..L : n # k /\ w[m] = q[n] /\ n = (IF m < k THEN m ELSE m + 1)
  <2>1. CASE m < k
        BY <1>1, <1>2, <2>1
  <2>2. CASE ~(m < k)
        BY <1>1, <1>2, <2>2
  <2> QED BY <2>1, <2>2
<1>4. \A n \in 1..L : n # k => q[n].id # q[k].id
      BY <1>1 DEF OneEach
<1>5. OneEach(w)
  <2> SUFFICES ASSUME NEW m \in 1..(L - 1), NEW n \in 1..(L - 1), w[m].id = w[n].id PROVE m = n
      BY <1>2 DEF OneEach
  <2>1. PICK x \in 1..L : w[m] = q[x] /\ x = (IF m < k THEN m ELSE m + 1)
        BY <1>3
  <2>2. PICK y \in 1..L : w[n] = q[y] /\ y = (IF n < k THEN n ELSE n + 1)
        BY <1>3
  <2>3. x = y
        BY <1>1, <2>1, <2>2 DEF OneEach
  <2> QED BY <1>1, <2>1, <2>2, <2>3
<1>6. \A m \in DOMAIN w : w[m].id # q[k].id /\ \E n \in DOMAIN q : w[m] = q[n]
  <2> SUFFICES ASSUME NEW m \in 1..(L - 1)
               PROVE  w[m].id # q[k].id /\ \E n \in 1..L : w[m] = q[n]
      BY <1>1, <1>2
  <2>1. PICK n \in 1..L : n # k /\ w[m] = q[n]
        BY <1>3
  <2> QED BY <1>4, <2>1
<1>7. ASSUME NEW n \in 1..L, n # k
      PROVE  \E m \in 1..(L - 1) : /\ w[m] = q[n]
                                   /\ IdsAfter(w, m) = IdsAfter(q, n) \ {q[k].id}
  <2>1. PICK m \in 1..(L - 1) : m = IF n < k THEN n ELSE n - 1
        BY <1>1, <1>7
  <2>2. w[m] = q[n]
    <3>1. CASE n < k
          BY <1>1, <1>2, <2>1, <3>1
    <3>2. CASE ~(n < k)
      <4>1. n > k /\ m = n - 1 /\ ~(m < k) /\ m + 1 = n
            BY <1>1, <1>7, <2>1, <3>2
      <4> QED BY <1>2, <4>1
    <3> QED BY <3>1, <3>2
  <2>3. ASSUME NEW j \in (m + 1)..(L - 1)
        PROVE  w[j].id \in {q[x].id : x \in (n + 1)..L} /\ w[j].id # q[k].id
    <3>1. j \in 1..(L - 1)
          BY <2>1
    <3>2. PICK x \in 1..L : x # k /\ w[j] = q[x] /\ x = (IF j < k THEN j ELSE j + 1)
          BY <1>3, <3>1
    <3>3. x \in (n + 1)..L
          BY <1>1, <1>7, <2>1, <3>1, <3>2
    <3> QED BY <1>4, <3>2, <3>3
  <2>4. ASSUME NEW x \in (n + 1)..L, q[x].id # q[k].id
        PROVE  q[x].id \in {w[j].id : j \in (m + 1)..(L - 1)}
    <3>1. x # k
          BY <2>4
    <3>2. PICK j \in (m + 1)..(L - 1) : x = IF j < k THEN j ELSE j + 1
      <4>1. CASE x < k
        <5>1. x \in (m + 1)..(L - 1) /\ x = IF x < k THEN x ELSE x + 1
              BY <1>1, <1>7, <2>1, <4>1
        <5> QED BY <5>1
      <4>2. CASE x > k
        <5>1. x - 1 \in (m + 1)..(L - 1) /\ ~(x - 1 < k) /\ x = (x - 1) + 1
              BY <1>1, <1>7, <2>1, <4>2
        <5> QED BY <5>1
      <4> QED BY <1>1, <3>1, <4>1, <4>2
    <3>3. j \in 1..(L - 1)
          BY <2>1
    <3>4. w[j] = q[x]
          BY <1>2, <3>2, <3>3
    <3> QED BY <3>4
  <2>5. IdsAfter(w, m) = IdsAfter(q, n) \ {q[k].id}
    <3>1. /\ IdsAfter(w, m) = {w[j].id : j \in (m + 1)..(L - 1)}
          /\ IdsAfter(q, n) = {q[x].id : x \in (n + 1)..L}
          BY <1>1, <1>2 DEF IdsAfter
    <3> QED BY <2>3, <2>4, <3>1
  <2> QED BY <2>2, <2>5
<1> HIDE DEF w
<1>8. LacksOnly(w, q, q[k].id)
      BY <1>1, <1>2, <1>5, <1>6, <1>7 DEF LacksOnly
<1> QED BY <1>2, <1>8 DEF w

LEMMA AppendedKeeps ==
    ASSUME NEW S, NEW q \in Seq(S), OneEach(q), NEW t \in S,
           \A n \in DOMAIN q : q[n].id # t.id
    PROVE  LET w == Append(q, t)
           IN  /\ w \in Seq(S) /\ OneEach(w) /\ Len(w) = Len(q) + 1 /\ w[Len(w)] = t
               /\ IdsAfter(w, Len(w)) = {}
               /\ \A m \in DOMAIN w : w[m] = t \/ (m \in DOMAIN q /\ w[m] = q[m])
               /\ \A n \in DOMAIN q : /\ n \in DOMAIN w /\ w[n] = q[n]
                                      /\ IdsAfter(w, n) = IdsAfter(q, n) \cup {t.id}
<1> DEFINE w == Append(q, t)
<1>1. PICK L \in Nat : L = Len(q) /\ DOMAIN q = 1..L
      OBVIOUS
<1>2. /\ w \in Seq(S) /\ Len(w) = L + 1 /\ DOMAIN w = 1..(L + 1) /\ w[L + 1] = t
      /\ \A i \in 1..L : w[i] = q[i]
      BY <1>1
<1>3. OneEach(w)
      BY <1>1, <1>2 DEF OneEach
<1>4. IdsAfter(w, L + 1) = {}
      BY <1>2 DEF IdsAfter
<1>5. ASSUME NEW n \in 1..L PROVE IdsAfter(w, n) = IdsAfter(q, n) \cup {t.id}
  <2>1. \A x \in (n + 1)..L : x \in (n + 1)..(L + 1) /\ w[x] = q[x]
        BY <1>2
  <2>2. L + 1 \in (n + 1)..(L + 1)
        OBVIOUS
  <2>3. \A x \in (n + 1)..(L + 1) : x \in (n + 1)..L \/ x = L + 1
        OBVIOUS
  <2> QED BY <1>1, <1>2, <2>1, <2>2, <2>3 DEF IdsAfter
<1>6. \A m \in 1..(L + 1) : w[m] = t \/ (m \in 1..L /\ w[m] = q[m])
      BY <1>2
<1> QED BY <1>1, <1>2, <1>3, <1>4, <1>5, <1>6

LEMMA IdsCounted ==
    ASSUME NEW S, NEW q \in Seq(S), OneEach(q), NEW n \in DOMAIN q
    PROVE  Cardinality(IdsAfter(q, n)) = Len(q) - n
<1>1. PICK L \in Nat : L = Len(q) /\ DOMAIN q = 1..L
      OBVIOUS
<1> DEFINE f == [m \in (n + 1)..L |-> q[m].id]
<1>2. f \in Bijection((n + 1)..L, IdsAfter(q, n))
  <2>1. f \in [(n + 1)..L -> IdsAfter(q, n)]
        BY <1>1 DEF IdsAfter
  <2>2. \A x, y \in (n + 1)..L : f[x] = f[y] => x = y
    <3>1. \A x \in (n + 1)..L : x \in DOMAIN q
          BY <1>1
    <3> QED BY <3>1 DEF OneEach
  <2>3. \A i \in IdsAfter(q, n) : \E x \in (n + 1)..L : f[x] = i
        BY <1>1 DEF IdsAfter
  <2> HIDE DEF f
  <2> QED BY <2>1, <2>2, <2>3 DEF Bijection, Injection, Surjection, IsInjective
<1>3. /\ IsFiniteSet((n + 1)..L)
      /\ Cardinality((n + 1)..L) = (IF n + 1 > L THEN 0 ELSE L - (n + 1) + 1)
  <2>1. n + 1 \in Int /\ L \in Int
        BY <1>1
  <2> QED BY <2>1, FS_Interval
<1>4. Cardinality((n + 1)..L) = L - n
      BY <1>1, <1>3
<1>5. Cardinality(IdsAfter(q, n)) = Cardinality((n + 1)..L)
      BY <1>2, <1>3, FS_Bijection DEF ExistsBijection
<1> QED BY <1>1, <1>4, <1>5

\* A trace with fewer than c newer ones is among the newest c.
KeepsNewest(w, q, c) ==
    /\ OneEach(w)
    /\ \A m \in DOMAIN w : \E n \in DOMAIN q : w[m] = q[n]
    /\ \A n \in DOMAIN q : Cardinality(IdsAfter(q, n)) < c =>
          \E m \in DOMAIN w : w[m] = q[n] /\ IdsAfter(w, m) = IdsAfter(q, n)

LEMMA NewestKeeps ==
    ASSUME NEW S, NEW q \in Seq(S), OneEach(q), NEW c \in Nat
    PROVE  Newest(c, q) \in Seq(S) /\ KeepsNewest(Newest(c, q), q, c)
<1> DEFINE w == Newest(c, q)
<1>1. PICK L \in Nat : L = Len(q) /\ DOMAIN q = 1..L
      OBVIOUS
<1>8. PICK d : d = Oldest(c, q)
      OBVIOUS
<1>2. /\ d \in Nat /\ d <= L /\ w \in Seq(S) /\ Len(w) = L - d
      /\ \A i \in 1..(L - d) : w[i] = q[i + d]
      BY <1>1, <1>8, NewestLast
<1>7. (L > c => d = L - c) /\ (~(L > c) => d = 0)
      BY <1>1, <1>8 DEF Oldest
<1>3. DOMAIN w = 1..(L - d) /\ \A i \in 1..(L - d) : i + d \in 1..L
      BY <1>2
<1>4. OneEach(w)
  <2> SUFFICES ASSUME NEW m \in 1..(L - d), NEW n \in 1..(L - d), w[m].id = w[n].id PROVE m = n
      BY <1>3 DEF OneEach
  <2>1. w[m] = q[m + d] /\ w[n] = q[n + d] /\ m + d \in 1..L /\ n + d \in 1..L
        BY <1>2, <1>3
  <2>2. m + d = n + d
        BY <1>1, <2>1 DEF OneEach
  <2> QED BY <1>2, <2>2
<1>5. \A m \in DOMAIN w : \E n \in DOMAIN q : w[m] = q[n]
      BY <1>1, <1>2, <1>3
<1>6. ASSUME NEW n \in 1..L, Cardinality(IdsAfter(q, n)) < c
      PROVE  \E m \in DOMAIN w : w[m] = q[n] /\ IdsAfter(w, m) = IdsAfter(q, n)
  <2>1. L - n < c
        BY <1>1, <1>6, IdsCounted
  <2>2. PICK m \in 1..(L - d) : m = n - d /\ m + d = n
    <3>1. n - d \in 1..(L - d) /\ (n - d) + d = n
          BY <1>2, <1>7, <2>1
    <3> QED BY <3>1
  <2>3. w[m] = q[n]
        BY <1>2, <2>2
  <2>4. \A j \in (m + 1)..(L - d) : j + d \in (n + 1)..L /\ w[j] = q[j + d]
        BY <1>2, <2>2
  <2>5. \A x \in (n + 1)..L : x - d \in (m + 1)..(L - d) /\ w[x - d] = q[x]
    <3> SUFFICES ASSUME NEW x \in (n + 1)..L
                 PROVE  x - d \in (m + 1)..(L - d) /\ w[x - d] = q[x]
        OBVIOUS
    <3>1. x - d \in (m + 1)..(L - d) /\ x - d \in 1..(L - d) /\ (x - d) + d = x
          BY <1>2, <2>2
    <3> QED BY <1>2, <3>1
  <2>6. IdsAfter(w, m) = IdsAfter(q, n)
    <3>1. /\ IdsAfter(w, m) = {w[j].id : j \in (m + 1)..(L - d)}
          /\ IdsAfter(q, n) = {q[x].id : x \in (n + 1)..L}
          BY <1>1, <1>2 DEF IdsAfter
    <3>2. ASSUME NEW x \in (n + 1)..L
          PROVE  q[x].id \in {w[j].id : j \in (m + 1)..(L - d)}
      <4>1. x - d \in (m + 1)..(L - d) /\ w[x - d] = q[x]
            BY <2>5
      <4> QED BY <4>1
    <3>3. ASSUME NEW j \in (m + 1)..(L - d) PROVE w[j].id \in {q[x].id : x \in (n + 1)..L}
      <4>1. j + d \in (n + 1)..L /\ w[j] = q[j + d]
            BY <2>4
      <4> QED BY <4>1
    <3> QED BY <3>1, <3>2, <3>3
  <2> QED BY <1>3, <2>3, <2>6
<1> HIDE DEF w
<1>9. KeepsNewest(w, q, c)
      BY <1>1, <1>4, <1>5, <1>6 DEF KeepsNewest
<1> QED BY <1>2, <1>9 DEF w

\* What a new trace does to the others.
LEMMA Opened ==
    ASSUME TraceInv, NEW r \in Requests, OpenTrace(IdOf[r])
    PROVE  LET new == [id |-> IdOf[r], events |-> <<>>]
           IN /\ Listing(traces') /\ OneEach(traces')
              /\ \A n \in DOMAIN traces' : IsTrace(traces'[n])
              /\ \E n \in DOMAIN traces' : traces'[n] = new /\ IdsAfter(traces', n) = {}
              /\ \A n \in DOMAIN traces :
                    /\ traces[n].id # new.id
                    /\ Cardinality(IdsAfter(traces, n) \cup {new.id}) < Capacity
                    => \E m \in DOMAIN traces' :
                          /\ traces'[m] = traces[n]
                          /\ IdsAfter(traces', m) = IdsAfter(traces, n) \cup {new.id}
<1> DEFINE id == IdOf[r]
           new == [id |-> id, events |-> <<>>]
           S == ToSet(traces) \cup {new}
           o == OfOthers(id)
           a == Append(o, new)
<1>1. /\ traces \in Seq(S) /\ OneEach(traces) /\ new \in S /\ new.id = id
      /\ \A n \in DOMAIN traces : IsTrace(traces[n])
  <2>1. traces \in Seq(ToSet(traces))
        BY DEF TraceInv, Listing
  <2> HIDE DEF new
  <2>2. traces \in Seq(S)
        BY <2>1
  <2> QED BY <2>2 DEF TraceInv, new
<1>2. IsTrace(new)
  <2>1. <<>> \in Seq({})
        OBVIOUS
  <2>2. Listing(<<>>)
        BY <2>1, Lists
  <2> QED BY <2>2 DEF IsTrace
<1>3. traces' = Newest(Capacity, a)
      BY DEF OpenTrace
<1> HIDE DEF new, S
<1>4. o \in Seq(S) /\ LacksOnly(o, traces, id)
  <2> DEFINE at == {i \in DOMAIN traces : traces[i].id = id}
  <2>1. CASE at = {}
    <3>1. o = traces /\ \A n \in DOMAIN traces : traces[n].id # id
          BY <2>1 DEF OfOthers
    <3>2. ASSUME NEW n \in DOMAIN traces PROVE IdsAfter(traces, n) = IdsAfter(traces, n) \ {id}
      <4>1. \A x \in (n + 1)..Len(traces) : x \in DOMAIN traces
            BY <1>1
      <4> QED BY <3>1, <4>1 DEF IdsAfter
    <3> HIDE DEF o
    <3> QED BY <1>1, <3>1, <3>2 DEF LacksOnly
  <2>2. CASE at # {}
    <3>1. PICK k \in at : k = CHOOSE i \in at : TRUE
          BY <2>2
    <3>2. o = RemoveAt(traces, k) /\ k \in DOMAIN traces /\ traces[k].id = id
          BY <2>2, <3>1 DEF OfOthers
    <3> HIDE DEF o, at
    <3> QED BY <1>1, <3>2, RemovedKeeps
  <2> QED BY <2>1, <2>2
<1> HIDE DEF o
<1>11. /\ OneEach(o)
       /\ \A m \in DOMAIN o : o[m].id # id /\ \E n \in DOMAIN traces : o[m] = traces[n]
       /\ \A n \in DOMAIN traces : traces[n].id # id =>
             \E m \in DOMAIN o : o[m] = traces[n] /\ IdsAfter(o, m) = IdsAfter(traces, n) \ {id}
       BY <1>4 DEF LacksOnly
<1>5. /\ a \in Seq(S) /\ OneEach(a) /\ Len(a) = Len(o) + 1 /\ a[Len(a)] = new
      /\ IdsAfter(a, Len(a)) = {}
      /\ \A m \in DOMAIN a : a[m] = new \/ (m \in DOMAIN o /\ a[m] = o[m])
      /\ \A n \in DOMAIN o : /\ n \in DOMAIN a /\ a[n] = o[n]
                             /\ IdsAfter(a, n) = IdsAfter(o, n) \cup {new.id}
      BY <1>1, <1>4, <1>11, AppendedKeeps
<1> HIDE DEF a
<1>6. /\ traces' \in Seq(S) /\ OneEach(traces')
      /\ \A m \in DOMAIN traces' : \E n \in DOMAIN a : traces'[m] = a[n]
      /\ \A n \in DOMAIN a : Cardinality(IdsAfter(a, n)) < Capacity =>
            \E m \in DOMAIN traces' : traces'[m] = a[n] /\ IdsAfter(traces', m) = IdsAfter(a, n)
  <2>1. Capacity \in Nat
        BY RequestsAssumption
  <2>2. traces' \in Seq(S) /\ KeepsNewest(traces', a, Capacity)
        BY <1>3, <1>5, <2>1, NewestKeeps
  <2> QED BY <2>2 DEF KeepsNewest
<1>7. Listing(traces')
      BY <1>6, Lists
<1>8. \A n \in DOMAIN traces' : IsTrace(traces'[n])
      BY <1>1, <1>2, <1>5, <1>6, <1>11
<1>9. \E n \in DOMAIN traces' : traces'[n] = new /\ IdsAfter(traces', n) = {}
  <2>1. Len(a) \in DOMAIN a
    <3>1. DOMAIN a = 1..Len(a) /\ Len(o) \in Nat
          BY <1>4, <1>5
    <3> QED BY <1>5, <3>1
  <2>2. Cardinality({}) < Capacity
        BY FS_EmptySet, RequestsAssumption
  <2> QED BY <1>5, <1>6, <2>1, <2>2
<1>10. ASSUME NEW n \in DOMAIN traces, traces[n].id # id,
              Cardinality(IdsAfter(traces, n) \cup {id}) < Capacity
       PROVE  \E m \in DOMAIN traces' : /\ traces'[m] = traces[n]
                                        /\ IdsAfter(traces', m) = IdsAfter(traces, n) \cup {id}
  <2>1. PICK m \in DOMAIN o : o[m] = traces[n] /\ IdsAfter(o, m) = IdsAfter(traces, n) \ {id}
        BY <1>10, <1>11
  <2>2. /\ m \in DOMAIN a /\ a[m] = traces[n]
        /\ IdsAfter(a, m) = (IdsAfter(traces, n) \ {id}) \cup {id}
        BY <1>1, <1>5, <2>1
  <2>3. IdsAfter(a, m) = IdsAfter(traces, n) \cup {id}
        BY <2>2
  <2> QED BY <1>6, <1>10, <2>2, <2>3
<1> QED BY <1>1, <1>6, <1>7, <1>8, <1>9, <1>10 DEF new

LEMMA KeepsMine ==
    ASSUME NEW q, Listing(q), NEW v, Listing(v), NEW e, NEW r, Keeps(q, r, v), e.by = r
    PROVE  Keeps(Append(q, e), r, Append(v, e))
<1> DEFINE mine == {i \in DOMAIN q : q[i].by = r}
           w == Append(q, e)
           u == Append(v, e)
           ours == {i \in DOMAIN w : w[i].by = r}
<1>1. PICK L \in Nat, K \in Nat : L = Len(q) /\ K = Len(v)
      BY DEF Listing
<1>2. /\ DOMAIN q = 1..L /\ DOMAIN w = 1..(L + 1) /\ w[L + 1] = e
      /\ \A i \in 1..L : w[i] = q[i]
  <2> DEFINE T == ToSet(q) \cup {e}
  <2>1. q \in Seq(ToSet(q))
        BY DEF Listing
  <2>2. q \in Seq(T) /\ e \in T
        BY <2>1
  <2> HIDE DEF T
  <2> QED BY <1>1, <2>2
<1>3. /\ Len(u) = K + 1 /\ u[K + 1] = e
      /\ \A i \in 1..K : u[i] = v[i]
  <2> DEFINE T == ToSet(v) \cup {e}
  <2>1. v \in Seq(ToSet(v))
        BY DEF Listing
  <2>2. v \in Seq(T) /\ e \in T
        BY <2>1
  <2> HIDE DEF T
  <2> QED BY <1>1, <2>2
<1> HIDE DEF w, u
<1>4. ours = mine \cup {L + 1} /\ mine \subseteq 1..L
      BY <1>2
<1>5. Cardinality(mine) = K /\ \A i \in mine : q[i] = v[Cardinality({j \in mine : j <= i})]
      BY <1>1 DEF Keeps
<1> HIDE DEF mine, ours
<1>6. IsFiniteSet(mine) /\ L + 1 \notin mine
  <2>1. IsFiniteSet(1..L)
        BY <1>1, FS_Interval
  <2>2. IsFiniteSet(mine)
        BY <1>4, <2>1, FS_Subset
  <2> QED BY <1>1, <1>4, <2>2
<1>7. Cardinality(ours) = K + 1
      BY <1>4, <1>5, <1>6, FS_AddElement
<1>8. ASSUME NEW i \in ours PROVE w[i] = u[Cardinality({j \in ours : j <= i})]
  <2>1. CASE i = L + 1
    <3>1. {j \in ours : j <= i} = ours
      <4>1. \A j \in ours : j <= i
            BY <1>4, <2>1
      <4> QED BY <4>1
    <3> QED BY <1>2, <1>3, <1>7, <2>1, <3>1
  <2>2. CASE i \in mine
    <3> DEFINE M == {j \in mine : j <= i}
    <3>1. {j \in ours : j <= i} = M
          BY <1>4, <2>2
    <3>2. M \subseteq mine /\ i \in M
          BY <1>4, <2>2
    <3> HIDE DEF M
    <3>3. IsFiniteSet(M) /\ Cardinality(M) <= K /\ Cardinality(M) \in Nat
          BY <1>5, <1>6, <3>2, FS_Subset, FS_CardinalityType
    <3>4. Cardinality(M) # 0
          BY <3>2, <3>3, FS_EmptySet
    <3>5. u[Cardinality(M)] = v[Cardinality(M)]
          BY <1>3, <3>3, <3>4
    <3>6. q[i] = v[Cardinality(M)]
          BY <1>5, <2>2 DEF M
    <3>7. w[i] = q[i]
          BY <1>2, <1>4, <2>2
    <3> QED BY <3>1, <3>5, <3>6, <3>7
  <2> QED BY <1>4, <2>1, <2>2
<1> QED BY <1>3, <1>7, <1>8 DEF Keeps, ours, w, u

LEMMA KeepsOthers ==
    ASSUME NEW q, Listing(q), NEW v, NEW e, NEW r, Keeps(q, r, v), e.by # r
    PROVE  Keeps(Append(q, e), r, v)
<1> DEFINE w == Append(q, e)
<1>1. PICK L \in Nat : L = Len(q)
      BY DEF Listing
<1>2. /\ DOMAIN q = 1..L /\ DOMAIN w = 1..(L + 1) /\ w[L + 1] = e
      /\ \A i \in 1..L : w[i] = q[i]
  <2> DEFINE T == ToSet(q) \cup {e}
  <2>1. q \in Seq(ToSet(q))
        BY DEF Listing
  <2>2. q \in Seq(T) /\ e \in T
        BY <2>1
  <2> HIDE DEF T
  <2> QED BY <1>1, <2>2
<1> HIDE DEF w
<1>3. {i \in DOMAIN w : w[i].by = r} = {i \in DOMAIN q : q[i].by = r}
      BY <1>2
<1>4. \A i \in DOMAIN q : w[i] = q[i]
      BY <1>2
<1> QED BY <1>3, <1>4 DEF Keeps, w

\* A request records nothing before it has begun.
Unrecorded ==
    \A x \in Requests : req'[x].pc = "sent" => req[x].pc = "sent" /\ evidence'[x] = evidence[x]

LEMMA BeginTrace == ASSUME IInv, TraceInv, NEW r \in Requests, Begin(r) PROVE TraceInv'
<1> DEFINE new == [id |-> IdOf[r], events |-> <<>>]
<1>1. /\ OpenTrace(IdOf[r]) /\ begun' = Append(begun, r) /\ evidence' = evidence
      /\ req[r].pc = "sent" /\ req' = [req EXCEPT ![r].pc = "begun"]
      BY DEF Begin, At, Goes
<1>2. /\ Listing(traces') /\ OneEach(traces')
      /\ \A n \in DOMAIN traces' : IsTrace(traces'[n])
      /\ \E n \in DOMAIN traces' : traces'[n] = new /\ IdsAfter(traces', n) = {}
      /\ \A n \in DOMAIN traces :
            /\ traces[n].id # IdOf[r]
            /\ Cardinality(IdsAfter(traces, n) \cup {IdOf[r]}) < Capacity
            => \E m \in DOMAIN traces' :
                  /\ traces'[m] = traces[n]
                  /\ IdsAfter(traces', m) = IdsAfter(traces, n) \cup {IdOf[r]}
      BY <1>1, Opened
<1>11. begun \in Seq(Requests)
       BY DEF TraceInv
<1>12. PICK L \in Nat : L = Len(begun) /\ DOMAIN begun = 1..L
       BY <1>11
<1>3. /\ L = Len(begun) /\ DOMAIN begun = 1..L
      /\ begun' \in Seq(Requests) /\ Len(begun') = L + 1
      /\ DOMAIN begun' = 1..(L + 1) /\ begun'[L + 1] = r
      /\ \A i \in 1..L : begun'[i] = begun[i]
      BY <1>1, <1>11, <1>12
<1>4. \A x \in Requests : /\ Listing(evidence'[x])
                          /\ req'[x].pc = "sent" => evidence'[x] = <<>>
  <2>1. /\ req'[r].pc = "begun" /\ \A x \in Requests : x # r => req'[x] = req[x]
        BY <1>1 DEF IInv, ThreadInv, Keys
  <2> QED BY <1>1, <2>1 DEF TraceInv
<1>5. \A i \in 1..L : IdsSince(i)' = IdsSince(i) \cup {IdOf[r]}
  <2> SUFFICES ASSUME NEW i \in 1..L PROVE IdsSince(i)' = IdsSince(i) \cup {IdOf[r]}
      OBVIOUS
  <2>1. IdsSince(i)' = {IdOf[begun'[j]] : j \in (i + 1)..(L + 1)}
        BY <1>3 DEF IdsSince
  <2>2. IdsSince(i) = {IdOf[begun[j]] : j \in (i + 1)..L}
        BY <1>3 DEF IdsSince
  <2>3. \A j \in (i + 1)..L : j \in (i + 1)..(L + 1) /\ begun'[j] = begun[j]
        BY <1>3
  <2>4. L + 1 \in (i + 1)..(L + 1)
        OBVIOUS
  <2>5. \A j \in (i + 1)..(L + 1) : j \in (i + 1)..L \/ j = L + 1
        OBVIOUS
  <2> QED BY <1>3, <2>1, <2>2, <2>3, <2>4, <2>5
<1>6. IdsSince(L + 1)' = {}
      BY <1>3 DEF IdsSince
<1>7. ASSUME NEW i \in 1..L, IdOf[begun'[i]] \notin IdsSince(i)',
             Cardinality(IdsSince(i)') < Capacity
      PROVE  \E m \in DOMAIN traces' : KeptAt(i, m)'
  <2>1. IsFiniteSet(IdsSince(i))
    <3>1. IsFiniteSet((i + 1)..L)
          BY FS_Interval
    <3> DEFINE f == [j \in (i + 1)..L |-> IdOf[begun[j]]]
    <3>2. f \in Surjection((i + 1)..L, IdsSince(i))
          BY <1>3 DEF Surjection, IdsSince
    <3> HIDE DEF f
    <3> QED BY <3>1, <3>2, FS_Surjection
  <2>2. IdsSince(i)' = IdsSince(i) \cup {IdOf[r]} /\ begun'[i] = begun[i]
        BY <1>3, <1>5
  <2>3. Cardinality(IdsSince(i)) < Capacity
    <3>1. IsFiniteSet(IdsSince(i)') /\ Cardinality(IdsSince(i)') \in Nat
          /\ Cardinality(IdsSince(i)) \in Nat
          BY <2>1, <2>2, FS_AddElement, FS_CardinalityType
    <3>2. Cardinality(IdsSince(i)) <= Cardinality(IdsSince(i)')
          BY <2>2, <3>1, FS_Subset
    <3> QED BY <1>7, <3>1, <3>2, RequestsAssumption
  <2>4. IdOf[begun[i]] \notin IdsSince(i) /\ IdOf[begun[i]] # IdOf[r] /\ i \in DOMAIN begun
        BY <1>3, <1>7, <2>2
  <2>5. PICK n \in DOMAIN traces : KeptAt(i, n)
        BY <2>3, <2>4 DEF TraceInv
  <2>6. traces[n].id = IdOf[begun[i]] /\ IdsAfter(traces, n) = IdsSince(i)
        BY <2>5 DEF KeptAt
  <2>7. PICK m \in DOMAIN traces' : /\ traces'[m] = traces[n]
                                    /\ IdsAfter(traces', m) = IdsSince(i)'
        BY <1>2, <1>7, <2>2, <2>4, <2>6
  <2>8. Keeps(traces'[m].events, begun'[i], evidence'[begun'[i]])
        BY <1>1, <2>2, <2>5, <2>7 DEF KeptAt
  <2> QED BY <2>2, <2>6, <2>7, <2>8 DEF KeptAt
<1>8. \E m \in DOMAIN traces' : KeptAt(L + 1, m)'
  <2>1. PICK m \in DOMAIN traces' : traces'[m] = new /\ IdsAfter(traces', m) = {}
        BY <1>2
  <2>2. evidence'[r] = <<>> /\ traces'[m].events = <<>> /\ traces'[m].id = IdOf[r]
        BY <1>1, <2>1 DEF TraceInv
  <2>3. Keeps(<<>>, r, <<>>)
        BY FS_EmptySet DEF Keeps
  <2> QED BY <1>3, <1>6, <2>1, <2>2, <2>3 DEF KeptAt
<1>9. ASSUME NEW i \in DOMAIN begun', IdOf[begun'[i]] \notin IdsSince(i)',
             Cardinality(IdsSince(i)') < Capacity
      PROVE  \E m \in DOMAIN traces' : KeptAt(i, m)'
      BY <1>3, <1>7, <1>8, <1>9
<1>10. DOMAIN evidence' = Requests
       BY <1>1 DEF TraceInv
<1> QED BY <1>2, <1>3, <1>4, <1>9, <1>10 DEF TraceInv

LEMMA QuietTrace == ASSUME TraceInv, Unrecorded, UNCHANGED traceVars PROVE TraceInv'
<1>1. traces' = traces /\ begun' = begun /\ evidence' = evidence
      BY DEF traceVars
<1>2. \A i, n : KeptAt(i, n)' <=> KeptAt(i, n)
      BY <1>1 DEF KeptAt, IdsSince
<1>3. \A i : IdsSince(i)' = IdsSince(i)
      BY <1>1 DEF IdsSince
<1>4. \A i \in DOMAIN begun' :
         IdOf[begun'[i]] \notin IdsSince(i)' /\ Cardinality(IdsSince(i)') < Capacity =>
             \E n \in DOMAIN traces' : KeptAt(i, n)'
      BY <1>1, <1>2, <1>3 DEF TraceInv
<1> QED BY <1>1, <1>4 DEF TraceInv, Unrecorded

LEMMA RecordTrace ==
    ASSUME TraceInv, Unrecorded, NEW r \in Requests, NEW e, e.by = r, RecordEvent(r, e)
    PROVE  TraceInv'
<1>1. /\ evidence' = [evidence EXCEPT ![r] = Append(@, e)] /\ begun' = begun
      /\ traces' = [i \in DOMAIN traces |->
                       IF traces[i].id = IdOf[r]
                       THEN [traces[i] EXCEPT !.events = Append(@, e)]
                       ELSE traces[i]]
      BY DEF RecordEvent
<1>2. /\ DOMAIN evidence' = Requests /\ evidence'[r] = Append(evidence[r], e)
      /\ \A x \in Requests : x # r => evidence'[x] = evidence[x]
      BY <1>1 DEF TraceInv
<1>3. \A v : Listing(v) => Listing(Append(v, e))
  <2> SUFFICES ASSUME NEW v, Listing(v) PROVE Listing(Append(v, e))
      OBVIOUS
  <2> DEFINE T == ToSet(v) \cup {e}
  <2>1. v \in Seq(ToSet(v))
        BY DEF Listing
  <2>2. v \in Seq(T) /\ e \in T
        BY <2>1
  <2> HIDE DEF T
  <2>3. Append(v, e) \in Seq(T)
        BY <2>2
  <2> QED BY <2>3, Lists
<1>4. ASSUME NEW n \in DOMAIN traces
      PROVE  /\ n \in DOMAIN traces' /\ traces'[n].id = traces[n].id /\ IsTrace(traces'[n])
             /\ \/ /\ traces[n].id = IdOf[r]
                   /\ traces'[n].events = Append(traces[n].events, e)
                \/ traces[n].id # IdOf[r] /\ traces'[n].events = traces[n].events
  <2>1. traces[n] = [id |-> traces[n].id, events |-> traces[n].events]
        /\ Listing(traces[n].events)
        BY DEF TraceInv, IsTrace
  <2>2. CASE traces[n].id = IdOf[r]
    <3>1. traces'[n] = [traces[n] EXCEPT !.events = Append(@, e)]
          BY <1>1, <2>2
    <3>2. PICK i, q : traces[n] = [id |-> i, events |-> q] /\ Listing(q)
          BY <2>1
    <3>3. traces'[n] = [id |-> i, events |-> Append(q, e)]
      <4>1. [[id |-> i, events |-> q] EXCEPT !.events = Append(@, e)] =
                [id |-> i, events |-> Append(q, e)]
            OBVIOUS
      <4> QED BY <3>1, <3>2, <4>1
    <3> QED BY <1>1, <1>3, <2>2, <3>2, <3>3 DEF IsTrace
  <2>3. CASE traces[n].id # IdOf[r]
    <3>1. traces'[n] = traces[n]
          BY <1>1, <2>3
    <3> QED BY <1>1, <2>1, <2>3, <3>1 DEF IsTrace
  <2> QED BY <2>2, <2>3
<1>5. DOMAIN traces' = DOMAIN traces
      BY <1>1
<1>6. Listing(traces') /\ Len(traces') = Len(traces)
  <2>4. traces \in Seq(ToSet(traces))
        BY DEF TraceInv, Listing
  <2>1. PICK L \in Nat : L = Len(traces) /\ DOMAIN traces = 1..L
        BY <2>4
  <2> DEFINE T == {traces'[n] : n \in 1..L}
  <2>2. traces' \in [1..L -> T]
        BY <1>1, <2>1
  <2> HIDE DEF T
  <2>3. traces' \in Seq(T) /\ Len(traces') = L
        BY <2>2
  <2> QED BY <2>1, <2>3, Lists
<1>7. OneEach(traces')
      BY <1>4, <1>5 DEF TraceInv, OneEach
<1>8. \A n \in DOMAIN traces : IdsAfter(traces', n) = IdsAfter(traces, n)
  <2> SUFFICES ASSUME NEW n \in DOMAIN traces PROVE IdsAfter(traces', n) = IdsAfter(traces, n)
      OBVIOUS
  <2>1. \A m \in (n + 1)..Len(traces) : m \in DOMAIN traces
        BY DEF TraceInv, Listing
  <2> QED BY <1>4, <1>6, <2>1 DEF IdsAfter
<1>9. \A i \in DOMAIN begun : IdsSince(i)' = IdsSince(i)
      BY <1>1 DEF IdsSince
<1>10. ASSUME NEW i \in DOMAIN begun, NEW n \in DOMAIN traces, KeptAt(i, n)
       PROVE  KeptAt(i, n)'
  <2>1. PICK x \in Requests :
           /\ x = begun[i] /\ traces[n].id = IdOf[x] /\ IdsAfter(traces, n) = IdsSince(i)
           /\ Keeps(traces[n].events, x, evidence[x])
    <3>1. begun \in Seq(Requests)
          BY DEF TraceInv
    <3> QED BY <1>10, <3>1 DEF KeptAt
  <2>2. PICK q, v : q = traces[n].events /\ v = evidence[x] /\ Listing(q) /\ Listing(v)
        BY DEF TraceInv, IsTrace
  <2>3. Keeps(traces'[n].events, x, evidence'[x])
    <3>1. CASE x = r
      <4>1. traces'[n].events = Append(q, e) /\ evidence'[x] = Append(v, e)
            BY <1>2, <1>4, <2>1, <2>2, <3>1
      <4> QED BY <2>1, <2>2, <3>1, <4>1, KeepsMine
    <3>2. CASE x # r
      <4>1. evidence'[x] = v
            BY <1>2, <2>2, <3>2
      <4>2. traces'[n].events = q \/ traces'[n].events = Append(q, e)
            BY <1>4, <2>2
      <4> QED BY <2>1, <2>2, <3>2, <4>1, <4>2, KeepsOthers
    <3> QED BY <3>1, <3>2
  <2> QED BY <1>1, <1>4, <1>8, <1>9, <2>1, <2>3 DEF KeptAt
<1>11. \A y \in Requests : /\ Listing(evidence'[y])
                           /\ req'[y].pc = "sent" => evidence'[y] = <<>>
  <2>1. \A y \in Requests : Listing(evidence'[y])
        BY <1>2, <1>3 DEF TraceInv
  <2> QED BY <2>1 DEF TraceInv, Unrecorded
<1>12. ASSUME NEW i \in DOMAIN begun', IdOf[begun'[i]] \notin IdsSince(i)',
              Cardinality(IdsSince(i)') < Capacity
       PROVE  \E n \in DOMAIN traces' : KeptAt(i, n)'
  <2>1. PICK n \in DOMAIN traces : KeptAt(i, n)
        BY <1>1, <1>9, <1>12 DEF TraceInv
  <2> QED BY <1>1, <1>5, <1>10, <2>1
<1>13. begun' \in Seq(Requests) /\ \A n \in DOMAIN traces' : IsTrace(traces'[n])
       BY <1>1, <1>4, <1>5 DEF TraceInv
<1> QED BY <1>2, <1>6, <1>7, <1>11, <1>12, <1>13 DEF TraceInv

\* Any other step of a thread than its first records at most one event, its own.
LEMMA ThreadRecords ==
    ASSUME IInv, TraceInv, NEW r \in Requests, Handle(r), ~Begin(r)
    PROVE  /\ Unrecorded
           /\ UNCHANGED traceVars \/ \E e : e.by = r /\ RecordEvent(r, e)
<1>1. req'[r].pc # "sent" /\ \A x \in Requests : x # r => req'[x] = req[x]
  <2>1. DOMAIN req[r] = Keys /\ DOMAIN req = Requests
        BY DEF IInv, ThreadInv
  <2>2. ASSUME NEW pc, Goes(r, pc), pc # "sent"
        PROVE  req'[r].pc # "sent" /\ \A x \in Requests : x # r => req'[x] = req[x]
        BY <2>1, <2>2 DEF Goes, Keys
  <2>3. ASSUME NEW reply, NEW code, Ends(r, reply, code)
        PROVE  req'[r].pc # "sent" /\ \A x \in Requests : x # r => req'[x] = req[x]
        BY <2>1, <2>3 DEF Ends, Keys
  <2>4. CASE Start(r) \/ RecordRoute(r) \/ End(r)
        BY <2>2, <2>4 DEF Start, RecordRoute, End
  <2>5. CASE \/ RejectMalformed(r) \/ RefuseCommand(r) \/ RejectToken(r) \/ ExpireToken(r)
             \/ RejectSnapshot(r) \/ FailMapping(r) \/ ReportFailure(r) \/ AnswerDecision(r)
             \/ AskConfirmation(r)
        BY <2>3, <2>5 DEF RejectMalformed, RefuseCommand, RejectToken, ExpireToken,
              RejectSnapshot, FailMapping, ReportFailure, AnswerDecision, AskConfirmation, Errs
  <2>6. CASE MapTool(r)
        BY <2>1, <2>6 DEF MapTool, Keys
  <2>7. CASE ConsumeToken(r)
        BY <2>1, <2>7 DEF ConsumeToken, Keys
  <2>8. CASE AskMonitor(r)
        BY <2>1, <2>8 DEF AskMonitor, Keys
  <2>9. CASE ReadSnapshot(r)
        BY <2>1, <2>9 DEF ReadSnapshot, Keys
  <2>10. CASE Judge(r)
        BY <2>1, <2>10 DEF Judge, Keys
  <2> QED BY <2>4, <2>5, <2>6, <2>7, <2>8, <2>9, <2>10 DEF Handle
<1>2. UNCHANGED traceVars \/ \E e : e.by = r /\ RecordEvent(r, e)
  <2>1. \A type, d, v : Event(r, type, d, v).by = r
        BY DEF Event
  <2>2. \A type : Record(r, type) => \E e : e.by = r /\ RecordEvent(r, e)
        BY <2>1 DEF Record
  <2>3. CASE Start(r) \/ RecordRoute(r) \/ End(r) \/ MapTool(r) \/ FailMapping(r)
        BY <2>2, <2>3 DEF Start, RecordRoute, End, MapTool, FailMapping
  <2>4. CASE \/ RejectMalformed(r) \/ RefuseCommand(r) \/ RejectToken(r) \/ ExpireToken(r)
             \/ RejectSnapshot(r) \/ ReportFailure(r) \/ AnswerDecision(r) \/ ConsumeToken(r)
             \/ AskMonitor(r) \/ ReadSnapshot(r)
        BY <2>4 DEF RejectMalformed, RefuseCommand, RejectToken, ExpireToken, RejectSnapshot,
              ReportFailure, AnswerDecision, ConsumeToken, AskMonitor, ReadSnapshot
  <2>5. CASE Judge(r) \/ AskConfirmation(r)
        BY <2>1, <2>5 DEF Judge, AskConfirmation
  <2> QED BY <2>3, <2>4, <2>5 DEF Handle
<1>3. ASSUME NEW x \in Requests, req'[x].pc = "sent"
      PROVE  req[x].pc = "sent" /\ evidence'[x] = evidence[x]
  <2>1. x # r /\ req'[x] = req[x]
        BY <1>1, <1>3
  <2> QED BY <1>2, <1>3, <2>1 DEF RecordEvent, traceVars, TraceInv
<1> QED BY <1>2, <1>3 DEF Unrecorded

LEMMA TraceNext == IInv /\ TraceInv /\ [Next]_vars => TraceInv'
<1> SUFFICES ASSUME IInv, TraceInv, [Next]_vars PROVE TraceInv'
    OBVIOUS
<1>1. ASSUME NEW r \in Requests, Handle(r) PROVE TraceInv'
      BY <1>1, BeginTrace, ThreadRecords, RecordTrace, QuietTrace
<1>2. CASE (\E c \in scene.changes : ChangeVehicle(c)) \/ UNCHANGED vars
  <2>1. UNCHANGED traceVars /\ req' = req
        BY <1>2 DEF ChangeVehicle, vars
  <2>2. Unrecorded
        BY <2>1 DEF Unrecorded, traceVars
  <2> QED BY <2>1, <2>2, QuietTrace
<1> QED BY <1>1, <1>2 DEF Next

\* TraceRecorder keeps a request with all that it recorded, in order, until its
\* id is used again or as many other ids as the recorder has room for have begun.
THEOREM LastRequests == Spec => []LastRequestsKept
<1>1. Init => TraceInv
  <2> SUFFICES ASSUME Init PROVE TraceInv
      OBVIOUS
  <2>1. traces = <<>> /\ begun = <<>> /\ evidence = [r \in Requests |-> <<>>]
        BY DEF Init
  <2>2. Listing(<<>>) /\ OneEach(<<>>) /\ <<>> \in Seq(Requests)
    <3>1. <<>> \in Seq({})
          OBVIOUS
    <3>2. Listing(<<>>)
          BY <3>1, Lists
    <3> QED BY <3>2 DEF OneEach
  <2> QED BY <2>1, <2>2 DEF TraceInv
<1>2. Spec => []TraceInv
      BY <1>1, Inductive, TraceNext, PTL DEF Spec
<1>3. TraceInv => LastRequestsKept
  <2> SUFFICES ASSUME TraceInv, NEW i \in DOMAIN begun, IdOf[begun[i]] \notin IdsSince(i),
                      Cardinality(IdsSince(i)) < Capacity
               PROVE  \E t \in ToSet(traces) :
                         t.id = IdOf[begun[i]] /\ KeepsAllOf(t.events, begun[i])
      BY DEF LastRequestsKept
  <2>1. PICK n \in DOMAIN traces : KeptAt(i, n)
        BY DEF TraceInv
  <2>2. traces[n] \in ToSet(traces)
        BY DEF ToSet
  <2> QED BY <2>1, <2>2 DEF KeptAt, Keeps, KeepsAllOf
<1> QED BY <1>2, <1>3, PTL
=============================================================================
