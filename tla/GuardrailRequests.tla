--------------------------- MODULE GuardrailRequests ---------------------------
(***************************************************************************)
(* Every request to the guardrail at work: GuardrailService.handle         *)
(* (service/app.py) with its four routes, the tool mapping, the state      *)
(* store, the policy engine and the request trace (service/trace.py).      *)
(* http.py gives each request a thread; the store and the recorder have a  *)
(* lock each, held for one step. What GuardrailService shows of tokens and *)
(* permits is here only as far as the policy needs it: the rules, the      *)
(* parameters and the snapshot behind each answer, and its evidence.       *)
(***************************************************************************)
EXTENDS PolicyEngine, ToolMapping, FiniteSets, SequencesExt

CONSTANTS
    Requests,
    Route,          \* "action", "query", "confirm" or "monitor"
    IdOf,           \* the request_id (or proposal_id); need not be unique
    SessionOf,
    Malformed,      \* requests that end in a wire error after the dispatch
    Calls,          \* the tool calls an action or query may carry
    TokenOf,        \* the request whose confirmation a confirm is about
    Monitors,       \* what a monitor request may ask: an intent, and the
                    \* snapshot the agent supplies, or None
    Scenes,         \* the requests that occur together, the states the store
                    \* may be created with, the field overrides mutate() and
                    \* apply_preset() may be called with, and a bound: the last
                    \* state version
    Capacity        \* of the trace recorder

VARIABLES
    scene,          \* of this behaviour: never changes
    vehicle,        \* VehicleStateStore._state
    version,        \* VehicleStateStore._version
    req,            \* the local state of each request's thread
    tokens,         \* PendingConfirmationStore: who created it -> its record
    traces,         \* TraceRecorder._traces, oldest first
    evidence,       \* the sink: what each request recorded
    snapshots,      \* history: the state of each version
    begun           \* history: the requests in the order they began

storeVars == <<scene, vehicle, version, snapshots>>
traceVars == <<traces, evidence, begun>>
vars == <<storeVars, req, tokens, traceVars>>

\* validate_wire_vehicle_state: no unknown field, no null where a value must be.
NullableFields == {"rain_sensor", "avh", "battery_pct", "door_lock_state"}
WireTyped(raw) ==
    /\ DOMAIN raw \subseteq DOMAIN StateDefaults \cup RequestParams
    /\ \A f \in DOMAIN raw \ NullableFields : raw[f] # None

\* A state with some of its fields replaced: a key that is no field of it, as
\* a request parameter, is dropped.
Onto(state, fields) ==
    [f \in DOMAIN state |-> IF f \in DOMAIN fields THEN fields[f] ELSE state[f]]

\* from_partial.
Completed(raw) == Onto(StateDefaults, raw)

ASSUME RequestsAssumption ==
    /\ Route \in [Requests -> {"action", "query", "confirm", "monitor"}]
    /\ \A s \in Scenes : /\ s.requests \subseteq Requests
                         /\ s.initial \subseteq VehicleStates
                         /\ \A c \in s.changes : Completed(c) \in VehicleStates
                         /\ s.last \in Nat \ {0}
    /\ \A r \in Requests : Route[r] = "confirm" => TokenOf[r] \in Requests
    /\ \A r \in Requests : \A m \in Monitors[r] :
          m.state # None /\ WireTyped(m.state) => Completed(m.state) \in VehicleStates
    /\ Capacity \in Nat \ {0}

(***************************************************************************)
(* TraceRecorder.                                                          *)
(***************************************************************************)
Newest(n, q) == SubSeq(q, IF Len(q) > n THEN Len(q) - n + 1 ELSE 1, Len(q))

OfOthers(id) ==
    LET at == {i \in DOMAIN traces : traces[i].id = id}
    IN IF at = {} THEN traces ELSE RemoveAt(traces, CHOOSE i \in at : TRUE)

\* Fault: a repeated id keeps its place in the order of eviction.
KeepPlace(id) ==
    LET at == {i \in DOMAIN traces : traces[i].id = id}
        new == [id |-> id, events |-> <<>>]
    IN traces' = IF at # {}
                 THEN [i \in DOMAIN traces |-> IF i \in at THEN new ELSE traces[i]]
                 ELSE Newest(Capacity, Append(traces, new))

\* A repeated id gets a new trace and becomes the newest; the oldest goes.
OpenTrace(id) ==
    traces' = Newest(Capacity, Append(OfOthers(id), [id |-> id, events |-> <<>>]))

Event(r, type, decision, v) ==
    [by |-> r, type |-> type, outcome |-> decision.outcome,
     rule |-> decision.rule, version |-> v]

\* An evicted trace takes no event; the sink takes every one.
RecordEvent(r, event) ==
    /\ evidence' = [evidence EXCEPT ![r] = Append(@, event)]
    /\ traces' = [i \in DOMAIN traces |->
                     IF traces[i].id = IdOf[r]
                     THEN [traces[i] EXCEPT !.events = Append(@, event)]
                     ELSE traces[i]]
    /\ UNCHANGED begun

Nothing == [outcome |-> None, rule |-> 0, reason |-> None]
Record(r, type) == RecordEvent(r, Event(r, type, Nothing, 0))

(***************************************************************************)
(* handle and _dispatch.                                                   *)
(***************************************************************************)
At(r, pc)   == req[r].pc = pc
Goes(r, pc) == req' = [req EXCEPT ![r].pc = pc]
Ends(r, reply, code) ==
    req' = [req EXCEPT ![r].pc = "ending", ![r].reply = reply, ![r].code = code]
Errs(r, code) == Ends(r, "ERROR", code)

Begin(r) ==
    /\ At(r, "sent")
    /\ OpenTrace(IdOf[r])
    /\ begun' = Append(begun, r)
    /\ Goes(r, "begun")
    /\ UNCHANGED <<storeVars, tokens, evidence>>

Start(r) ==
    /\ At(r, "begun")
    /\ Record(r, "guardrail_started")
    /\ Goes(r, "dispatched")
    /\ UNCHANGED <<storeVars, tokens>>

\* A wrong contract version, an unknown route, a missing or ill-typed field.
RejectMalformed(r) ==
    /\ At(r, "dispatched") /\ r \in Malformed
    /\ Errs(r, "WIRE_ERROR")
    /\ UNCHANGED <<storeVars, tokens, traceVars>>

WellFormed(r, routes) ==
    At(r, "dispatched") /\ r \notin Malformed /\ Route[r] \in routes

(***************************************************************************)
(* The tool mapping of the action and the query route: an exact row or an  *)
(* error.                                                                  *)
(***************************************************************************)
ReviewedTools == DOMAIN MappingRules \ {"control_vehicle_capability"}

Reviewed(call) ==
    IF call.tool \in ReviewedTools
    THEN {MappingRules[call.tool][k] :
             k \in {MappingKey(call.arguments)} \cap DOMAIN MappingRules[call.tool]}
    ELSE {}

QueryIntents ==
    {MappingRules.query_vehicle_state[k] :
        k \in DOMAIN MappingRules.query_vehicle_state} \cup {"explain_feature"}

\* request_params_for: only the knowledge base's answer, never an angle.
ParamsFor(intent, call) ==
    IF intent = "explain_feature"
    THEN [kb_has_feature |-> call.arguments.target \in Features]
    ELSE <<>>

MapTool(r) ==
    /\ WellFormed(r, {"action", "query"})
    /\ \E call \in Calls[r] : \E intent \in Reviewed(call) :
          /\ Route[r] = "query" => intent \in QueryIntents
          /\ req' = [req EXCEPT ![r].pc = "mapped", ![r].intent = intent,
                                ![r].params = ParamsFor(intent, call)]
    /\ Record(r, "tool_mapped")
    /\ UNCHANGED <<storeVars, tokens>>

FailMapping(r) ==
    /\ WellFormed(r, {"action", "query"})
    /\ \E call \in Calls[r] : Reviewed(call) = {}
    /\ Record(r, "mapping_failed")
    /\ Errs(r, "UNSUPPORTED_TOOL_MAPPING")
    /\ UNCHANGED <<storeVars, tokens>>

RefuseCommand(r) ==
    /\ WellFormed(r, {"query"})
    /\ \E call \in Calls[r] : \E intent \in Reviewed(call) : intent \notin QueryIntents
    /\ Errs(r, "NOT_A_QUERY_INTENT")
    /\ UNCHANGED <<storeVars, tokens, traceVars>>

(***************************************************************************)
(* _confirm takes the token, _monitor what it is asked.                    *)
(***************************************************************************)
NoToken(r) == TokenOf[r] \notin DOMAIN tokens
Stranger(r) == tokens[TokenOf[r]].session # SessionOf[r]
Without(f, k) == [x \in DOMAIN f \ {k} |-> f[x]]

RejectToken(r) ==
    /\ WellFormed(r, {"confirm"})
    /\ IF NoToken(r) THEN TRUE ELSE Stranger(r)
    /\ Errs(r, "CONFIRMATION_NOT_ACTIVE")
    /\ UNCHANGED <<storeVars, tokens, traceVars>>

\* Past its expiry the token is taken all the same.
ExpireToken(r) ==
    /\ WellFormed(r, {"confirm"})
    /\ ~NoToken(r) /\ ~Stranger(r)
    /\ tokens' = Without(tokens, TokenOf[r])
    /\ Errs(r, "CONFIRMATION_NOT_ACTIVE")
    /\ UNCHANGED <<storeVars, traceVars>>

ConsumeToken(r) ==
    /\ WellFormed(r, {"confirm"})
    /\ ~NoToken(r) /\ ~Stranger(r)
    /\ tokens' = Without(tokens, TokenOf[r])
    /\ req' = [req EXCEPT ![r].pc = "mapped",
                          ![r].intent = tokens[TokenOf[r]].intent,
                          ![r].confirmed = tokens[TokenOf[r]].rule]
    /\ UNCHANGED <<storeVars, traceVars>>

\* A snapshot the agent supplies is completed onto the defaults, not onto the
\* store's state, and has no version.
AskMonitor(r) ==
    /\ WellFormed(r, {"monitor"})
    /\ \E m \in Monitors[r] :
       /\ m.state # None => WireTyped(m.state)
       /\ req' = IF m.state = None
                 THEN [req EXCEPT ![r].pc = "mapped", ![r].intent = m.intent]
                 ELSE [req EXCEPT ![r].pc = "read", ![r].intent = m.intent,
                                  ![r].state = Completed(m.state)]
    /\ UNCHANGED <<storeVars, tokens, traceVars>>

RejectSnapshot(r) ==
    /\ WellFormed(r, {"monitor"})
    /\ \E m \in Monitors[r] : m.state # None /\ ~WireTyped(m.state)
    /\ Errs(r, "INVALID_VEHICLE_STATE")
    /\ UNCHANGED <<storeVars, tokens, traceVars>>

(***************************************************************************)
(* One snapshot, one decision.                                             *)
(***************************************************************************)
ReadSnapshot(r) ==
    /\ At(r, "mapped")
    /\ req' = [req EXCEPT ![r].pc = "read", ![r].state = vehicle,
                          ![r].version = version]
    /\ UNCHANGED <<storeVars, tokens, traceVars>>

Mode(r) == IF Route[r] = "monitor" THEN "monitor" ELSE "gate"

\* Fault: the version is read when the decision is made.
CurrentVersion(r) == version

JudgedVersion(r) == req[r].version

Judge(r) ==
    LET d == Evaluate(req[r].intent, Mode(r), req[r].state, req[r].params)
    IN /\ At(r, "read")
       /\ RecordEvent(r, Event(r, "constraint_evaluated", d, JudgedVersion(r)))
       /\ req' = [req EXCEPT
             ![r].pc = IF Route[r] \in {"confirm", "monitor"} THEN "judged"
                                                              ELSE "concluding",
             ![r].decision = d, ![r].version = JudgedVersion(r),
             ![r].state = None]
       /\ UNCHANGED <<storeVars, tokens>>

\* confirmation_resolved, monitor_evaluated.
RecordRoute(r) ==
    /\ At(r, "judged")
    /\ Record(r, IF Route[r] = "confirm" THEN "confirmation_resolved"
                                         ELSE "monitor_evaluated")
    /\ Goes(r, "concluding")
    /\ UNCHANGED <<storeVars, tokens>>

(***************************************************************************)
(* The answer.                                                             *)
(***************************************************************************)
Outcome(r) == req[r].decision.outcome

ReportFailure(r) ==
    /\ At(r, "concluding") /\ FailClosed(req[r].decision)
    /\ Errs(r, IF req[r].decision.reason \in {"NO_RULE_FOR_PHASE",
                                              "INTENT_NOT_IN_CATALOG"}
                  /\ Route[r] = "monitor"
               THEN "NOT_A_MONITORED_INTENT" ELSE req[r].decision.reason)
    /\ UNCHANGED <<storeVars, tokens, traceVars>>

SameRule(r) ==
    /\ Route[r] = "confirm" /\ Outcome(r) = "CONFIRM"
    /\ req[r].decision.rule = req[r].confirmed

\* A monitor without a trigger, and a yes to the rule that asks: go on.
Reply(r) == IF SameRule(r) \/ Outcome(r) = None THEN "ALLOW" ELSE Outcome(r)

AnswerDecision(r) ==
    /\ At(r, "concluding") /\ ~FailClosed(req[r].decision)
    /\ Route[r] # "monitor" => Reply(r) # "CONFIRM"
    /\ Ends(r, Reply(r), None)
    /\ UNCHANGED <<storeVars, tokens, traceVars>>

AskConfirmation(r) ==
    /\ At(r, "concluding") /\ Route[r] # "monitor" /\ Reply(r) = "CONFIRM"
    /\ ~FailClosed(req[r].decision)
    /\ tokens' = [t \in DOMAIN tokens \cup {r} |->
                     IF t # r THEN tokens[t]
                     ELSE [intent |-> req[r].intent, rule |-> req[r].decision.rule,
                           session |-> SessionOf[IF Route[r] = "confirm"
                                                 THEN TokenOf[r] ELSE r]]]
    /\ RecordEvent(r, Event(r, "confirmation_requested", req[r].decision, 0))
    /\ Ends(r, "CONFIRM", None)
    /\ UNCHANGED storeVars

\* trace.end, then the response.
End(r) ==
    /\ At(r, "ending")
    /\ Record(r, IF req[r].reply = "ERROR" THEN "guardrail_error"
                                           ELSE "guardrail_completed")
    /\ Goes(r, "answered")
    /\ UNCHANGED <<storeVars, tokens>>

\* mutate and apply_preset: the new snapshot and its version at once.
ChangeVehicle(overrides) ==
    /\ version < scene.last
    /\ vehicle' = Onto(vehicle, overrides)
    /\ version' = version + 1
    /\ snapshots' = Append(snapshots, vehicle')
    /\ UNCHANGED <<scene, req, tokens, traceVars>>

Idle(r) ==
    [pc |-> "sent", intent |-> None, params |-> <<>>, confirmed |-> 0,
     state |-> None, version |-> 0, decision |-> Nothing, reply |-> None,
     code |-> None]

Init ==
    /\ scene \in Scenes
    /\ vehicle \in scene.initial
    /\ version = 1
    /\ snapshots = <<vehicle>>
    /\ tokens = <<>>
    /\ traces = <<>>
    /\ begun = <<>>
    /\ evidence = [r \in Requests |-> <<>>]
    /\ req = [r \in Requests |->
                 IF r \in scene.requests THEN Idle(r)
                                        ELSE [Idle(r) EXCEPT !.pc = "absent"]]

Handle(r) ==
    \/ Begin(r) \/ Start(r) \/ RejectMalformed(r)
    \/ MapTool(r) \/ FailMapping(r) \/ RefuseCommand(r)
    \/ RejectToken(r) \/ ExpireToken(r) \/ ConsumeToken(r) \/ AskMonitor(r)
    \/ RejectSnapshot(r)
    \/ ReadSnapshot(r) \/ Judge(r) \/ RecordRoute(r)
    \/ ReportFailure(r) \/ AnswerDecision(r) \/ AskConfirmation(r) \/ End(r)

Next ==
    \/ \E r \in Requests : Handle(r)
    \/ \E c \in scene.changes : ChangeVehicle(c)

Spec == Init /\ [][Next]_vars

(***************************************************************************)
(* Properties.                                                             *)
(***************************************************************************)
Answered(r) == req[r].pc \in {"ending", "answered"} /\ req[r].reply # None
Permitted(r) == Answered(r) /\ Route[r] # "monitor" /\ req[r].reply = "ALLOW"
Then(r)      == snapshots[req[r].version]

\* A permit for such an intent, asked for or confirmed, rests on a version of
\* the vehicle, current during the request, in which the car stood still; and
\* one for a special mode on one in which no special mode was on.
PermitsAreSafe ==
    \A r \in Requests : Permitted(r) =>
        /\ req[r].version \in 1..version
        /\ req[r].intent \in AtRestIntents => Then(r).speed = 0
        /\ req[r].intent \in SpecialModes => ~AnyMode(Then(r))

\* What the guardrail allows to start, its own monitor would not stop on the
\* same snapshot, the highway assist aside: no gate rule looks at the hands.
AllowedMayRun ==
    \A r \in Requests : Permitted(r) /\ req[r].intent \in MonitoredIntents =>
        \/ Evaluate(req[r].intent, "monitor", Then(r), <<>>).outcome
              \in {None, "ALLOW"}
        \/ /\ req[r].intent = "activate_hda"
           /\ Then(r).hand_off_wheel_duration_seconds > 15

\* The policy decides every request it maps, but for what Excused names: it is
\* never ambiguous, and no snapshot and no other request is left without an
\* outcome.
DecidesButFor ==
    \A r \in Requests :
        Answered(r) /\ req[r].decision # Nothing /\ FailClosed(req[r].decision) =>
            Excused(req[r].intent, Mode(r), req[r].decision.reason)

\* The evidence of an answer names the version it was decided on: the decision
\* on record is the policy's for that version's state, however often the
\* state changed meanwhile.
EvidenceHolds ==
    \A r \in Requests : \A i \in DOMAIN evidence[r] :
        LET e == evidence[r][i] IN
        e.type = "constraint_evaluated" /\ e.version > 0 =>
            LET d == Evaluate(req[r].intent, Mode(r), snapshots[e.version],
                              req[r].params)
            IN d.outcome = e.outcome /\ d.rule = e.rule

\* The events that r recorded are in the trace q all and in their order.
KeepsAllOf(q, r) ==
    LET mine == {i \in DOMAIN q : q[i].by = r}
    IN /\ Cardinality(mine) = Len(evidence[r])
       /\ \A i \in mine : q[i] = evidence[r][Cardinality({j \in mine : j <= i})]

\* The ids begun after the i-th request.
IdsSince(i) == {IdOf[begun[j]] : j \in (i + 1)..Len(begun)}

\* "last capacity requests": a request is kept, with all it recorded, until
\* its id is used again or Capacity other ids have begun since.
LastRequestsKept ==
    \A i \in DOMAIN begun :
        IdOf[begun[i]] \notin IdsSince(i) /\ Cardinality(IdsSince(i)) < Capacity =>
            \E t \in ToSet(traces) :
               t.id = IdOf[begun[i]] /\ KeepsAllOf(t.events, begun[i])
=============================================================================
