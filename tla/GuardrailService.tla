---------------------------- MODULE GuardrailService ----------------------------
(***************************************************************************)
(* The guardrail's decision service (guardrail/service/app.py) with its    *)
(* pending-confirmation store, its versioned vehicle-state store and its   *)
(* registry of monitored actions.  Every HTTP request runs on a thread of  *)
(* its own, so a request is a sequence of steps between which other        *)
(* requests, and changes of the vehicle state, interleave.                 *)
(*                                                                         *)
(* The policy engine is a pure function of the snapshot: the constant      *)
(* Policy.                                                                 *)
(***************************************************************************)
EXTENDS Authority

CONSTANTS
    VehicleStates,  \* snapshots of the vehicle, as far as policy tells them apart
    Policy,         \* Policy[v][p]: the gate verdict on proposal p in snapshot v
    StopsIn,        \* StopsIn[v]: monitored proposals the monitor rules stop in v
    Rules,          \* rules that can demand a confirmation
    Monitored,      \* proposals whose intent is in MONITORED_INTENTS
    ActionIds,      \* ids the agent gives the actions it starts
    ActionId,       \* the active_action_id of each monitored proposal's action
    MaxVersion      \* bound: the vehicle changes this many times at most

VARIABLES
    vehicle,     \* VehicleStateStore._state
    version,     \* VehicleStateStore._version
    token,       \* the record each call's CONFIRM created, or None
    pending,     \* PendingConfirmationStore._pending: ids of unconsumed tokens
    consumed,    \* PendingConfirmationStore._consumed
    req,         \* the HTTP request of each call
    registered   \* ActiveActionRegistry._actions: ids

gvars == <<vehicle, version, token, pending, consumed, req, registered>>

Verdict == [outcome : {"ALLOW", "BLOCK", "FAIL_CLOSED"}, rule : {None}]
             \cup [outcome : {"CONFIRM"}, rule : Rules]

ASSUME GuardrailAssumption ==
    /\ Policy \in [VehicleStates -> [Turns -> Verdict]]
    /\ StopsIn \in [VehicleStates -> SUBSET Monitored]
    /\ Monitored \subseteq Turns
    /\ ActionId \in [Monitored -> ActionIds]
    /\ None \notin Rules
    /\ MaxVersion \in Nat

Token == [proposal : Turns, session : Sessions, rule : Rules, expires : Nat]

Request ==
    [phase   : {"idle", "received", "consumed", "evaluated", "answered"},
     token   : Calls \cup {None},       \* the confirmation_id of an attempt
     session : Sessions \cup {None},
     moment  : Nat,                     \* when the token was taken
     since   : Nat,                     \* the state version at that moment
     verdict : Verdict \cup {None},
     version : Nat,                     \* the version of the snapshot evaluated
     reply   : {None, "ALLOW", "CONFIRM", "BLOCK", "ERROR"}]

NoRequest ==
    [phase |-> "idle", token |-> None, session |-> None, moment |-> 0,
     since |-> 0, verdict |-> None, version |-> 0, reply |-> None]

GuardrailTypeOK ==
    /\ PermitTypeOK
    /\ vehicle \in VehicleStates
    /\ version \in Nat
    /\ token \in [Calls -> Token \cup {None}]
    /\ pending \subseteq Calls
    /\ consumed \subseteq Calls
    /\ req \in [Calls -> Request]
    /\ registered \subseteq Turns \cup ActionIds

GuardrailInit ==
    /\ now = 0
    /\ permit = [c \in Calls |-> None]
    /\ vehicle \in VehicleStates
    /\ version = 1
    /\ token = [c \in Calls |-> None]
    /\ pending = {}
    /\ consumed = {}
    /\ req = [c \in Calls |-> NoRequest]
    /\ registered = {}
-----------------------------------------------------------------------------
\* Requests arrive.

ReceiveProposal(t) ==
    /\ req[t].phase = "idle"
    /\ req' = [req EXCEPT ![t] = [@ EXCEPT !.phase = "received", !.session = SessionOf[t]]]
    /\ UNCHANGED <<now, permit, vehicle, version, token, pending, consumed,
                   registered>>

ReceiveConfirm(a, k, s) ==
    /\ req[a].phase = "idle"
    /\ req' = [req EXCEPT ![a] = [@ EXCEPT !.phase = "received", !.token = k, !.session = s]]
    /\ UNCHANGED <<now, permit, vehicle, version, token, pending, consumed,
                   registered>>
-----------------------------------------------------------------------------
\* PendingConfirmationStore.consume: one critical section, four ways out.

Answer(c, reply) ==
    req' = [req EXCEPT ![c] = [@ EXCEPT !.phase = "answered", !.reply = reply]]

\* Fault: the session check is left out.
AnyoneOwns(a) == TRUE

Owns(a) == token[req[a].token].session = req[a].session

\* Fault: the token is looked up but not popped.
LeaveToken(k) ==
    /\ consumed' = consumed \cup {k}
    /\ UNCHANGED pending

TakeToken(k) ==
    /\ pending' = pending \ {k}
    /\ consumed' = consumed \cup {k}

\* An unknown or replayed token (409), or a token of another session (403),
\* which stays pending for its owner.
RejectToken(a) ==
    LET k == req[a].token
    IN  /\ req[a].phase = "received"
        /\ k \in pending => ~Owns(a)
        /\ Answer(a, "ERROR")
        /\ UNCHANGED <<now, permit, vehicle, version, token, pending, consumed,
                       registered>>

\* The token is taken; past its expiry it is spent all the same.
ConsumeToken(a) ==
    LET k == req[a].token
    IN  /\ req[a].phase = "received"
        /\ k \in pending
        /\ Owns(a)
        /\ TakeToken(k)
        /\ IF now > token[k].expires
             THEN Answer(a, "ERROR")
             ELSE req' = [req EXCEPT ![a] = [@ EXCEPT !.phase = "consumed",
                                                      !.moment = now, !.since = version]]
        /\ UNCHANGED <<now, permit, vehicle, version, token, registered>>
-----------------------------------------------------------------------------
\* The proposal a call is about: an attempt inherits that of its token.
ProposalOf(c) == IF c \in Turns THEN c ELSE token[req[c].token].proposal

\* Fault: an attempt is judged on the snapshot that raised its token.
StaleEvaluation(c) ==
    IF c \in Turns
      THEN [verdict |-> Policy[vehicle][c], version |-> version]
      ELSE [verdict |-> req[req[c].token].verdict, version |-> req[req[c].token].version]

\* store.snapshot() and the engine's verdict on it.
Evaluation(c) == [verdict |-> Policy[vehicle][ProposalOf(c)], version |-> version]

EvaluateSnapshot(c) ==
    /\ req[c].phase = (IF c \in Turns THEN "received" ELSE "consumed")
    /\ req' = [req EXCEPT ![c] = [@ EXCEPT !.phase = "evaluated",
                                           !.verdict = Evaluation(c).verdict,
                                           !.version = Evaluation(c).version]]
    /\ UNCHANGED <<now, permit, vehicle, version, token, pending, consumed,
                   registered>>

\* A confirmed proposal passes on ALLOW, and on a CONFIRM by the very rule
\* the driver has just confirmed.
Granted(c) ==
    \/ req[c].verdict.outcome = "ALLOW"
    \/ /\ c \in Attempts
       /\ req[c].verdict.outcome = "CONFIRM"
       /\ req[c].verdict.rule = token[req[c].token].rule

IssuePermit(c) ==
    LET p == ProposalOf(c)
    IN  /\ req[c].phase = "evaluated"
        /\ Granted(c)
        /\ permit' = [permit EXCEPT ![c] = NewPermit(p, req[c].version)]
        /\ registered' = registered \cup ({p} \cap Monitored)
        /\ Answer(c, "ALLOW")
        /\ UNCHANGED <<now, vehicle, version, token, pending, consumed>>

\* confirmations.create: a turn's first token, or the fresh token of an
\* attempt that met a different confirmation rule.
AskConfirmation(c) ==
    LET p == ProposalOf(c)
    IN  /\ req[c].phase = "evaluated"
        /\ req[c].verdict.outcome = "CONFIRM"
        /\ ~Granted(c)
        /\ token' = [token EXCEPT ![c] =
                       [proposal |-> p, session |-> SessionOf[p],
                        rule |-> req[c].verdict.rule, expires |-> now + ConfirmTTL]]
        /\ pending' = pending \cup {c}
        /\ Answer(c, "CONFIRM")
        /\ UNCHANGED <<now, permit, vehicle, version, consumed, registered>>

\* A block carries no permit; a fail-closed verdict is an error envelope.
Refuse(c) ==
    /\ req[c].phase = "evaluated"
    /\ req[c].verdict.outcome \in {"BLOCK", "FAIL_CLOSED"}
    /\ Answer(c, IF req[c].verdict.outcome = "BLOCK" THEN "BLOCK" ELSE "ERROR")
    /\ UNCHANGED <<now, permit, vehicle, version, token, pending, consumed,
                   registered>>
-----------------------------------------------------------------------------
\* POST /v1/monitor/evaluate for a running action, which the agent names by
\* the active_action_id it gave it, on the snapshot v the agent supplies.
\* A verdict other than a stop changes nothing; and a stop removes an id that
\* was never entered, since the registry knows the action by its proposal.
MonitorStop(p, v) ==
    /\ \E c \in Calls : permit[c] # None /\ permit[c].proposal = p
    /\ p \in StopsIn[v]
    /\ registered' = registered \ {ActionId[p]}
    /\ UNCHANGED <<now, permit, vehicle, version, token, pending, consumed, req>>

\* mutate() and apply_preset(): any new snapshot, one version on.
ChangeVehicle(v) ==
    /\ version <= MaxVersion
    /\ vehicle' = v
    /\ version' = version + 1
    /\ UNCHANGED <<now, permit, token, pending, consumed, req, registered>>

GuardrailTick == Tick /\ UNCHANGED <<permit, gvars>>

HandleRequest(c) ==
    \/ EvaluateSnapshot(c)
    \/ IssuePermit(c)
    \/ AskConfirmation(c)
    \/ Refuse(c)

GuardrailNext ==
    \/ GuardrailTick
    \/ \E v \in VehicleStates : ChangeVehicle(v)
    \/ \E t \in Turns : ReceiveProposal(t)
    \/ \E a \in Attempts, k \in Calls, s \in Sessions : ReceiveConfirm(a, k, s)
    \/ \E a \in Attempts : RejectToken(a) \/ ConsumeToken(a)
    \/ \E c \in Calls : HandleRequest(c)
    \/ \E p \in Monitored, v \in VehicleStates : MonitorStop(p, v)

GuardrailSpec == GuardrailInit /\ [][GuardrailNext]_<<now, permit, gvars>>
-----------------------------------------------------------------------------
\* The authority to run a proposal is linear.  It lies with the turn that is
\* still being evaluated, or in a pending token, or with the attempt that
\* took the token, or in a permit.
HoldsAuthority(c, p) ==
    \/ c = p /\ req[c].phase \in {"idle", "received", "evaluated"}
    \/ /\ c \in Attempts
       /\ req[c].phase \in {"consumed", "evaluated"}
       /\ ProposalOf(c) = p
    \/ c \in pending /\ token[c].proposal = p
    \/ permit[c] # None /\ permit[c].proposal = p

\* At most one call holds the authority to run a proposal, however tokens are
\* replayed, re-asked under another rule, or tried from another session: the
\* inductive form of OnePermitPerProposal.
LinearAuthority ==
    \A p \in Turns : \A c, d \in Calls :
        HoldsAuthority(c, p) /\ HoldsAuthority(d, p) => c = d

\* A proposal is never issued two permits, although each turn and every
\* confirmation of it, or of a token that replaced it, can issue one
\* (confirmations.consume, app._confirm).
OnePermitPerProposal ==
    \A c, d \in Calls :
        permit[c] # None /\ permit[d] # None /\ permit[c].proposal = permit[d].proposal
            => c = d

\* A permit earned by confirming rests on a snapshot no older than the moment
\* the token was taken, and the token had not expired then: a confirmation
\* only ever unlocks a fresh permit, it never carries one (confirmations.py).
ConfirmedPermitIsFresh ==
    \A a \in Attempts : permit[a] # None =>
        /\ permit[a].version >= req[a].since
        /\ req[a].moment <= token[req[a].token].expires

\* A token leaves the store only through a request of the session it was
\* issued to: a stranger's request does not consume it.
OnlyOwnerTakesToken ==
    [][\A k \in pending \ pending' :
         \E a \in Attempts : /\ req[a].phase = "received"
                             /\ req'[a].phase # "received"
                             /\ req[a].token = k
                             /\ req[a].session = SessionOf[token[k].proposal]
      ]_<<now, permit, gvars>>
=============================================================================
