----------------------------- MODULE VehicleGateway -----------------------------
(***************************************************************************)
(* The permit-verifying actuator gateway (vehicle_agent/vehicle/execution/ *)
(* gateway.py and verifier.py) and the lifecycle boundary it shares with   *)
(* runtime resets (vehicle_agent/operations/runtime.py).  One thread at a  *)
(* time is inside the boundary, an execution or a reset, from its first    *)
(* check to its last effect; the clock, the guardrail and cancellations go *)
(* on meanwhile.                                                           *)
(***************************************************************************)
EXTENDS Authority

CONSTANTS
    Handled,   \* proposals whose tool or intent has a handler
    Resets,    \* reset() calls
    Versions   \* state versions a permit can name

VARIABLES
    boundary,    \* holder of PermitStore._lifecycle_lock, or None
    used,        \* PermitStore._consumed_permits
    cutoff,      \* _revoked_before per session, and _global_revoked_before at None
    exec,        \* the execute() call of each agent thread
    cancelled,   \* threads whose cancellation token is set
    reset,       \* the reset() calls
    runs         \* history: handler invocations under each permit id

vvars == <<boundary, used, cutoff, exec, cancelled, reset, runs>>

ASSUME GatewayAssumption ==
    /\ Handled \subseteq Turns
    /\ Resets \cap (Calls \cup {None}) = {}
    /\ Versions \subseteq Nat

Execution ==
    [phase    : {"idle", "waiting", "entered", "verified", "armed", "done"},
     permit   : Calls \cup {None},   \* id of the permit presented
     proposal : Turns \cup {None},   \* the proposal presented with it
     success  : BOOLEAN]

Reset ==
    [phase : {"idle", "entered", "cleaned", "revoked", "done"},
     scope : Sessions \cup {None},   \* None: scope "simulator" or "all"
     at    : Nat]

\* The clock starts at 0: no permit was issued at or before NoCutoff.
NoCutoff == -1

GatewayTypeOK ==
    /\ PermitTypeOK
    /\ boundary \in Calls \cup Resets \cup {None}
    /\ used \subseteq Calls
    /\ cutoff \in [Sessions \cup {None} -> Nat \cup {NoCutoff}]
    /\ exec \in [Calls -> Execution]
    /\ \A c \in Calls : exec[c].phase # "idle" => exec[c].permit \in Calls
    /\ cancelled \subseteq Calls
    /\ reset \in [Resets -> Reset]
    /\ runs \in [Calls -> Nat]

GatewayInit ==
    /\ now = 0
    /\ permit = [c \in Calls |-> None]
    /\ boundary = None
    /\ used = {}
    /\ cutoff = [s \in Sessions \cup {None} |-> NoCutoff]
    /\ exec = [c \in Calls |->
                 [phase |-> "idle", permit |-> None, proposal |-> None, success |-> FALSE]]
    /\ cancelled = {}
    /\ reset = [r \in Resets |-> [phase |-> "idle", scope |-> None, at |-> 0]]
    /\ runs = [c \in Calls |-> 0]
-----------------------------------------------------------------------------
\* Fault: a permit issued at the very moment of the reset survives it.
RevokedStrictly(id) ==
    LET s == SessionOf[permit[id].proposal]
    IN  permit[id].issued < cutoff[None] \/ permit[id].issued < cutoff[s]

\* is_revoked: issued at or before the later of the two cutoffs.
Revoked(id) ==
    LET s == SessionOf[permit[id].proposal]
    IN  permit[id].issued <= cutoff[None] \/ permit[id].issued <= cutoff[s]

\* Fault: a permit is not remembered as used.
MarkNothing(id) == UNCHANGED used

MarkUsed(id) == used' = used \cup {id}

BoundaryFree == boundary = None

\* PermitVerifier.verify: not consumed, bound to this very proposal, not
\* revoked, and within its lifetime, both ends included.
Verified(id, p) ==
    /\ permit[id] # None
    /\ id \notin used
    /\ permit[id].proposal = p
    /\ ~Revoked(id)
    /\ permit[id].issued < permit[id].expires
    /\ permit[id].issued <= now
    /\ now <= permit[id].expires

\* A thread calls execute() with a proposal and the decision carrying a permit.
CallExecute(c, id, p) ==
    /\ exec[c].phase = "idle"
    /\ exec' = [exec EXCEPT ![c] = [phase |-> "waiting", permit |-> id, proposal |-> p,
                                    success |-> FALSE]]
    /\ UNCHANGED <<now, permit, boundary, used, cutoff, cancelled, reset, runs>>

EnterExecute(c) ==
    /\ exec[c].phase = "waiting"
    /\ BoundaryFree
    /\ boundary' = c
    /\ exec' = [exec EXCEPT ![c].phase = "entered"]
    /\ UNCHANGED <<now, permit, used, cutoff, cancelled, reset, runs>>

LeaveExecute(c, success) ==
    /\ boundary' = None
    /\ exec' = [exec EXCEPT ![c].phase = "done", ![c].success = success]

\* Cancelled before it entered, or a permit that does not verify.
DenyExecute(c) ==
    /\ exec[c].phase = "entered"
    /\ c \in cancelled \/ ~Verified(exec[c].permit, exec[c].proposal)
    /\ LeaveExecute(c, FALSE)
    /\ UNCHANGED <<now, permit, used, cutoff, cancelled, reset, runs>>

VerifyPermit(c) ==
    /\ exec[c].phase = "entered"
    /\ c \notin cancelled
    /\ Verified(exec[c].permit, exec[c].proposal)
    /\ exec' = [exec EXCEPT ![c].phase = "verified"]
    /\ UNCHANGED <<now, permit, boundary, used, cutoff, cancelled, reset, runs>>

\* mark_used: the second, atomic, guard against a replay.
ConsumePermit(c) ==
    LET id == exec[c].permit
    IN  /\ exec[c].phase = "verified"
        /\ IF id \in used
             THEN LeaveExecute(c, FALSE) /\ UNCHANGED used
             ELSE /\ MarkUsed(id)
                  /\ exec' = [exec EXCEPT ![c].phase = "armed"]
                  /\ UNCHANGED boundary
        /\ UNCHANGED <<now, permit, cutoff, cancelled, reset, runs>>

\* The handler is looked up only now: without one the permit is spent for
\* nothing.  A handler may raise.
InvokeHandler(c) ==
    /\ exec[c].phase = "armed"
    /\ IF exec[c].proposal \in Handled
         THEN /\ runs' = [runs EXCEPT ![exec[c].permit] = @ + 1]
              /\ \E success \in BOOLEAN : LeaveExecute(c, success)
         ELSE LeaveExecute(c, FALSE) /\ UNCHANGED runs
    /\ UNCHANGED <<now, permit, used, cutoff, cancelled, reset>>
-----------------------------------------------------------------------------
\* RuntimeOperations.reset.  Its own lock only orders resets, which the
\* boundary does already.

EnterReset(r, s) ==
    /\ reset[r].phase = "idle"
    /\ BoundaryFree
    /\ boundary' = r
    /\ reset' = [reset EXCEPT ![r] = [phase |-> "entered", scope |-> s, at |-> now]]
    /\ UNCHANGED <<now, permit, used, cutoff, exec, cancelled, runs>>

\* Active actions stopped and pending confirmations cancelled.
CleanUp(r) ==
    /\ reset[r].phase = "entered"
    /\ reset' = [reset EXCEPT ![r].phase = "cleaned"]
    /\ UNCHANGED <<now, permit, boundary, used, cutoff, exec, cancelled, runs>>

Later(x, y) == IF x >= y THEN x ELSE y

RevokeBefore(r) ==
    LET s == reset[r].scope
    IN  /\ reset[r].phase = "cleaned"
        /\ cutoff' = [cutoff EXCEPT ![s] = Later(@, reset[r].at)]
        /\ reset' = [reset EXCEPT ![r].phase = "revoked"]
        /\ UNCHANGED <<now, permit, boundary, used, exec, cancelled, runs>>

\* Fault: a failed vehicle reset leaves the boundary locked.
LeaveResetLocked(r) ==
    /\ reset[r].phase = "revoked"
    /\ boundary' \in {None, boundary}
    /\ reset' = [reset EXCEPT ![r].phase = "done"]
    /\ UNCHANGED <<now, permit, used, cutoff, exec, cancelled, runs>>

\* Events, UI cursors and, unless the scope is a session, the simulated
\* vehicle are reset; the boundary is left also when the vehicle reset fails.
LeaveReset(r) ==
    /\ reset[r].phase = "revoked"
    /\ boundary' = None
    /\ reset' = [reset EXCEPT ![r].phase = "done"]
    /\ UNCHANGED <<now, permit, used, cutoff, exec, cancelled, runs>>
-----------------------------------------------------------------------------
\* The environment of the gateway: the guardrail issues permits, a turn's for
\* its own proposal, and users cancel.

GrantPermit(c, p, v) ==
    /\ permit[c] = None
    /\ c \in Turns => p = c
    /\ permit' = [permit EXCEPT ![c] = NewPermit(p, v)]
    /\ UNCHANGED <<now, vvars>>

CancelCall(c) ==
    /\ c \notin cancelled
    /\ cancelled' = cancelled \cup {c}
    /\ UNCHANGED <<now, permit, boundary, used, cutoff, exec, reset, runs>>

GatewayTick == Tick /\ UNCHANGED <<permit, vvars>>

ExecuteStep(c) ==
    \/ EnterExecute(c)
    \/ DenyExecute(c)
    \/ VerifyPermit(c)
    \/ ConsumePermit(c)
    \/ InvokeHandler(c)

ResetStep(r) == CleanUp(r) \/ RevokeBefore(r) \/ LeaveReset(r)

GatewayNext ==
    \/ GatewayTick
    \/ \E c \in Calls, p \in Turns, v \in Versions : GrantPermit(c, p, v)
    \/ \E c \in Calls : CancelCall(c)
    \/ \E c, id \in Calls, p \in Turns : CallExecute(c, id, p)
    \/ \E c \in Calls : ExecuteStep(c)
    \/ \E r \in Resets, s \in Sessions \cup {None} : EnterReset(r, s)
    \/ \E r \in Resets : ResetStep(r)

GatewaySpec == GatewayInit /\ [][GatewayNext]_<<now, permit, vvars>>
-----------------------------------------------------------------------------
\* The permit c presents is fit to run: what a verification established and
\* nothing may undo before the handler runs.
Fit(c) ==
    LET id == exec[c].permit
    IN  /\ id \in Calls
        /\ permit[id] # None
        /\ permit[id].proposal = exec[c].proposal
        /\ ~Revoked(id)

HolderInside ==
    /\ \A c \in Calls : exec[c].phase \in {"entered", "verified", "armed"} <=> boundary = c
    /\ \A r \in Resets : reset[r].phase \in {"entered", "cleaned", "revoked"} <=> boundary = r

VerifiedStaysFit == \A c \in Calls : exec[c].phase \in {"verified", "armed"} => Fit(c)

ArmedIsConsumed ==
    \A c \in Calls : exec[c].phase = "armed" =>
        exec[c].permit \in used /\ runs[exec[c].permit] = 0

CutoffsHold ==
    \A r \in Resets : reset[r].phase \in {"revoked", "done"} =>
        cutoff[reset[r].scope] >= reset[r].at

\* Inside the boundary is its holder and nobody else; a verified or armed
\* execution presents a permit that is still fit, and arming has consumed it;
\* a reset that has revoked has left its mark on the cutoffs.
BoundaryInv == HolderInside /\ VerifiedStaysFit /\ ArmedIsConsumed /\ CutoffsHold

\* One permit drives the actuator at most once, and only if it was consumed,
\* whoever presents it and however often (verifier.PermitStore).
SingleUsePermit ==
    \A id \in Calls : runs[id] <= 1 /\ (runs[id] = 1 => id \in used)

Covers(r, id) == reset[r].scope \in {None, SessionOf[permit[id].proposal]}

\* A handler never runs while a reset is in progress, nor ever after under a
\* permit issued up to the moment the reset began: "neither operation can
\* cross the other" (verifier.lifecycle_boundary).
NoRunCrossesReset ==
    [][\A id \in Calls : runs'[id] # runs[id] =>
         \A r \in Resets :
            \/ reset[r].phase = "idle"
            \/ reset[r].phase = "done" /\ (Covers(r, id) => permit[id].issued > reset[r].at)
      ]_<<now, permit, vvars>>
=============================================================================
