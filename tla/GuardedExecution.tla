---------------------------- MODULE GuardedExecution ----------------------------
(***************************************************************************)
(* The whole path of a proposed action: an agent turn asks the guardrail   *)
(* (orchestrator.handle_message), runs what is allowed through the vehicle *)
(* gateway, and parks what needs the driver's word with the confirmation   *)
(* manager; a confirm() call takes it from there.  Agent and guardrail are *)
(* two processes joined by HTTP: a request may be delivered late or never, *)
(* an answer may come after the agent has stopped waiting, and neither is  *)
(* sent twice.  Each step is a step of one component, or of two that call  *)
(* each other, and keeps to the components' own specifications.            *)
(***************************************************************************)
EXTENDS GuardrailService, ConfirmationManager, VehicleGateway

VARIABLES
    turn,    \* the orchestrator's thread of each turn
    wire,    \* calls whose request is posted and not yet delivered
    swept    \* history: proposals awaiting or resolving a confirmation when a
             \* reset of every session cleaned up

avars == <<turn, wire, swept>>

vars == <<now, permit, gvars, mvars, vvars, avars>>

\* A permit can name every version the guardrail decides on; and what is not
\* there yet is no reply, no result and no permit.
ASSUME CompositionAssumption ==
    /\ 1..(MaxVersion + 1) \subseteq Versions
    /\ None \notin {"ALLOW", "BLOCK", "CONFIRM", "ERROR", "completed"}
    /\ None \notin Permit

Turn ==
    [phase  : {"idle", "authorizing", "executing", "done"},
     result : {None, "completed", "needs_confirmation", "blocked", "failed", "cancelled"}]

Init ==
    /\ GuardrailInit
    /\ ManagerInit
    /\ GatewayInit
    /\ turn = [t \in Turns |-> [phase |-> "idle", result |-> None]]
    /\ wire = {}
    /\ swept = {}

EndTurn(t, result) == turn' = [turn EXCEPT ![t] = [phase |-> "done", result |-> result]]
-----------------------------------------------------------------------------
\* The turn, up to its request: the session's lock, held to the turn's end,
\* keeps out the other turns of the session.
StartTurn(t) ==
    /\ turn[t].phase = "idle"
    /\ \A u \in Turns : SessionOf[u] = SessionOf[t] =>
          turn[u].phase \notin {"authorizing", "executing"}
    /\ IF t \in cancelled
         THEN EndTurn(t, "cancelled") /\ UNCHANGED wire
         ELSE /\ turn' = [turn EXCEPT ![t].phase = "authorizing"]
              /\ wire' = wire \cup {t}
    /\ UNCHANGED <<now, permit, gvars, mvars, vvars, swept>>

\* HTTP delivery, any time after the post, or never.
Deliver(c) ==
    /\ c \in wire
    /\ wire' = wire \ {c}
    /\ IF c \in Turns
         THEN ReceiveProposal(c)
         ELSE ReceiveConfirm(c, attempt[c].token, SessionOf[attempt[c].token])
    /\ UNCHANGED <<mvars, vvars, turn, swept>>

\* The evaluate() call raises: timeout, refused connection, malformed answer.
TurnLosesAnswer(t) ==
    /\ turn[t].phase = "authorizing"
    /\ EndTurn(t, "failed")
    /\ UNCHANGED <<now, permit, gvars, mvars, vvars, wire, swept>>

Answered(t, reply) ==
    /\ turn[t].phase = "authorizing"
    /\ req[t].phase = "answered"
    /\ req[t].reply = reply

\* An answer that arrives in a cancelled turn is dropped, and with it a token
\* or a permit; so is an error envelope.
TurnDropsAnswer(t) ==
    /\ turn[t].phase = "authorizing"
    /\ req[t].phase = "answered"
    /\ t \in cancelled \/ req[t].reply \in {"BLOCK", "ERROR"}
    /\ EndTurn(t, CASE t \in cancelled -> "cancelled"
                    [] req[t].reply = "BLOCK" -> "blocked"
                    [] OTHER -> "failed")
    /\ UNCHANGED <<now, permit, gvars, mvars, vvars, wire, swept>>

TurnExecutes(t) ==
    /\ Answered(t, "ALLOW")
    /\ t \notin cancelled
    /\ CallExecute(t, t, t)
    /\ turn' = [turn EXCEPT ![t].phase = "executing"]
    /\ UNCHANGED <<gvars, mvars, wire, swept>>

\* Fault: the driver gets a tick more than the guardrail granted.
TurnAwaitsLonger(t) ==
    /\ Answered(t, "CONFIRM")
    /\ t \notin cancelled
    /\ RegisterPending(t, token[t].expires + 1)
    /\ EndTurn(t, "needs_confirmation")
    /\ UNCHANGED <<gvars, vvars, wire, swept>>

TurnAwaitsConfirmation(t) ==
    /\ Answered(t, "CONFIRM")
    /\ t \notin cancelled
    /\ RegisterPending(t, token[t].expires)
    /\ EndTurn(t, "needs_confirmation")
    /\ UNCHANGED <<gvars, vvars, wire, swept>>

\* A turn cancelled during its execution is reported cancelled, executed or not.
TurnFinishes(t) ==
    /\ turn[t].phase = "executing"
    /\ exec[t].phase = "done"
    /\ EndTurn(t, CASE t \in cancelled -> "cancelled"
                    [] exec[t].success -> "completed"
                    [] OTHER -> "failed")
    /\ UNCHANGED <<now, permit, gvars, mvars, vvars, wire, swept>>
-----------------------------------------------------------------------------
\* confirm() and cancel(), which the driver calls with any token and session.

ConfirmStops(a, k, s) ==
    /\ \/ ConfirmRejected(a, k, s)
       \/ ConfirmExpired(a, k, s)
       \/ a \in cancelled /\ ConfirmPreCancelled(a, k, s)
    /\ UNCHANGED <<gvars, vvars, avars>>

ConfirmPosts(a, k, s) ==
    /\ a \notin cancelled
    /\ BeginConfirm(a, k, s)
    /\ wire' = wire \cup {a}
    /\ UNCHANGED <<gvars, vvars, turn, swept>>

ConfirmLosesAnswer(a) ==
    /\ RevertConfirm(a)
    /\ UNCHANGED <<gvars, vvars, avars>>

\* The fresh decision; on ALLOW the recorded proposal and this decision go to
\* the executor, the gateway, unless the caller gave none.
ConfirmAnswered(a) ==
    /\ req[a].phase = "answered"
    /\ \E executor \in BOOLEAN :
        /\ ResolveConfirm(a, req[a].reply, executor)
        /\ IF req[a].reply = "ALLOW" /\ executor
             THEN CallExecute(a, a, attempt[a].token)
             ELSE UNCHANGED vvars
    /\ UNCHANGED <<gvars, avars>>

ConfirmFinishes(a) ==
    /\ exec[a].phase = "done"
    /\ FinishConfirm(a, exec[a].success)
    /\ UNCHANGED <<gvars, vvars, avars>>

DriverCancels(k, s) ==
    /\ CancelConfirmation(k, s)
    /\ UNCHANGED <<gvars, vvars, avars>>

\* A cancellation token may be set until the call returns.
CancelRequested(c) ==
    /\ IF c \in Turns THEN turn[c].phase # "done" ELSE attempt[c].phase # "done"
    /\ CancelCall(c)
    /\ UNCHANGED <<gvars, mvars, avars>>
-----------------------------------------------------------------------------
\* The components' own steps.

GuardrailStep(c) ==
    /\ \/ c \in Attempts /\ (RejectToken(c) \/ ConsumeToken(c))
       \/ HandleRequest(c)
    /\ UNCHANGED <<mvars, vvars, avars>>

VehicleChanges(v) ==
    /\ ChangeVehicle(v)
    /\ UNCHANGED <<mvars, vvars, avars>>

MonitorStops(p, v) ==
    /\ MonitorStop(p, v)
    /\ UNCHANGED <<mvars, vvars, avars>>

GatewayStep(c) ==
    /\ ExecuteStep(c)
    /\ UNCHANGED <<gvars, mvars, avars>>

StartReset(r, s) ==
    /\ EnterReset(r, s)
    /\ UNCHANGED <<gvars, mvars, avars>>

\* The confirmations' part of a reset's clean-up.
ResetCleansUp(r) ==
    LET s == reset[r].scope
    IN  /\ CleanUp(r)
        /\ CancelPendingForReset(s)
        /\ swept' = IF s = None
                      THEN swept \cup {t \in Turns : conf[t].state \in {"PENDING", "CONFIRMED"}}
                      ELSE swept
        /\ UNCHANGED <<gvars, attempt, execCalls, turn, wire>>

\* Fault: a reset that has cleaned up leaves without revoking.
ResetForgets(r) ==
    /\ \/ RevokeBefore(r) \/ LeaveReset(r)
       \/ /\ reset[r].phase = "cleaned"
          /\ boundary' = None
          /\ reset' = [reset EXCEPT ![r].phase = "done"]
          /\ UNCHANGED <<now, permit, used, cutoff, exec, cancelled, runs>>
    /\ UNCHANGED <<gvars, mvars, avars>>

ResetFinishes(r) ==
    /\ RevokeBefore(r) \/ LeaveReset(r)
    /\ UNCHANGED <<gvars, mvars, avars>>

TimePasses == Tick /\ UNCHANGED <<permit, gvars, mvars, vvars, avars>>

AgentStep(c) ==
    \/ /\ c \in Turns
       /\ \/ TurnLosesAnswer(c)
          \/ TurnDropsAnswer(c)
          \/ TurnExecutes(c)
          \/ TurnAwaitsConfirmation(c)
          \/ TurnFinishes(c)
    \/ /\ c \in Attempts
       /\ \/ ConfirmLosesAnswer(c)
          \/ ConfirmAnswered(c)
          \/ ConfirmFinishes(c)

Next ==
    \/ TimePasses
    \/ \E t \in Turns : StartTurn(t)
    \/ \E a \in Attempts, k \in Calls, s \in Sessions : ConfirmStops(a, k, s) \/ ConfirmPosts(a, k, s)
    \/ \E k \in Calls, s \in Sessions : DriverCancels(k, s)
    \/ \E c \in Calls : Deliver(c) \/ AgentStep(c) \/ GuardrailStep(c) \/ GatewayStep(c)
    \/ \E c \in Calls : CancelRequested(c)
    \/ \E v \in VehicleStates : VehicleChanges(v)
    \/ \E p \in Monitored, v \in VehicleStates : MonitorStops(p, v)
    \/ \E r \in Resets, s \in Sessions \cup {None} : StartReset(r, s)
    \/ \E r \in Resets : ResetCleansUp(r) \/ ResetFinishes(r)

Spec == Init /\ [][Next]_vars

\* Threads that have work do it: an agent call waits for its answer no longer
\* than the HTTP timeout, the guardrail serves what was delivered, and
\* finitely many callers leave the boundary free again and again.  Delivery,
\* the driver, the clock and the vehicle owe nothing.
Fairness ==
    /\ \A c \in Calls : WF_vars(AgentStep(c)) /\ WF_vars(GuardrailStep(c)) /\ WF_vars(GatewayStep(c))
    /\ \A r \in Resets : WF_vars(ResetCleansUp(r) \/ ResetFinishes(r))

FairSpec == Spec /\ Fairness
-----------------------------------------------------------------------------
\* The handler invocations made for a proposal: the n-th under each permit.
InvocationsOf(p) ==
    UNION {{<<id, n>> : n \in 1..runs[id]} :
           id \in {c \in Calls : permit[c] # None /\ permit[c].proposal = p}}

Withdrawn == {t \in Turns : conf[t].state \in {"CANCELLED", "EXPIRED"}}

\* The composition implements what the driver is promised: an action runs at
\* most once, whatever is lost, replayed or re-asked, and never after its
\* confirmation was cancelled, expired or swept by a reset (manager.cancel:
\* "Guarantees actuator/handler is called ZERO times").
Promise ==
    INSTANCE ActuationLifecycle
      WITH Proposals <- Turns, Invocations <- Calls \X {1},
           withdrawn <- Withdrawn, invocations <- [p \in Turns |-> InvocationsOf(p)]

DriverPromise == Promise!Lifecycle

\* A success that is reported is one that happened, exactly once and under the
\* reporter's own permit: "the execution port is the only authority allowed to
\* assert success" (orchestrator._grounded_success_message).  A confirm() call
\* without an executor is "completed" too (ConfirmationManager.confirm, by
\* default): its result carries no execution, and then nothing at all has been
\* done for the token.
ReportedSuccessHappened ==
    /\ \A t \in Turns : turn[t].result = "completed" => InvocationsOf(t) = {<<t, 1>>}
    /\ \A a \in Attempts : attempt[a].result = "completed" =>
          InvocationsOf(attempt[a].token) = IF attempt[a].execution THEN {<<a, 1>>} ELSE {}

\* A proposal the driver was asked to confirm runs only under a permit issued
\* to a confirm() call of its own token, and only once the record is consumed.
AskedMeansConfirmed ==
    \A t \in Turns : conf[t].state # "absent" =>
        \A i \in InvocationsOf(t) :
            /\ i[1] \in Attempts
            /\ attempt[i[1]].token = t
            /\ conf[t].state = "CONSUMED"

\* A session's reset leaves the confirmations and permits of other sessions
\* alone: "session reset remains isolated to its caller" (operations/runtime.py).
SessionResetIsIsolated ==
    [][\A r \in Resets : reset[r].scope # None /\ reset'[r].phase # reset[r].phase =>
         /\ \A k \in Calls : conf[k].session # reset[r].scope => conf'[k] = conf[k]
         /\ \A id \in Calls :
              permit[id] # None /\ SessionOf[permit[id].proposal] # reset[r].scope
                => Revoked(id)' = Revoked(id)
      ]_vars

\* A confirmation in flight is always settled: consumed, or offered again.
ConfirmationSettles ==
    \A k \in Calls : conf[k].state = "CONFIRMED" ~> conf[k].state # "CONFIRMED"

\* Every confirm() call and every turn returns, and every reset that begins
\* ends: nobody waits for the lifecycle boundary forever.
EveryCallReturns ==
    /\ \A t \in Turns : turn[t].phase = "authorizing" ~> turn[t].phase = "done"
    /\ \A a \in Attempts : attempt[a].phase = "authorizing" ~> attempt[a].phase = "done"
    /\ \A r \in Resets : reset[r].phase = "entered" ~> reset[r].phase = "done"

\* operations/runtime.py: a simulator reset "invalidates every action/
\* confirmation/permit that was derived from the old snapshot".
SweptNeverRuns ==
    [][\A t \in swept : InvocationsOf(t)' = InvocationsOf(t)]_vars
=============================================================================
