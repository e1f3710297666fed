------------------------- MODULE GuardedExecution_proofs -------------------------
(***************************************************************************)
(* Proofs about GuardedExecution, for any number of turns, confirm() calls, *)
(* sessions and resets: every step of the composition is a step, or a      *)
(* stutter, of each of its components, so what is proved of a component    *)
(* holds of the whole; and what no component can say alone: a reported     *)
(* success happened, and what the driver was asked runs only confirmed.    *)
(***************************************************************************)
EXTENDS GuardedExecution, GuardrailService_proofs, ConfirmationManager_proofs,
        VehicleGateway_proofs
-----------------------------------------------------------------------------
\* The inductive invariant: those of the components, and what ties the threads
\* of the agent to the requests, records and executions they caused.

\* An answer has an outcome; one that asks has a token that expires no later
\* than a confirmation asked for now, and one that allows has the permit.
AnswersSound ==
    \A c \in Calls :
        /\ req[c].phase = "answered" => req[c].reply # None
        /\ req[c].phase = "answered" /\ req[c].reply = "ALLOW" => permit[c] # None
        /\ req[c].phase = "answered" /\ req[c].reply = "CONFIRM" =>
              /\ token[c] \in Token
              /\ token[c].expires <= now + ConfirmTTL
              /\ c \in Turns => token[c].proposal = c
        /\ permit[c] # None =>
              /\ req[c].phase = "answered"
              /\ req[c].reply = "ALLOW"
              /\ permit[c].proposal = IF c \in Turns THEN c ELSE req[c].token

VersionsKnown ==
    /\ version \in 1..(MaxVersion + 1)
    /\ \A c \in Calls : req[c].phase = "evaluated" => req[c].version \in 1..(MaxVersion + 1)

\* A turn runs its own proposal under its own permit, or awaits its
\* confirmation, never both.
TurnsSound ==
    \A t \in Turns :
        /\ exec[t].phase # "idle" =>
              /\ turn[t].phase \in {"executing", "done"}
              /\ exec[t].permit = t
              /\ exec[t].proposal = t
              /\ conf[t].state = "absent"
        /\ conf[t].state # "absent" =>
              /\ turn[t].phase = "done"
              /\ req[t].phase = "answered"
              /\ req[t].reply = "CONFIRM"
        /\ turn[t].result = "completed" => exec[t].phase = "done" /\ exec[t].success

\* A confirm() call's request carries the token it put in flight, and it runs
\* that token's proposal, under its own permit, once the record is consumed.
\* It is completed by an execution, or by an ALLOW that it left alone.
LeftAlone(a) ==
    /\ attempt[a].phase = "done" /\ exec[a].phase = "idle"
    /\ req[a].phase = "answered" /\ req[a].reply = "ALLOW"

AttemptsSound ==
    \A a \in Attempts :
        /\ conf[a].state = "absent"
        /\ a \in wire \/ req[a].phase # "idle" =>
              /\ attempt[a].phase # "idle"
              /\ attempt[a].token \in Turns
              /\ conf[attempt[a].token].state # "absent"
        /\ req[a].phase # "idle" => req[a].token = attempt[a].token
        /\ exec[a].phase # "idle" =>
              /\ attempt[a].phase \in {"executing", "done"}
              /\ exec[a].permit = a
              /\ exec[a].proposal = attempt[a].token
              /\ attempt[a].token \in Turns
              /\ conf[attempt[a].token].state = "CONSUMED"
        /\ attempt[a].execution => exec[a].phase = "done"
        /\ attempt[a].result = "completed" =>
              IF attempt[a].execution THEN exec[a].success ELSE LeftAlone(a)

\* A handler ran under a permit in the one execution that is over, and did run
\* where that execution succeeded.
RunsSound ==
    \A c \in Calls :
        /\ runs[c] # 0 => exec[c].phase = "done" /\ permit[c] # None
        /\ exec[c].success =>
              /\ exec[c].phase = "done"
              /\ runs[c] = 1
              /\ permit[c] # None
              /\ permit[c].proposal = exec[c].proposal

AgentTypeOK ==
    /\ turn \in [Turns -> Turn]
    /\ wire \subseteq Calls
    /\ swept \subseteq Turns

CrossInv ==
    /\ AgentTypeOK
    /\ AnswersSound
    /\ VersionsKnown
    /\ TurnsSound
    /\ AttemptsSound
    /\ RunsSound

GuardedInv == GuardrailInv /\ ManagerInv /\ GatewayInv /\ CrossInv
LEMMA GuardedInvInit == Init => GuardedInv
<1> SUFFICES ASSUME Init PROVE CrossInv
    BY GuardrailInvInit, ManagerInvInit, GatewayInvInit DEF Init, GuardedInv
<1> USE AuthorityAssumption, GuardrailAssumption, CompositionAssumption DEF Init, Calls
<1>1. AgentTypeOK
      BY DEF AgentTypeOK, Turn
<1>2. AnswersSound /\ VersionsKnown
      BY DEF AnswersSound, VersionsKnown, GuardrailInit, NoRequest
<1>3. TurnsSound /\ AttemptsSound
      BY DEF TurnsSound, AttemptsSound, GuardrailInit, NoRequest, ManagerInit, Unexecuted,
             GatewayInit
<1>4. RunsSound
      BY DEF RunsSound, GatewayInit
<1> QED BY <1>1, <1>2, <1>3, <1>4 DEF CrossInv
-----------------------------------------------------------------------------
\* The actions of Next, one case each, as every proof below splits it.
LEMMA GuardedCases ==
    ASSUME [Next]_vars, NEW Goal,
           UNCHANGED vars => Goal,
           TimePasses => Goal,
           \A t \in Turns : StartTurn(t) => Goal,
           \A t \in Turns : TurnLosesAnswer(t) => Goal,
           \A t \in Turns : TurnDropsAnswer(t) => Goal,
           \A t \in Turns : TurnExecutes(t) => Goal,
           \A t \in Turns : TurnAwaitsConfirmation(t) => Goal,
           \A t \in Turns : TurnFinishes(t) => Goal,
           \A a \in Attempts, k \in Calls, s \in Sessions : ConfirmStops(a, k, s) => Goal,
           \A a \in Attempts, k \in Calls, s \in Sessions : ConfirmPosts(a, k, s) => Goal,
           \A a \in Attempts : ConfirmLosesAnswer(a) => Goal,
           \A a \in Attempts : ConfirmAnswered(a) => Goal,
           \A a \in Attempts : ConfirmFinishes(a) => Goal,
           \A k \in Calls, s \in Sessions : DriverCancels(k, s) => Goal,
           \A c \in Calls : Deliver(c) => Goal,
           \A c \in Calls : GuardrailStep(c) => Goal,
           \A c \in Calls : GatewayStep(c) => Goal,
           \A c \in Calls : CancelRequested(c) => Goal,
           \A v \in VehicleStates : VehicleChanges(v) => Goal,
           \A p \in Monitored, v \in VehicleStates : MonitorStops(p, v) => Goal,
           \A r \in Resets, s \in Sessions \cup {None} : StartReset(r, s) => Goal,
           \A r \in Resets : ResetCleansUp(r) => Goal,
           \A r \in Resets : ResetFinishes(r) => Goal
    PROVE  Goal
BY Zenon DEF Next, AgentStep

\* What stays while only other components move.
LEMMA ElsewhereStutters ==
    /\ UNCHANGED <<now, permit, gvars>> => [GuardrailNext]_grVars
    /\ UNCHANGED <<now, mvars>> => [ManagerNext]_mgrVars
    /\ UNCHANGED <<now, permit, vvars>> => [GatewayNext]_gwVars
BY DEF grVars, mgrVars, gwVars

\* A turn calls the guardrail about its own proposal, a confirm() call about the
\* token it holds.
LEMMA StepOfGuardrail ==
    ASSUME GuardedInv, [Next]_vars
    PROVE  [GuardrailNext]_grVars
<1> USE ElsewhereStutters
<1>1. UNCHANGED vars => [GuardrailNext]_grVars
      BY DEF vars
<1>2. TimePasses => [GuardrailNext]_grVars
      BY DEF TimePasses, GuardrailNext, GuardrailTick
<1>3. ASSUME NEW t \in Turns,
             \/ StartTurn(t) \/ TurnLosesAnswer(t) \/ TurnDropsAnswer(t)
             \/ TurnExecutes(t) \/ TurnAwaitsConfirmation(t) \/ TurnFinishes(t)
      PROVE  [GuardrailNext]_grVars
      BY <1>3 DEF StartTurn, TurnLosesAnswer, TurnDropsAnswer, TurnExecutes, CallExecute,
                  TurnAwaitsConfirmation, RegisterPending, TurnFinishes
<1>4. ASSUME NEW a \in Attempts, NEW k \in Calls, NEW s \in Sessions,
             ConfirmStops(a, k, s) \/ ConfirmPosts(a, k, s)
      PROVE  [GuardrailNext]_grVars
      BY <1>4 DEF ConfirmStops, ConfirmRejected, ConfirmExpired, ConfirmPreCancelled,
                  ConfirmPosts, BeginConfirm
<1>5. ASSUME NEW a \in Attempts,
             ConfirmLosesAnswer(a) \/ ConfirmAnswered(a) \/ ConfirmFinishes(a)
      PROVE  [GuardrailNext]_grVars
      BY <1>5 DEF ConfirmLosesAnswer, RevertConfirm, ConfirmAnswered, ResolveConfirm,
                  ConfirmFinishes, FinishConfirm
<1>6. ASSUME NEW k \in Calls, NEW s \in Sessions, DriverCancels(k, s)
      PROVE  [GuardrailNext]_grVars
      BY <1>6 DEF DriverCancels, CancelConfirmation
<1>7. ASSUME NEW c \in Calls, Deliver(c) PROVE GuardrailNext
      <2>1. CASE c \in Turns
            BY <1>7, <2>1 DEF Deliver, GuardrailNext
      <2>2. CASE c \notin Turns
            <3>1. c \in Attempts /\ attempt[c].token \in Turns
                  BY <1>7, <2>2 DEF Deliver, GuardedInv, CrossInv, AttemptsSound, Calls
            <3>2. attempt[c].token \in Calls /\ SessionOf[attempt[c].token] \in Sessions
                  BY <3>1, AuthorityAssumption DEF Calls
            <3>3. ReceiveConfirm(c, attempt[c].token, SessionOf[attempt[c].token])
                  BY <1>7, <2>2 DEF Deliver
            <3> QED BY <3>1, <3>2, <3>3 DEF GuardrailNext
      <2> QED BY <2>1, <2>2
<1>8. ASSUME NEW c \in Calls, GuardrailStep(c) PROVE GuardrailNext
      BY <1>8 DEF GuardrailStep, GuardrailNext
<1>9. ASSUME NEW c \in Calls, GatewayStep(c) \/ CancelRequested(c)
      PROVE  [GuardrailNext]_grVars
      BY <1>9 DEF GatewayStep, ExecuteStep, EnterExecute, DenyExecute, VerifyPermit,
                  ConsumePermit, InvokeHandler, CancelRequested, CancelCall
<1>10. ASSUME NEW v \in VehicleStates, VehicleChanges(v) PROVE GuardrailNext
      BY <1>10 DEF VehicleChanges, GuardrailNext
<1>11. ASSUME NEW p \in Monitored, NEW v \in VehicleStates, MonitorStops(p, v)
       PROVE  GuardrailNext
      BY <1>11 DEF MonitorStops, GuardrailNext
<1>12. ASSUME NEW r \in Resets, NEW s \in Sessions \cup {None}, StartReset(r, s)
       PROVE  [GuardrailNext]_grVars
      BY <1>12 DEF StartReset, EnterReset
<1>13. ASSUME NEW r \in Resets, ResetCleansUp(r) \/ ResetFinishes(r)
       PROVE  [GuardrailNext]_grVars
      BY <1>13 DEF ResetCleansUp, CleanUp, ResetFinishes, RevokeBefore, LeaveReset
<1> QED BY <1>1, <1>2, <1>3, <1>4, <1>5, <1>6, <1>7, <1>8, <1>9, <1>10, <1>11, <1>12,
           <1>13, GuardedCases

\* The guardrail asked for the confirmation that is registered, and answered
\* before the record was resolved.
LEMMA StepOfManager ==
    ASSUME GuardedInv, [Next]_vars
    PROVE  [ManagerNext]_mgrVars
<1> USE ElsewhereStutters
<1>1. UNCHANGED vars => [ManagerNext]_mgrVars
      BY DEF vars
<1>2. TimePasses => [ManagerNext]_mgrVars
      BY DEF TimePasses, ManagerNext, ManagerTick
<1>3. ASSUME NEW t \in Turns,
             \/ StartTurn(t) \/ TurnLosesAnswer(t) \/ TurnDropsAnswer(t)
             \/ TurnExecutes(t) \/ TurnFinishes(t)
      PROVE  [ManagerNext]_mgrVars
      BY <1>3 DEF StartTurn, TurnLosesAnswer, TurnDropsAnswer, TurnExecutes, CallExecute,
                  TurnFinishes
<1>4. ASSUME NEW t \in Turns, TurnAwaitsConfirmation(t) PROVE ManagerNext
      <2>1. token[t] \in Token /\ token[t].expires <= now + ConfirmTTL
            BY <1>4 DEF TurnAwaitsConfirmation, Answered, GuardedInv, CrossInv, AnswersSound, Calls
      <2>2. token[t].expires \in 0..(now + ConfirmTTL)
            BY <2>1, AuthorityAssumption DEF Token, GuardedInv, ManagerInv, ManagerTypeOK
      <2> QED BY <1>4, <2>2 DEF TurnAwaitsConfirmation, ManagerNext
<1>5. ASSUME NEW a \in Attempts, NEW k \in Calls, NEW s \in Sessions,
             ConfirmStops(a, k, s) \/ ConfirmPosts(a, k, s)
      PROVE  ManagerNext
      BY <1>5 DEF ConfirmStops, ConfirmPosts, ManagerNext
<1>6. ASSUME NEW a \in Attempts, ConfirmLosesAnswer(a) PROVE ManagerNext
      BY <1>6 DEF ConfirmLosesAnswer, ManagerNext
<1>7. ASSUME NEW a \in Attempts, ConfirmAnswered(a) PROVE ManagerNext
      <2>1. req[a].reply \in {"ALLOW", "BLOCK", "CONFIRM", "ERROR"}
            BY <1>7 DEF ConfirmAnswered, GuardedInv, CrossInv, AnswersSound, Calls,
                        GuardrailInv, GuardrailTypeOK, Request
      <2>2. \E executor \in BOOLEAN : ResolveConfirm(a, req[a].reply, executor)
            BY <1>7 DEF ConfirmAnswered
      <2> QED BY <2>1, <2>2 DEF ManagerNext
<1>8. ASSUME NEW a \in Attempts, ConfirmFinishes(a) PROVE ManagerNext
      <2>1. exec[a].success \in BOOLEAN
            BY DEF GuardedInv, GatewayInv, GatewayTypeOK, Execution, Calls
      <2>2. PICK success \in BOOLEAN : success = exec[a].success
            BY <2>1
      <2> QED BY <1>8, <2>2 DEF ConfirmFinishes, ManagerNext
<1>9. ASSUME NEW k \in Calls, NEW s \in Sessions, DriverCancels(k, s) PROVE ManagerNext
      BY <1>9 DEF DriverCancels, ManagerNext
<1>10. ASSUME NEW c \in Calls,
              Deliver(c) \/ GuardrailStep(c) \/ GatewayStep(c) \/ CancelRequested(c)
       PROVE  [ManagerNext]_mgrVars
      <2>1. UNCHANGED mvars
            BY <1>10 DEF Deliver, GuardrailStep, GatewayStep, CancelRequested
      <2>2. CASE Deliver(c)
            BY <2>1, <2>2 DEF Deliver, ReceiveProposal, ReceiveConfirm
      <2>3. CASE GuardrailStep(c)
            BY <2>1, <2>3 DEF GuardrailStep, RejectToken, ConsumeToken, HandleRequest,
                              EvaluateSnapshot, IssuePermit, AskConfirmation, Refuse
      <2>4. CASE GatewayStep(c) \/ CancelRequested(c)
            BY <2>1, <2>4 DEF GatewayStep, ExecuteStep, EnterExecute, DenyExecute,
                              VerifyPermit, ConsumePermit, InvokeHandler, CancelRequested,
                              CancelCall
      <2> QED BY <1>10, <2>2, <2>3, <2>4
<1>11. ASSUME NEW v \in VehicleStates, VehicleChanges(v) PROVE [ManagerNext]_mgrVars
      BY <1>11 DEF VehicleChanges, ChangeVehicle
<1>12. ASSUME NEW p \in Monitored, NEW v \in VehicleStates, MonitorStops(p, v)
       PROVE  [ManagerNext]_mgrVars
      BY <1>12 DEF MonitorStops, MonitorStop
<1>13. ASSUME NEW r \in Resets, NEW s \in Sessions \cup {None}, StartReset(r, s)
       PROVE  [ManagerNext]_mgrVars
      BY <1>13 DEF StartReset, EnterReset
<1>14. ASSUME NEW r \in Resets, ResetCleansUp(r) PROVE ManagerNext
      <2>1. reset[r].scope \in Sessions \cup {None}
            BY DEF GuardedInv, GatewayInv, GatewayTypeOK, Reset
      <2>2. ResetConfirmations(reset[r].scope)
            BY <1>14 DEF ResetCleansUp, CleanUp, ResetConfirmations
      <2> QED BY <2>1, <2>2 DEF ManagerNext
<1>15. ASSUME NEW r \in Resets, ResetFinishes(r) PROVE [ManagerNext]_mgrVars
      BY <1>15 DEF ResetFinishes, RevokeBefore, LeaveReset
<1> QED BY <1>1, <1>2, <1>3, <1>4, <1>5, <1>6, <1>7, <1>8, <1>9, <1>10, <1>11, <1>12,
           <1>13, <1>14, <1>15, GuardedCases

\* The permit the guardrail issues is one the gateway can be shown: the first
\* of its call, a turn's for its own proposal, on a version in reach.
LEMMA StepOfGateway ==
    ASSUME GuardedInv, [Next]_vars
    PROVE  [GatewayNext]_gwVars
<1> USE ElsewhereStutters
<1>1. UNCHANGED vars => [GatewayNext]_gwVars
      BY DEF vars
<1>2. TimePasses => [GatewayNext]_gwVars
      BY DEF TimePasses, GatewayNext, GatewayTick
<1>3. ASSUME NEW t \in Turns,
             \/ StartTurn(t) \/ TurnLosesAnswer(t) \/ TurnDropsAnswer(t)
             \/ TurnAwaitsConfirmation(t) \/ TurnFinishes(t)
      PROVE  [GatewayNext]_gwVars
      BY <1>3 DEF StartTurn, TurnLosesAnswer, TurnDropsAnswer, TurnAwaitsConfirmation,
                  RegisterPending, TurnFinishes
<1>4. ASSUME NEW t \in Turns, TurnExecutes(t) PROVE GatewayNext
      BY <1>4 DEF TurnExecutes, GatewayNext, Calls
<1>5. ASSUME NEW a \in Attempts, NEW k \in Calls, NEW s \in Sessions,
             ConfirmStops(a, k, s) \/ ConfirmPosts(a, k, s)
      PROVE  [GatewayNext]_gwVars
      BY <1>5 DEF ConfirmStops, ConfirmRejected, ConfirmExpired, ConfirmPreCancelled,
                  ConfirmPosts, BeginConfirm
<1>6. ASSUME NEW a \in Attempts, ConfirmLosesAnswer(a) \/ ConfirmFinishes(a)
      PROVE  [GatewayNext]_gwVars
      BY <1>6 DEF ConfirmLosesAnswer, RevertConfirm, ConfirmFinishes, FinishConfirm
<1>7. ASSUME NEW a \in Attempts, ConfirmAnswered(a) PROVE [GatewayNext]_gwVars
      <2>1. CASE CallExecute(a, a, attempt[a].token)
            <3>1. a \in Calls /\ attempt[a].token \in Turns
                  BY <1>7 DEF ConfirmAnswered, GuardedInv, CrossInv, AttemptsSound, Calls
            <3> QED BY <2>1, <3>1 DEF GatewayNext
      <2>2. CASE UNCHANGED vvars
            BY <1>7, <2>2 DEF ConfirmAnswered, ResolveConfirm
      <2> QED BY <1>7, <2>1, <2>2 DEF ConfirmAnswered
<1>8. ASSUME NEW k \in Calls, NEW s \in Sessions, DriverCancels(k, s)
      PROVE  [GatewayNext]_gwVars
      BY <1>8 DEF DriverCancels, CancelConfirmation
<1>9. ASSUME NEW c \in Calls, Deliver(c) PROVE [GatewayNext]_gwVars
      BY <1>9 DEF Deliver, ReceiveProposal, ReceiveConfirm
<1>10. ASSUME NEW c \in Calls, GuardrailStep(c) PROVE [GatewayNext]_gwVars
      <2>0. UNCHANGED vvars
            BY <1>10 DEF GuardrailStep
      <2>1. CASE IssuePermit(c)
            <3>1. ProposalOf(c) \in Turns /\ (c \in Turns => ProposalOf(c) = c)
                  BY <2>1, ProposalKnown DEF IssuePermit, GuardedInv, ProposalOf
            <3>2. permit[c] = None
                  BY <2>1 DEF IssuePermit, GuardedInv, GuardrailInv, RequestsSound,
                              NothingBeforeAnswer
            <3>3. req[c].version \in Versions
                  BY <2>1, CompositionAssumption
                  DEF IssuePermit, GuardedInv, CrossInv, VersionsKnown
            <3>4. GrantPermit(c, ProposalOf(c), req[c].version)
                  BY <2>0, <2>1, <3>1, <3>2 DEF IssuePermit, GrantPermit
            <3> QED BY <3>1, <3>3, <3>4 DEF GatewayNext
      <2>2. CASE ~IssuePermit(c)
            BY <1>10, <2>0, <2>2 DEF GuardrailStep, RejectToken, ConsumeToken, HandleRequest,
                                     EvaluateSnapshot, AskConfirmation, Refuse
      <2> QED BY <2>1, <2>2
<1>11. ASSUME NEW c \in Calls, GatewayStep(c) \/ CancelRequested(c) PROVE GatewayNext
      BY <1>11 DEF GatewayStep, CancelRequested, GatewayNext
<1>12. ASSUME NEW v \in VehicleStates, VehicleChanges(v) PROVE [GatewayNext]_gwVars
      BY <1>12 DEF VehicleChanges, ChangeVehicle
<1>13. ASSUME NEW p \in Monitored, NEW v \in VehicleStates, MonitorStops(p, v)
       PROVE  [GatewayNext]_gwVars
      BY <1>13 DEF MonitorStops, MonitorStop
<1>14. ASSUME NEW r \in Resets, NEW s \in Sessions \cup {None}, StartReset(r, s)
       PROVE  GatewayNext
      BY <1>14 DEF StartReset, GatewayNext
<1>15. ASSUME NEW r \in Resets, ResetCleansUp(r) \/ ResetFinishes(r) PROVE GatewayNext
      BY <1>15 DEF ResetCleansUp, ResetFinishes, GatewayNext, ResetStep
<1> QED BY <1>1, <1>2, <1>3, <1>4, <1>5, <1>6, <1>7, <1>8, <1>9, <1>10, <1>11, <1>12,
           <1>13, <1>14, <1>15, GuardedCases

LEMMA ComponentsNext ==
    ASSUME GuardedInv, [Next]_vars
    PROVE  GuardrailInv' /\ ManagerInv' /\ GatewayInv'
BY StepOfGuardrail, StepOfManager, StepOfGateway, GuardrailInvNext, ManagerInvNext,
   GatewayInvNext DEF GuardedInv
-----------------------------------------------------------------------------
\* What the steps of a component never undo, whoever takes them.

LEMMA AnswersStay ==
    ASSUME GuardrailInv, [GuardrailNext]_grVars, NEW c \in Calls
    PROVE  /\ req[c].phase = "answered" => req'[c] = req[c]
           /\ req[c].phase # "idle" => req'[c].phase # "idle" /\ req'[c].token = req[c].token
           /\ permit[c] # None => permit'[c] = permit[c]
<1> DEFINE Goal == /\ req[c].phase = "answered" => req'[c] = req[c]
                   /\ req[c].phase # "idle" =>
                         req'[c].phase # "idle" /\ req'[c].token = req[c].token
                   /\ permit[c] # None => permit'[c] = permit[c]
<1> USE DEF GuardrailInv, GuardrailTypeOK, Request, RequestsSound, NothingBeforeAnswer, Answer,
            Calls
<1>1. UNCHANGED grVars => Goal
      BY DEF grVars, gvars
<1>2. GuardrailTick => Goal
      BY DEF GuardrailTick, gvars
<1>3. ASSUME NEW v \in VehicleStates, ChangeVehicle(v) PROVE Goal
      BY <1>3 DEF ChangeVehicle
<1>4. ASSUME NEW t \in Turns, ReceiveProposal(t) PROVE Goal
      BY <1>4 DEF ReceiveProposal
<1>5. ASSUME NEW a \in Attempts, NEW k \in Calls, NEW s \in Sessions, ReceiveConfirm(a, k, s)
      PROVE  Goal
      BY <1>5 DEF ReceiveConfirm
<1>6. ASSUME NEW a \in Attempts, RejectToken(a) PROVE Goal
      BY <1>6 DEF RejectToken
<1>7. ASSUME NEW a \in Attempts, ConsumeToken(a) PROVE Goal
      <2>1. CASE Answer(a, "ERROR")
            BY <1>7, <2>1 DEF ConsumeToken
      <2>2. CASE req' = [req EXCEPT ![a] = [@ EXCEPT !.phase = "consumed",
                                                     !.moment = now, !.since = version]]
            BY <1>7, <2>2 DEF ConsumeToken
      <2> QED BY <1>7, <2>1, <2>2 DEF ConsumeToken
<1>8. ASSUME NEW d \in Calls, EvaluateSnapshot(d) PROVE Goal
      BY <1>8 DEF EvaluateSnapshot
<1>9. ASSUME NEW d \in Calls, IssuePermit(d) PROVE Goal
      BY <1>9 DEF IssuePermit
<1>10. ASSUME NEW d \in Calls, AskConfirmation(d) PROVE Goal
      BY <1>10 DEF AskConfirmation
<1>11. ASSUME NEW d \in Calls, Refuse(d) PROVE Goal
      BY <1>11 DEF Refuse
<1>12. ASSUME NEW p \in Monitored, NEW v \in VehicleStates, MonitorStop(p, v) PROVE Goal
      BY <1>12 DEF MonitorStop
<1> HIDE DEF Goal
<1>13. Goal
      BY <1>1, <1>2, <1>3, <1>4, <1>5, <1>6, <1>7, <1>8, <1>9, <1>10, <1>11, <1>12, GuardrailCases
<1> QED BY <1>13 DEF Goal

LEMMA RecordsStay ==
    ASSUME ManagerInv, [ManagerNext]_mgrVars, NEW k \in Calls
    PROVE  /\ conf[k].state # "absent" => conf'[k].state # "absent"
           /\ conf[k].state = "CONSUMED" => conf'[k].state = "CONSUMED"
           /\ conf[k].state \in {"CANCELLED", "EXPIRED"} => conf'[k].state = conf[k].state
           /\ conf'[k].state \in {"CANCELLED", "EXPIRED"} =>
                 conf[k].state \in {"PENDING", "CANCELLED", "EXPIRED"}
<1>0. conf[k].state \in {"CANCELLED", "EXPIRED", "CONSUMED"} => conf'[k].state = conf[k].state
      BY SettledStep
<1> SUFFICES /\ conf[k].state # "absent" => conf'[k].state # "absent"
             /\ conf'[k].state \in {"CANCELLED", "EXPIRED"} =>
                   conf[k].state \in {"PENDING", "CANCELLED", "EXPIRED"}
    BY <1>0
<1> USE DEF ManagerInv, ManagerTypeOK, Confirmation, Attempt, Calls
<1>1. CASE UNCHANGED conf
      BY <1>1
<1>2. ASSUME NEW t \in Turns, NEW expires, RegisterPending(t, expires)
      PROVE  /\ conf[k].state # "absent" => conf'[k].state # "absent"
             /\ conf'[k].state \in {"CANCELLED", "EXPIRED"} =>
                   conf[k].state \in {"PENDING", "CANCELLED", "EXPIRED"}
      BY <1>2 DEF RegisterPending
<1>3. ASSUME NEW j, NEW state \in {"PENDING", "CONFIRMED", "CONSUMED"}, Move(j, state)
      PROVE  /\ conf[k].state # "absent" => conf'[k].state # "absent"
             /\ conf'[k].state \in {"CANCELLED", "EXPIRED"} =>
                   conf[k].state \in {"PENDING", "CANCELLED", "EXPIRED"}
      BY <1>3 DEF Move
<1>4. ASSUME NEW j \in Calls, NEW state \in {"CANCELLED", "EXPIRED"}, Move(j, state),
             conf[j].state = "PENDING"
      PROVE  /\ conf[k].state # "absent" => conf'[k].state # "absent"
             /\ conf'[k].state \in {"CANCELLED", "EXPIRED"} =>
                   conf[k].state \in {"PENDING", "CANCELLED", "EXPIRED"}
      BY <1>4 DEF Move
<1>5. ASSUME NEW s, CancelPendingForReset(s)
      PROVE  /\ conf[k].state # "absent" => conf'[k].state # "absent"
             /\ conf'[k].state \in {"CANCELLED", "EXPIRED"} =>
                   conf[k].state \in {"PENDING", "CANCELLED", "EXPIRED"}
      BY <1>5 DEF CancelPendingForReset
<1> HIDE DEF ManagerInv, ManagerTypeOK, Confirmation, Attempt
<1>6. \/ UNCHANGED conf
      \/ \E t \in Turns, expires \in 0..(now + ConfirmTTL) : RegisterPending(t, expires)
      \/ \E j : \E state \in {"PENDING", "CONFIRMED", "CONSUMED"} : Move(j, state)
      \/ \E j \in Calls, state \in {"CANCELLED", "EXPIRED"} :
            Move(j, state) /\ conf[j].state = "PENDING"
      \/ \E s : CancelPendingForReset(s)
      <2>1. ASSUME NEW j \in Calls, NEW state, state \in {"CANCELLED", "EXPIRED"},
                   Move(j, state), conf[j].state = "PENDING"
            PROVE  \E i \in Calls, x \in {"CANCELLED", "EXPIRED"} :
                      Move(i, x) /\ conf[i].state = "PENDING"
            BY <2>1
      <2>2. ASSUME NEW a, NEW j \in Calls, NEW s, ConfirmExpired(a, j, s)
            PROVE  \E i \in Calls, x \in {"CANCELLED", "EXPIRED"} :
                      Move(i, x) /\ conf[i].state = "PENDING"
            BY <2>2 DEF ConfirmExpired, Open
      <2>3. ASSUME NEW j \in Calls, NEW s, CancelConfirmation(j, s)
            PROVE  \E i \in Calls, x \in {"CANCELLED", "EXPIRED"} :
                      Move(i, x) /\ conf[i].state = "PENDING"
            BY <2>1, <2>3 DEF CancelConfirmation, Open
      <2>4. ASSUME NEW a, NEW j, NEW s, NEW outcome, NEW executor,
                   \/ BeginConfirm(a, j, s) \/ RevertConfirm(a)
                   \/ ResolveConfirm(a, outcome, executor)
            PROVE  \E i : \E x \in {"PENDING", "CONFIRMED", "CONSUMED"} : Move(i, x)
            BY <2>4 DEF BeginConfirm, RevertConfirm, ResolveConfirm
      <2>5. ASSUME NEW a, NEW j, NEW s, NEW success,
                   \/ ConfirmRejected(a, j, s) \/ ConfirmPreCancelled(a, j, s)
                   \/ FinishConfirm(a, success) \/ ManagerTick \/ UNCHANGED mgrVars
            PROVE  UNCHANGED conf
            BY <2>5 DEF ConfirmRejected, ConfirmPreCancelled, FinishConfirm, ManagerTick, mvars,
                        mgrVars
      <2> QED BY <2>2, <2>3, <2>4, <2>5, Zenon DEF ManagerNext, ResetConfirmations
<1> QED BY <1>1, <1>2, <1>3, <1>4, <1>5, <1>6

LEMMA ExecutionsStay ==
    ASSUME GatewayInv, [GatewayNext]_gwVars, NEW c \in Calls
    PROVE  /\ exec[c].phase # "idle" =>
                 /\ exec'[c].phase # "idle"
                 /\ exec'[c].permit = exec[c].permit
                 /\ exec'[c].proposal = exec[c].proposal
           /\ exec[c].phase = "done" => exec'[c] = exec[c]
<1> USE DEF GatewayInv, GatewayTypeOK, Execution
<1>1. CASE UNCHANGED exec
      BY <1>1
<1>2. ASSUME NEW d \in Calls, NEW id, NEW p, CallExecute(d, id, p)
      PROVE  exec[c].phase # "idle" => exec'[c] = exec[c]
      BY <1>2 DEF CallExecute
<1>3. ASSUME NEW d \in Calls, EnterExecute(d) \/ VerifyPermit(d)
      PROVE  d = c => /\ exec[c].phase \in {"waiting", "entered"}
                      /\ exec'[c].phase # "idle"
                      /\ exec'[c].permit = exec[c].permit
                      /\ exec'[c].proposal = exec[c].proposal
      BY <1>3 DEF EnterExecute, VerifyPermit
<1>4. ASSUME NEW d \in Calls, DenyExecute(d) \/ ConsumePermit(d) \/ InvokeHandler(d)
      PROVE  d = c => /\ exec[c].phase \in {"entered", "verified", "armed"}
                      /\ exec'[c].phase # "idle"
                      /\ exec'[c].permit = exec[c].permit
                      /\ exec'[c].proposal = exec[c].proposal
      BY <1>4 DEF DenyExecute, ConsumePermit, InvokeHandler, LeaveExecute
<1>5. ASSUME NEW d \in Calls, ExecuteStep(d) PROVE d # c => exec'[c] = exec[c]
      BY <1>5 DEF ExecuteStep, EnterExecute, VerifyPermit, DenyExecute, ConsumePermit,
                  InvokeHandler, LeaveExecute
<1> HIDE DEF GatewayInv, GatewayTypeOK, Execution
<1>6. \/ UNCHANGED exec
      \/ \E d, id \in Calls, p \in Turns : CallExecute(d, id, p)
      \/ \E d \in Calls : ExecuteStep(d)
      BY DEF gwVars, vvars, GatewayNext, GatewayTick, GrantPermit, CancelCall, EnterReset,
             ResetStep, CleanUp, RevokeBefore, LeaveReset
<1>7. ASSUME NEW d \in Calls, ExecuteStep(d), d = c
      PROVE  /\ exec[c].phase \in {"waiting", "entered", "verified", "armed"}
             /\ exec'[c].phase # "idle"
             /\ exec'[c].permit = exec[c].permit
             /\ exec'[c].proposal = exec[c].proposal
      BY <1>3, <1>4, <1>7 DEF ExecuteStep
<1> QED BY <1>1, <1>2, <1>5, <1>6, <1>7
-----------------------------------------------------------------------------
\* Whose step it is.

TurnStep(t) ==
    \/ StartTurn(t)
    \/ TurnLosesAnswer(t)
    \/ TurnDropsAnswer(t)
    \/ TurnExecutes(t)
    \/ TurnAwaitsConfirmation(t)
    \/ TurnFinishes(t)

\* A turn moves, calls the gateway and registers a record by its own steps only.
LEMMA TurnAlone ==
    ASSUME GuardedInv, [Next]_vars, NEW t \in Turns
    PROVE  \/ TurnStep(t)
           \/ /\ turn'[t] = turn[t]
              /\ exec[t].phase = "idle" => exec'[t].phase = "idle"
              /\ conf[t].state = "absent" => conf'[t].state = "absent"
<1> DEFINE Quiet == /\ turn'[t] = turn[t]
                    /\ exec[t].phase = "idle" => exec'[t].phase = "idle"
                    /\ conf[t].state = "absent" => conf'[t].state = "absent"
           Goal == TurnStep(t) \/ Quiet
<1>0. /\ turn \in [Turns -> Turn]
      /\ exec \in [Calls -> Execution]
      /\ conf \in [Calls -> Confirmation]
      /\ t \in Calls /\ t \notin Attempts
      BY AuthorityAssumption
      DEF GuardedInv, CrossInv, AgentTypeOK, GatewayInv, GatewayTypeOK, ManagerInv,
          ManagerTypeOK, Calls
<1>a. UNCHANGED turn /\ UNCHANGED exec /\ UNCHANGED conf => Goal
      BY Zenon
<1>b. ASSUME NEW k, NEW state, Move(k, state), UNCHANGED <<turn, exec>>,
             k \in Calls => conf[k].state # "absent"
      PROVE  Goal
      BY <1>0, <1>b DEF Move, Confirmation
<1>1. UNCHANGED vars => Goal
      BY <1>a DEF vars, vvars, mvars, avars
<1>2. TimePasses => Goal
      BY <1>a DEF TimePasses, vvars, mvars, avars
<1>3. ASSUME NEW u \in Turns, TurnStep(u) PROVE Goal
      <2>1. CASE u = t
            BY <1>3, <2>1
      <2>2. CASE u # t
            BY <1>0, <1>3, <2>2
            DEF TurnStep, StartTurn, TurnLosesAnswer, TurnDropsAnswer, TurnExecutes, CallExecute,
                TurnAwaitsConfirmation, RegisterPending, TurnFinishes, EndTurn, vvars, mvars,
                Turn, Execution, Confirmation
      <2> QED BY <2>1, <2>2
<1>4. ASSUME NEW a \in Attempts, NEW k \in Calls, NEW s \in Sessions, ConfirmStops(a, k, s)
      PROVE  Goal
      <2>1. UNCHANGED <<turn, exec>>
            BY <1>4 DEF ConfirmStops, avars, vvars
      <2>2. CASE ConfirmExpired(a, k, s)
            BY <1>b, <2>1, <2>2 DEF ConfirmExpired, Open
      <2>3. CASE ~ConfirmExpired(a, k, s)
            BY <1>4, <1>a, <2>1, <2>3 DEF ConfirmStops, ConfirmRejected, ConfirmPreCancelled
      <2> QED BY <2>2, <2>3
<1>5. ASSUME NEW a \in Attempts, NEW k \in Calls, NEW s \in Sessions, ConfirmPosts(a, k, s)
      PROVE  Goal
      BY <1>5, <1>b DEF ConfirmPosts, BeginConfirm, Open, vvars
<1>6. ASSUME NEW a \in Attempts, attempt[a].phase = "authorizing"
      PROVE  attempt[a].token \in Calls => conf[attempt[a].token].state # "absent"
      BY <1>6 DEF GuardedInv, ManagerInv, InFlightHeldOnce
<1>7. ASSUME NEW a \in Attempts, ConfirmLosesAnswer(a) PROVE Goal
      BY <1>7, <1>b, <1>6 DEF ConfirmLosesAnswer, RevertConfirm, vvars, avars
<1>8. ASSUME NEW a \in Attempts, ConfirmAnswered(a) PROVE Goal
      <2>1. exec'[t] = exec[t]
            BY <1>0, <1>8 DEF ConfirmAnswered, CallExecute, vvars
      <2>2. conf[t].state = "absent" => conf'[t].state = "absent"
            BY <1>0, <1>6, <1>8 DEF ConfirmAnswered, ResolveConfirm, Move, Confirmation
      <2> QED BY <1>8, <2>1, <2>2 DEF ConfirmAnswered, avars
<1>9. ASSUME NEW a \in Attempts, ConfirmFinishes(a) PROVE Goal
      BY <1>9, <1>a DEF ConfirmFinishes, FinishConfirm, vvars, avars
<1>10. ASSUME NEW k \in Calls, NEW s \in Sessions, DriverCancels(k, s) PROVE Goal
      BY <1>10, <1>b DEF DriverCancels, CancelConfirmation, Open, vvars, avars
<1>11. ASSUME NEW c \in Calls, Deliver(c) \/ GuardrailStep(c) PROVE Goal
      BY <1>11, <1>a DEF Deliver, GuardrailStep, mvars, vvars, avars
<1>12. ASSUME NEW c \in Calls, GatewayStep(c) PROVE Goal
      <2>1. exec'[t].phase = exec[t].phase \/ exec[t].phase # "idle"
            BY <1>0, <1>12 DEF GatewayStep, ExecuteStep, EnterExecute, DenyExecute,
               VerifyPermit, ConsumePermit, InvokeHandler, LeaveExecute, Execution
      <2> QED BY <1>12, <2>1 DEF GatewayStep, mvars, avars
<1>13. ASSUME NEW c \in Calls, CancelRequested(c) PROVE Goal
      BY <1>13, <1>a DEF CancelRequested, CancelCall, mvars, avars
<1>14. ASSUME NEW v \in VehicleStates, VehicleChanges(v) PROVE Goal
      BY <1>14, <1>a DEF VehicleChanges, mvars, vvars, avars
<1>15. ASSUME NEW p \in Monitored, NEW v \in VehicleStates, MonitorStops(p, v) PROVE Goal
      BY <1>15, <1>a DEF MonitorStops, mvars, vvars, avars
<1>16. ASSUME NEW r \in Resets, NEW s \in Sessions \cup {None}, StartReset(r, s) PROVE Goal
      BY <1>16, <1>a DEF StartReset, EnterReset, mvars, avars
<1>17. ASSUME NEW r \in Resets, ResetCleansUp(r) PROVE Goal
      <2>1. conf[t].state = "absent" => conf'[t].state = "absent"
            BY <1>0, <1>17 DEF ResetCleansUp, CancelPendingForReset, Confirmation
      <2> QED BY <1>17, <2>1 DEF ResetCleansUp, CleanUp
<1>18. ASSUME NEW r \in Resets, ResetFinishes(r) PROVE Goal
      BY <1>18, <1>a DEF ResetFinishes, RevokeBefore, LeaveReset, mvars, avars
<1> HIDE DEF Goal
<1>19. Goal
      BY <1>1, <1>2, <1>3, <1>4, <1>5, <1>7, <1>8, <1>9, <1>10, <1>11, <1>12, <1>13, <1>14,
         <1>15, <1>16, <1>17, <1>18, GuardedCases DEF TurnStep
<1> QED BY <1>19 DEF Goal

ConfirmStep(a) ==
    \/ \E k \in Calls, s \in Sessions : ConfirmStops(a, k, s) \/ ConfirmPosts(a, k, s)
    \/ ConfirmLosesAnswer(a)
    \/ ConfirmAnswered(a)
    \/ ConfirmFinishes(a)

\* A confirm() call moves, posts and calls the gateway by its own steps only,
\* and its request starts when it is delivered.
LEMMA ConfirmAlone ==
    ASSUME GuardedInv, [Next]_vars, NEW a \in Attempts
    PROVE  \/ ConfirmStep(a)
           \/ Deliver(a)
           \/ /\ attempt'[a] = attempt[a]
              /\ exec[a].phase = "idle" => exec'[a].phase = "idle"
              /\ a \in wire' => a \in wire
              /\ req[a].phase = "idle" => req'[a].phase = "idle"
<1> DEFINE Quiet == /\ attempt'[a] = attempt[a]
                    /\ exec[a].phase = "idle" => exec'[a].phase = "idle"
                    /\ a \in wire' => a \in wire
                    /\ req[a].phase = "idle" => req'[a].phase = "idle"
           Goal == ConfirmStep(a) \/ Deliver(a) \/ Quiet
<1>0. /\ attempt \in [Attempts -> Attempt]
      /\ exec \in [Calls -> Execution]
      /\ req \in [Calls -> Request]
      /\ a \in Calls /\ a \notin Turns
      BY AuthorityAssumption
      DEF GuardedInv, GatewayInv, GatewayTypeOK, ManagerInv, ManagerTypeOK, GuardrailInv,
          GuardrailTypeOK, Calls
<1>a. UNCHANGED attempt /\ UNCHANGED exec /\ UNCHANGED wire /\ UNCHANGED req => Goal
      BY Zenon
<1>1. UNCHANGED vars => Goal
      BY <1>a DEF vars, gvars, vvars, mvars, avars
<1>2. TimePasses => Goal
      BY <1>a DEF TimePasses, gvars, vvars, mvars, avars
<1>3. ASSUME NEW t \in Turns, TurnStep(t) PROVE Goal
      <2>1. UNCHANGED req
            BY <1>3 DEF TurnStep, StartTurn, TurnLosesAnswer, TurnDropsAnswer, TurnExecutes,
                        TurnAwaitsConfirmation, TurnFinishes, gvars
      <2>2. UNCHANGED attempt
            BY <1>3 DEF TurnStep, StartTurn, TurnLosesAnswer, TurnDropsAnswer, TurnExecutes,
                        TurnAwaitsConfirmation, RegisterPending, TurnFinishes, mvars
      <2>3. exec'[a] = exec[a]
            BY <1>0, <1>3 DEF TurnStep, StartTurn, TurnLosesAnswer, TurnDropsAnswer,
               TurnExecutes, CallExecute, TurnAwaitsConfirmation, TurnFinishes, vvars
      <2>4. a \in wire' => a \in wire
            BY <1>0, <1>3 DEF TurnStep, StartTurn, TurnLosesAnswer, TurnDropsAnswer,
               TurnExecutes, TurnAwaitsConfirmation, TurnFinishes
      <2> QED BY <2>1, <2>2, <2>3, <2>4
<1>4. ASSUME NEW b \in Attempts, NEW k \in Calls, NEW s \in Sessions,
             ConfirmStops(b, k, s) \/ ConfirmPosts(b, k, s)
      PROVE  Goal
      <2>1. CASE b = a
            BY <1>4, <2>1 DEF ConfirmStep
      <2>2. CASE b # a
            <3>1. UNCHANGED <<req, exec>> /\ (a \in wire' => a \in wire)
                  BY <1>4, <2>2 DEF ConfirmStops, ConfirmPosts, gvars, vvars, avars
            <3>2. attempt'[a] = attempt[a]
                  BY <1>0, <1>4, <2>2 DEF ConfirmStops, ConfirmPosts, ConfirmRejected,
                     ConfirmExpired, ConfirmPreCancelled, BeginConfirm
            <3> QED BY <3>1, <3>2
      <2> QED BY <2>1, <2>2
<1>5. ASSUME NEW b \in Attempts,
             ConfirmLosesAnswer(b) \/ ConfirmAnswered(b) \/ ConfirmFinishes(b)
      PROVE  Goal
      <2>1. CASE b = a
            BY <1>5, <2>1 DEF ConfirmStep
      <2>2. CASE b # a
            <3>1. UNCHANGED <<req, wire>>
                  BY <1>5 DEF ConfirmLosesAnswer, ConfirmAnswered, ConfirmFinishes, gvars, avars
            <3>2. attempt'[a] = attempt[a]
                  BY <1>0, <1>5, <2>2 DEF ConfirmLosesAnswer, RevertConfirm, ConfirmAnswered,
                     ResolveConfirm, ConfirmFinishes, FinishConfirm, Return, Report
            <3>3. exec'[a] = exec[a]
                  BY <1>0, <1>5, <2>2 DEF ConfirmLosesAnswer, ConfirmAnswered, CallExecute,
                     ConfirmFinishes, vvars
            <3> QED BY <3>1, <3>2, <3>3
      <2> QED BY <2>1, <2>2
<1>6. ASSUME NEW k \in Calls, NEW s \in Sessions, DriverCancels(k, s) PROVE Goal
      BY <1>6, <1>a DEF DriverCancels, CancelConfirmation, gvars, vvars, avars
<1>7. ASSUME NEW c \in Calls, Deliver(c) PROVE Goal
      <2>1. CASE c = a
            BY <1>7, <2>1
      <2>2. CASE c # a
            BY <1>0, <1>7, <2>2 DEF Deliver, ReceiveProposal, ReceiveConfirm, mvars, vvars
      <2> QED BY <2>1, <2>2
<1>8. ASSUME NEW c \in Calls, GuardrailStep(c) PROVE Goal
      <2>1. req[c].phase # "idle"
            BY <1>8 DEF GuardrailStep, RejectToken, ConsumeToken, HandleRequest,
                        EvaluateSnapshot, IssuePermit, AskConfirmation, Refuse
      <2>2. c # a => req'[a] = req[a]
            BY <1>0, <1>8 DEF GuardrailStep, RejectToken, ConsumeToken, HandleRequest,
               EvaluateSnapshot, IssuePermit, AskConfirmation, Refuse, Answer
      <2> QED BY <1>8, <2>1, <2>2 DEF GuardrailStep, mvars, vvars, avars
<1>9. ASSUME NEW c \in Calls, GatewayStep(c) PROVE Goal
      <2>1. exec'[a].phase = exec[a].phase \/ exec[a].phase # "idle"
            BY <1>0, <1>9 DEF GatewayStep, ExecuteStep, EnterExecute, DenyExecute,
               VerifyPermit, ConsumePermit, InvokeHandler, LeaveExecute, Execution
      <2> QED BY <1>9, <2>1 DEF GatewayStep, gvars, mvars, avars
<1>10. ASSUME NEW c \in Calls, CancelRequested(c) PROVE Goal
      BY <1>10, <1>a DEF CancelRequested, CancelCall, gvars, mvars, avars
<1>11. ASSUME NEW v \in VehicleStates, VehicleChanges(v) PROVE Goal
      BY <1>11, <1>a DEF VehicleChanges, ChangeVehicle, mvars, vvars, avars
<1>12. ASSUME NEW p \in Monitored, NEW v \in VehicleStates, MonitorStops(p, v) PROVE Goal
      BY <1>12, <1>a DEF MonitorStops, MonitorStop, mvars, vvars, avars
<1>13. ASSUME NEW r \in Resets, NEW s \in Sessions \cup {None}, StartReset(r, s) PROVE Goal
      BY <1>13, <1>a DEF StartReset, EnterReset, gvars, mvars, avars
<1>14. ASSUME NEW r \in Resets, ResetCleansUp(r) \/ ResetFinishes(r) PROVE Goal
      BY <1>14, <1>a DEF ResetCleansUp, CleanUp, ResetFinishes, RevokeBefore, LeaveReset,
         gvars, mvars, avars
<1> HIDE DEF Goal
<1>15. Goal
      BY <1>1, <1>2, <1>3, <1>4, <1>5, <1>6, <1>7, <1>8, <1>9, <1>10, <1>11, <1>12, <1>13,
         <1>14, GuardedCases DEF TurnStep
<1> QED BY <1>15 DEF Goal
-----------------------------------------------------------------------------
\* Only the turns' tokens are registered: nobody registers the token that a
\* confirm() call is answered with.
LEMMA RegisteredTurns ==
    ASSUME GuardedInv, [Next]_vars, NEW a \in Attempts
    PROVE  conf'[a].state = "absent"
<1>0. /\ conf \in [Calls -> Confirmation]
      /\ a \in Calls /\ a \notin Turns
      /\ conf[a].state = "absent"
      BY AuthorityAssumption
      DEF GuardedInv, CrossInv, AttemptsSound, ManagerInv, ManagerTypeOK, Calls
<1>1. ASSUME NEW k, NEW state, Move(k, state), k \in Calls => conf[k].state # "absent"
      PROVE  conf'[a].state = "absent"
      BY <1>0, <1>1 DEF Move, Confirmation
<1>2. ASSUME NEW b \in Attempts, attempt[b].phase = "authorizing"
      PROVE  attempt[b].token \in Calls => conf[attempt[b].token].state # "absent"
      BY <1>2 DEF GuardedInv, ManagerInv, InFlightHeldOnce
<1>3. ASSUME NEW t \in Turns, NEW expires, RegisterPending(t, expires)
      PROVE  conf'[a].state = "absent"
      BY <1>0, <1>3 DEF RegisterPending, Confirmation
<1>4. ASSUME NEW b, NEW k, NEW s, NEW success,
             \/ ConfirmRejected(b, k, s) \/ ConfirmPreCancelled(b, k, s)
             \/ FinishConfirm(b, success)
      PROVE  conf'[a].state = "absent"
      BY <1>0, <1>4 DEF ConfirmRejected, ConfirmPreCancelled, FinishConfirm
<1>5. ASSUME NEW b, NEW k \in Calls, NEW s,
             ConfirmExpired(b, k, s) \/ BeginConfirm(b, k, s) \/ CancelConfirmation(k, s)
      PROVE  conf'[a].state = "absent"
      BY <1>1, <1>5 DEF ConfirmExpired, BeginConfirm, CancelConfirmation, Open
<1>6. ASSUME NEW b \in Attempts, NEW outcome, NEW executor,
             RevertConfirm(b) \/ ResolveConfirm(b, outcome, executor)
      PROVE  conf'[a].state = "absent"
      BY <1>1, <1>2, <1>6 DEF RevertConfirm, ResolveConfirm
<1>7. ASSUME NEW s, ResetConfirmations(s) PROVE conf'[a].state = "absent"
      BY <1>0, <1>7 DEF ResetConfirmations, CancelPendingForReset
<1>8. CASE UNCHANGED mgrVars \/ ManagerTick
      BY <1>0, <1>8 DEF mgrVars, mvars, ManagerTick
<1>9. [ManagerNext]_mgrVars
      BY StepOfManager
<1> QED BY <1>3, <1>4, <1>5, <1>6, <1>7, <1>8, <1>9, Zenon DEF ManagerNext
-----------------------------------------------------------------------------
\* The agent's threads keep their part of the invariant.

LEMMA AgentTypeNext ==
    ASSUME GuardedInv, [Next]_vars
    PROVE  AgentTypeOK'
<1> USE DEF AgentTypeOK, Turn
<1>0. AgentTypeOK
      BY DEF GuardedInv, CrossInv
<1>a. UNCHANGED avars => AgentTypeOK'
      BY <1>0 DEF avars
<1>1. UNCHANGED vars => AgentTypeOK'
      BY <1>a DEF vars
<1>2. TimePasses => AgentTypeOK'
      BY <1>a DEF TimePasses
<1>3. ASSUME NEW t \in Turns, StartTurn(t) PROVE AgentTypeOK'
      <2>1. UNCHANGED swept /\ wire' \subseteq Calls
            BY <1>0, <1>3 DEF StartTurn, Calls
      <2>2. CASE EndTurn(t, "cancelled")
            BY <1>0, <2>1, <2>2 DEF EndTurn
      <2>3. CASE turn' = [turn EXCEPT ![t].phase = "authorizing"]
            BY <1>0, <2>1, <2>3
      <2> QED BY <1>3, <2>2, <2>3 DEF StartTurn
<1>4. ASSUME NEW t \in Turns, TurnLosesAnswer(t) PROVE AgentTypeOK'
      BY <1>0, <1>4 DEF TurnLosesAnswer, EndTurn
<1>5. ASSUME NEW t \in Turns, TurnDropsAnswer(t) PROVE AgentTypeOK'
      <2>1. PICK result \in {"cancelled", "blocked", "failed"} : EndTurn(t, result)
            BY <1>5 DEF TurnDropsAnswer
      <2> QED BY <1>0, <1>5, <2>1 DEF TurnDropsAnswer, EndTurn
<1>6. ASSUME NEW t \in Turns, TurnExecutes(t) PROVE AgentTypeOK'
      BY <1>0, <1>6 DEF TurnExecutes
<1>7. ASSUME NEW t \in Turns, TurnAwaitsConfirmation(t) PROVE AgentTypeOK'
      BY <1>0, <1>7 DEF TurnAwaitsConfirmation, EndTurn
<1>8. ASSUME NEW t \in Turns, TurnFinishes(t) PROVE AgentTypeOK'
      <2>1. PICK result \in {"cancelled", "completed", "failed"} : EndTurn(t, result)
            BY <1>8 DEF TurnFinishes
      <2> QED BY <1>0, <1>8, <2>1 DEF TurnFinishes, EndTurn
<1>9. ASSUME NEW a \in Attempts, NEW k \in Calls, NEW s \in Sessions, ConfirmStops(a, k, s)
      PROVE  AgentTypeOK'
      BY <1>9, <1>a DEF ConfirmStops
<1>10. ASSUME NEW a \in Attempts, NEW k \in Calls, NEW s \in Sessions, ConfirmPosts(a, k, s)
      PROVE  AgentTypeOK'
      BY <1>0, <1>10 DEF ConfirmPosts, Calls
<1>11. ASSUME NEW a \in Attempts,
              ConfirmLosesAnswer(a) \/ ConfirmAnswered(a) \/ ConfirmFinishes(a)
       PROVE  AgentTypeOK'
       BY <1>11, <1>a DEF ConfirmLosesAnswer, ConfirmAnswered, ConfirmFinishes
<1>12. ASSUME NEW k \in Calls, NEW s \in Sessions, DriverCancels(k, s) PROVE AgentTypeOK'
      BY <1>12, <1>a DEF DriverCancels
<1>13. ASSUME NEW c \in Calls, Deliver(c) PROVE AgentTypeOK'
      BY <1>0, <1>13 DEF Deliver
<1>14. ASSUME NEW c \in Calls, GuardrailStep(c) \/ GatewayStep(c) \/ CancelRequested(c)
       PROVE  AgentTypeOK'
      BY <1>14, <1>a DEF GuardrailStep, GatewayStep, CancelRequested
<1>15. ASSUME NEW v \in VehicleStates, VehicleChanges(v) PROVE AgentTypeOK'
      BY <1>15, <1>a DEF VehicleChanges
<1>16. ASSUME NEW p \in Monitored, NEW v \in VehicleStates, MonitorStops(p, v)
       PROVE  AgentTypeOK'
      BY <1>16, <1>a DEF MonitorStops
<1>17. ASSUME NEW r \in Resets, NEW s \in Sessions \cup {None}, StartReset(r, s)
       PROVE  AgentTypeOK'
      BY <1>17, <1>a DEF StartReset
<1>18. ASSUME NEW r \in Resets, ResetCleansUp(r) PROVE AgentTypeOK'
      BY <1>0, <1>18 DEF ResetCleansUp
<1>19. ASSUME NEW r \in Resets, ResetFinishes(r) PROVE AgentTypeOK'
      BY <1>19, <1>a DEF ResetFinishes
<1> HIDE DEF AgentTypeOK
<1> QED BY <1>1, <1>2, <1>3, <1>4, <1>5, <1>6, <1>7, <1>8, <1>9, <1>10, <1>11, <1>12, <1>13,
           <1>14, <1>15, <1>16, <1>17, <1>18, <1>19, GuardedCases

LEMMA TurnsNext ==
    ASSUME GuardedInv, [Next]_vars
    PROVE  TurnsSound'
<1> SUFFICES ASSUME NEW t \in Turns
             PROVE  /\ exec'[t].phase # "idle" =>
                          /\ turn'[t].phase \in {"executing", "done"}
                          /\ exec'[t].permit = t
                          /\ exec'[t].proposal = t
                          /\ conf'[t].state = "absent"
                    /\ conf'[t].state # "absent" =>
                          /\ turn'[t].phase = "done"
                          /\ req'[t].phase = "answered"
                          /\ req'[t].reply = "CONFIRM"
                    /\ turn'[t].result = "completed" =>
                          exec'[t].phase = "done" /\ exec'[t].success
    BY DEF TurnsSound
<1>0. /\ turn \in [Turns -> Turn]
      /\ exec \in [Calls -> Execution]
      /\ conf \in [Calls -> Confirmation]
      /\ t \in Calls
      BY DEF GuardedInv, CrossInv, AgentTypeOK, GatewayInv, GatewayTypeOK, ManagerInv,
             ManagerTypeOK, Calls
<1>1. /\ exec[t].phase # "idle" =>
            /\ turn[t].phase \in {"executing", "done"}
            /\ exec[t].permit = t
            /\ exec[t].proposal = t
            /\ conf[t].state = "absent"
      /\ conf[t].state # "absent" =>
            /\ turn[t].phase = "done"
            /\ req[t].phase = "answered"
            /\ req[t].reply = "CONFIRM"
      /\ turn[t].result = "completed" => exec[t].phase = "done" /\ exec[t].success
      BY DEF GuardedInv, CrossInv, TurnsSound
<1>2. /\ exec[t].phase # "idle" =>
            /\ exec'[t].permit = exec[t].permit
            /\ exec'[t].proposal = exec[t].proposal
      /\ exec[t].phase = "done" => exec'[t] = exec[t]
      BY <1>0, StepOfGateway, ExecutionsStay DEF GuardedInv
<1>3. req[t].phase = "answered" => req'[t] = req[t]
      BY <1>0, StepOfGuardrail, AnswersStay DEF GuardedInv
<1>4. CASE /\ turn'[t] = turn[t]
           /\ exec[t].phase = "idle" => exec'[t].phase = "idle"
           /\ conf[t].state = "absent" => conf'[t].state = "absent"
      BY <1>1, <1>2, <1>3, <1>4
<1>5. CASE StartTurn(t) \/ TurnLosesAnswer(t) \/ TurnDropsAnswer(t)
      <2>1. UNCHANGED <<exec, conf>> /\ turn[t].phase \in {"idle", "authorizing"}
            BY <1>5 DEF StartTurn, TurnLosesAnswer, TurnDropsAnswer, vvars, mvars
      <2>2. turn'[t].result = "completed" => turn[t].result = "completed"
            BY <1>0, <1>5 DEF StartTurn, TurnLosesAnswer, TurnDropsAnswer, EndTurn, Turn
      <2> QED BY <1>1, <2>1, <2>2
<1>6. CASE TurnExecutes(t)
      <2>1. UNCHANGED conf /\ turn[t].phase = "authorizing"
            BY <1>6 DEF TurnExecutes, Answered, mvars
      <2>2. exec'[t].permit = t /\ exec'[t].proposal = t
            BY <1>0, <1>6 DEF TurnExecutes, CallExecute
      <2>3. turn'[t].phase = "executing" /\ turn'[t].result = turn[t].result
            BY <1>0, <1>6 DEF TurnExecutes, Turn
      <2> QED BY <1>1, <2>1, <2>2, <2>3
<1>7. CASE TurnAwaitsConfirmation(t)
      <2>1. /\ UNCHANGED exec
            /\ turn[t].phase = "authorizing"
            /\ req[t].phase = "answered"
            /\ req[t].reply = "CONFIRM"
            BY <1>7 DEF TurnAwaitsConfirmation, Answered, vvars
      <2>2. turn'[t].phase = "done" /\ turn'[t].result = "needs_confirmation"
            BY <1>0, <1>7 DEF TurnAwaitsConfirmation, EndTurn
      <2> QED BY <1>1, <1>3, <2>1, <2>2
<1>8. CASE TurnFinishes(t)
      <2>1. UNCHANGED <<exec, conf>> /\ exec[t].phase = "done"
            BY <1>8 DEF TurnFinishes, vvars, mvars
      <2>2. turn'[t].phase = "done" /\ (turn'[t].result = "completed" => exec[t].success)
            BY <1>0, <1>8 DEF TurnFinishes, EndTurn
      <2> QED BY <1>1, <2>1, <2>2
<1> QED BY <1>4, <1>5, <1>6, <1>7, <1>8, TurnAlone DEF TurnStep

LEMMA AttemptsNext ==
    ASSUME GuardedInv, [Next]_vars
    PROVE  AttemptsSound'
<1> SUFFICES ASSUME NEW a \in Attempts
             PROVE  /\ conf'[a].state = "absent"
                    /\ a \in wire' \/ req'[a].phase # "idle" =>
                          /\ attempt'[a].phase # "idle"
                          /\ attempt'[a].token \in Turns
                          /\ conf'[attempt'[a].token].state # "absent"
                    /\ req'[a].phase # "idle" => req'[a].token = attempt'[a].token
                    /\ exec'[a].phase # "idle" =>
                          /\ attempt'[a].phase \in {"executing", "done"}
                          /\ exec'[a].permit = a
                          /\ exec'[a].proposal = attempt'[a].token
                          /\ attempt'[a].token \in Turns
                          /\ conf'[attempt'[a].token].state = "CONSUMED"
                    /\ attempt'[a].execution => exec'[a].phase = "done"
                    /\ attempt'[a].result = "completed" =>
                          IF attempt'[a].execution THEN exec'[a].success ELSE LeftAlone(a)'
    BY DEF AttemptsSound
<1>0. /\ attempt \in [Attempts -> Attempt]
      /\ exec \in [Calls -> Execution]
      /\ conf \in [Calls -> Confirmation]
      /\ req \in [Calls -> Request]
      /\ a \in Calls /\ a \notin Turns /\ Turns \subseteq Calls
      BY AuthorityAssumption
      DEF GuardedInv, GatewayInv, GatewayTypeOK, ManagerInv, ManagerTypeOK, GuardrailInv,
          GuardrailTypeOK, Calls
<1>1. /\ a \in wire \/ req[a].phase # "idle" =>
            /\ attempt[a].phase # "idle"
            /\ attempt[a].token \in Turns
            /\ conf[attempt[a].token].state # "absent"
      /\ req[a].phase # "idle" => req[a].token = attempt[a].token
      /\ exec[a].phase # "idle" =>
            /\ attempt[a].phase \in {"executing", "done"}
            /\ exec[a].permit = a
            /\ exec[a].proposal = attempt[a].token
            /\ attempt[a].token \in Turns
            /\ conf[attempt[a].token].state = "CONSUMED"
      /\ attempt[a].execution => exec[a].phase = "done"
      /\ attempt[a].result = "completed" =>
            IF attempt[a].execution THEN exec[a].success ELSE LeftAlone(a)
      BY DEF GuardedInv, CrossInv, AttemptsSound
<1>2. /\ exec[a].phase # "idle" =>
            /\ exec'[a].permit = exec[a].permit
            /\ exec'[a].proposal = exec[a].proposal
      /\ exec[a].phase = "done" => exec'[a] = exec[a]
      BY <1>0, StepOfGateway, ExecutionsStay DEF GuardedInv
<1>3. req[a].phase # "idle" => req'[a].phase # "idle" /\ req'[a].token = req[a].token
      BY <1>0, StepOfGuardrail, AnswersStay DEF GuardedInv
<1>4. \A k \in Calls : /\ conf[k].state # "absent" => conf'[k].state # "absent"
                       /\ conf[k].state = "CONSUMED" => conf'[k].state = "CONSUMED"
      BY StepOfManager, RecordsStay DEF GuardedInv
<1>5. conf'[a].state = "absent"
      BY RegisteredTurns
<1>15. req[a].phase = "answered" => req'[a] = req[a]
      BY <1>0, StepOfGuardrail, AnswersStay DEF GuardedInv
<1>6. CASE /\ attempt'[a] = attempt[a]
           /\ exec[a].phase = "idle" => exec'[a].phase = "idle"
           /\ a \in wire' => a \in wire
           /\ req[a].phase = "idle" => req'[a].phase = "idle"
      BY <1>0, <1>1, <1>2, <1>3, <1>4, <1>5, <1>6, <1>15 DEF LeftAlone
<1>7. CASE Deliver(a)
      <2>1. UNCHANGED <<attempt, exec, conf>> /\ a \in wire /\ a \notin wire'
            BY <1>7 DEF Deliver, mvars, vvars
      <2>2. req'[a].token = attempt[a].token
            <3>1. req' = [req EXCEPT ![a] = [@ EXCEPT !.phase = "received",
                             !.token = attempt[a].token,
                             !.session = SessionOf[attempt[a].token]]]
                  BY <1>0, <1>7 DEF Deliver, ReceiveConfirm
            <3>2. req[a] \in Request /\ DOMAIN req = Calls
                  BY <1>0
            <3>3. "token" \in DOMAIN req[a]
                  BY <3>2 DEF Request
            <3> QED BY <1>0, <3>1, <3>2, <3>3
      <2> QED BY <1>1, <1>5, <1>15, <2>1, <2>2 DEF LeftAlone
<1>8. ASSUME NEW k \in Calls, NEW s \in Sessions, ConfirmStops(a, k, s)
      PROVE  /\ UNCHANGED <<exec, req, wire>>
             /\ attempt[a].phase = "idle"
             /\ attempt'[a].result # "completed" /\ ~attempt'[a].execution
      BY <1>0, <1>8 DEF ConfirmStops, ConfirmRejected, ConfirmExpired, ConfirmPreCancelled,
         Unexecuted, vvars, gvars, avars
<1>9. ASSUME NEW k \in Calls, NEW s \in Sessions, ConfirmPosts(a, k, s)
      PROVE  /\ UNCHANGED <<exec, req>>
             /\ attempt[a].phase = "idle"
             /\ attempt'[a].phase # "idle"
             /\ attempt'[a].result # "completed" /\ ~attempt'[a].execution
             /\ attempt'[a].token = k
             /\ conf[k].state = "PENDING"
      BY <1>0, <1>9, CompositionAssumption
      DEF ConfirmPosts, BeginConfirm, Unexecuted, Open, vvars, gvars
<1>10. CASE \E k \in Calls, s \in Sessions : ConfirmStops(a, k, s)
      BY <1>1, <1>5, <1>8, <1>10
<1>11. CASE \E k \in Calls, s \in Sessions : ConfirmPosts(a, k, s)
      <2>1. PICK k \in Calls, s \in Sessions : ConfirmPosts(a, k, s)
            BY <1>11
      <2>2. k \in Turns
            BY <1>9, <2>1 DEF GuardedInv, CrossInv, AttemptsSound, Calls
      <2> QED BY <1>1, <1>4, <1>5, <1>9, <2>1, <2>2
<1>12. CASE ConfirmLosesAnswer(a)
      <2>1. /\ UNCHANGED <<exec, req, wire>>
            /\ attempt[a].phase = "authorizing"
            BY <1>12 DEF ConfirmLosesAnswer, RevertConfirm, vvars, gvars, avars
      <2>2. attempt'[a].phase = "done" /\ attempt'[a].token = attempt[a].token
            /\ attempt'[a].result = "failed" /\ attempt'[a].execution = attempt[a].execution
            BY <1>0, <1>12 DEF ConfirmLosesAnswer, RevertConfirm, Return, Attempt
      <2> QED BY <1>0, <1>1, <1>4, <1>5, <2>1, <2>2
<1>13. CASE ConfirmAnswered(a)
      <2>1. /\ UNCHANGED <<req, wire>>
            /\ attempt[a].phase = "authorizing"
            /\ req[a].phase = "answered"
            /\ exec[a].phase = "idle" /\ ~attempt[a].execution
            BY <1>1, <1>13 DEF ConfirmAnswered, ResolveConfirm, gvars, avars
      <2>2. attempt'[a].phase \in {"executing", "done"} /\ attempt'[a].token = attempt[a].token
            /\ attempt'[a].execution = attempt[a].execution
            BY <1>0, <1>13 DEF ConfirmAnswered, ResolveConfirm, Return, StatusOf, Attempt
      <2>3. exec'[a].phase # "idle" => exec'[a].permit = a /\ exec'[a].proposal = attempt[a].token
            BY <1>0, <1>1, <1>13, <2>1 DEF ConfirmAnswered, CallExecute, vvars
      <2>4. conf'[attempt[a].token].state = "CONSUMED"
            BY <1>0, <1>1, <1>13, <2>1 DEF ConfirmAnswered, ResolveConfirm, Move, Confirmation
      <2>5. attempt'[a].result = "completed" => LeftAlone(a)'
            <3>1. PICK executor \in BOOLEAN :
                     /\ ResolveConfirm(a, req[a].reply, executor)
                     /\ (req[a].reply = "ALLOW" /\ executor) \/ UNCHANGED vvars
                  BY <1>13 DEF ConfirmAnswered
            <3>2. CASE req[a].reply = "ALLOW" /\ executor
                  <4>1. attempt' = [attempt EXCEPT ![a].phase = "executing"]
                        BY <3>1, <3>2 DEF ResolveConfirm
                  <4>2. attempt'[a].result = attempt[a].result
                        BY <1>0, <4>1 DEF Attempt
                  <4> QED BY <1>1, <2>1, <4>2 DEF LeftAlone
            <3>3. CASE ~(req[a].reply = "ALLOW" /\ executor)
                  <4>1. Return(a, StatusOf(req[a].reply)) /\ UNCHANGED exec
                        BY <3>1, <3>3 DEF ResolveConfirm, vvars
                  <4>2. attempt'[a].phase = "done" /\ attempt'[a].result = StatusOf(req[a].reply)
                        BY <1>0, <4>1 DEF Return, Attempt
                  <4>3. StatusOf(req[a].reply) = "completed" => req[a].reply = "ALLOW"
                        BY DEF StatusOf
                  <4> QED BY <2>1, <4>1, <4>2, <4>3 DEF LeftAlone
            <3> QED BY <3>2, <3>3
      <2> QED BY <1>1, <1>2, <1>5, <2>1, <2>2, <2>3, <2>4, <2>5
<1>14. CASE ConfirmFinishes(a)
      <2>1. UNCHANGED <<exec, req, wire, conf>> /\ exec[a].phase = "done"
            BY <1>14 DEF ConfirmFinishes, FinishConfirm, vvars, gvars, avars
      <2>2. attempt'[a].phase = "done" /\ attempt'[a].token = attempt[a].token
            /\ attempt'[a].execution /\ (attempt'[a].result = "completed" => exec[a].success)
            BY <1>0, <1>14 DEF ConfirmFinishes, FinishConfirm, Report, Attempt
      <2> QED BY <1>1, <1>5, <2>1, <2>2
<1> QED BY <1>6, <1>7, <1>10, <1>11, <1>12, <1>13, <1>14, ConfirmAlone DEF ConfirmStep

\* Given what a step of the guardrail makes of the one request it serves.
LEMMA AnswerStep ==
    ASSUME GuardedInv, NEW c \in Calls, StepOf(c), now' = now,
           req'[c].phase = "answered" => req'[c].reply # None,
           req'[c].phase = "answered" /\ req'[c].reply = "ALLOW" => permit'[c] # None,
           req'[c].phase = "answered" /\ req'[c].reply = "CONFIRM" =>
              /\ token'[c] \in Token
              /\ token'[c].expires <= now + ConfirmTTL
              /\ c \in Turns => token'[c].proposal = c,
           permit'[c] # None =>
              /\ req'[c].phase = "answered"
              /\ req'[c].reply = "ALLOW"
              /\ permit'[c].proposal = IF c \in Turns THEN c ELSE req'[c].token
    PROVE  AnswersSound'
<1>1. AnswersSound
      BY DEF GuardedInv, CrossInv
<1> SUFFICES ASSUME NEW d \in Calls
             PROVE  /\ req'[d].phase = "answered" => req'[d].reply # None
                    /\ req'[d].phase = "answered" /\ req'[d].reply = "ALLOW" =>
                          permit'[d] # None
                    /\ req'[d].phase = "answered" /\ req'[d].reply = "CONFIRM" =>
                          /\ token'[d] \in Token
                          /\ token'[d].expires <= now + ConfirmTTL
                          /\ d \in Turns => token'[d].proposal = d
                    /\ permit'[d] # None =>
                          /\ req'[d].phase = "answered"
                          /\ req'[d].reply = "ALLOW"
                          /\ permit'[d].proposal = IF d \in Turns THEN d ELSE req'[d].token
    BY DEF AnswersSound
<1>2. CASE d = c
      BY <1>2
<1>3. CASE d # c
      BY <1>1, <1>3 DEF StepOf, AnswersSound
<1> QED BY <1>2, <1>3

\* A call in its handler asked about the token of the turn it confirms.
LEMMA TokenOfTurn ==
    ASSUME GuardedInv, NEW c \in Calls, req[c].phase = "evaluated"
    PROVE  ProposalOf(c) = IF c \in Turns THEN c ELSE req[c].token
<1>1. CASE c \in Turns
      BY <1>1 DEF ProposalOf
<1>2. CASE c \notin Turns
      <2>1. /\ req[c].token \in Turns
            /\ conf[req[c].token].state # "absent"
            BY <1>2 DEF GuardedInv, CrossInv, AttemptsSound, Calls
      <2>2. req[req[c].token].phase = "answered" /\ req[req[c].token].reply = "CONFIRM"
            BY <2>1 DEF GuardedInv, CrossInv, TurnsSound
      <2>3. token[req[c].token].proposal = req[c].token
            BY <2>1, <2>2 DEF GuardedInv, CrossInv, AnswersSound, Calls
      <2> QED BY <1>2, <2>3 DEF ProposalOf
<1> QED BY <1>1, <1>2

\* The token a call has just been answered with is one.
LEMMA PendingAfterAsk ==
    ASSUME GuardedInv, [Next]_vars, NEW c \in Calls, AskConfirmation(c)
    PROVE  token'[c] \in Token
<1>1. c \in pending'
      BY DEF AskConfirmation
<1>2. PendingKnown'
      BY ComponentsNext DEF GuardrailInv, RequestsSound
<1> QED BY <1>1, <1>2 DEF PendingKnown

LEMMA AnswersNext ==
    ASSUME GuardedInv, [Next]_vars
    PROVE  AnswersSound'
<1>0. /\ AnswersSound
      /\ req \in [Calls -> Request]
      /\ token \in [Calls -> Token \cup {None}]
      /\ permit \in [Calls -> Permit \cup {None}]
      /\ NothingBeforeAnswer
      /\ now \in Nat
      BY DEF GuardedInv, CrossInv, GuardrailInv, GuardrailTypeOK, PermitTypeOK, RequestsSound
<1> USE CompositionAssumption
<1>1. UNCHANGED grVars => AnswersSound'
      BY <1>0 DEF grVars, gvars, AnswersSound
<1>2. GuardrailTick => AnswersSound'
      <2>1. ASSUME GuardrailTick, NEW c \in Calls, token[c] \in Token,
                   token[c].expires <= now + ConfirmTTL
            PROVE  token[c].expires <= now' + ConfirmTTL
            <3>1. token[c].expires \in Nat /\ now' = now + 1
                  BY <2>1 DEF Token, GuardrailTick, Tick
            <3> QED BY <1>0, <2>1, <3>1, AuthorityAssumption
      <2> QED BY <1>0, <2>1 DEF GuardrailTick, gvars, AnswersSound
<1>3. ASSUME NEW v \in VehicleStates, ChangeVehicle(v) PROVE AnswersSound'
      BY <1>0, <1>3 DEF ChangeVehicle, AnswersSound
<1>4. ASSUME NEW t \in Turns, ReceiveProposal(t) PROVE AnswersSound'
      <2>1. /\ t \in Calls /\ StepOf(t) /\ req'[t].phase = "received" /\ permit'[t] = None
            /\ now' = now
            BY <1>0, <1>4 DEF ReceiveProposal, StepOf, Calls, NothingBeforeAnswer, Request
      <2> QED BY <2>1, AnswerStep
<1>5. ASSUME NEW a \in Attempts, NEW k \in Calls, NEW s \in Sessions, ReceiveConfirm(a, k, s)
      PROVE  AnswersSound'
      <2>1. /\ a \in Calls /\ StepOf(a) /\ req'[a].phase = "received" /\ permit'[a] = None
            /\ now' = now
            BY <1>0, <1>5 DEF ReceiveConfirm, StepOf, Calls, NothingBeforeAnswer, Request
      <2> QED BY <2>1, AnswerStep
<1>6. ASSUME NEW c \in Calls, StepOf(c), now' = now, UNCHANGED permit,
             NEW reply \in {"BLOCK", "ERROR"}, Answer(c, reply)
      PROVE  AnswersSound'
      <2>1. req'[c].phase = "answered" /\ req'[c].reply = reply /\ permit'[c] = None
            BY <1>0, <1>6 DEF Answer, StepOf, NothingBeforeAnswer, Request
      <2> QED BY <1>6, <2>1, AnswerStep
<1>7. ASSUME NEW a \in Attempts, RejectToken(a) PROVE AnswersSound'
      <2>1. a \in Calls /\ StepOf(a) /\ now' = now /\ UNCHANGED permit
            BY <1>0, <1>7 DEF RejectToken, StepOf, Calls, Answer
      <2> QED BY <1>6, <1>7, <2>1 DEF RejectToken
<1>8. ASSUME NEW a \in Attempts, ConsumeToken(a) PROVE AnswersSound'
      <2>0. a \in Calls /\ now' = now /\ UNCHANGED <<permit, token, version>>
            /\ req[a].phase = "received" /\ pending' \subseteq pending
            BY <1>8 DEF ConsumeToken, TakeToken, Calls
      <2>1. CASE Answer(a, "ERROR")
            <3>1. StepOf(a)
                  BY <1>0, <2>0, <2>1 DEF StepOf, Answer
            <3> QED BY <1>6, <2>0, <2>1, <3>1
      <2>2. CASE req' = [req EXCEPT ![a] = [@ EXCEPT !.phase = "consumed",
                                                     !.moment = now, !.since = version]]
            <3>1. StepOf(a)
                  BY <1>0, <2>0, <2>2 DEF StepOf
            <3>2. req'[a].phase = "consumed" /\ permit'[a] = None
                  BY <1>0, <2>0, <2>2 DEF NothingBeforeAnswer, Request
            <3> QED BY <2>0, <3>1, <3>2, AnswerStep
      <2> QED BY <1>8, <2>1, <2>2 DEF ConsumeToken
<1>9. ASSUME NEW c \in Calls, EvaluateSnapshot(c) PROVE AnswersSound'
      <2>0. req[c].phase # "answered" /\ now' = now /\ UNCHANGED <<permit, token, version, pending>>
            BY <1>9 DEF EvaluateSnapshot
      <2>1. StepOf(c)
            BY <1>0, <1>9, <2>0 DEF EvaluateSnapshot, StepOf
      <2>2. req'[c].phase = "evaluated" /\ permit'[c] = None
            BY <1>0, <1>9, <2>0 DEF EvaluateSnapshot, NothingBeforeAnswer, Request
      <2> QED BY <2>0, <2>1, <2>2, AnswerStep
<1>10. ASSUME NEW c \in Calls, IssuePermit(c) PROVE AnswersSound'
      <2>1. StepOf(c) /\ now' = now
            BY <1>0, <1>10 DEF IssuePermit, StepOf, Answer
      <2>2. /\ req'[c].phase = "answered"
            /\ req'[c].reply = "ALLOW"
            /\ req'[c].token = req[c].token
            BY <1>0, <1>10 DEF IssuePermit, Answer, Request
      <2>3. permit'[c].proposal = ProposalOf(c) /\ permit'[c] \in Permit
            <3>1. permit'[c] = NewPermit(ProposalOf(c), req[c].version)
                  BY <1>0, <1>10 DEF IssuePermit
            <3>2. ProposalOf(c) \in Turns
                  BY <1>10, ProposalKnown DEF IssuePermit, GuardedInv, ProposalOf
            <3>3. req[c].version \in Nat /\ now + PermitTTL \in Nat
                  BY <1>0, AuthorityAssumption DEF Request
            <3> QED BY <1>0, <3>1, <3>2, <3>3 DEF NewPermit, Permit
      <2>4. ProposalOf(c) = IF c \in Turns THEN c ELSE req[c].token
            BY <1>10, TokenOfTurn DEF IssuePermit
      <2> QED BY <2>1, <2>2, <2>3, <2>4, AnswerStep
<1>11. ASSUME NEW c \in Calls, AskConfirmation(c) PROVE AnswersSound'
      <2>1. StepOf(c) /\ now' = now
            BY <1>0, <1>11 DEF AskConfirmation, StepOf, Answer
      <2>2. req'[c].phase = "answered" /\ req'[c].reply = "CONFIRM" /\ permit'[c] = None
            BY <1>0, <1>11 DEF AskConfirmation, Answer, Request, NothingBeforeAnswer
      <2>3. /\ token'[c].proposal = ProposalOf(c)
            /\ token'[c].expires = now + ConfirmTTL
            BY <1>0, <1>11 DEF AskConfirmation
      <2>4. token'[c] \in Token
            BY <1>11, PendingAfterAsk
      <2>5. now + ConfirmTTL <= now + ConfirmTTL
            BY <1>0, AuthorityAssumption
      <2>6. ProposalOf(c) = IF c \in Turns THEN c ELSE req[c].token
            BY <1>11, TokenOfTurn DEF AskConfirmation
      <2> QED BY <2>1, <2>2, <2>3, <2>4, <2>5, <2>6, AnswerStep
<1>12. ASSUME NEW c \in Calls, Refuse(c) PROVE AnswersSound'
      <2>1. StepOf(c) /\ now' = now /\ UNCHANGED permit
            BY <1>0, <1>12 DEF Refuse, StepOf, Answer
      <2>2. PICK reply \in {"BLOCK", "ERROR"} : Answer(c, reply)
            BY <1>12 DEF Refuse
      <2> QED BY <1>6, <2>1, <2>2
<1>13. ASSUME NEW p \in Monitored, NEW v \in VehicleStates, MonitorStop(p, v)
       PROVE  AnswersSound'
      BY <1>0, <1>13 DEF MonitorStop, AnswersSound
<1>14. [GuardrailNext]_grVars
      BY StepOfGuardrail
<1> QED BY <1>1, <1>2, <1>3, <1>4, <1>5, <1>7, <1>8, <1>9, <1>10, <1>11, <1>12, <1>13, <1>14,
           GuardrailCases

LEMMA VersionsNext ==
    ASSUME GuardedInv, [Next]_vars
    PROVE  VersionsKnown'
<1>0. /\ VersionsKnown
      /\ req \in [Calls -> Request]
      /\ MaxVersion \in Nat
      BY GuardrailAssumption DEF GuardedInv, CrossInv, GuardrailInv, GuardrailTypeOK
<1>a. ASSUME UNCHANGED version,
             \A c \in Calls : req'[c].phase = "evaluated" =>
                \/ req[c].phase = "evaluated" /\ req'[c].version = req[c].version
                \/ req'[c].version = version
      PROVE  VersionsKnown'
      BY <1>0, <1>a DEF VersionsKnown
<1>1. UNCHANGED grVars \/ GuardrailTick => VersionsKnown'
      BY <1>a DEF grVars, gvars, GuardrailTick
<1>2. ASSUME NEW v \in VehicleStates, ChangeVehicle(v) PROVE VersionsKnown'
      BY <1>0, <1>2 DEF ChangeVehicle, VersionsKnown
<1>3. ASSUME NEW t \in Turns, ReceiveProposal(t) PROVE VersionsKnown'
      BY <1>0, <1>3, <1>a DEF ReceiveProposal, Request, Calls
<1>4. ASSUME NEW a \in Attempts, NEW k \in Calls, NEW s \in Sessions, ReceiveConfirm(a, k, s)
      PROVE  VersionsKnown'
      BY <1>0, <1>4, <1>a DEF ReceiveConfirm, Request, Calls
<1>5. ASSUME NEW c \in Calls, NEW reply, Answer(c, reply), UNCHANGED version
      PROVE  VersionsKnown'
      BY <1>0, <1>5, <1>a DEF Answer, Request
<1>6. ASSUME NEW a \in Attempts, RejectToken(a) PROVE VersionsKnown'
      BY <1>5, <1>6 DEF RejectToken, Calls
<1>7. ASSUME NEW a \in Attempts, ConsumeToken(a) PROVE VersionsKnown'
      <2>0. a \in Calls /\ UNCHANGED version
            BY <1>7 DEF ConsumeToken, Calls
      <2>1. CASE Answer(a, "ERROR")
            BY <1>5, <2>0, <2>1
      <2>2. CASE req' = [req EXCEPT ![a] = [@ EXCEPT !.phase = "consumed",
                                                     !.moment = now, !.since = version]]
            BY <1>0, <1>a, <2>0, <2>2 DEF Request
      <2> QED BY <1>7, <2>1, <2>2 DEF ConsumeToken
<1>8. ASSUME NEW c \in Calls, EvaluateSnapshot(c) PROVE VersionsKnown'
      BY <1>0, <1>8, <1>a DEF EvaluateSnapshot, Evaluation, Request
<1>9. ASSUME NEW c \in Calls, IssuePermit(c) \/ AskConfirmation(c) \/ Refuse(c)
      PROVE VersionsKnown'
      <2>1. \E reply : Answer(c, reply)
            BY <1>9 DEF IssuePermit, AskConfirmation, Refuse
      <2>2. UNCHANGED version
            BY <1>9 DEF IssuePermit, AskConfirmation, Refuse
      <2> QED BY <1>5, <2>1, <2>2
<1>10. ASSUME NEW p \in Monitored, NEW v \in VehicleStates, MonitorStop(p, v)
       PROVE  VersionsKnown'
      BY <1>10, <1>a DEF MonitorStop
<1>11. [GuardrailNext]_grVars
      BY StepOfGuardrail
<1> QED BY <1>1, <1>2, <1>3, <1>4, <1>6, <1>7, <1>8, <1>9, <1>10, <1>11, GuardrailCases

\* Each execution presents the permit of its own call.
LEMMA OwnPermit ==
    ASSUME GuardedInv, NEW c \in Calls, exec[c].phase # "idle"
    PROVE  exec[c].permit = c
BY DEF GuardedInv, CrossInv, TurnsSound, AttemptsSound, Calls

LEMMA RunsNext ==
    ASSUME GuardedInv, [Next]_vars
    PROVE  RunsSound'
<1>0. /\ RunsSound
      /\ exec \in [Calls -> Execution]
      /\ runs \in [Calls -> Nat]
      BY DEF GuardedInv, CrossInv, GatewayInv, GatewayTypeOK
<1>1. \A c \in Calls : permit[c] # None => permit'[c] = permit[c]
      BY StepOfGuardrail, AnswersStay DEF GuardedInv
<1>2. CASE UNCHANGED <<exec, runs>>
      BY <1>0, <1>1, <1>2 DEF RunsSound
<1>3. ASSUME NEW d \in Calls, UNCHANGED runs, exec[d].phase # "done", exec'[d].success = FALSE,
             \A c \in Calls \ {d} : exec'[c] = exec[c]
      PROVE  RunsSound'
      BY <1>0, <1>1, <1>3 DEF RunsSound
<1>4. ASSUME NEW d \in Calls, NEW id, NEW p, CallExecute(d, id, p) PROVE RunsSound'
      BY <1>0, <1>3, <1>4 DEF CallExecute
<1>5. ASSUME NEW d \in Calls, EnterExecute(d) \/ VerifyPermit(d) PROVE RunsSound'
      <2>1. UNCHANGED runs /\ exec[d].phase # "done" /\ \A c \in Calls \ {d} : exec'[c] = exec[c]
            BY <1>0, <1>5 DEF EnterExecute, VerifyPermit
      <2>2. exec[d].success \in BOOLEAN /\ ~exec[d].success
            BY <1>0, <2>1 DEF RunsSound, Execution
      <2>3. exec'[d].success = exec[d].success
            BY <1>0, <1>5 DEF EnterExecute, VerifyPermit, Execution
      <2> QED BY <1>3, <2>1, <2>2, <2>3
<1>6. ASSUME NEW d \in Calls, DenyExecute(d) PROVE RunsSound'
      BY <1>0, <1>3, <1>6 DEF DenyExecute, LeaveExecute, Execution
<1>7. ASSUME NEW d \in Calls, ConsumePermit(d) PROVE RunsSound'
      <2>1. UNCHANGED runs /\ exec[d].phase # "done" /\ \A c \in Calls \ {d} : exec'[c] = exec[c]
            BY <1>0, <1>7 DEF ConsumePermit, LeaveExecute
      <2>2. exec[d].success \in BOOLEAN /\ ~exec[d].success
            BY <1>0, <2>1 DEF RunsSound, Execution
      <2>3. exec'[d].success = FALSE
            BY <1>0, <1>7, <2>2 DEF ConsumePermit, LeaveExecute, Execution
      <2> QED BY <1>3, <2>1, <2>3
<1>8. ASSUME NEW d \in Calls, InvokeHandler(d) PROVE RunsSound'
      <2>1. exec[d].phase = "armed" /\ \A c \in Calls \ {d} : exec'[c] = exec[c]
            BY <1>0, <1>8 DEF InvokeHandler, LeaveExecute
      <2>2. CASE exec[d].proposal \in Handled
            <3>1. exec[d].permit = d
                  BY <2>1, OwnPermit
            <3>2. runs[d] = 0 /\ permit[d] # None /\ permit[d].proposal = exec[d].proposal
                  BY <2>1, <3>1 DEF GuardedInv, GatewayInv, BoundaryInv, ArmedIsConsumed,
                     VerifiedStaysFit, Fit
            <3>3. runs'[d] = 1 /\ \A c \in Calls \ {d} : runs'[c] = runs[c]
                  BY <1>0, <1>8, <2>2, <3>1, <3>2 DEF InvokeHandler
            <3>4. exec'[d].phase = "done" /\ exec'[d].proposal = exec[d].proposal
                  BY <1>0, <1>8 DEF InvokeHandler, LeaveExecute, Execution
            <3> QED BY <1>0, <1>1, <2>1, <3>2, <3>3, <3>4 DEF RunsSound
      <2>3. CASE exec[d].proposal \notin Handled
            <3>1. LeaveExecute(d, FALSE) /\ UNCHANGED runs
                  BY <1>8, <2>3 DEF InvokeHandler
            <3>2. exec'[d].success = FALSE
                  BY <1>0, <3>1 DEF LeaveExecute, Execution
            <3>3. exec[d].phase # "done"
                  BY <2>1
            <3> QED BY <1>3, <2>1, <3>1, <3>2, <3>3
      <2> QED BY <2>2, <2>3
<1>9. \/ UNCHANGED <<exec, runs>>
      \/ \E d, id \in Calls, p \in Turns : CallExecute(d, id, p)
      \/ \E d \in Calls : ExecuteStep(d)
      BY StepOfGateway DEF gwVars, vvars, GatewayNext, GatewayTick, GrantPermit, CancelCall,
         EnterReset, ResetStep, CleanUp, RevokeBefore, LeaveReset
<1> QED BY <1>2, <1>4, <1>5, <1>6, <1>7, <1>8, <1>9 DEF ExecuteStep

LEMMA GuardedInvNext == GuardedInv /\ [Next]_vars => GuardedInv'
BY ComponentsNext, AgentTypeNext, AnswersNext, VersionsNext, TurnsNext, AttemptsNext, RunsNext
   DEF GuardedInv, CrossInv

LEMMA GuardedInvariance == Spec => []GuardedInv
BY GuardedInvInit, GuardedInvNext, PTL DEF Spec
-----------------------------------------------------------------------------
\* What each component promises alone, it keeps here: the composition neither
\* calls a component outside its protocol nor reaches into its state.

\* The guardrail's requests are those of its own specification.
THEOREM GuardrailIsUsedRight == Spec => GuardrailSpec
<1>1. Init => GuardrailInit
      BY DEF Init
<1>2. GuardedInv /\ [Next]_vars => [GuardrailNext]_grVars
      BY StepOfGuardrail
<1> QED BY <1>1, <1>2, GuardedInvariance, PTL DEF Spec, GuardrailSpec, grVars

\* The confirmation manager is driven within its own specification: the records
\* it is given expire in reach, and every answer it is told is one.
THEOREM ManagerIsUsedRight == Spec => ManagerSpec
<1>1. Init => ManagerInit
      BY DEF Init
<1>2. GuardedInv /\ [Next]_vars => [ManagerNext]_mgrVars
      BY StepOfManager
<1> QED BY <1>1, <1>2, GuardedInvariance, PTL DEF Spec, ManagerSpec, mgrVars

\* The gateway is called within its own specification: a call is issued one
\* permit at most, a turn's for its own proposal.
THEOREM GatewayIsUsedRight == Spec => GatewaySpec
<1>1. Init => GatewayInit
      BY DEF Init
<1>2. GuardedInv /\ [Next]_vars => [GatewayNext]_gwVars
      BY StepOfGateway
<1> QED BY <1>1, <1>2, GuardedInvariance, PTL DEF Spec, GatewaySpec, gwVars

\* So on the whole path, too, a permit drives the actuator once, a token's
\* executor is called once, and no run crosses a reset.
THEOREM WholePathKeepsPromises ==
    Spec => /\ []SingleUsePermit
            /\ []AtMostOneExecution
            /\ []OnePermitPerProposal
            /\ NoRunCrossesReset
            /\ SettledIsFinal
BY GuardrailIsUsedRight, ManagerIsUsedRight, GatewayIsUsedRight, OnePermit, PermitUsedOnce,
   TokenExecutedOnce, ResetsAreNotCrossed, SettledForGood, PTL
-----------------------------------------------------------------------------
\* What was invoked for a proposal, read off its one permit.

LEMMA Invoked ==
    ASSUME GuardedInv, NEW p, NEW i
    PROVE  i \in InvocationsOf(p) <=>
             \E c \in Calls : /\ permit[c] # None
                             /\ permit[c].proposal = p
                             /\ runs[c] = 1
                             /\ i = <<c, 1>>
<1>1. \A c \in Calls : runs[c] \in Nat /\ runs[c] <= 1
      BY DEF GuardedInv, GatewayInv, GatewayTypeOK, SingleUsePermit
<1>2. \A c \in Calls : runs[c] = 0 \/ runs[c] = 1
      BY <1>1
<1>3. 1..0 = {} /\ 1..1 = {1}
      OBVIOUS
<1>4. i \in InvocationsOf(p) <=>
        \E c \in Calls : /\ permit[c] # None
                        /\ permit[c].proposal = p
                        /\ \E n \in 1..runs[c] : i = <<c, n>>
      BY DEF InvocationsOf
<1>5. \A c \in Calls : (\E n \in 1..runs[c] : i = <<c, n>>) <=> runs[c] = 1 /\ i = <<c, 1>>
      BY <1>2, <1>3
<1> QED BY <1>4, <1>5

LEMMA OneInvocation ==
    ASSUME GuardedInv, NEW c \in Calls, permit[c] # None, permit[c].proposal \in Turns
    PROVE  InvocationsOf(permit[c].proposal) = IF runs[c] = 1 THEN {<<c, 1>>} ELSE {}
<1>1. \A d \in Calls : permit[d] # None /\ permit[d].proposal = permit[c].proposal => d = c
      BY DEF GuardedInv, GuardrailInv, LinearAuthority, HoldsAuthority
<1> DEFINE p == permit[c].proposal
<1>2. \A i : i \in InvocationsOf(p) <=> runs[c] = 1 /\ i = <<c, 1>>
      BY <1>1, Invoked
<1> QED BY <1>2

\* A success that the agent reports is one that happened, once, under the
\* permit of the call that reports it.
THEOREM SuccessHappened == Spec => []ReportedSuccessHappened
<1>1. GuardedInv => ReportedSuccessHappened
      <2> SUFFICES ASSUME GuardedInv PROVE ReportedSuccessHappened
          OBVIOUS
      <2>1. ASSUME NEW t \in Turns, turn[t].result = "completed"
            PROVE  InvocationsOf(t) = {<<t, 1>>}
            <3>1. exec[t].phase = "done" /\ exec[t].success /\ exec[t].proposal = t /\ t \in Calls
                  BY <2>1 DEF GuardedInv, CrossInv, TurnsSound, Calls
            <3>2. runs[t] = 1 /\ permit[t] # None /\ permit[t].proposal = t
                  BY <3>1 DEF GuardedInv, CrossInv, RunsSound
            <3> QED BY <3>1, <3>2, OneInvocation
      <2>2. ASSUME NEW a \in Attempts, attempt[a].result = "completed", attempt[a].execution
            PROVE  InvocationsOf(attempt[a].token) = {<<a, 1>>}
            <3>1. /\ exec[a].phase = "done"
                  /\ exec[a].success
                  /\ exec[a].proposal = attempt[a].token
                  /\ attempt[a].token \in Turns
                  /\ a \in Calls
                  BY <2>2 DEF GuardedInv, CrossInv, AttemptsSound, Calls
            <3>2. runs[a] = 1 /\ permit[a] # None /\ permit[a].proposal = attempt[a].token
                  BY <3>1 DEF GuardedInv, CrossInv, RunsSound
            <3> QED BY <3>1, <3>2, OneInvocation
      <2>3. ASSUME NEW a \in Attempts, attempt[a].result = "completed", ~attempt[a].execution
            PROVE  InvocationsOf(attempt[a].token) = {}
            <3>1. LeftAlone(a) /\ a \in Calls /\ a \notin Turns
                  BY <2>3, AuthorityAssumption
                  DEF GuardedInv, CrossInv, AttemptsSound, Calls
            <3>2. attempt[a].token \in Turns /\ req[a].token = attempt[a].token
                  BY <3>1 DEF LeftAlone, GuardedInv, CrossInv, AttemptsSound
            <3>3. permit[a] # None /\ permit[a].proposal = attempt[a].token
                  BY <3>1, <3>2 DEF LeftAlone, GuardedInv, CrossInv, AnswersSound
            <3>4. runs[a] # 1
                  BY <3>1 DEF LeftAlone, GuardedInv, CrossInv, RunsSound
            <3> QED BY <3>1, <3>2, <3>3, <3>4, OneInvocation
      <2> QED BY <2>1, <2>2, <2>3 DEF ReportedSuccessHappened
<1> QED BY <1>1, GuardedInvariance, PTL

\* The action a driver was asked about ran only under a permit issued to a
\* confirm() call of that very token, whose record is consumed.
LEMMA AskedConfirmed == GuardedInv => AskedMeansConfirmed
<1> SUFFICES ASSUME GuardedInv, NEW t \in Turns, conf[t].state # "absent",
                    NEW i \in InvocationsOf(t)
             PROVE  i[1] \in Attempts /\ attempt[i[1]].token = t /\ conf[t].state = "CONSUMED"
    BY DEF AskedMeansConfirmed
<1>1. PICK c \in Calls : /\ permit[c] # None
                        /\ permit[c].proposal = t
                        /\ runs[c] = 1
                        /\ i = <<c, 1>>
      BY Invoked
<1>2. c \notin Turns
      <2>1. SUFFICES ASSUME c \in Turns PROVE FALSE
            OBVIOUS
      <2>2. c = t
            BY <1>1, <2>1 DEF GuardedInv, CrossInv, AnswersSound
      <2> QED BY <1>1, <2>2 DEF GuardedInv, CrossInv, AnswersSound, TurnsSound
<1>3. c \in Attempts /\ req[c].token = t /\ req[c].phase = "answered"
      BY <1>1, <1>2 DEF GuardedInv, CrossInv, AnswersSound, Calls
<1>4. attempt[c].token = t
      BY <1>3 DEF GuardedInv, CrossInv, AttemptsSound
<1>5. exec[c].phase = "done"
      BY <1>1 DEF GuardedInv, CrossInv, RunsSound
<1>6. conf[attempt[c].token].state = "CONSUMED"
      BY <1>3, <1>5 DEF GuardedInv, CrossInv, AttemptsSound
<1> QED BY <1>1, <1>3, <1>4, <1>6

\* What the driver was asked about runs only under a permit of a confirm() of
\* that token.
THEOREM AskedRunsConfirmed == Spec => []AskedMeansConfirmed
BY AskedConfirmed, GuardedInvariance, PTL
-----------------------------------------------------------------------------
\* The steps of a reset, and what they reach.
LEMMA ResetSteps ==
    ASSUME GuardedInv, [Next]_vars, NEW r \in Resets, reset'[r].phase # reset[r].phase
    PROVE  \/ \E s \in Sessions \cup {None} : StartReset(r, s)
           \/ ResetCleansUp(r)
           \/ ResetFinishes(r)
<1> DEFINE Goal == \/ \E s \in Sessions \cup {None} : StartReset(r, s)
                   \/ ResetCleansUp(r)
                   \/ ResetFinishes(r)
<1>0. reset \in [Resets -> Reset]
      BY DEF GuardedInv, GatewayInv, GatewayTypeOK
<1>1. \/ UNCHANGED reset
      \/ \E q \in Resets, s \in Sessions \cup {None} : StartReset(q, s)
      \/ \E x \in Resets : ResetCleansUp(x) \/ ResetFinishes(x)
      <2> DEFINE Kinds == \/ UNCHANGED reset
                         \/ \E q \in Resets, s \in Sessions \cup {None} : StartReset(q, s)
                         \/ \E x \in Resets : ResetCleansUp(x) \/ ResetFinishes(x)
      <2>1. UNCHANGED vars \/ TimePasses => UNCHANGED reset
            BY DEF vars, vvars, TimePasses
      <2>2. ASSUME NEW t \in Turns, TurnStep(t) PROVE UNCHANGED reset
            BY <2>2 DEF TurnStep, StartTurn, TurnLosesAnswer, TurnDropsAnswer, TurnExecutes,
               CallExecute, TurnAwaitsConfirmation, TurnFinishes, vvars
      <2>3. ASSUME NEW a \in Attempts, NEW k, NEW s,
                   ConfirmStops(a, k, s) \/ ConfirmPosts(a, k, s)
            PROVE  UNCHANGED reset
            BY <2>3 DEF ConfirmStops, ConfirmPosts, vvars
      <2>4. ASSUME NEW a \in Attempts,
                   ConfirmLosesAnswer(a) \/ ConfirmAnswered(a) \/ ConfirmFinishes(a)
            PROVE  UNCHANGED reset
            BY <2>4 DEF ConfirmLosesAnswer, ConfirmAnswered, CallExecute, ConfirmFinishes, vvars
      <2>5. ASSUME NEW k, NEW s, DriverCancels(k, s) PROVE UNCHANGED reset
            BY <2>5 DEF DriverCancels, vvars
      <2>6. ASSUME NEW c \in Calls,
                   Deliver(c) \/ GuardrailStep(c) \/ GatewayStep(c) \/ CancelRequested(c)
            PROVE  UNCHANGED reset
            BY <2>6 DEF Deliver, GuardrailStep, GatewayStep, ExecuteStep, EnterExecute,
               DenyExecute, VerifyPermit, ConsumePermit, InvokeHandler, CancelRequested,
               CancelCall, vvars
      <2>7. ASSUME NEW p, NEW v, VehicleChanges(v) \/ MonitorStops(p, v) PROVE UNCHANGED reset
            BY <2>7 DEF VehicleChanges, MonitorStops, vvars
      <2> HIDE DEF Kinds
      <2>8. UNCHANGED reset => Kinds
            BY DEF Kinds
      <2>9. ASSUME NEW q \in Resets,
                   ResetCleansUp(q) \/ ResetFinishes(q)
                     \/ \E s \in Sessions \cup {None} : StartReset(q, s)
            PROVE  Kinds
            BY <2>9 DEF Kinds
      <2>10. Kinds
            BY <2>1, <2>2, <2>3, <2>4, <2>5, <2>6, <2>7, <2>8, <2>9, GuardedCases DEF TurnStep
      <2> QED BY <2>10 DEF Kinds
<1>2. ASSUME NEW q \in Resets,
             ResetCleansUp(q) \/ ResetFinishes(q)
               \/ \E s \in Sessions \cup {None} : StartReset(q, s)
      PROVE  q = r
      BY <1>0, <1>2 DEF ResetCleansUp, CleanUp, ResetFinishes, RevokeBefore, LeaveReset,
         StartReset, EnterReset
<1> QED BY <1>1, <1>2

LEMMA ResetIsolated ==
    ASSUME GuardedInv, [Next]_vars, NEW r \in Resets,
           reset[r].scope # None, reset'[r].phase # reset[r].phase
    PROVE  /\ \A k \in Calls : conf[k].session # reset[r].scope => conf'[k] = conf[k]
           /\ \A id \in Calls :
                permit[id] # None /\ SessionOf[permit[id].proposal] # reset[r].scope
                  => Revoked(id)' = Revoked(id)
<1>0. /\ conf \in [Calls -> Confirmation]
      /\ cutoff \in [Sessions \cup {None} -> Nat \cup {NoCutoff}]
      /\ reset[r].scope \in Sessions \cup {None}
      BY DEF GuardedInv, ManagerInv, ManagerTypeOK, GatewayInv, GatewayTypeOK, Reset
<1>1. ASSUME NEW id \in Calls, UNCHANGED <<permit, cutoff>>
      PROVE  Revoked(id)' = Revoked(id)
      BY <1>1 DEF Revoked
<1>2. ASSUME NEW s, StartReset(r, s) PROVE UNCHANGED <<conf, permit, cutoff>>
      BY <1>2 DEF StartReset, EnterReset, mvars
<1>3. CASE ResetCleansUp(r)
      <2>1. UNCHANGED <<permit, cutoff>>
            BY <1>3 DEF ResetCleansUp, CleanUp
      <2>2. ASSUME NEW k \in Calls, conf[k].session # reset[r].scope
            PROVE  conf'[k] = conf[k]
            BY <1>0, <1>3, <2>2 DEF ResetCleansUp, CancelPendingForReset
      <2> QED BY <1>1, <2>1, <2>2
<1>4. CASE RevokeBefore(r) /\ UNCHANGED mvars
      <2>1. UNCHANGED <<conf, permit>>
            BY <1>4 DEF RevokeBefore, mvars
      <2>2. \A s \in (Sessions \cup {None}) \ {reset[r].scope} : cutoff'[s] = cutoff[s]
            BY <1>0, <1>4 DEF RevokeBefore
      <2>3. ASSUME NEW id \in Calls, permit[id] # None,
                   SessionOf[permit[id].proposal] # reset[r].scope
            PROVE  Revoked(id)' = Revoked(id)
            <3>1. SessionOf[permit[id].proposal] \in Sessions
                  BY <2>3, AuthorityAssumption
                  DEF GuardedInv, GatewayInv, GatewayTypeOK, PermitTypeOK, Permit
            <3>2. /\ cutoff'[None] = cutoff[None]
                  /\ cutoff'[SessionOf[permit[id].proposal]] = cutoff[SessionOf[permit[id].proposal]]
                  BY <2>2, <2>3, <3>1
            <3> QED BY <2>1, <3>2 DEF Revoked
      <2> QED BY <2>1, <2>3
<1>5. CASE LeaveReset(r) /\ UNCHANGED mvars
      <2>1. UNCHANGED <<conf, permit, cutoff>>
            BY <1>5 DEF LeaveReset, mvars
      <2> QED BY <1>1, <2>1
<1> QED BY <1>1, <1>2, <1>3, <1>4, <1>5, ResetSteps DEF ResetFinishes

\* A session's reset leaves the records and the permits of every other session
\* as they are.
THEOREM ResetLeavesOthersAlone == Spec => SessionResetIsIsolated
<1>1. GuardedInv /\ [Next]_vars =>
        [\A r \in Resets : reset[r].scope # None /\ reset'[r].phase # reset[r].phase =>
           /\ \A k \in Calls : conf[k].session # reset[r].scope => conf'[k] = conf[k]
           /\ \A id \in Calls :
                permit[id] # None /\ SessionOf[permit[id].proposal] # reset[r].scope
                  => Revoked(id)' = Revoked(id)]_vars
      BY ResetIsolated
<1> QED BY <1>1, GuardedInvariance, PTL DEF Spec, SessionResetIsIsolated
-----------------------------------------------------------------------------
\* The promise to the driver: each step of the whole path is an invocation, a
\* withdrawal, or a stutter of ActuationLifecycle.

LEMMA InvokedAlways ==
    GuardedInv =>
      \A p : \A i : i \in InvocationsOf(p) <=>
        \E c \in Calls : permit[c] # None /\ permit[c].proposal = p /\ runs[c] = 1 /\ i = <<c, 1>>
BY Invoked

LEMMA InvokedNext ==
    GuardedInv' =>
      \A p : \A i : i \in InvocationsOf(p)' <=>
        \E c \in Calls :
          permit'[c] # None /\ permit'[c].proposal = p /\ runs'[c] = 1 /\ i = <<c, 1>>
<1>1. GuardedInv' =>
        (\A p : \A i : i \in InvocationsOf(p) <=>
          \E c \in Calls :
            permit[c] # None /\ permit[c].proposal = p /\ runs[c] = 1 /\ i = <<c, 1>>)'
      BY InvokedAlways, PTL
<1> QED BY <1>1

\* Only the gateway runs a handler, and meanwhile no record moves.
LEMMA RunsByHandler ==
    ASSUME GuardedInv, [Next]_vars, runs' # runs
    PROVE  \E c \in Calls : InvokeHandler(c) /\ UNCHANGED mvars
<1> DEFINE Goal == UNCHANGED runs \/ \E c \in Calls : InvokeHandler(c) /\ UNCHANGED mvars
<1>a. UNCHANGED runs => Goal
      OBVIOUS
<1>1. UNCHANGED vars \/ TimePasses => UNCHANGED runs
      BY DEF vars, vvars, TimePasses
<1>2. ASSUME NEW t \in Turns, TurnStep(t) PROVE UNCHANGED runs
      BY <1>2 DEF TurnStep, StartTurn, TurnLosesAnswer, TurnDropsAnswer, TurnExecutes,
         CallExecute, TurnAwaitsConfirmation, TurnFinishes, vvars
<1>3. ASSUME NEW a \in Attempts, NEW k, NEW s, ConfirmStops(a, k, s) \/ ConfirmPosts(a, k, s)
      PROVE  UNCHANGED runs
      BY <1>3 DEF ConfirmStops, ConfirmPosts, vvars
<1>4. ASSUME NEW a \in Attempts,
             ConfirmLosesAnswer(a) \/ ConfirmAnswered(a) \/ ConfirmFinishes(a)
      PROVE  UNCHANGED runs
      BY <1>4 DEF ConfirmLosesAnswer, ConfirmAnswered, CallExecute, ConfirmFinishes, vvars
<1>5. ASSUME NEW k, NEW s, DriverCancels(k, s) PROVE UNCHANGED runs
      BY <1>5 DEF DriverCancels, vvars
<1>6. ASSUME NEW c \in Calls, Deliver(c) \/ GuardrailStep(c) \/ CancelRequested(c)
      PROVE  UNCHANGED runs
      BY <1>6 DEF Deliver, GuardrailStep, CancelRequested, CancelCall, vvars
<1>7. ASSUME NEW c \in Calls, GatewayStep(c) PROVE Goal
      BY <1>7 DEF GatewayStep, ExecuteStep, EnterExecute, DenyExecute, VerifyPermit,
         ConsumePermit
<1>8. ASSUME NEW p, NEW v, VehicleChanges(v) \/ MonitorStops(p, v) PROVE UNCHANGED runs
      BY <1>8 DEF VehicleChanges, MonitorStops, vvars
<1>9. ASSUME NEW r, NEW s, StartReset(r, s) \/ ResetCleansUp(r) \/ ResetFinishes(r)
      PROVE  UNCHANGED runs
      BY <1>9 DEF StartReset, EnterReset, ResetCleansUp, CleanUp, ResetFinishes, RevokeBefore,
         LeaveReset
<1> HIDE DEF Goal
<1>10. Goal
      BY <1>a, <1>1, <1>2, <1>3, <1>4, <1>5, <1>6, <1>7, <1>8, <1>9, GuardedCases DEF TurnStep
<1> QED BY <1>10 DEF Goal

LEMMA PromiseInit == Init => Promise!LifecycleInit
<1> SUFFICES ASSUME Init PROVE Promise!LifecycleInit
    OBVIOUS
<1>1. \A p \in Turns : InvocationsOf(p) = {}
      BY GuardedInvInit, Invoked DEF Init, GatewayInit
<1>2. Withdrawn = {}
      BY DEF Withdrawn, Init, ManagerInit, Calls
<1> QED BY <1>1, <1>2 DEF Promise!LifecycleInit

promiseVars == <<Withdrawn, [p \in Turns |-> InvocationsOf(p)]>>

\* Where no handler runs, no invocation appears and no record of a proposal
\* that ran is withdrawn.
LEMMA WithdrawStep ==
    ASSUME GuardedInv, [Next]_vars, UNCHANGED runs
    PROVE  Promise!LifecycleNext
<1>1. GuardedInv'
      BY GuardedInvNext
<1>2. ASSUME NEW p \in Turns PROVE InvocationsOf(p)' = InvocationsOf(p)
      <2>1. \A c \in Calls : runs[c] = 1 => permit[c] # None /\ permit'[c] = permit[c]
            BY StepOfGuardrail, AnswersStay DEF GuardedInv, CrossInv, RunsSound
      <2>2. \A i : i \in InvocationsOf(p)' <=> i \in InvocationsOf(p)
            BY <1>1, <2>1, InvokedAlways, InvokedNext
      <2> QED BY <2>2
<1> DEFINE P == Withdrawn' \ Withdrawn
<1>3. Withdrawn' = Withdrawn \cup P
      BY StepOfManager, RecordsStay DEF Withdrawn, GuardedInv, Calls
<1>4. \A p \in P : InvocationsOf(p) = {}
      <2> SUFFICES ASSUME NEW p \in P PROVE InvocationsOf(p) = {}
          OBVIOUS
      <2>1. p \in Turns /\ conf[p].state = "PENDING"
            BY StepOfManager, RecordsStay DEF Withdrawn, GuardedInv, Calls
      <2> QED BY <2>1, AskedConfirmed DEF AskedMeansConfirmed
<1>5. P \in SUBSET Turns
      BY DEF Withdrawn
<1>6. Promise!Withdraw(P)
      BY <1>2, <1>3, <1>4, <1>5 DEF Promise!Withdraw
<1> QED BY <1>5, <1>6 DEF Promise!LifecycleNext

LEMMA InvokeStep ==
    ASSUME GuardedInv, [Next]_vars, NEW c \in Calls, InvokeHandler(c), UNCHANGED mvars,
           runs' # runs
    PROVE  Promise!LifecycleNext
<1>0. GuardedInv' /\ runs \in [Calls -> Nat] /\ permit' = permit
      BY GuardedInvNext DEF GuardedInv, GatewayInv, GatewayTypeOK, InvokeHandler
<1>1. exec[c].permit = c
      BY OwnPermit DEF InvokeHandler
<1>2. /\ runs[c] = 0
      /\ permit[c] # None
      /\ permit[c].proposal = exec[c].proposal
      BY <1>1 DEF InvokeHandler, GuardedInv, GatewayInv, BoundaryInv, ArmedIsConsumed,
         VerifiedStaysFit, Fit
<1>3. PICK p \in Turns : permit[c].proposal = p /\ exec[c].proposal = p
      BY <1>2 DEF GuardedInv, GatewayInv, GatewayTypeOK, PermitTypeOK, Permit
<1>4. runs' = [runs EXCEPT ![c] = 1]
      <2>1. runs' = [runs EXCEPT ![c] = @ + 1]
            BY <1>1 DEF InvokeHandler
      <2>2. runs[c] + 1 = 1
            BY <1>2
      <2> QED BY <2>1, <2>2
<1>5. p \notin Withdrawn
      <2>1. CASE c \in Turns
            BY <1>3, <2>1 DEF InvokeHandler, GuardedInv, CrossInv, TurnsSound, Withdrawn
      <2>2. CASE c \in Attempts
            BY <1>3, <2>2 DEF InvokeHandler, GuardedInv, CrossInv, AttemptsSound, Withdrawn
      <2> QED BY <2>1, <2>2 DEF Calls
<1>6. InvocationsOf(p) = {}
      <2>1. permit[c].proposal \in Turns
            BY <1>3
      <2>2. InvocationsOf(permit[c].proposal) = IF runs[c] = 1 THEN {<<c, 1>>} ELSE {}
            BY <1>2, <2>1, OneInvocation
      <2> QED BY <1>2, <1>3, <2>2
<1>7. \A d \in Calls : permit[d] # None /\ permit[d].proposal = p => d = c
      BY <1>2, <1>3 DEF GuardedInv, GuardrailInv, LinearAuthority, HoldsAuthority
<1>8. InvocationsOf(p)' = {<<c, 1>>}
      <2>1. \A i : i \in InvocationsOf(p)' <=> i = <<c, 1>>
            <3>1. \A i : i \in InvocationsOf(p)' <=>
                    \E d \in Calls : /\ permit'[d] # None
                                    /\ permit'[d].proposal = p
                                    /\ runs'[d] = 1
                                    /\ i = <<d, 1>>
                  BY <1>0, InvokedNext
            <3> QED BY <1>0, <1>2, <1>3, <1>4, <1>7, <3>1
      <2> QED BY <2>1
<1>9. ASSUME NEW q \in Turns \ {p} PROVE InvocationsOf(q)' = InvocationsOf(q)
      <2>1. \A d \in Calls : permit[d] # None /\ permit[d].proposal = q => runs'[d] = runs[d]
            BY <1>0, <1>2, <1>3, <1>4
      <2>2. \A i : i \in InvocationsOf(q)' <=> i \in InvocationsOf(q)
            BY <1>0, <2>1, InvokedAlways, InvokedNext
      <2> QED BY <2>2
<1>10. Withdrawn' = Withdrawn
      BY DEF mvars, Withdrawn
<1>11. Promise!Invoke(p)
      BY <1>3, <1>5, <1>6, <1>8, <1>9, <1>10 DEF Promise!Invoke
<1> QED BY <1>3, <1>11 DEF Promise!LifecycleNext

\* A proposed action runs at most once, and never once its confirmation was
\* cancelled, expired or swept: the composition implements ActuationLifecycle.
THEOREM PromiseKept == Spec => DriverPromise
<1>1. GuardedInv /\ [Next]_vars => [Promise!LifecycleNext]_promiseVars
      BY WithdrawStep, InvokeStep, RunsByHandler
<1> QED BY <1>1, PromiseInit, GuardedInvariance, PTL
        DEF Spec, DriverPromise, Promise!Lifecycle, promiseVars
=============================================================================
