----------------------- MODULE ConfirmationManager_proofs -----------------------
(***************************************************************************)
(* Proofs about ConfirmationManager for any number of turns, attempts and  *)
(* sessions: its types, and that a token is executed at most once.         *)
(***************************************************************************)
EXTENDS ConfirmationManager, TLAPS

mgrVars == <<now, mvars>>

LEMMA ManagerTypeInit == ManagerInit => ManagerTypeOK
BY AuthorityAssumption
   DEF ManagerInit, ManagerTypeOK, Confirmation, States, Attempt, Unexecuted, Calls

LEMMA ReturnType ==
    ASSUME attempt \in [Attempts -> Attempt], NEW a \in Attempts,
           NEW result \in {"failed", "completed", "blocked", "needs_confirmation"},
           Return(a, result) \/ Report(a, result)
    PROVE  attempt' \in [Attempts -> Attempt]
<1>1. ASSUME NEW execution \in BOOLEAN
      PROVE  [attempt[a] EXCEPT !.phase = "done", !.result = result, !.execution = execution]
               \in Attempt
      BY DEF Attempt
<1>2. [attempt[a] EXCEPT !.phase = "done", !.result = result] \in Attempt
      BY DEF Attempt
<1>3. CASE Return(a, result)
  <2>1. attempt' = [attempt EXCEPT ![a] = [attempt[a] EXCEPT !.phase = "done", !.result = result]]
        BY <1>3 DEF Return
  <2> QED BY <1>2, <2>1
<1>4. CASE Report(a, result)
  <2>1. attempt' = [attempt EXCEPT ![a] =
                      [attempt[a] EXCEPT !.phase = "done", !.result = result, !.execution = TRUE]]
        BY <1>4 DEF Report
  <2> QED BY <1>1, <2>1
<1> QED BY <1>3, <1>4

LEMMA MoveType ==
    ASSUME conf \in [Calls -> Confirmation], NEW k, NEW state \in States, Move(k, state)
    PROVE  conf' \in [Calls -> Confirmation]
BY DEF Move, Confirmation

LEMMA ManagerTypeNext == ManagerTypeOK /\ [ManagerNext]_mgrVars => ManagerTypeOK'
<1> SUFFICES ASSUME ManagerTypeOK, [ManagerNext]_mgrVars PROVE ManagerTypeOK'
    OBVIOUS
<1> USE AuthorityAssumption
        DEF ManagerTypeOK, Confirmation, States, Attempt, Calls
<1>1. CASE UNCHANGED mgrVars
      BY <1>1 DEF mgrVars, mvars
<1>2. CASE ManagerTick
      BY <1>2 DEF ManagerTick, Tick, mvars
<1>3. ASSUME NEW t \in Turns, NEW expires \in 0..(now + ConfirmTTL),
             RegisterPending(t, expires)
      PROVE  ManagerTypeOK'
      BY <1>3 DEF RegisterPending
<1>4. ASSUME NEW a \in Attempts, NEW k \in Calls, NEW s \in Sessions,
             \/ ConfirmRejected(a, k, s)
             \/ ConfirmExpired(a, k, s)
             \/ ConfirmPreCancelled(a, k, s)
             \/ BeginConfirm(a, k, s)
      PROVE  ManagerTypeOK'
      <2>1. \E phase \in {"done", "authorizing"}, result \in {"failed", "expired", None} :
               attempt' = [attempt EXCEPT ![a] = Unexecuted(phase, k, result)]
            BY <1>4 DEF ConfirmRejected, ConfirmExpired, ConfirmPreCancelled, BeginConfirm
      <2>2. attempt' \in [Attempts -> Attempt]
            BY <2>1 DEF Unexecuted
      <2>3. UNCHANGED conf \/ Move(k, "EXPIRED") \/ Move(k, "CONFIRMED")
            BY <1>4 DEF ConfirmRejected, ConfirmExpired, ConfirmPreCancelled, BeginConfirm
      <2>4. conf' \in [Calls -> Confirmation]
            BY <2>3, MoveType
      <2>5. UNCHANGED <<now, execCalls>>
            BY <1>4 DEF ConfirmRejected, ConfirmExpired, ConfirmPreCancelled, BeginConfirm
      <2> QED BY <2>2, <2>4, <2>5
<1>5. ASSUME NEW a \in Attempts, RevertConfirm(a) PROVE ManagerTypeOK'
      <2>1. /\ Move(attempt[a].token, "PENDING") /\ Return(a, "failed")
            /\ UNCHANGED <<now, execCalls>>
            BY <1>5 DEF RevertConfirm
      <2>2. conf' \in [Calls -> Confirmation] /\ attempt' \in [Attempts -> Attempt]
            BY <2>1, MoveType, ReturnType
      <2> QED BY <2>1, <2>2
<1>6. ASSUME NEW a \in Attempts, NEW outcome \in {"ALLOW", "BLOCK", "CONFIRM", "ERROR"},
             NEW executor \in BOOLEAN, ResolveConfirm(a, outcome, executor)
      PROVE  ManagerTypeOK'
      <2> DEFINE k == attempt[a].token
      <2>1. StatusOf(outcome) \in {"completed", "blocked", "needs_confirmation"}
            BY DEF StatusOf
      <2>2. conf' \in [Calls -> Confirmation]
            <3>1. Move(attempt[a].token, "CONSUMED")
                  BY <1>6 DEF ResolveConfirm
            <3> QED BY <3>1, MoveType
      <2>3. attempt' \in [Attempts -> Attempt]
            <3>1. PICK result \in {"completed", "blocked", "needs_confirmation"} : Return(a, result)
                     \/ attempt' = [attempt EXCEPT ![a].phase = "executing"]
                  BY <1>6, <2>1 DEF ResolveConfirm
            <3>2. ASSUME attempt' = [attempt EXCEPT ![a].phase = "executing"]
                  PROVE  attempt' \in [Attempts -> Attempt]
                  <4>1. attempt[a] \in Attempt /\ "executing" \in {"idle", "authorizing", "executing", "done"}
                        OBVIOUS
                  <4>2. [attempt[a] EXCEPT !.phase = "executing"] \in Attempt
                        BY <4>1
                  <4> QED BY <3>2, <4>2
            <3> QED BY <3>1, <3>2, ReturnType
      <2>4. execCalls' \in [Calls -> Nat]
            <3>1. execCalls' = [execCalls EXCEPT ![k] = @ + 1] \/ UNCHANGED execCalls
                  BY <1>6 DEF ResolveConfirm
            <3> QED BY <3>1
      <2> QED BY <1>6, <2>2, <2>3, <2>4 DEF ResolveConfirm
<1>7. ASSUME NEW a \in Attempts, NEW success \in BOOLEAN, FinishConfirm(a, success)
      PROVE  ManagerTypeOK'
      <2>1. /\ UNCHANGED <<now, conf, execCalls>>
            /\ \E result \in {"completed", "failed"} : Report(a, result)
            BY <1>7 DEF FinishConfirm
      <2>2. attempt' \in [Attempts -> Attempt]
            BY <2>1, ReturnType
      <2> QED BY <2>1, <2>2
<1>8. ASSUME NEW k \in Calls, NEW s \in Sessions, CancelConfirmation(k, s) PROVE ManagerTypeOK'
      BY <1>8 DEF CancelConfirmation, Move
<1>9. ASSUME NEW s \in Sessions \cup {None}, ResetConfirmations(s) PROVE ManagerTypeOK'
      BY <1>9 DEF ResetConfirmations, CancelPendingForReset
<1> QED
    BY <1>1, <1>2, <1>3, <1>4, <1>5, <1>6, <1>7, <1>8, <1>9 DEF ManagerNext

\* The manager's state keeps its types.
THEOREM ManagerTypes == ManagerSpec => []ManagerTypeOK
BY ManagerTypeInit, ManagerTypeNext, PTL DEF ManagerSpec, mgrVars
-----------------------------------------------------------------------------
\* The inductive invariant: an executor call needs a record in flight, and a
\* record goes in flight only from PENDING, so one that was consumed by an
\* execution can never be executed again.
ManagerInv == ManagerTypeOK /\ InFlightHeldOnce /\ AtMostOneExecution

LEMMA ZeroOrOne == \A n \in Nat : n <= 1 /\ n # 1 => n = 0
OBVIOUS

LEMMA ManagerInvInit == ManagerInit => ManagerInv
BY ManagerTypeInit
   DEF ManagerInit, Unexecuted, ManagerInv, InFlightHeldOnce, AtMostOneExecution

LEMMA ManagerInvNext == ManagerInv /\ [ManagerNext]_mgrVars => ManagerInv'
<1> SUFFICES ASSUME ManagerInv, [ManagerNext]_mgrVars
             PROVE  InFlightHeldOnce' /\ AtMostOneExecution'
    BY ManagerTypeNext DEF ManagerInv
<1>0. ManagerTypeOK /\ ManagerTypeOK'
      BY ManagerTypeNext DEF ManagerInv
<1> USE AuthorityAssumption
        DEF ManagerInv, ManagerTypeOK, Confirmation, States, Attempt,
            InFlightHeldOnce, AtMostOneExecution
<1>1. CASE UNCHANGED mgrVars
      BY <1>0, <1>1 DEF mgrVars, mvars
<1>2. CASE ManagerTick
      BY <1>0, <1>2 DEF ManagerTick, mvars
<1>3. ASSUME NEW t \in Turns, NEW expires \in 0..(now + ConfirmTTL),
             RegisterPending(t, expires)
      PROVE  InFlightHeldOnce' /\ AtMostOneExecution'
      BY <1>0, <1>3 DEF RegisterPending, Calls
<1>4. ASSUME NEW a \in Attempts, NEW k \in Calls, NEW s \in Sessions,
             ConfirmRejected(a, k, s) \/ ConfirmPreCancelled(a, k, s)
      PROVE  InFlightHeldOnce' /\ AtMostOneExecution'
      <2>1. /\ attempt[a].phase = "idle" /\ attempt'[a].phase = "done"
            /\ \A b \in Attempts \ {a} : attempt'[b] = attempt[b]
            /\ UNCHANGED <<conf, execCalls>>
            BY <1>0, <1>4 DEF ConfirmRejected, ConfirmPreCancelled, Unexecuted
      <2>2. AtMostOneExecution'
            BY <2>1
      <2>3. \A b \in Attempts : attempt'[b].phase = "authorizing"
              => b # a /\ attempt[b].phase = "authorizing" /\ attempt'[b] = attempt[b]
            BY <2>1
      <2>4. \A b \in Attempts : attempt[b].phase = "authorizing" => attempt'[b] = attempt[b]
            BY <2>1
      <2>5. InFlightHeldOnce'
            BY <2>1, <2>3, <2>4
      <2> QED BY <2>2, <2>5
<1>5. ASSUME NEW a \in Attempts, NEW k \in Calls, NEW s \in Sessions, ConfirmExpired(a, k, s)
      PROVE  InFlightHeldOnce' /\ AtMostOneExecution'
      BY <1>0, <1>5 DEF ConfirmExpired, Unexecuted, Move, Open
<1>6. ASSUME NEW a \in Attempts, NEW k \in Calls, NEW s \in Sessions, BeginConfirm(a, k, s)
      PROVE  InFlightHeldOnce' /\ AtMostOneExecution'
      BY <1>0, <1>6 DEF BeginConfirm, Unexecuted, Move, Open
<1>7. ASSUME NEW a \in Attempts, RevertConfirm(a)
      PROVE  InFlightHeldOnce' /\ AtMostOneExecution'
      <2> DEFINE k == attempt[a].token
      <2>1. k \in Calls /\ conf[k].state = "CONFIRMED"
            BY <1>7 DEF RevertConfirm
      <2>2. attempt'[a].phase # "authorizing"
            /\ \A b \in Attempts \ {a} : attempt'[b] = attempt[b]
            BY <1>7 DEF RevertConfirm, Return
      <2>3. conf' = [conf EXCEPT ![k].state = "PENDING"] /\ execCalls' = execCalls
            BY <1>7 DEF RevertConfirm, Move
      <2>4. conf'[k].state = "PENDING" /\ \A j \in Calls \ {k} : conf'[j] = conf[j]
            BY <1>0, <2>1, <2>3
      <2>5. \A b \in Attempts \ {a} : attempt[b].phase = "authorizing" => attempt[b].token # k
            BY <1>7 DEF RevertConfirm
      <2>6. InFlightHeldOnce'
            <3>1. \A b \in Attempts : attempt'[b].phase = "authorizing"
                    => /\ attempt[b].phase = "authorizing" /\ attempt'[b] = attempt[b]
                       /\ attempt[b].token # k
                  BY <2>2, <2>5
            <3>2. \A j \in Calls : conf'[j].state = "CONFIRMED"
                    => j # k /\ conf[j].state = "CONFIRMED"
                  BY <2>4
            <3>3. \A b \in Attempts :
                    attempt[b].phase = "authorizing" /\ attempt[b].token # k => attempt'[b] = attempt[b]
                  BY <2>2
            <3> HIDE DEF k
            <3> QED BY <2>4, <3>1, <3>2, <3>3
      <2>7. AtMostOneExecution'
            <3> HIDE DEF k
            <3>1. execCalls[k] # 1
                  BY <2>1
            <3> QED BY <2>3, <2>4, <3>1
      <2> QED BY <2>6, <2>7
<1>8. ASSUME NEW a \in Attempts, NEW outcome \in {"ALLOW", "BLOCK", "CONFIRM", "ERROR"},
             NEW executor \in BOOLEAN, ResolveConfirm(a, outcome, executor)
      PROVE  InFlightHeldOnce' /\ AtMostOneExecution'
      <2> DEFINE k == attempt[a].token
      <2>1. k \in Calls /\ conf[k].state = "CONFIRMED"
            BY <1>8 DEF ResolveConfirm
      <2>2. attempt'[a].phase # "authorizing"
            /\ \A b \in Attempts \ {a} : attempt'[b] = attempt[b]
            BY <1>8 DEF ResolveConfirm, Return
      <2>3. conf' = [conf EXCEPT ![k].state = "CONSUMED"]
            BY <1>8 DEF ResolveConfirm, Move
      <2>4. InFlightHeldOnce'
            <3>1. \A b \in Attempts \ {a} : attempt[b].phase = "authorizing" => attempt[b].token # k
                  BY <1>8 DEF ResolveConfirm
            <3>2. conf'[k].state = "CONSUMED" /\ \A j \in Calls \ {k} : conf'[j] = conf[j]
                  BY <1>0, <2>1, <2>3
            <3>3. \A b \in Attempts : attempt'[b].phase = "authorizing"
                    => /\ attempt[b].phase = "authorizing" /\ attempt'[b] = attempt[b]
                       /\ attempt[b].token # k
                  BY <2>2, <3>1
            <3>4. \A j \in Calls : conf'[j].state = "CONFIRMED"
                    => j # k /\ conf[j].state = "CONFIRMED"
                  BY <3>2
            <3>5. \A b \in Attempts :
                    attempt[b].phase = "authorizing" /\ attempt[b].token # k => attempt'[b] = attempt[b]
                  BY <2>2
            <3> HIDE DEF k
            <3> QED BY <3>2, <3>3, <3>4, <3>5
      <2>5. execCalls[k] = 0
            <3> HIDE DEF k
            <3>1. execCalls[k] \in Nat
                  BY <1>0, <2>1
            <3>2. execCalls[k] <= 1 /\ (execCalls[k] = 1 => conf[k].state = "CONSUMED")
                  BY <2>1
            <3>3. execCalls[k] # 1
                  BY <2>1, <3>2
            <3> QED BY <3>1, <3>2, <3>3, ZeroOrOne
      <2>6. execCalls' = [execCalls EXCEPT ![k] = @ + 1] \/ execCalls' = execCalls
            BY <1>8 DEF ResolveConfirm
      <2>7. AtMostOneExecution'
            <3>1. conf'[k].state = "CONSUMED" /\ \A j \in Calls \ {k} : conf'[j] = conf[j]
                  BY <1>0, <2>1, <2>3
            <3>2. execCalls'[k] \in {0, 1} /\ \A j \in Calls \ {k} : execCalls'[j] = execCalls[j]
                  BY <1>0, <2>1, <2>5, <2>6
            <3> HIDE DEF k
            <3>3. ASSUME NEW j \in Calls
                  PROVE  execCalls'[j] <= 1 /\ (execCalls'[j] = 1 => conf'[j].state = "CONSUMED")
                  <4>1. CASE j = k
                        BY <4>1, <3>1, <3>2
                  <4>2. CASE j # k
                        BY <4>2, <3>1, <3>2
                  <4> QED BY <4>1, <4>2
            <3> QED BY <3>3
      <2> QED BY <2>4, <2>7
<1>9. ASSUME NEW a \in Attempts, NEW success \in BOOLEAN, FinishConfirm(a, success)
      PROVE  InFlightHeldOnce' /\ AtMostOneExecution'
      <2>1. /\ attempt[a].phase = "executing" /\ conf' = conf /\ execCalls' = execCalls
            /\ \E result \in {"completed", "failed"} : Report(a, result)
            BY <1>9 DEF FinishConfirm
      <2>2. /\ attempt'[a].phase = "done"
            /\ \A b \in Attempts \ {a} : attempt'[b] = attempt[b]
            BY <1>0, <2>1 DEF Report
      <2>3. AtMostOneExecution'
            BY <1>0, <2>1
      <2>4. \A b \in Attempts : attempt[b].phase = "authorizing" \/ attempt'[b].phase = "authorizing"
                                  => attempt'[b] = attempt[b]
            BY <2>1, <2>2
      <2>5. InFlightHeldOnce'
            BY <1>0, <2>1, <2>4
      <2> QED BY <2>3, <2>5
<1>10. ASSUME NEW k \in Calls, NEW s \in Sessions, CancelConfirmation(k, s)
       PROVE  InFlightHeldOnce' /\ AtMostOneExecution'
       BY <1>0, <1>10 DEF CancelConfirmation, Move, Open
<1>11. ASSUME NEW s \in Sessions \cup {None}, ResetConfirmations(s)
       PROVE  InFlightHeldOnce' /\ AtMostOneExecution'
       BY <1>0, <1>11 DEF ResetConfirmations, CancelPendingForReset
<1> HIDE AuthorityAssumption
         DEF ManagerInv, ManagerTypeOK, Confirmation, States, Attempt,
             InFlightHeldOnce, AtMostOneExecution
<1>12. ASSUME NEW a \in Attempts, NEW k \in Calls, NEW s \in Sessions,
              \/ ConfirmRejected(a, k, s) \/ ConfirmExpired(a, k, s)
              \/ ConfirmPreCancelled(a, k, s) \/ BeginConfirm(a, k, s)
       PROVE  InFlightHeldOnce' /\ AtMostOneExecution'
       BY <1>4, <1>5, <1>6, <1>12
<1>13. ASSUME NEW a \in Attempts,
              \/ RevertConfirm(a)
              \/ \E outcome \in {"ALLOW", "BLOCK", "CONFIRM", "ERROR"}, executor \in BOOLEAN :
                   ResolveConfirm(a, outcome, executor)
              \/ \E success \in BOOLEAN : FinishConfirm(a, success)
       PROVE  InFlightHeldOnce' /\ AtMostOneExecution'
       BY <1>7, <1>8, <1>9, <1>13
<1> QED BY <1>1, <1>2, <1>3, <1>10, <1>11, <1>12, <1>13 DEF ManagerNext

\* At most one executor call per token, for any number of confirm(), cancel()
\* and reset calls in any order.
THEOREM TokenExecutedOnce == ManagerSpec => []AtMostOneExecution
<1>1. ManagerSpec => []ManagerInv
      BY ManagerInvInit, ManagerInvNext, PTL DEF ManagerSpec, mgrVars
<1> QED BY <1>1, PTL DEF ManagerInv

LEMMA SettledStep ==
    ManagerInv /\ [ManagerNext]_mgrVars =>
      \A k \in Calls : conf[k].state \in {"CANCELLED", "EXPIRED", "CONSUMED"}
        => conf'[k].state = conf[k].state
<1> SUFFICES ASSUME ManagerInv, [ManagerNext]_mgrVars,
                    NEW k \in Calls, conf[k].state \in {"CANCELLED", "EXPIRED", "CONSUMED"}
             PROVE  conf'[k] = conf[k]
    OBVIOUS
<1> USE AuthorityAssumption DEF ManagerInv, ManagerTypeOK, Confirmation, States, Attempt
<1>1. ASSUME conf' = conf PROVE conf'[k] = conf[k]
      BY <1>1
<1>3. ASSUME NEW t \in Turns, NEW expires \in 0..(now + ConfirmTTL),
             RegisterPending(t, expires)
      PROVE  conf'[k] = conf[k]
      BY <1>3 DEF RegisterPending, Calls
<1>4. ASSUME NEW a \in Attempts, NEW j \in Calls, NEW s \in Sessions,
             \/ ConfirmRejected(a, j, s)
             \/ ConfirmExpired(a, j, s)
             \/ ConfirmPreCancelled(a, j, s)
             \/ BeginConfirm(a, j, s)
      PROVE  conf'[k] = conf[k]
      BY <1>4 DEF ConfirmRejected, ConfirmExpired, ConfirmPreCancelled, BeginConfirm, Move, Open
<1>5. ASSUME NEW a \in Attempts, attempt[a].phase = "authorizing",
             NEW state \in States, Move(attempt[a].token, state)
      PROVE  conf'[k] = conf[k]
      BY <1>5 DEF Move, InFlightHeldOnce
<1>6. ASSUME NEW j \in Calls, NEW s \in Sessions, CancelConfirmation(j, s) PROVE conf'[k] = conf[k]
      BY <1>6 DEF CancelConfirmation, Move, Open
<1>7. ASSUME NEW s \in Sessions \cup {None}, ResetConfirmations(s) PROVE conf'[k] = conf[k]
      BY <1>7 DEF ResetConfirmations, CancelPendingForReset
<1> QED
    BY <1>1, <1>3, <1>4, <1>5, <1>6, <1>7
    DEF ManagerNext, ManagerTick, RevertConfirm, ResolveConfirm, FinishConfirm, mgrVars, mvars

\* A settled record is never reopened.
THEOREM SettledForGood == ManagerSpec => SettledIsFinal
<1>1. ManagerSpec => []ManagerInv
      BY ManagerInvInit, ManagerInvNext, PTL DEF ManagerSpec, mgrVars
<1> QED BY <1>1, SettledStep, PTL DEF SettledIsFinal, ManagerSpec, mgrVars
=============================================================================
