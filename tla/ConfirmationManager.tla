-------------------------- MODULE ConfirmationManager --------------------------
(***************************************************************************)
(* The agent's confirmation manager (vehicle_agent/confirmation/manager.py): *)
(* the record of each confirmation the driver owes an answer to, and the   *)
(* threads that confirm or cancel it.  confirm() works in three critical   *)
(* sections; between them it waits, without the lock, for the guardrail's  *)
(* fresh decision and for the executor.                                    *)
(***************************************************************************)
EXTENDS Authority

VARIABLES
    conf,      \* _pending: the record of each token id; "absent" if not there
    attempt,   \* the thread of each confirm() call
    execCalls  \* history: executor.execute() calls made for each token

mvars == <<conf, attempt, execCalls>>

States == {"absent", "PENDING", "CONFIRMED", "CANCELLED", "EXPIRED", "CONSUMED"}

Confirmation == [state : States, session : Sessions \cup {None}, expires : Nat]

\* execution: an executor was called for the result; a completed one carries
\* what it returned.
Attempt ==
    [phase     : {"idle", "authorizing", "executing", "done"},
     token     : Calls \cup {None},
     result    : {None, "failed", "expired", "completed", "blocked", "needs_confirmation"},
     execution : BOOLEAN]

Unexecuted(phase, k, result) ==
    [phase |-> phase, token |-> k, result |-> result, execution |-> FALSE]

ManagerTypeOK ==
    /\ now \in Nat
    /\ conf \in [Calls -> Confirmation]
    /\ attempt \in [Attempts -> Attempt]
    /\ execCalls \in [Calls -> Nat]

ManagerInit ==
    /\ now = 0
    /\ permit = [c \in Calls |-> None]
    /\ conf = [k \in Calls |-> [state |-> "absent", session |-> None, expires |-> 0]]
    /\ attempt = [a \in Attempts |-> Unexecuted("idle", None, None)]
    /\ execCalls = [k \in Calls |-> 0]

Move(k, state) == conf' = [conf EXCEPT ![k].state = state]

Return(a, result) ==
    attempt' = [attempt EXCEPT ![a].phase = "done", ![a].result = result]
-----------------------------------------------------------------------------
\* register_pending, for a turn that was answered CONFIRM, with the expiry the
\* guardrail set when it answered.  Ids are fresh, so a registration never
\* overwrites another.
RegisterPending(t, expires) ==
    /\ conf[t].state = "absent"
    /\ conf' = [conf EXCEPT ![t] = [state |-> "PENDING", session |-> SessionOf[t],
                                    expires |-> expires]]
    /\ UNCHANGED <<now, permit, attempt, execCalls>>

\* Fault: a record in flight passes for an open one.
OpenUntilSettled(k, s) ==
    conf[k].state \in {"PENDING", "CONFIRMED"} /\ conf[k].session = s

\* The checks confirm() and cancel() share, in their order: known, same
\* session, still PENDING; expiry comes last.
Open(k, s) == conf[k].state = "PENDING" /\ conf[k].session = s

Expired(k) == now > conf[k].expires

ConfirmRejected(a, k, s) ==
    /\ attempt[a].phase = "idle"
    /\ ~Open(k, s)
    /\ attempt' = [attempt EXCEPT ![a] = Unexecuted("done", k, "failed")]
    /\ UNCHANGED <<now, permit, conf, execCalls>>

ConfirmExpired(a, k, s) ==
    /\ attempt[a].phase = "idle"
    /\ Open(k, s)
    /\ Expired(k)
    /\ Move(k, "EXPIRED")
    /\ attempt' = [attempt EXCEPT ![a] = Unexecuted("done", k, "expired")]
    /\ UNCHANGED <<now, permit, execCalls>>

\* A request that is already cancelled leaves the record PENDING.
ConfirmPreCancelled(a, k, s) ==
    /\ attempt[a].phase = "idle"
    /\ Open(k, s)
    /\ ~Expired(k)
    /\ attempt' = [attempt EXCEPT ![a] = Unexecuted("done", k, "failed")]
    /\ UNCHANGED <<now, permit, conf, execCalls>>

\* The record goes in flight and the lock is released for the round trip.
BeginConfirm(a, k, s) ==
    /\ attempt[a].phase = "idle"
    /\ Open(k, s)
    /\ ~Expired(k)
    /\ Move(k, "CONFIRMED")
    /\ attempt' = [attempt EXCEPT ![a] = Unexecuted("authorizing", k, None)]
    /\ UNCHANGED <<now, permit, execCalls>>

\* Fault: a failed round trip leaves the record in flight.
AbandonConfirm(a) ==
    /\ attempt[a].phase = "authorizing"
    /\ Return(a, "failed")
    /\ UNCHANGED <<now, permit, conf, execCalls>>

\* The round trip failed: the record is offered to a retry.
RevertConfirm(a) ==
    /\ attempt[a].phase = "authorizing"
    /\ Move(attempt[a].token, "PENDING")
    /\ Return(a, "failed")
    /\ UNCHANGED <<now, permit, execCalls>>

\* What is reported of a decision that nothing was executed under: a call without
\* an executor is completed when it is allowed, and an error envelope has no
\* outcome and is reported like a new CONFIRM.
StatusOf(outcome) ==
    CASE outcome = "ALLOW" -> "completed"
      [] outcome = "BLOCK" -> "blocked"
      [] OTHER -> "needs_confirmation"

\* Fault: the record is consumed only when nothing is left to execute.
ResolveUnconsumed(a, outcome, executor) ==
    LET k == attempt[a].token
    IN  /\ attempt[a].phase = "authorizing"
        /\ IF outcome = "ALLOW" /\ executor
             THEN /\ attempt' = [attempt EXCEPT ![a].phase = "executing"]
                  /\ execCalls' = [execCalls EXCEPT ![k] = @ + 1]
                  /\ UNCHANGED conf
             ELSE /\ Return(a, StatusOf(outcome))
                  /\ Move(k, "CONSUMED")
                  /\ UNCHANGED execCalls
        /\ UNCHANGED <<now, permit>>

\* Any answer consumes the record; only ALLOW goes on to the executor, if the
\* caller gave one (confirm()'s parameter, which is first looked at here).
ResolveConfirm(a, outcome, executor) ==
    LET k == attempt[a].token
    IN  /\ attempt[a].phase = "authorizing"
        /\ Move(k, "CONSUMED")
        /\ IF outcome = "ALLOW" /\ executor
             THEN /\ attempt' = [attempt EXCEPT ![a].phase = "executing"]
                  /\ execCalls' = [execCalls EXCEPT ![k] = @ + 1]
             ELSE /\ Return(a, StatusOf(outcome))
                  /\ UNCHANGED execCalls
        /\ UNCHANGED <<now, permit>>

Report(a, result) ==
    attempt' = [attempt EXCEPT ![a].phase = "done", ![a].result = result,
                               ![a].execution = TRUE]

\* Fault: a result that does not say it failed is a success.
FinishOptimistic(a, success) ==
    /\ attempt[a].phase = "executing"
    /\ Report(a, "completed")
    /\ UNCHANGED <<now, permit, conf, execCalls>>

FinishConfirm(a, success) ==
    /\ attempt[a].phase = "executing"
    /\ Report(a, IF success THEN "completed" ELSE "failed")
    /\ UNCHANGED <<now, permit, conf, execCalls>>
-----------------------------------------------------------------------------
CancelConfirmation(k, s) ==
    /\ Open(k, s)
    /\ Move(k, IF Expired(k) THEN "EXPIRED" ELSE "CANCELLED")
    /\ UNCHANGED <<now, permit, attempt, execCalls>>

\* Fault: the reset of one session cancels every session's records.
CancelEverySession(s) ==
    conf' = [k \in Calls |->
               IF conf[k].state = "PENDING"
                 THEN [conf[k] EXCEPT !.state = "CANCELLED"]
                 ELSE conf[k]]

\* cancel_pending_for_reset: of one session, or (None) of all.  A record in
\* flight is skipped.
CancelPendingForReset(s) ==
    conf' = [k \in Calls |->
               IF conf[k].state = "PENDING" /\ s \in {None, conf[k].session}
                 THEN [conf[k] EXCEPT !.state = "CANCELLED"]
                 ELSE conf[k]]

ResetConfirmations(s) ==
    /\ CancelPendingForReset(s)
    /\ UNCHANGED <<now, permit, attempt, execCalls>>

ManagerTick == Tick /\ UNCHANGED <<permit, mvars>>

ManagerNext ==
    \/ ManagerTick
    \/ \E t \in Turns, expires \in 0..(now + ConfirmTTL) : RegisterPending(t, expires)
    \/ \E a \in Attempts, k \in Calls, s \in Sessions :
         \/ ConfirmRejected(a, k, s)
         \/ ConfirmExpired(a, k, s)
         \/ ConfirmPreCancelled(a, k, s)
         \/ BeginConfirm(a, k, s)
    \/ \E a \in Attempts :
         \/ RevertConfirm(a)
         \/ \E outcome \in {"ALLOW", "BLOCK", "CONFIRM", "ERROR"}, executor \in BOOLEAN :
              ResolveConfirm(a, outcome, executor)
         \/ \E success \in BOOLEAN : FinishConfirm(a, success)
    \/ \E k \in Calls, s \in Sessions : CancelConfirmation(k, s)
    \/ \E s \in Sessions \cup {None} : ResetConfirmations(s)

ManagerSpec == ManagerInit /\ [][ManagerNext]_<<now, mvars>>
-----------------------------------------------------------------------------
\* A record is in flight exactly while one confirm() call holds it, and its
\* executor has been called only if it is consumed: the inductive form of
\* AtMostOneExecution.
InFlightHeldOnce ==
    /\ \A a \in Attempts : attempt[a].phase = "authorizing" =>
          attempt[a].token \in Calls /\ conf[attempt[a].token].state = "CONFIRMED"
    /\ \A k \in Calls : conf[k].state = "CONFIRMED" =>
          \E a \in Attempts : attempt[a].phase = "authorizing" /\ attempt[a].token = k
    /\ \A a, b \in Attempts :
          (/\ attempt[a].phase = "authorizing"
           /\ attempt[b].phase = "authorizing"
           /\ attempt[a].token = attempt[b].token) => a = b

\* However many threads confirm a token, retry it after a lost answer, cancel
\* it or reset it, its executor is called at most once, and only for a record
\* that ends CONSUMED (manager.confirm).
AtMostOneExecution ==
    \A k \in Calls : execCalls[k] <= 1 /\ (execCalls[k] = 1 => conf[k].state = "CONSUMED")

\* A record that was cancelled, expired or consumed stays so: no late answer,
\* revert, retry or reset reopens it.
SettledIsFinal ==
    [][\A k \in Calls : conf[k].state \in {"CANCELLED", "EXPIRED", "CONSUMED"}
         => conf'[k].state = conf[k].state]_<<now, mvars>>
=============================================================================
