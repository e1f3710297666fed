----------------------------- MODULE ActiveActions -----------------------------
(***************************************************************************)
(* Monitored actions that go on after their turn: adaptive cruise ("aac"), *)
(* highway assist ("hda"), self-parking and camp mode.  An action is known *)
(* twice: as an entry of the vehicle state, which the handler that starts  *)
(* it writes, and as a record of the registry (active_actions/registry.py),*)
(* which the monitor walks.  The two are written under different locks.    *)
(* Starts and resets exclude each other by the lifecycle boundary; monitor *)
(* evaluations, on the thread of whoever changed the vehicle or ticked, do *)
(* not take it, and stop handlers run outside the registry's lock.         *)
(***************************************************************************)
EXTENDS Naturals, FiniteSets

CONSTANTS
    Actions,    \* executions of a monitored intent, and the action ids they draw
    IntentOf,   \* what each activates
    SessionOf,  \* the session each belongs to
    Sessions,
    Ticks,      \* monitor evaluations: tick() and on_state_changed() calls
    Resets,     \* reset() calls
    None

Adas == {"aac", "hda", "autopark"}
Intents == Adas \cup {"camp"}

ASSUME ActionsAssumption ==
    /\ IntentOf \in [Actions -> Intents]
    /\ SessionOf \in [Actions -> Sessions]
    /\ Actions \cap Ticks = {}
    /\ Actions \cap Resets = {}
    /\ Ticks \cap Resets = {}
    /\ None \notin Actions \cup Ticks \cup Resets \cup Sessions

VARIABLES
    on,        \* vehicle state: "power" and the features that are engaged
    listed,    \* vehicle state: active_actions
    record,    \* ActiveActionRegistry._records: the phase of each, or "none"
    index,     \* ActiveActionRegistry._running_index
    start,     \* the handler call of each action
    worker,    \* the thread of each evaluation and reset
    boundary,  \* holder of the lifecycle boundary, or None
    handled    \* history: stop handler calls for each record

vars == <<on, listed, record, index, start, worker, boundary, handled>>

Workers == Ticks \cup Resets

RunningPhases == {"STARTED", "PROGRESS"}
TerminalPhases == {"STOPPED", "FAILED", "COMPLETED"}

Worker ==
    [phase : {"idle", "looping", "stopping", "cascading", "cascaded", "done"},
     scope : Sessions \cup {None},   \* of a reset
     todo  : SUBSET Actions,          \* records still to evaluate, or to stop
     at    : Actions \cup {None},     \* the record whose stop handler is called
     next  : Actions \cup {None},     \* the record its cascade stops
     cut   : SUBSET Actions]          \* history: entries the cascade removed

TypeOK ==
    /\ on \subseteq Intents \cup {"power"}
    /\ listed \subseteq Actions
    /\ record \in [Actions -> {"none"} \cup RunningPhases \cup TerminalPhases]
    /\ index \in [Sessions \X Intents -> Actions \cup {None}]
    /\ start \in [Actions -> {"idle", "applied", "done", "failed"}]
    /\ worker \in [Workers -> Worker]
    /\ boundary \in Actions \cup Resets \cup {None}
    /\ handled \in [Actions -> Nat]

Init ==
    /\ on = {}
    /\ listed = {}
    /\ record = [a \in Actions |-> "none"]
    /\ index = [k \in Sessions \X Intents |-> None]
    /\ start = [a \in Actions |-> "idle"]
    /\ worker = [w \in Workers |->
                   [phase |-> "idle", scope |-> None, todo |-> {}, at |-> None,
                    next |-> None, cut |-> {}]]
    /\ boundary = None
    /\ handled = [a \in Actions |-> 0]

Running(a) == record[a] \in RunningPhases

Key(a) == <<SessionOf[a], IntentOf[a]>>

\* The invariants VehicleState enforces: a transition that breaks one is
\* refused as a whole.
Valid(o, l) ==
    /\ "hda" \in o => "aac" \in o
    /\ "power" \notin o => o \cap Adas = {} /\ \A a \in l : IntentOf[a] \notin Adas
-----------------------------------------------------------------------------
\* Starting an action: the gateway calls its handler inside the boundary.

\* ActiveActionHandler replaces the entries of the same intent, of any
\* session.  Only camp mode has a flag that the handler itself sets.
StartedOn(a) == on \cup ({IntentOf[a]} \cap {"camp"})
StartedListed(a) == {b \in listed : IntentOf[b] # IntentOf[a]} \cup {a}

\* Fault: starts need no boundary.
NoBoundary == TRUE

BoundaryFree == boundary = None

ApplyStart(a) ==
    /\ start[a] = "idle"
    /\ BoundaryFree
    /\ Valid(StartedOn(a), StartedListed(a))
    /\ on' = StartedOn(a)
    /\ listed' = StartedListed(a)
    /\ start' = [start EXCEPT ![a] = "applied"]
    /\ boundary' = a
    /\ UNCHANGED <<record, index, worker, handled>>

\* The vehicle state refuses the transition and the handler raises.
RefuseStart(a) ==
    /\ start[a] = "idle"
    /\ BoundaryFree
    /\ ~Valid(StartedOn(a), StartedListed(a))
    /\ start' = [start EXCEPT ![a] = "failed"]
    /\ UNCHANGED <<on, listed, record, index, worker, boundary, handled>>

\* The record of the same session and intent that still runs.  A restart
\* stops it; its stop handler then does nothing to the vehicle.
Superseded(a) == {b \in {index[Key(a)]} \ {None} : Running(b)}

\* registry.start_action
RecordStart(a) ==
    /\ start[a] = "applied"
    /\ record' = [b \in Actions |-> IF b = a THEN "STARTED"
                                    ELSE IF b \in Superseded(a) THEN "STOPPED"
                                    ELSE record[b]]
    /\ index' = [index EXCEPT ![Key(a)] = a]
    /\ handled' = [b \in Actions |-> IF b \in Superseded(a) THEN handled[b] + 1 ELSE handled[b]]
    /\ start' = [start EXCEPT ![a] = "done"]
    /\ boundary' = None
    /\ UNCHANGED <<on, listed, worker>>

\* Fault: the vehicle keeps the entry of a start that failed.
KeepOrphan(a) == listed

DropOrphan(a) == listed \ {a}

\* The registry fails: the vehicle's entry is taken back, the flag is not.
RollBackStart(a) ==
    /\ start[a] = "applied"
    /\ listed' = DropOrphan(a)
    /\ start' = [start EXCEPT ![a] = "failed"]
    /\ boundary' = None
    /\ UNCHANGED <<on, record, index, worker, handled>>

\* The operator switches the power, unless that breaks an invariant ...
SetPower ==
    LET o == IF "power" \in on THEN on \ {"power"} ELSE on \cup {"power"}
    IN  /\ Valid(o, listed)
        /\ on' = o
        /\ UNCHANGED <<listed, record, index, start, worker, boundary, handled>>

Presets == {{}, {"power"}, {"power", "aac", "hda"}, {"power", "camp"}}

\* ... or loads a preset, which replaces the whole state, entries included.
\* Nothing else in the program engages a driving assistant.
ApplyPreset(p) ==
    /\ on' = p
    /\ listed' = {}
    /\ UNCHANGED <<record, index, start, worker, boundary, handled>>

\* registry.update_progress and complete_action: no stop handler is called.
UpdateProgress(a) ==
    /\ Running(a)
    /\ record' = [record EXCEPT ![a] = "PROGRESS"]
    /\ UNCHANGED <<on, listed, index, start, worker, boundary, handled>>

ClearIndex(S) == [k \in Sessions \X Intents |-> IF index[k] \in S THEN None ELSE index[k]]

CompleteAction(a) ==
    /\ Running(a)
    /\ record' = [record EXCEPT ![a] = "COMPLETED"]
    /\ index' = ClearIndex({a})
    /\ UNCHANGED <<on, listed, start, worker, boundary, handled>>
-----------------------------------------------------------------------------
\* Stopping: a critical section marks the records, then, without the lock,
\* the worker calls their stop handlers.

Mark(S, phase) ==
    /\ record' = [a \in Actions |-> IF a \in S THEN phase ELSE record[a]]
    /\ index' = ClearIndex(S)

InScope(a, s) == s \in {None, SessionOf[a]}

BeginTick(w, s) ==
    /\ w \in Ticks
    /\ worker[w].phase = "idle"
    /\ worker' = [worker EXCEPT ![w] = [@ EXCEPT !.phase = "looping",
                     !.todo = {a \in Actions : Running(a) /\ InScope(a, s)}]]
    /\ UNCHANGED <<on, listed, record, index, start, boundary, handled>>

\* Fault: a record that has ended since aborts the batch.
OnlyRunning(a) == Running(a)

\* The guardrail allows the action to go on, or the record was stopped or
\* completed since the evaluation began.
Passable(a) == Running(a) \/ record[a] \in TerminalPhases

PassOver(w, a) ==
    /\ w \in Ticks
    /\ worker[w].phase = "looping"
    /\ a \in worker[w].todo
    /\ Passable(a)
    /\ worker' = [worker EXCEPT ![w].todo = @ \ {a}]
    /\ UNCHANGED <<on, listed, record, index, start, boundary, handled>>

\* Fault: a record that is no longer running is stopped once more.
AnyRecord(a) == TRUE

Stoppable(a) == Running(a)

\* Any other verdict stops it; an error, a lost answer included, fails it.
StopVerdict(w, a) ==
    /\ w \in Ticks
    /\ worker[w].phase = "looping"
    /\ a \in worker[w].todo
    /\ Stoppable(a)
    /\ \E phase \in {"STOPPED", "FAILED"} : Mark({a}, phase)
    /\ worker' = [worker EXCEPT ![w] =
                     [worker[w] EXCEPT !.phase = "stopping", !.at = a, !.todo = @ \ {a}]]
    /\ UNCHANGED <<on, listed, start, boundary, handled>>

\* RuntimeOperations.reset, up to reset_and_cleanup's critical section.
BeginReset(w, s) ==
    LET S == {a \in Actions : Running(a) /\ InScope(a, s)}
    IN  /\ w \in Resets
        /\ worker[w].phase = "idle"
        /\ BoundaryFree
        /\ boundary' = w
        /\ Mark(S, "STOPPED")
        /\ worker' = [worker EXCEPT ![w] = [@ EXCEPT !.phase = "looping", !.scope = s,
                                                     !.todo = S]]
        /\ UNCHANGED <<on, listed, start, handled>>

SweepNext(w, a) ==
    /\ w \in Resets
    /\ worker[w].phase = "looping"
    /\ a \in worker[w].todo
    /\ worker' = [worker EXCEPT ![w] =
                     [worker[w] EXCEPT !.phase = "stopping", !.at = a, !.todo = @ \ {a}]]
    /\ UNCHANGED <<on, listed, record, index, start, boundary, handled>>

HdaEntries == {b \in listed : IntentOf[b] = "hda"}

\* Fault: the feature goes off, the entry stays.
LeaveListed(S) == UNCHANGED listed

Delist(S) == listed' = listed \ S

\* The stop handlers of hda, autopark and camp mode: the feature goes off, the
\* entry goes, and neither depends on whether it was there.
HandleStop(w) ==
    LET a == worker[w].at
    IN  /\ worker[w].phase = "stopping"
        /\ IntentOf[a] # "aac"
        /\ on' = on \ {IntentOf[a]}
        /\ Delist({a})
        /\ handled' = [handled EXCEPT ![a] = @ + 1]
        /\ worker' = [worker EXCEPT ![w].phase = "looping"]
        /\ UNCHANGED <<record, index, start, boundary>>

\* That of aac: highway assist cannot outlive it, so it goes off with it.
HandleAacStop(w) ==
    LET a == worker[w].at
        cascaded == "hda" \in on
    IN  /\ worker[w].phase = "stopping"
        /\ IntentOf[a] = "aac"
        /\ on' = on \ {"aac", "hda"}
        /\ Delist({a} \cup (IF cascaded THEN HdaEntries ELSE {}))
        /\ handled' = [handled EXCEPT ![a] = @ + 1]
        /\ worker' = [worker EXCEPT ![w] =
                        [@ EXCEPT !.phase = IF cascaded THEN "cascading" ELSE "looping",
                                  !.cut = IF cascaded THEN HdaEntries ELSE {}]]
        /\ UNCHANGED <<record, index, start, boundary>>

\* It then looks up the highway assist record of its own session ...
FindCascade(w) ==
    LET b == index[<<SessionOf[worker[w].at], "hda">>]
    IN  /\ worker[w].phase = "cascading"
        /\ worker' = [worker EXCEPT ![w] =
                        [@ EXCEPT !.phase = IF b # None THEN "cascaded" ELSE "looping",
                                  !.next = b]]
        /\ UNCHANGED <<on, listed, record, index, start, boundary, handled>>

\* ... and stops it, if it still runs.
StopCascade(w) ==
    LET b == worker[w].next
    IN  /\ worker[w].phase = "cascaded"
        /\ IF Stoppable(b)
             THEN /\ Mark({b}, "STOPPED")
                  /\ worker' = [worker EXCEPT ![w] = [@ EXCEPT !.phase = "stopping", !.at = b]]
             ELSE /\ worker' = [worker EXCEPT ![w].phase = "looping"]
                  /\ UNCHANGED <<record, index>>
        /\ UNCHANGED <<on, listed, start, boundary, handled>>

EndTick(w) ==
    /\ w \in Ticks
    /\ worker[w].phase = "looping"
    /\ worker[w].todo = {}
    /\ worker' = [worker EXCEPT ![w].phase = "done"]
    /\ UNCHANGED <<on, listed, record, index, start, boundary, handled>>

\* Unless its scope is a session, a reset parks the vehicle, powered off; that
\* may fail, and the boundary is left all the same.
EndReset(w) ==
    /\ w \in Resets
    /\ worker[w].phase = "looping"
    /\ worker[w].todo = {}
    /\ \/ worker[w].scope = None /\ on' = {} /\ listed' = {}
       \/ UNCHANGED <<on, listed>>
    /\ boundary' = None
    /\ worker' = [worker EXCEPT ![w].phase = "done"]
    /\ UNCHANGED <<record, index, start, handled>>

WorkerStep(w) ==
    \/ \E a \in Actions : PassOver(w, a) \/ StopVerdict(w, a) \/ SweepNext(w, a)
    \/ HandleStop(w)
    \/ HandleAacStop(w)
    \/ FindCascade(w)
    \/ StopCascade(w)
    \/ EndTick(w)
    \/ EndReset(w)

StartStep(a) == RecordStart(a) \/ RollBackStart(a)

Next ==
    \/ \E a \in Actions : ApplyStart(a) \/ RefuseStart(a) \/ StartStep(a)
    \/ \E a \in Actions : UpdateProgress(a) \/ CompleteAction(a)
    \/ SetPower \/ \E p \in Presets : ApplyPreset(p)
    \/ \E w \in Workers, s \in Sessions \cup {None} : BeginTick(w, s) \/ BeginReset(w, s)
    \/ \E w \in Workers : WorkerStep(w)

Spec == Init /\ [][Next]_vars

\* Threads that are under way go on.  Nobody owes a start, a tick or a reset.
FairSpec ==
    /\ Spec
    /\ \A a \in Actions : WF_vars(StartStep(a))
    /\ \A w \in Workers : WF_vars(WorkerStep(w))
-----------------------------------------------------------------------------
\* The index names exactly the running records, one per session and intent
\* (registry._running_index).
IndexAgrees ==
    /\ \A k \in Sessions \X Intents : index[k] # None => Running(index[k]) /\ Key(index[k]) = k
    /\ \A a \in Actions : Running(a) => index[Key(a)] = a

\* A worker owes record a its stop handler.
Owes(w, a) ==
    \/ w \in Resets /\ a \in worker[w].todo
    \/ worker[w].phase = "stopping" /\ worker[w].at = a

\* Of all who try to stop a record, evaluations, resets, cascades and
\* restarts, one calls its stop handler, once, and only when the record has
\* ended.
StopHandledOnce ==
    \A a \in Actions :
        /\ handled[a] <= 1
        /\ handled[a] = 1 => record[a] \in {"STOPPED", "FAILED"}
        /\ \A w \in Workers : Owes(w, a) => handled[a] = 0 /\ record[a] \in {"STOPPED", "FAILED"}
        /\ \A v, w \in Workers : Owes(v, a) /\ Owes(w, a) => v = w

\* No entry of the vehicle is invisible to the monitor for good: its record
\* runs (or was completed, which calls no handler), or its start is under way,
\* or somebody is about to remove it (bridge_active_action_handler: an orphan
\* "would be permanently invisible to GuardrailMonitorAdapter.tick()").
ListedIsMonitored ==
    \A a \in listed :
        \/ Running(a) \/ record[a] = "COMPLETED"
        \/ start[a] = "applied"
        \/ \E w \in Workers : Owes(w, a)

\* While a reset is under way no action of its scope runs: what it swept is not
\* started again behind its back (reset_and_cleanup: "Ensures no running active
\* actions are restored").
SweptStaysStopped ==
    \A w \in Resets : worker[w].phase \notin {"idle", "done"} =>
        \A a \in Actions : InScope(a, worker[w].scope) => ~Running(a)

\* A record that has ended never changes again.
EndedIsFinal ==
    [][\A a \in Actions : record[a] \in TerminalPhases => record'[a] = record[a]]_vars

\* Whatever stopped or failed leaves the vehicle's list in the end: a monitor's
\* error "MUST NOT let action continue silently" (monitor._handle_monitor_error).
StopReachesVehicle ==
    \A a \in Actions : record[a] \in {"STOPPED", "FAILED"} ~> a \notin listed

\* An evaluation gets through its whole batch and a reset through its sweep,
\* also when others stop the same records first (monitor._execute_stop).
WorkersFinish ==
    \A w \in Workers : worker[w].phase = "looping" ~> worker[w].phase = "done"

\* active_driving_assist.py, of the cascade from aac: the highway assist record
\* is stopped "so UI/audit readers don't see a "started" HDA action that is
\* actually off".
CascadeEndsRecords ==
    [][\A w \in Workers :
         worker[w].phase \in {"cascading", "cascaded", "stopping"} /\ worker'[w].phase = "looping"
           => \A a \in worker[w].cut : ~Running(a)']_vars

\* _active_action_common.py, of a stop handler that meets a restarted action:
\* the fresh record "now owns the field, and ... forcing the field off would
\* disengage the *new* run".
StopSparesSuccessor ==
    [][\A a, b \in Actions :
         /\ \E w \in Workers : worker[w].phase = "stopping" /\ worker[w].at = a /\ handled'[a] # handled[a]
         /\ a # b
         /\ Key(a) = Key(b)
         /\ Running(b)
         /\ b \in listed
         /\ IntentOf[b] \in on
         => IntentOf[b] \in on']_vars
=============================================================================
