------------------------------ MODULE EventStream ------------------------------
(***************************************************************************)
(* The public events of a session, from the threads that emit them to the  *)
(* user interfaces that follow them: the append-only store, which accepts  *)
(* an event only if it continues a legal stream; subscriptions, to which   *)
(* an event is handed after the store's lock is released; connections that *)
(* read on from their last acknowledgement; and the reset of a session,    *)
(* which empties the store and so numbers its events from 1 again.         *)
(***************************************************************************)
EXTENDS Naturals, Sequences, SequencesExt, FiniteSets

CONSTANTS
    Sessions,
    Turns,
    SessionOf,    \* the session of each turn
    Proposals,
    Executions,
    Emitters,     \* threads that emit
    Emits,        \* the events each may emit, in any order
    Subscribers,  \* subscriptions, and the threads that open them
    Since,        \* the since_sequence each subscription asks for
    Connections,  \* connections of a user interface that polls
    Follows,      \* the session each subscription and connection is for
    Resets,       \* reset() calls
    ResetScope,   \* the session each is for, or None for all of them
    Companies,    \* the subscriptions, connections and resets that occur together
    MaxEvents,    \* MAX_EVENTS_PER_SESSION
    MaxPending,   \* MAX_PENDING_EVENTS
    MaxChunks,    \* MAX_RESPONSE_CHUNKS
    None

VARIABLES
    events,   \* AgentEventStore._events; an event's sequence is its place
    epoch,    \* history: how often each session's events were cleared
    emitted,  \* per emitter, the stored event it has yet to notify of
    sub,      \* EventStreamAdapter._session_subscribers
    drain,    \* per thread: subscriptions it has to drain, the one at work first
    calling,  \* threads inside a callback
    got,      \* history: what each callback was called with
    acked,    \* UIConnectionRegistry._acked
    conn,     \* the reconnect() call of each connection
    reset     \* how far each reset() call is

vars == <<events, epoch, emitted, sub, drain, calling, got, acked, conn, reset>>

Threads == Emitters \cup Subscribers

Phases ==
    <<"received", "resolving", "proposing", "authorizing", "executing", "responding",
      "completed", "failed">>
PhaseAt(p) == CHOOSE i \in DOMAIN Phases : Phases[i] = p
TerminalPhases == {"completed", "failed"}

TurnProgressEvents == [type : {"progress"}, turn : Turns, phase : ToSet(Phases)]
ResponseChunkEvents == [type : {"chunk"}, turn : Turns, index : Nat, final : BOOLEAN]
ProposalEvents == [type : {"proposal"}, turn : Turns, proposal : Proposals]
DecisionEvents ==
    [type : {"decision"}, turn : Turns, proposal : Proposals, outcome : {"ALLOW", "BLOCK", "CONFIRM"}]
ExecutionEvents ==
    [type : {"execution"}, turn : Turns, proposal : Proposals, execution : Executions,
     phase : {"started", "succeeded", "failed", "stopped"}]
EffectEvents ==  \* active_action events
    [type : {"effect"}, turn : Turns, proposal : Proposals, execution : Executions]
StateChangedEvents ==  \* execution is source_execution_id, which may be missing
    [type : {"changed"}, turn : Turns, actor : {"AGENT", "OPERATOR"},
     execution : Executions \cup {None}]

Events ==
    TurnProgressEvents \cup ResponseChunkEvents \cup ProposalEvents \cup DecisionEvents
      \cup ExecutionEvents \cup EffectEvents \cup StateChangedEvents

\* What the emit_ methods of the pipeline build.
Progress(t, phase) == [type |-> "progress", turn |-> t, phase |-> phase]
Chunk(t, i, final) == [type |-> "chunk", turn |-> t, index |-> i, final |-> final]
Proposal(t, p) == [type |-> "proposal", turn |-> t, proposal |-> p]
Decision(t, p, outcome) == [type |-> "decision", turn |-> t, proposal |-> p, outcome |-> outcome]
Execution(t, p, x, phase) ==
    [type |-> "execution", turn |-> t, proposal |-> p, execution |-> x, phase |-> phase]
Effect(t, p, x) == [type |-> "effect", turn |-> t, proposal |-> p, execution |-> x]
StateChanged(t, actor, x) == [type |-> "changed", turn |-> t, actor |-> actor, execution |-> x]

ASSUME StreamAssumption ==
    /\ SessionOf \in [Turns -> Sessions]
    /\ \A e \in Emitters : \A ev \in Emits[e] : ev \in Events
    /\ Since \in [Subscribers -> Nat]
    /\ Follows \in [Subscribers \cup Connections -> Sessions]
    /\ ResetScope \in [Resets -> Sessions \cup {None}]
    /\ \A present \in Companies : present \subseteq Subscribers \cup Connections \cup Resets
    /\ Emitters \cap Subscribers = {}
    /\ IsFiniteSet(Subscribers)
    /\ MaxEvents \in Nat /\ MaxPending \in Nat /\ MaxChunks \in Nat
    /\ None \notin Sessions \cup Executions

(***************************************************************************)
(* What the store accepts after the events q of the session.               *)
(***************************************************************************)

OfType(q, type) == {i \in DOMAIN q : q[i].type = type}
InTurn(q, type, t) == {i \in OfType(q, type) : q[i].turn = t}
About(q, type, p) == {i \in OfType(q, type) : q[i].proposal = p}
Steps(q, x) == {i \in OfType(q, "execution") : q[i].execution = x}

ContinuesProgress(ev, q) ==
    \A i \in InTurn(q, "progress", ev.turn) :
        q[i].phase \notin TerminalPhases /\ PhaseAt(q[i].phase) <= PhaseAt(ev.phase)

\* Fault: chunks may go on after the final one.
ContinuesFinal(ev, q) ==
    ev.index < MaxChunks /\ ev.index = Cardinality(InTurn(q, "chunk", ev.turn))

ContinuesChunks(ev, q) ==
    /\ ev.index < MaxChunks
    /\ ev.index = Cardinality(InTurn(q, "chunk", ev.turn))
    /\ \A i \in InTurn(q, "chunk", ev.turn) : ~q[i].final

Proposed(ev, q) == \E i \in About(q, "proposal", ev.proposal) : q[i].turn = ev.turn

AnswersProposal(ev, q) == Proposed(ev, q) /\ About(q, "decision", ev.proposal) = {}

\* Fault: it only matters that the execution has started.
HasStarted(ev, q) ==
    \E i \in Steps(q, ev.execution) :
        q[i].phase = "started" /\ q[i].proposal = ev.proposal /\ q[i].turn = ev.turn

\* The execution has started and not ended.
Underway(x, q) == Steps(q, x) # {} /\ \A i \in Steps(q, x) : q[i].phase = "started"

\* The execution is the event's own and has started and not ended.
Running(ev, q) ==
    /\ \E i \in Steps(q, ev.execution) :
           q[i].phase = "started" /\ q[i].proposal = ev.proposal /\ q[i].turn = ev.turn
    /\ \A i \in Steps(q, ev.execution) : q[i].phase = "started"

\* An execution is told by its id alone: nothing keeps a second one of the
\* same proposal from starting.
ContinuesExecution(ev, q) ==
    /\ \E i \in About(q, "decision", ev.proposal) : q[i].outcome = "ALLOW"
    /\ Proposed(ev, q)
    /\ IF ev.phase = "started" THEN Steps(q, ev.execution) = {} ELSE Running(ev, q)

\* validate_next_event; a refused event changes nothing.
Accepts(ev, q) ==
    \/ ev.type = "progress" /\ ContinuesProgress(ev, q)
    \/ ev.type = "chunk" /\ ContinuesChunks(ev, q)
    \/ ev.type = "proposal" /\ About(q, "proposal", ev.proposal) = {}
    \/ ev.type = "decision" /\ AnswersProposal(ev, q)
    \/ ev.type = "execution" /\ ContinuesExecution(ev, q)
    \/ ev.type = "effect" /\ Running(ev, q)
    \/ ev.type = "changed" /\ (ev.actor = "AGENT" => Underway(ev.execution, q))

(***************************************************************************)
(* Emitting: AgentEventPipeline.emit_raw stores, then notifies.            *)
(***************************************************************************)

Idle(th) == drain[th] = <<>> /\ th \notin calling

\* AgentEventStore.append.
Store(e, ev) ==
    LET s == SessionOf[ev.turn] IN
    /\ emitted[e] = None /\ Idle(e)
    /\ Len(events[s]) < MaxEvents
    /\ Accepts(ev, events[s])
    /\ events' = [events EXCEPT ![s] = Append(@, ev)]
    /\ emitted' = [emitted EXCEPT ![e] =
                     [session |-> s, sequence |-> Len(events[s]) + 1]]
    /\ UNCHANGED <<epoch, sub, drain, calling, got, acked, conn, reset>>

Listens(k, ev) ==
    sub[k].phase = "open" /\ Follows[k] = ev.session /\ ev.sequence > sub[k].watermark
Overflows(k) == Len(sub[k].pending) >= MaxPending

\* Fault: the flag that one thread delivers is not raised.
QueuedUnclaimed(r, ev) ==
    [r EXCEPT !.pending = Append(@, ev.sequence),
              !.watermark = ev.sequence]

Queued(r, ev) ==
    [r EXCEPT !.pending = Append(@, ev.sequence),
              !.watermark = ev.sequence,
              !.delivering = TRUE]
Dropped(r) == [r EXCEPT !.phase = "dropped", !.pending = <<>>]

\* EventStreamAdapter.notify, under the adapter's lock: a subscription nobody
\* delivers to is drained by this thread once it has left the lock.
Notify(e) ==
    LET ev == emitted[e]
        heard == {k \in Subscribers : Listens(k, ev)}
        ready == {k \in heard : ~Overflows(k) /\ ~sub[k].delivering}
    IN  /\ ev # None
        /\ sub' = [k \in Subscribers |->
                     CASE k \notin heard -> sub[k]
                       [] k \in heard /\ Overflows(k) -> Dropped(sub[k])
                       [] OTHER -> Queued(sub[k], ev)]
        /\ drain' = [drain EXCEPT ![e] = SetToSeq(ready)]
        /\ emitted' = [emitted EXCEPT ![e] = None]
        /\ UNCHANGED <<events, epoch, calling, got, acked, conn, reset>>

(***************************************************************************)
(* Subscriptions.                                                          *)
(***************************************************************************)

\* The sequence numbers of get_events(session, since_sequence).
HistoryOf(k) ==
    LET length == Len(events[Follows[k]])
    IN  IF Since[k] < length THEN [i \in 1..(length - Since[k]) |-> Since[k] + i] ELSE <<>>

\* Fault: the history does not raise the watermark.
SubscribesLow(k) ==
    LET history == HistoryOf(k) IN
    /\ sub[k].phase = "new"
    /\ IF Len(history) > MaxPending
       THEN /\ sub' = [sub EXCEPT ![k].phase = "dropped"]
            /\ UNCHANGED drain
       ELSE /\ sub' = [sub EXCEPT ![k] =
                  [phase |-> "open", pending |-> history, delivering |-> history # <<>>,
                   watermark |-> Since[k]]]
            /\ drain' = [drain EXCEPT ![k] = IF history = <<>> THEN <<>> ELSE <<k>>]
    /\ UNCHANGED <<events, epoch, emitted, calling, got, acked, conn, reset>>

\* subscribe_session: the history is read and the subscription entered under
\* one lock, so that an event is either in the history or notified later.
Subscribe(k) ==
    LET history == HistoryOf(k) IN
    /\ sub[k].phase = "new"
    /\ IF Len(history) > MaxPending
       THEN /\ sub' = [sub EXCEPT ![k].phase = "dropped"]
            /\ UNCHANGED drain
       ELSE /\ sub' = [sub EXCEPT ![k] =
                  [phase |-> "open", pending |-> history, delivering |-> history # <<>>,
                   watermark |-> IF history = <<>> THEN Since[k] ELSE Last(history)]]
            /\ drain' = [drain EXCEPT ![k] = IF history = <<>> THEN <<>> ELSE <<k>>]
    /\ UNCHANGED <<events, epoch, emitted, calling, got, acked, conn, reset>>

Unsubscribe(k) ==
    /\ sub[k].phase = "open"
    /\ sub' = [sub EXCEPT ![k] = [Dropped(@) EXCEPT !.phase = "closed"]]
    /\ UNCHANGED <<events, epoch, emitted, drain, calling, got, acked, conn, reset>>

\* Fault: a drain that ends leaves the flag raised.
DrainEndsSilently(th) ==
    LET k == Head(drain[th]) IN
    /\ drain[th] # <<>> /\ th \notin calling
    /\ sub[k].phase # "open" \/ sub[k].pending = <<>>
    /\ drain' = [drain EXCEPT ![th] = Tail(@)]
    /\ UNCHANGED <<events, epoch, emitted, sub, calling, got, acked, conn, reset>>

\* One turn of _drain's loop: nothing left, or the next event is taken and
\* the callback called without the lock.
DrainEnds(th) ==
    LET k == Head(drain[th]) IN
    /\ drain[th] # <<>> /\ th \notin calling
    /\ sub[k].phase # "open" \/ sub[k].pending = <<>>
    /\ sub' = IF sub[k].phase = "open" THEN [sub EXCEPT ![k].delivering = FALSE] ELSE sub
    /\ drain' = [drain EXCEPT ![th] = Tail(@)]
    /\ UNCHANGED <<events, epoch, emitted, calling, got, acked, conn, reset>>

CallBack(th) ==
    LET k == Head(drain[th]) IN
    /\ drain[th] # <<>> /\ th \notin calling
    /\ sub[k].phase = "open" /\ sub[k].pending # <<>>
    /\ got' = [got EXCEPT ![k] = Append(@, Head(sub[k].pending))]
    /\ sub' = [sub EXCEPT ![k].pending = Tail(@)]
    /\ calling' = calling \cup {th}
    /\ UNCHANGED <<events, epoch, emitted, drain, acked, conn, reset>>

CallBackReturns(th) ==
    /\ th \in calling
    /\ calling' = calling \ {th}
    /\ UNCHANGED <<events, epoch, emitted, sub, drain, got, acked, conn, reset>>

\* A callback that raises is detached; the emitter does not see it.
CallBackRaises(th) ==
    LET k == Head(drain[th]) IN
    /\ th \in calling
    /\ calling' = calling \ {th}
    /\ sub' = IF sub[k].phase = "open" THEN [sub EXCEPT ![k] = Dropped(@)] ELSE sub
    /\ drain' = [drain EXCEPT ![th] = Tail(@)]
    /\ UNCHANGED <<events, epoch, emitted, got, acked, conn, reset>>

(***************************************************************************)
(* Connections and the reset.                                              *)
(***************************************************************************)

\* A number is of an epoch: the numbering it was given in (a history field, as
\* are late, that it was acknowledged when that numbering was gone, and crossed,
\* that a reset overlapped the call).
NotAsked ==
    [phase |-> "idle", cursor |-> 0, of |-> 0, late |-> FALSE, epoch |-> 0,
     crossed |-> FALSE, next |-> 0]

Resetting(s) == \E r \in Resets : reset[r] = "cleared" /\ ResetScope[r] \in {s, None}

\* UIConnectionRegistry.reconnect reads the cursor under its own lock and
\* then asks the store; a reset may come between.
ReadCursor(c) ==
    /\ conn[c].phase = "idle"
    /\ conn' = [conn EXCEPT ![c] =
                  [phase |-> "asking", cursor |-> acked[c].sequence, of |-> acked[c].epoch,
                   late |-> acked[c].late, epoch |-> epoch[Follows[c]],
                   crossed |-> Resetting(Follows[c]), next |-> 0]]
    /\ UNCHANGED <<events, epoch, emitted, sub, drain, calling, got, acked, reset>>

\* There are events after the cursor: the last of them is the next number to
\* acknowledge, else the cursor itself.
BringsEvents(c) == Len(events[Follows[c]]) > conn[c].cursor

GetEvents(c) ==
    LET s == Follows[c] IN
    /\ conn[c].phase = "asking"
    /\ conn' = [conn EXCEPT ![c].phase = "answered",
                            ![c].cursor = 0,
                            ![c].next = IF BringsEvents(c) THEN Len(events[s]) ELSE conn[c].cursor,
                            ![c].of = IF BringsEvents(c) THEN epoch[s] ELSE @,
                            ![c].crossed = @ \/ conn[c].epoch # epoch[s]]
    /\ UNCHANGED <<events, epoch, emitted, sub, drain, calling, got, acked, reset>>

\* The user interface acknowledges the next number of its last answer.
Acknowledge(c) ==
    /\ conn[c].phase = "answered"
    /\ conn' = [conn EXCEPT ![c] = NotAsked]
    /\ acked' = [acked EXCEPT ![c] =
                   IF conn[c].next <= acked[c].sequence THEN @
                   ELSE [sequence |-> conn[c].next,
                         epoch |-> conn[c].of,
                         late |-> conn[c].of # epoch[Follows[c]]]]
    /\ UNCHANGED <<events, epoch, emitted, sub, drain, calling, got, reset>>

InScope(r, s) == ResetScope[r] \in {s, None}

\* The last part of RuntimeOperations.reset, of one call at a time.
ClearEvents(r) ==
    /\ reset[r] = "idle" /\ \A x \in Resets : reset[x] # "cleared"
    /\ events' = [s \in Sessions |-> IF InScope(r, s) THEN <<>> ELSE events[s]]
    /\ epoch' = [s \in Sessions |-> IF InScope(r, s) THEN epoch[s] + 1 ELSE epoch[s]]
    /\ reset' = [reset EXCEPT ![r] = "cleared"]
    /\ UNCHANGED <<emitted, sub, drain, calling, got, acked, conn>>

NeverAcked == [sequence |-> 0, epoch |-> 0, late |-> FALSE]

\* Fault: the reset leaves the acknowledgements.
ResetKeepsAcks(r) ==
    /\ reset[r] = "cleared"
    /\ reset' = [reset EXCEPT ![r] = "done"]
    /\ UNCHANGED <<events, epoch, emitted, sub, drain, calling, got, acked, conn>>

ResetConnections(r) ==
    /\ reset[r] = "cleared"
    /\ acked' = [c \in Connections |-> IF InScope(r, Follows[c]) THEN NeverAcked ELSE acked[c]]
    /\ reset' = [reset EXCEPT ![r] = "done"]
    /\ UNCHANGED <<events, epoch, emitted, sub, drain, calling, got, conn>>

Unopened == [phase |-> "new", pending |-> <<>>, watermark |-> 0, delivering |-> FALSE]

Init ==
    /\ events = [s \in Sessions |-> <<>>]
    /\ epoch = [s \in Sessions |-> 0]
    /\ emitted = [e \in Emitters |-> None]
    /\ drain = [th \in Threads |-> <<>>]
    /\ calling = {}
    /\ got = [k \in Subscribers |-> <<>>]
    /\ acked = [c \in Connections |-> NeverAcked]
    /\ \E present \in Companies :
        /\ sub = [k \in Subscribers |-> IF k \in present THEN Unopened ELSE Dropped(Unopened)]
        /\ conn = [c \in Connections |->
                     IF c \in present THEN NotAsked ELSE [NotAsked EXCEPT !.phase = "absent"]]
        /\ reset = [r \in Resets |-> IF r \in present THEN "idle" ELSE "done"]

Emit(e) == (\E ev \in Emits[e] : Store(e, ev)) \/ Notify(e)
Deliver(th) == DrainEnds(th) \/ CallBack(th) \/ CallBackReturns(th) \/ CallBackRaises(th)
Reconnect(c) == ReadCursor(c) \/ GetEvents(c) \/ Acknowledge(c)
Reset(r) == ClearEvents(r) \/ ResetConnections(r)

Next ==
    \/ \E e \in Emitters : Emit(e)
    \/ \E th \in Threads : Deliver(th)
    \/ \E k \in Subscribers : Subscribe(k) \/ Unsubscribe(k)
    \/ \E c \in Connections : Reconnect(c)
    \/ \E r \in Resets : Reset(r)

Spec == Init /\ [][Next]_vars

\* A thread that has stored an event goes on to notify, one that drains goes
\* on to drain, and callbacks return: nothing else need ever happen.
FairSpec ==
    /\ Spec
    /\ \A e \in Emitters : WF_vars(Notify(e))
    /\ \A th \in Threads :
           WF_vars(DrainEnds(th) \/ CallBack(th)) /\ WF_vars(CallBackReturns(th) \/ CallBackRaises(th))

--------------------------------------------------------------------------------

\* What an execution does: its own events, and changes the agent makes by it.
OfExecution(ev) ==
    ev.type \in {"execution", "effect"} \/ (ev.type = "changed" /\ ev.actor = "AGENT")

\* The causal order of README's "Ordering", read off a whole stream: an
\* execution that did anything, or changed any state, was started, once, after
\* its proposal and an ALLOW; it ended at most once, and nothing follows its
\* end.  It is a promise to each execution id: a proposal may have several
\* (validate_next_event).
ExecutionFollowsAllow ==
    \A s \in Sessions : LET q == events[s] IN
        \A i \in DOMAIN q : OfExecution(q[i]) =>
            \E a, d, b \in DOMAIN q :
                /\ a < d /\ d < b /\ b <= i
                /\ {j \in Steps(q, q[i].execution) : q[j].phase = "started"} = {b}
                /\ q[a].type = "proposal" /\ q[a].proposal = q[b].proposal /\ q[a].turn = q[b].turn
                /\ q[d].type = "decision" /\ q[d].proposal = q[b].proposal /\ q[d].outcome = "ALLOW"
                /\ \A j \in Steps(q, q[i].execution) : q[j].phase # "started" => j >= i
                /\ q[i].type # "changed" =>
                      q[i].proposal = q[b].proposal /\ q[i].turn = q[b].turn

\* What a user interface that reads a turn's chunks in the order of the stream
\* puts together is the answer, whole and once: each chunk has as many before it
\* as its index says, and none comes after the final one.
AnswersAreWhole ==
    \A s \in Sessions, t \in Turns :
        LET q == events[s]
            chunks == InTurn(q, "chunk", t)
        IN  \A i \in chunks :
                /\ q[i].index = Cardinality({j \in chunks : j < i})
                /\ q[i].final => \A j \in chunks : j <= i

\* A callback sees strictly increasing sequence numbers, though history and
\* new events come to it by different threads.
DeliveredInOrder ==
    \A k \in Subscribers : \A i, j \in DOMAIN got[k] : i < j => got[k][i] < got[k][j]

\* A queued event always has exactly one thread on its way to deliver it: the
\* flag under the lock hands the drain over without a gap or a second drainer,
\* and so no callback is ever entered by two threads at once.
NoStrandedEvent ==
    /\ \A x, y \in calling : x # y => Head(drain[x]) # Head(drain[y])
    /\ \A k \in Subscribers : sub[k].phase = "open" =>
           LET drainers == {th \in Threads : k \in ToSet(drain[th])}
           IN  Cardinality(drainers) = (IF sub[k].delivering THEN 1 ELSE 0)
               /\ (sub[k].pending # <<>> => sub[k].delivering)

\* The answer being fetched leaves out events: the cursor is a number of a
\* numbering that is gone, and the present events up to it were never shown.
Skips(c) == conn[c].cursor > 0 /\ conn[c].of # epoch[Follows[c]] /\ events[Follows[c]] # <<>>

\* Events are skipped only by a reconnect() that a reset overlaps, or after an
\* acknowledgement that came when its events had been cleared already.  What
\* was acknowledged in time, a reset takes back together with the events
\* (UIConnectionRegistry.reset): no other interleaving makes a cursor stale.
OnlyLateAcksSkip ==
    [][\A c \in Connections :
           GetEvents(c) /\ Skips(c) => conn[c].late \/ conn'[c].crossed]_vars

\* Whatever is queued for an open subscription is delivered.
DeliveryCompletes ==
    \A k \in Subscribers : sub[k].pending # <<>> ~> sub[k].pending = <<>>

\* contracts/agent_ui/v1/README.md: "subscribe_session() atomically replays
\* events after since_sequence and then follows only that session"; a consumer
\* that has been handed an event has been handed those before it.
StreamMissesNothing ==
    \A k \in Subscribers : \A i \in DOMAIN got[k] : got[k][i] = Since[k] + i

\* contracts/agent_ui/v1/README.md: a detached consumer "can reconnect from its
\* last acknowledged global session sequence"; so a reconnect() that no reset
\* overlaps skips nothing.
ReconnectComplete ==
    [][\A c \in Connections : GetEvents(c) /\ Skips(c) => conn'[c].crossed]_vars

================================================================================
