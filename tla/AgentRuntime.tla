----------------------------- MODULE AgentRuntime -----------------------------
(***************************************************************************)
(* The text agent and everybody who reaches the simulated vehicle at the   *)
(* same time: callers of AgentRuntime.handle_text and reset_session        *)
(* (runtime.py), callers of GuardedAgentCoordinator (orchestrator/         *)
(* guarded.py), the TextAgent they share (orchestrator/approved.py) with   *)
(* its model providers, tool mapper and executor, and operators at the     *)
(* SimulationController.                                                   *)
(*                                                                         *)
(* A caller is a thread in one call. Its step ends where another thread    *)
(* can see or change something it will read next: where it waits for a     *)
(* lock, calls a model, touches a table, the memory, the vehicle or its    *)
(* cancellation. Acquiring a lock is one step with what follows, releasing *)
(* it with what precedes: nobody can tell the difference.                  *)
(***************************************************************************)
EXTENDS Vehicle, ToolMapping

CONSTANTS
    Callers,
    Role,        \* "turn": handle_text; "decide": handle_decision;
                 \* "resolve": resolve_confirmation
    SessionOf,   \* of turn and decide
    RequestOf,
    Replies,     \* what the model can make of a caller's text
    Sampled,     \* callers whose text is a reviewed sample utterance
    TooLong,     \* callers whose text is beyond the context bound
    Verdict,     \* of decide and resolve: the guardrail's decision
    Accepted,    \* the resolve callers that bring the driver's yes
    Confirmations,
    Providers,   \* the available model providers, by priority
    Operators,
    CallOf,      \* what each operator asks of the SimulationController
    Resets,      \* reset_session() calls
    ResetOf,     \* the session each is for
    Companies,   \* the callers, operators and resets that occur together
    MaxHistory,  \* max_history_messages
    MaxCached,   \* max_cached_requests
    None

VARIABLES
    turn,       \* the local state of each caller
    cancelled,  \* callers whose CancellationToken is cancelled
    table,      \* the lock tables: key -> lock and number of its users
    held,       \* locks held, and by whom
    locks,      \* per caller, the locks it has looked up, innermost last
    line,       \* per provider, whom RateLimitedTransport is serving
    history,    \* AgentRuntime._history
    results,    \* AgentRuntime._results, oldest first
    pending,    \* GuardedAgentCoordinator._pending
    expired,    \* confirmations past their expires_at
    control,    \* how far each operator's call is
    told,       \* versions the monitor was told of
    resets,     \* reset_session() calls made
    epoch,      \* history: resets of each session
    stored,     \* history: turns stored in each session
    forgotten,  \* history: cached results dropped, per key
    opened      \* history: how often each confirmation was registered

callerVars == <<turn, cancelled>>
lockVars   == <<table, held, locks>>
memoryVars == <<history, results, epoch, stored, forgotten>>
guardVars  == <<pending, expired, opened>>
simVars    == <<control, told>>
vars == <<vehicleVars, callerVars, lockVars, line, memoryVars, guardVars,
          simVars, resets>>

Sessions == {SessionOf[c] : c \in Callers}
Key(c)   == <<SessionOf[c], RequestOf[c]>>
Keys     == {Key(c) : c \in Callers}
Turns    == {c \in Callers : Role[c] = "turn"}

\* A proposal of the model, before it is mapped.
Action(tool, action, target) ==
    [tool |-> tool, arguments |-> [action |-> action, target |-> target]]
ValuedAction(tool, action, target, value) ==
    [tool |-> tool,
     arguments |-> [action |-> action, target |-> target, value |-> value]]

ASSUME CallersAssumption ==
    /\ IsFiniteSet(Callers) /\ Callers \cap Operators = {}
    /\ Role \in [Callers -> {"turn", "decide", "resolve"}]
    /\ \A c \in Callers : Role[c] # "turn" => Verdict[c].intent # None
    /\ Sampled \subseteq Callers /\ TooLong \subseteq Callers
    /\ \A c \in Sampled : \E p \in Replies[c] : Replies[c] = {p} /\ p # None
    /\ \A o \in Operators : CallOf[o].op = "controls" => CallOf[o].list # <<>>
    /\ MaxHistory \in Nat /\ MaxCached \in Nat \ {0}
    /\ Providers \in Seq(ToSet(Providers))
    /\ \A present \in Companies :
          present \subseteq Callers \cup Operators \cup Resets

(***************************************************************************)
(* Tool mapping: what the table of ToolMapping does not hold ends in a     *)
(* question to the user.                                                   *)
(***************************************************************************)
\* The start-up check: no mapped intent is without a handler.
ASSUME HandlerAssumption ==
    \A tool \in DOMAIN MappingRules : \A k \in DOMAIN MappingRules[tool] :
        MappingRules[tool][k] \in HandledIntents

\* ToolMapper's own check: each intent is reached, under one tool only.
MappedIntents(tool) == {MappingRules[tool][k] : k \in DOMAIN MappingRules[tool]}
MappingReady ==
    /\ HandledIntents \subseteq UNION {MappedIntents(t) : t \in DOMAIN MappingRules}
    /\ \A t, u \in DOMAIN MappingRules :
          t # u => MappedIntents(t) \cap MappedIntents(u) = {}

ASSUME MappingAssumption == MappingReady

\* map_proposal: the intent of the exact row, else of a row that takes any
\* value; or none.
Mapped(p) ==
    LET rules == MappingRules[p.tool]
        exact == {MappingKey(p.arguments)} \cap DOMAIN rules
        free  == {<<p.arguments.action, p.arguments.target, "*">>}
                    \cap DOMAIN rules
    IN {rules[k] : k \in IF exact # {} THEN exact
                         ELSE IF "value" \in DOMAIN p.arguments THEN free ELSE {}}

(***************************************************************************)
(* Per-key locks, as runtime.py and approved.py keep them: look the lock   *)
(* up and count oneself in, acquire it, release it, count oneself out. An  *)
(* entry without users is deleted, and the next comer makes a new lock.    *)
(***************************************************************************)
RequestLock(c) == <<"request", SessionOf[c], RequestOf[c]>>
SessionLock(s) == <<"session", s>>
ActionLock(s)  == <<"action", s>>

InUse == UNION {ToSet(locks[c]) : c \in Callers}
NewLock(key) ==
    LET taken == {l.id : l \in {m \in InUse : m.key = key}}
    IN [key |-> key,
        id  |-> CHOOSE n \in 1..Cardinality(Callers) :
                    n \notin taken /\ \A m \in 1..(n - 1) : m \in taken]

Put(f, k, v) == [x \in DOMAIN f \cup {k} |-> IF x = k THEN v ELSE f[x]]
Without(f, k) == [x \in DOMAIN f \ {k} |-> f[x]]

CountIn(c, key) ==
    LET entry == IF key \in DOMAIN table THEN table[key]
                                         ELSE [lock |-> NewLock(key), users |-> 0]
    IN /\ table' = Put(table, key, [entry EXCEPT !.users = @ + 1])
       /\ locks' = [locks EXCEPT ![c] = Append(@, entry.lock)]

Acquire(c) ==
    /\ \A h \in held : h.lock # Last(locks[c])
    /\ held' = held \cup {[lock |-> Last(locks[c]), by |-> c]}

\* The n-th lock c has looked up.
ReleaseLock(c, n) == held' = held \ {[lock |-> locks[c][n], by |-> c]}

\* Fault: the entry goes when its holder does, whoever waits for the lock.
DropEntry(c) ==
    LET key == Last(locks[c]).key
    IN /\ table' = Without(table, key)
       /\ locks' = [locks EXCEPT ![c] = Front(@)]

CountOut(c) ==
    LET key == Last(locks[c]).key
    IN /\ table' = IF table[key].users = 1
                   THEN Without(table, key)
                   ELSE [table EXCEPT ![key].users = @ - 1]
       /\ locks' = [locks EXCEPT ![c] = Front(@)]

(***************************************************************************)
(* Answers. A turn's answer is stored before the caller leaves its locks.  *)
(***************************************************************************)
Answer(c, code, v) == [by |-> c, code |-> code, version |-> v]

At(c, pc)      == turn[c].pc = pc
Goes(c, pc)    == turn' = [turn EXCEPT ![c].pc = pc]
AnswerAt(c, code, v, pc) ==
    turn' = [turn EXCEPT ![c].pc = pc, ![c].answer = Answer(c, code, v),
                         ![c].provider = 1, ![c].attempt = 0,
                         ![c].reply = None, ![c].code = None,
                         ![c].version = None]
\* Answers before anything is executed. What is local to a call is forgotten
\* as soon as the code needs it no more.
Answers(c, code) ==
    AnswerAt(c, code, None, IF c \in Turns THEN "answered" ELSE "returned")

(***************************************************************************)
(* AgentRuntime.handle_text: the request's lock, the session's lock, the   *)
(* cache, the agent, the cache.                                            *)
(***************************************************************************)
EnterRequest(c) ==
    /\ c \in Turns /\ At(c, "calling")
    /\ CountIn(c, RequestLock(c))
    /\ Goes(c, "at_request")
    /\ UNCHANGED <<vehicleVars, cancelled, held, line, memoryVars, guardVars,
                   simVars, resets>>

EnterSession(c) ==
    /\ At(c, "at_request")
    /\ Acquire(c)
    /\ CountIn(c, SessionLock(SessionOf[c]))
    /\ Goes(c, "at_session")
    /\ UNCHANGED <<vehicleVars, cancelled, line, memoryVars, guardVars,
                   simVars, resets>>

Cached(key) == {i \in DOMAIN results : results[i].key = key}

\* The entries of q at the places in I, in their order.
Picked(q, I) ==
    LET pick[n \in 0..Len(q)] == IF n = 0 THEN <<>>
                                 ELSE IF n \in I THEN Append(pick[n - 1], q[n])
                                 ELSE pick[n - 1]
    IN pick[Len(q)]

\* A repeated request gets the stored answer; its entry becomes the newest.
\* Inside the session's lock for no longer than that.
FindCached(c) ==
    /\ At(c, "at_session")
    /\ \A h \in held : h.lock # Last(locks[c])
    /\ \E i \in Cached(Key(c)) :
          /\ turn' = [turn EXCEPT ![c].pc = "left",
                                  ![c].answer = results[i].answer]
          /\ results' = Append(Picked(results, DOMAIN results \ {i}), results[i])
    /\ UNCHANGED <<vehicleVars, cancelled, lockVars, line, history, epoch,
                   stored, forgotten, guardVars, simVars, resets>>

\* DeterministicFirstRouter: a reviewed sample needs no model.
Asks(t) ==
    IF t.for \in Sampled
    THEN [t EXCEPT !.pc = "proposed", !.reply = CHOOSE p \in Replies[t.for] : TRUE]
    ELSE [t EXCEPT !.pc = "asking"]

BeginTurn(c) ==
    /\ At(c, "at_session")
    /\ Acquire(c)
    /\ Cached(Key(c)) = {}
    /\ LET s == SessionOf[c]
       IN turn' = [turn EXCEPT ![c] = Asks([@ EXCEPT !.history = history[s],
                                                     !.from = epoch[s]])]
    /\ UNCHANGED <<vehicleVars, cancelled, table, locks, line, memoryVars,
                   guardVars, simVars, resets>>

LastOf(q, n) == SubSeq(q, IF Len(q) > n THEN Len(q) - n + 1 ELSE 1, Len(q))

\* What the turn adds to the conversation.
Said(c) ==
    LET m(role) == [role |-> role, turn |-> c, from |-> turn[c].from,
                    to |-> epoch[SessionOf[c]], at |-> stored[SessionOf[c]]]
    IN <<m("user"), m("assistant")>>

Remember(c) ==
    history' = [history EXCEPT ![SessionOf[c]] =
                   LastOf(turn[c].history \o Said(c), MaxHistory)]

Others(key) == Picked(results, DOMAIN results \ Cached(key))

\* Fault: only a success is kept for a repeated request.
KeepSuccess(c) ==
    /\ results' = IF turn[c].answer.code = "COMPLETED"
                  THEN LastOf(Append(Others(Key(c)),
                                     [key |-> Key(c),
                                      answer |-> turn[c].answer]), MaxCached)
                  ELSE results
    /\ UNCHANGED forgotten

\* The new answer is the newest entry; beyond the limit the oldest goes.
Keep(c) ==
    LET all  == Append(Others(Key(c)),
                       [key |-> Key(c), answer |-> turn[c].answer])
        gone == {all[i].key : i \in 1..(Len(all) - MaxCached)}
    IN /\ results' = LastOf(all, MaxCached)
       /\ forgotten' = [k \in Keys |->
                          forgotten[k] + (IF k \in gone THEN 1 ELSE 0)]

StoreTurn(c) ==
    /\ c \in Turns /\ At(c, "answered")
    /\ Keep(c)
    /\ Remember(c)
    /\ stored' = [stored EXCEPT ![SessionOf[c]] = @ + 1]
    /\ ReleaseLock(c, 2)
    /\ turn' = [turn EXCEPT ![c].pc = "left", ![c].history = <<>>,
                            ![c].from = 0]
    /\ UNCHANGED <<vehicleVars, cancelled, table, locks, line, epoch,
                   guardVars, simVars, resets>>

\* Out of the action's lock the answer is still to be stored, out of the
\* session's lock the request's is still to be released.
Leave(c) ==
    /\ At(c, "left")
    /\ CountOut(c)
    /\ \/ Len(locks[c]) = 3 /\ Goes(c, "answered") /\ UNCHANGED held
       \/ Len(locks[c]) = 2 /\ Goes(c, "left") /\ ReleaseLock(c, 1)
       \/ Len(locks[c]) = 1 /\ Goes(c, "returned") /\ UNCHANGED held
    /\ UNCHANGED <<vehicleVars, cancelled, line, memoryVars, guardVars,
                   simVars, resets>>

\* Fault: the conversation outlives the reset.
KeepTalk(s) == UNCHANGED history

Forget(s) == history' = [history EXCEPT ![s] = <<>>]

\* reset_session: at any time, whatever turn is running.
ResetSession(r) ==
    LET s    == ResetOf[r]
        dropped == {i \in DOMAIN results : results[i].key[1] = s}
        gone == {results[i].key : i \in dropped}
    IN /\ resets[r]
       /\ Forget(s)
       /\ results' = Picked(results, DOMAIN results \ dropped)
       /\ forgotten' = [k \in Keys |->
                          forgotten[k] + (IF k \in gone THEN 1 ELSE 0)]
       /\ epoch' = [epoch EXCEPT ![s] = @ + 1]
       /\ resets' = [resets EXCEPT ![r] = FALSE]
       /\ UNCHANGED <<vehicleVars, callerVars, lockVars, line, stored,
                      guardVars, simVars>>

(***************************************************************************)
(* GuardedAgentCoordinator: route the guardrail's decision. A ValueError   *)
(* ends the call; what was popped before stays popped.                     *)
(***************************************************************************)
GuardedStep(c) ==
    UNCHANGED <<vehicleVars, cancelled, lockVars, line, memoryVars, simVars,
                resets>>

Valid(d, v) == v.request = RequestOf[d]

\* _register_confirmation, for the request of caller d.
RegisterConfirmation(c, d) ==
    LET v == Verdict[c] IN
    IF v.id = None \/ v.id \in expired \cup DOMAIN pending
    THEN Answers(c, "VALUE_ERROR") /\ UNCHANGED guardVars
    ELSE /\ Answers(c, "NEEDS_CONFIRMATION")
         /\ pending' = Put(pending, v.id, [of |-> d, intent |-> v.intent])
         /\ opened' = [opened EXCEPT ![v.id] = @ + 1]
         /\ UNCHANGED expired

\* handle_decision, for the request of caller d.
HandleDecision(c, d) ==
    LET v == Verdict[c] IN
    IF ~Valid(d, v) THEN Answers(c, "VALUE_ERROR") /\ UNCHANGED guardVars
    ELSE \/ /\ v.outcome = "ALLOW"
            /\ turn' = [turn EXCEPT ![c].pc = "heard", ![c].for = d,
                                    ![c].hint = v.intent]
            /\ UNCHANGED guardVars
         \/ v.outcome = "CONFIRM" /\ RegisterConfirmation(c, d)
         \/ /\ v.outcome \notin {"ALLOW", "CONFIRM"}
            /\ Answers(c, "BLOCKED")
            /\ UNCHANGED guardVars

Decide(c) ==
    /\ Role[c] = "decide" /\ At(c, "calling")
    /\ HandleDecision(c, c)
    /\ GuardedStep(c)

\* resolve_confirmation looks before it takes: two critical sections.
Peek(c) ==
    /\ Role[c] = "resolve" /\ At(c, "calling")
    /\ IF \/ Verdict[c].id \notin DOMAIN pending
          \/ c \in Accepted /\ Verdict[c].outcome = "ABSENT"
       THEN Answers(c, "VALUE_ERROR")
       ELSE turn' = [turn EXCEPT ![c].pc = "peeked",
                                 ![c].seen = pending[Verdict[c].id]]
    /\ UNCHANGED guardVars
    /\ GuardedStep(c)

\* Fault: what was seen is as good as what is taken.
TakeSeen(c, id) ==
    /\ pending' = Without(pending, id)
    /\ turn' = [turn EXCEPT ![c].pc = "popped"]

TakePending(c, id) ==
    /\ pending' = Without(pending, id)
    /\ IF id \in DOMAIN pending
       THEN turn' = [turn EXCEPT ![c].pc = "popped", ![c].seen = pending[id]]
       ELSE Answers(c, "VALUE_ERROR")

Pop(c) ==
    /\ At(c, "peeked")
    /\ TakePending(c, Verdict[c].id)
    /\ UNCHANGED <<expired, opened>>
    /\ GuardedStep(c)

\* The rest of resolve_confirmation works on what was taken.
Resolve(c) ==
    LET v == Verdict[c]  p == turn[c].seen IN
    /\ At(c, "popped")
    /\ \/ v.id \in expired /\ Answers(c, "CONFIRMATION_EXPIRED")
                           /\ UNCHANGED guardVars
       \/ /\ v.id \notin expired /\ c \notin Accepted
          /\ Answers(c, "CONFIRMATION_REJECTED")
          /\ UNCHANGED guardVars
       \/ /\ v.id \notin expired /\ c \in Accepted
          /\ IF ~Valid(p.of, v) \/ v.intent # p.intent
             THEN Answers(c, "VALUE_ERROR") /\ UNCHANGED guardVars
             ELSE HandleDecision(c, p.of)
    /\ GuardedStep(c)

\* The clock passes the expires_at of a confirmation.
Expire(k) ==
    /\ k \in DOMAIN pending \ expired
    /\ expired' = expired \cup {k}
    /\ UNCHANGED <<vehicleVars, callerVars, lockVars, line, memoryVars,
                   pending, opened, simVars, resets>>

\* Whoever holds a coordinator call's token may cancel it.
Cancel(c) ==
    /\ Role[c] # "turn" /\ turn[c].pc \notin {"calling", "returned", "absent"}
    /\ c \notin cancelled
    /\ cancelled' = cancelled \cup {c}
    /\ UNCHANGED <<vehicleVars, turn, lockVars, line, memoryVars, guardVars,
                   simVars, resets>>

(***************************************************************************)
(* TextAgent.handle_approved_text: ask for a proposal.                     *)
(***************************************************************************)
AgentStep(c) ==
    UNCHANGED <<vehicleVars, cancelled, lockVars, memoryVars, guardVars,
                simVars, resets>>

Hear(c) ==
    /\ At(c, "heard")
    /\ IF c \in cancelled THEN Answers(c, "TURN_CANCELLED")
                          ELSE turn' = [turn EXCEPT ![c] = Asks(@)]
    /\ UNCHANGED line
    /\ AgentStep(c)

\* At most two providers are tried.
Tried == IF Len(Providers) > 2 THEN 2 ELSE Len(Providers)

\* No provider at all, or a text beyond the context bound: not retryable.
Unaskable == IF Providers = <<>> THEN Callers ELSE TooLong

CannotAsk(c) ==
    /\ At(c, "asking") /\ turn[c].for \in Unaskable
    /\ Answers(c, "MODEL_UNAVAILABLE")
    /\ UNCHANGED line
    /\ AgentStep(c)

\* RateLimitedTransport serves one caller at a time, retries included.
Call(c) ==
    /\ At(c, "asking") /\ turn[c].for \notin Unaskable
    /\ LET p == Providers[turn[c].provider]
       IN line[p] = None /\ line' = [line EXCEPT ![p] = c]
    /\ turn' = [turn EXCEPT ![c].pc = "called", ![c].attempt = 1]
    /\ AgentStep(c)

Called(c)   == Providers[turn[c].provider]
HangUp(c)   == line' = [line EXCEPT ![Called(c)] = None]

NextProvider(c) ==
    IF turn[c].provider < Tried
    THEN turn' = [turn EXCEPT ![c].pc = "asking", ![c].provider = @ + 1]
    ELSE Answers(c, "MODEL_UNAVAILABLE")

\* A timeout or a transient error is retried once.
Retry(c) ==
    /\ At(c, "called") /\ turn[c].attempt = 1
    /\ turn' = [turn EXCEPT ![c].attempt = 2]
    /\ UNCHANGED line
    /\ AgentStep(c)

\* Fault: the second failure leaves the transport engaged.
StayOnLine(c) == At(c, "called") /\ NextProvider(c) /\ UNCHANGED line

\* A second such failure, another error, or an answer that is no proposal.
GiveUp(c) == At(c, "called") /\ NextProvider(c) /\ HangUp(c)

ProviderFails(c) == GiveUp(c) /\ AgentStep(c)

ModelReplies(c) ==
    /\ At(c, "called")
    /\ \E reply \in Replies[turn[c].for] :
          turn' = [turn EXCEPT ![c].pc = "proposed", ![c].reply = reply,
                               ![c].provider = 1, ![c].attempt = 0]
    /\ HangUp(c)
    /\ AgentStep(c)

(***************************************************************************)
(* ... map it, and hold it against the guardrail's intent.                 *)
(***************************************************************************)

\* Fault: the model's tool need not be the one that was decided on.
AnyIntent(c, intent) == TRUE

MatchesHint(c, intent) == turn[c].hint \in {None, intent}

Denied(c) ==
    LET p == turn[c].reply IN
    CASE c \in cancelled                -> {"TURN_CANCELLED"}
      [] p = None \/ Mapped(p) = {}     -> {"CLARIFICATION"}
      [] \A i \in Mapped(p) : ~MatchesHint(c, i) -> {"INTENT_HINT_MISMATCH"}
      [] OTHER                          -> {}

DenyProposal(c) ==
    /\ At(c, "proposed")
    /\ \E code \in Denied(c) : Answers(c, code)
    /\ UNCHANGED line
    /\ AgentStep(c)

MapProposal(c) ==
    /\ At(c, "proposed") /\ Denied(c) = {}
    /\ \E intent \in Mapped(turn[c].reply) :
          turn' = [turn EXCEPT ![c].pc = "at_action", ![c].intent = intent]
    /\ CountIn(c, ActionLock(SessionOf[turn[c].for]))
    /\ UNCHANGED <<vehicleVars, cancelled, held, line, memoryVars, guardVars,
                   simVars, resets>>

(***************************************************************************)
(* ... execute it: the handler, the check of what it reports, the answer.  *)
(***************************************************************************)
ExecutionStep(c) ==
    UNCHANGED <<cancelled, table, locks, line, memoryVars, guardVars, simVars,
                resets>>

\* The cancellation is looked at once more under the lock.
StopBeforeEffect(c) ==
    /\ At(c, "at_action") /\ c \in cancelled
    /\ \A h \in held : h.lock # Last(locks[c])
    /\ AnswerAt(c, "TURN_CANCELLED", None, "left")
    /\ UNCHANGED <<vehicleVars, held>>
    /\ ExecutionStep(c)

Handled(c, code, v) ==
    turn' = [turn EXCEPT ![c].pc = "handled", ![c].code = code,
                         ![c].version = v, ![c].reply = None]

Execute(c) ==
    LET intent == turn[c].intent
        after  == HandlerPatch(state, intent, turn[c].reply.arguments)
    IN
    /\ At(c, "at_action") /\ c \notin cancelled
    /\ Acquire(c)
    /\ \/ OnlyReads(intent) /\ Handled(c, "COMPLETED", version)
                            /\ UNCHANGED vehicleVars
       \/ /\ ~OnlyReads(intent) /\ Stamped(after) = {}
          /\ Handled(c, "EXECUTION_FAILED", None)
          /\ UNCHANGED vehicleVars
       \/ /\ ~OnlyReads(intent)
          /\ Commit(after, "agent", [caller |-> c, intent |-> intent])
          /\ Handled(c, "COMPLETED", version')
    /\ ExecutionStep(c)

Mutating(intent) == intent \in DOMAIN Behaviors

\* A query reads the version after its facts; an action's must be current.
Verify(c) ==
    LET t == turn[c]
        stale == t.code = "COMPLETED" /\ Mutating(t.intent) /\ t.version # version
    IN
    /\ At(c, "handled")
    /\ turn' = [turn EXCEPT
          ![c].pc = "verified",
          ![c].code = IF stale THEN "EXECUTION_VERIFICATION_FAILED" ELSE @,
          ![c].version = IF t.intent \in Readers THEN version ELSE @]
    /\ UNCHANGED <<vehicleVars, held>>
    /\ ExecutionStep(c)

\* Fault: a handler that failed is reported like one that did not.
ReportDone(c) == "COMPLETED"

\* The cancellation is looked at once more, after the execution.
Reported(c) == IF c \in cancelled THEN "TURN_CANCELLED" ELSE turn[c].code

Conclude(c) ==
    /\ At(c, "verified")
    /\ AnswerAt(c, Reported(c),
                IF Reported(c) = "COMPLETED" THEN turn[c].version ELSE None,
                "left")
    /\ ReleaseLock(c, Len(locks[c]))
    /\ UNCHANGED vehicleVars
    /\ ExecutionStep(c)

(***************************************************************************)
(* SimulationController: commit under the machine's lock, then tell the    *)
(* monitor. A refused batch changes nothing.                               *)
(***************************************************************************)
OperatorStep(o) ==
    UNCHANGED <<callerVars, lockVars, line, memoryVars, guardVars, resets>>

\* Fault: a reset is nothing the monitor needs to know.
HearOfControls(o) == IF CallOf[o].op = "reset" THEN "done" ELSE "applied"

AfterCommit(o) == "applied"

ApplyControl(o) ==
    /\ control[o].pc = "ready"
    /\ Commit(OperatorPatch(state, CallOf[o]), ActorKind(CallOf[o]),
              [caller |-> o, intent |-> CallOf[o].op])
    /\ control' = [control EXCEPT ![o] = [pc |-> AfterCommit(o),
                                          version |-> version']]
    /\ UNCHANGED told
    /\ OperatorStep(o)

RejectControl(o) ==
    /\ control[o].pc = "ready"
    /\ Stamped(OperatorPatch(state, CallOf[o])) = {}
    /\ control' = [control EXCEPT ![o].pc = "done"]
    /\ UNCHANGED <<vehicleVars, told>>
    /\ OperatorStep(o)

TriggerMonitor(o) ==
    /\ control[o].pc = "applied"
    /\ told' = told \cup {control[o].version}
    /\ control' = [control EXCEPT ![o].pc = "done"]
    /\ UNCHANGED vehicleVars
    /\ OperatorStep(o)

(***************************************************************************)
(* The specification.                                                      *)
(***************************************************************************)
Idle(c) ==
    [pc |-> "calling", history |-> <<>>, from |-> 0, for |-> c, hint |-> None,
     provider |-> 1, attempt |-> 0, reply |-> None, intent |-> None,
     code |-> None, version |-> None, seen |-> None, answer |-> None]

AgentInit ==
    /\ table = <<>>
    /\ held = {}
    /\ locks = [c \in Callers |-> <<>>]
    /\ line = [p \in ToSet(Providers) |-> None]
    /\ cancelled = {}
    /\ history = [s \in Sessions |-> <<>>]
    /\ results = <<>>
    /\ epoch = [s \in Sessions |-> 0]
    /\ stored = [s \in Sessions |-> 0]
    /\ forgotten = [k \in Keys |-> 0]
    /\ pending = <<>>
    /\ expired = {}
    /\ opened = [k \in Confirmations |-> 0]
    /\ told = {}

Init ==
    /\ VehicleInit
    /\ AgentInit
    /\ \E present \in Companies :
          /\ turn = [c \in Callers |->
                        [Idle(c) EXCEPT !.pc = IF c \in present THEN @
                                                              ELSE "absent"]]
          /\ control = [o \in Operators |->
                           [pc |-> IF o \in present THEN "ready" ELSE "absent",
                            version |-> 0]]
          /\ resets = [r \in Resets |-> r \in present]

CallerStep(c) ==
    \/ EnterRequest(c) \/ EnterSession(c) \/ FindCached(c) \/ BeginTurn(c)
    \/ StoreTurn(c) \/ Leave(c)
    \/ Decide(c) \/ Peek(c) \/ Pop(c) \/ Resolve(c)
    \/ Hear(c) \/ CannotAsk(c) \/ Call(c) \/ Retry(c) \/ ProviderFails(c)
    \/ ModelReplies(c) \/ DenyProposal(c) \/ MapProposal(c)
    \/ StopBeforeEffect(c) \/ Execute(c) \/ Verify(c) \/ Conclude(c)

ControlStep(o) == ApplyControl(o) \/ RejectControl(o) \/ TriggerMonitor(o)

Next ==
    \/ \E c \in Callers : CallerStep(c) \/ Cancel(c)
    \/ \E o \in Operators : ControlStep(o)
    \/ \E r \in Resets : ResetSession(r)
    \/ \E k \in Confirmations : Expire(k)

Spec == Init /\ [][Next]_vars

\* While some caller can go on, one does, and so do operators: threads are
\* scheduled, transports return or fail. No thread is promised any lock.
FairSpec ==
    /\ Spec
    /\ WF_vars(\E c \in Callers : CallerStep(c))
    /\ WF_vars(\E o \in Operators : ControlStep(o))

(***************************************************************************)
(* Properties.                                                             *)
(***************************************************************************)

\* Every variable has its type, and the vehicle is in a coherent state.
TypeOK ==
    /\ Coherent(state) /\ version \in 0..MaxVersion
    /\ \A key \in DOMAIN table : table[key].users \in 1..Cardinality(Callers)
    /\ Len(results) <= MaxCached
    /\ \A s \in Sessions : Len(history[s]) <= MaxHistory
    /\ \A k \in DOMAIN pending : pending[k].of \in Callers
    /\ \A c \in Callers : /\ turn[c].attempt \in 0..2
                          /\ turn[c].provider \in 1..2
                          /\ turn[c].for \in Callers
    /\ \A p \in DOMAIN line : line[p] \in Callers \cup {None}

\* The event store tells the whole story: its events carry the versions 1, 2,
\* ... without a gap, each snapshot in it is coherent, and the last one is the
\* state (the promise of VehicleStateMachine.apply).
LogTellsState ==
    /\ Len(events) = version
    /\ \A i \in DOMAIN events : /\ events[i].next = i
                                /\ events[i].previous = i - 1
                                /\ Coherent(events[i].snapshot)
    /\ state = IF events = <<>> THEN Default ELSE Last(events).snapshot

EffectsBy(callers) == {i \in DOMAIN events : events[i].by.caller \in callers}

\* A request id given to handle_text runs once, however often and by however
\* many threads it is repeated, unless its cached result was dropped since (by
\* the limit of the cache or a reset): then once more for each time.
RequestRunsOnce ==
    \A k \in Keys :
        Cardinality(EffectsBy({c \in Turns : Key(c) = k})) <= 1 + forgotten[k]

\* The lock tables exclude: nobody is inside a request, a session or a
\* session's state change together with another, even while entries are
\* deleted and made anew around them; and an entry lives exactly as long as
\* somebody counts on it.
OneInside ==
    /\ \A g, h \in held : g.lock.key = h.lock.key => g = h
    /\ \A c \in Callers : \A l \in ToSet(locks[c]) :
          l.key \in DOMAIN table /\ table[l.key].lock = l
    /\ \A key \in DOMAIN table : \E c \in Callers :
          table[key].lock \in ToSet(locks[c])

\* A session's history is the end of one conversation: each turn follows the
\* one stored before it, begun after that was stored, with no reset_session
\* between them; none is lost, doubled or reordered.
MemoryIsContiguous ==
    \A s \in Sessions : \A i \in 1..(Len(history[s]) - 1) :
        LET m == history[s][i]  n == history[s][i + 1] IN
        IF n.role = "assistant"
        THEN m = [n EXCEPT !.role = "user"]
        ELSE m.role = "assistant" /\ n.at = m.at + 1 /\ n.from = m.to

OwnAnswer(c) == turn[c].answer # None /\ turn[c].answer.by = c

\* A caller is told the truth: it caused one change at most; a success it is
\* told of is that change, under its version (or a reading); and a change can
\* hide behind no failure but a cancellation or a failed verification.
TruthfulAnswers ==
    \A c \in Callers :
        LET mine == EffectsBy({c})  a == turn[c].answer IN
        /\ Cardinality(mine) <= 1
        /\ OwnAnswer(c) /\ a.code = "COMPLETED" =>
              \/ mine = {a.version}
              \/ mine = {} /\ OnlyReads(turn[c].intent)
        /\ OwnAnswer(c) /\ mine # {} =>
              a.code \in {"COMPLETED", "TURN_CANCELLED",
                          "EXECUTION_VERIFICATION_FAILED"}

\* What a caller of the coordinator changes is what the guardrail allowed: its
\* decision was an ALLOW for that request and that intent, and if it answers a
\* confirmation, the driver said yes to that intent.
ActsAsDecided ==
    \A i \in EffectsBy(Callers \ Turns) :
        LET c == events[i].by.caller  v == Verdict[c] IN
        /\ v.outcome = "ALLOW" /\ v.intent = events[i].by.intent
        /\ v.request = RequestOf[turn[c].for]
        /\ Role[c] = "resolve" => c \in Accepted /\ turn[c].seen.intent = v.intent

\* A confirmation registered once is used once: it leads to one change or to
\* one refusal, never to two, whoever answers it at the same time.
ConfirmedOnce ==
    \A k \in Confirmations :
        LET answering == {c \in Callers : Role[c] = "resolve" /\ Verdict[c].id = k}
            refused   == {c \in answering : OwnAnswer(c)
                            /\ turn[c].answer.code \in
                                 {"CONFIRMATION_REJECTED", "CONFIRMATION_EXPIRED"}}
        IN Cardinality(EffectsBy(answering)) + Cardinality(refused) <= opened[k]

\* Every call returns, however its providers fail and whoever holds the locks
\* it waits for.
CallsReturn ==
    <>[](\A c \in Callers : At(c, "returned") \/ At(c, "absent"))

\* Every committed change of an operator reaches the monitor in the end, other
\* commits notwithstanding.
MonitorHears ==
    <>[](\A v \in DOMAIN events : events[v].kind # "agent" => v \in told)
=============================================================================
