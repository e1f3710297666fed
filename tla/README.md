# ViGuard: TLA+ models, checks and proofs

ViGuard is a voice agent for a vehicle (`src/agent`) guarded by a separate
decision service (`src/guardrail`). The agent turns an utterance into a
*proposal* of an action. The guardrail answers ALLOW (with a short-lived,
single-use *permit*), CONFIRM (with a single-use *token* the driver must
confirm), a block, or an error. Only a permit that verifies lets the agent's
tool gateway touch the vehicle. This directory models that path and what
surrounds it (the text agent, the simulated vehicle, the policy with its 109
rules, the events the user interface follows), checks it with TLC on small
instances and proves its main invariants with TLAPS for every value of the
constants.

Paths below are relative to `src/`; `va/` is `agent/src/vehicle_agent/`.

## 1. The system

Two processes joined by HTTP. Both are multi-threaded: the guardrail runs one
thread per request (`ThreadingHTTPServer`), the agent one per turn, `confirm()`,
`cancel()`, `reset()` and monitor tick.

| Component | State | Operations | Where it is hard | What makes it correct |
|---|---|---|---|---|
| Guardrail decision service, `guardrail/service/{app,confirmations,state_store,envelope,active_actions}.py` | pending and consumed tokens, vehicle snapshot and its version, registered monitored actions | evaluate action, confirm, monitor evaluate, query, mutate state | token taken, snapshot evaluated and permit issued in separate steps; vehicle changes between them; replayed and foreign tokens; re-ask under another rule | one permit per proposal; a permit rests on a snapshot taken after the driver's word; a stranger cannot spend a token |
| Policy engine and rules, `guardrail/policy/*` | none (pure) | decide | precedence of matching rules, conditions that cannot be evaluated | one winner, or fail closed |
| Trace recorder, `guardrail/service/trace.py` | bounded map of traces | record, read | repeated request ids, eviction | bounded; a trace belongs to one request |
| Confirmation manager, `va/confirmation/manager.py` | record per token: PENDING, CONFIRMED, CANCELLED, EXPIRED, CONSUMED | register, confirm, cancel, sweep at reset | three critical sections with a round trip and an execution between them | executed at most once; settled is final |
| Tool gateway and permit store, `va/vehicle/execution/{gateway,verifier}.py` | consumed permits, revocation cutoffs, lifecycle lock | execute, revoke | check and mark are two critical sections; resets run concurrently; the permit is spent before the handler may fail | a permit runs at most one handler; no handler crosses a reset |
| Runtime reset, `va/operations/runtime.py` | health registry, UI cursors | reset(session, simulator, all) | several steps, one of which may fail; other sessions must not be touched | isolated to its scope; always leaves the boundary |
| Orchestrator, `va/orchestrator/orchestrator.py` | none of its own; drives a turn | handle message | cancellation between any two calls; timeouts; late answers | success is reported only for what happened |
| Guardrail HTTP client, `va/integrations/aegis/client.py` | none | evaluate, confirm, query | lost, late and malformed answers | mutations are never sent twice |
| Active actions and monitor, `va/active_actions`, `va/integrations/aegis/monitor.py`, `va/behaviors/hero` | running action records, vehicle flags | start, stop, tick | stop handler outside the lock, verdict on an old snapshot, several records over one flag | an action is stopped once, and what is stopped is off |
| Agent runtime, `va/runtime.py` | session locks, result cache, histories | handle a text, reset a session | reset during a turn, eviction of an idempotent result | one turn per session; a request id runs once |
| Guarded and approved coordinators, `va/orchestrator/{guarded,approved}.py` | pending confirmations, action locks | decide, answer a confirmation, run | looked at under one lock and taken under the next; cancellation after the effect | acts only as decided, and once |
| Event pipeline and store, `va/events`, UI cursors in `va/operations` | event log per session, sequence numbers, cursors | append, replay, acknowledge, clear | acknowledgement across a reset, bounded log | no event skipped or shown twice |
| Vehicle state machine and simulation, `va/vehicle/state`, `va/simulation` | vehicle state and version, scripted scenario | apply, reset, tick | validation against one version, listeners | versions go up by one; only legal transitions |
| Model provider selection, `va/model_providers` | one rate-limited transport per provider, which serves one caller at a time | propose | retries and failover within a turn while others wait | a turn gets an answer or an error |
| Workflow engine, `va/workflows` | none of its own | run injected steps in order until one fails or the caller cancels | - | - |
| HTTP front end, contracts, catalogues, queries, responses, classifier, evaluations | none that survives a request | validate, compose | - | - |

Interactions. A turn calls the model, takes its session's lock, sends
`POST /v1/evaluate/action` and waits. ALLOW goes straight to `gateway.execute`.
CONFIRM is registered with the confirmation manager and ends the turn. A later
`confirm()` sends `POST /v1/confirmations/confirm`; ALLOW goes to
`gateway.execute` again. `gateway.execute` and `reset()` exclude each other
through the permit store's lifecycle lock. `reset()` calls into the active
actions, the confirmation manager, the permit store, the event store, the UI
cursors and the simulator, in that order.

## 2. The modules

| Module | Models | State and actions against the code |
|---|---|---|
| `Authority` | calls, permits, the clock | `permit[c]` is the envelope `issue_permit` builds for call `c`; `Tick` is the wall clock |
| `GuardrailService` | tokens and permits: `app.py` and its three stores | `req[c]` is the request's thread: *received*, *consumed* (token taken), *evaluated* (snapshot judged), *answered*. `RejectToken`/`ConsumeToken` are `PendingConfirmationStore.consume`; `EvaluateSnapshot`, `IssuePermit`, `AskConfirmation`, `Refuse` are the stretches of `_evaluate_action`/`_confirm` between shared accesses; `MonitorStop` and `ChangeVehicle` the other writers |
| `PolicyEngine` | the 109 rules of the workbook and the engine | pure: `GateRules` and `MonitorRules` give the matching rules of an intent, `Evaluate` is `PolicyEngine.evaluate` with its fail-closed results |
| `ToolMapping` | the mapping table both processes hold a copy of | `MappingRules`; looked up by `AgentRuntime` and by `GuardrailRequests` |
| `GuardrailRequests` | the service's four routes at work, with the policy and the trace | EXTENDS `PolicyEngine` and `ToolMapping`. `req[r].pc` is how far `handle` is: *begun* (`trace.begin`), *dispatched*, *mapped*, *read* (snapshot taken), *judged*, *concluding*, *ending*, *answered*. `traces` is `TraceRecorder._traces`, `evidence` its sink |
| `ConfirmationManager` | `manager.py` | `conf[k].state` is the record's state, `attempt[a]` the thread of a `confirm()` call. `Confirm*`/`BeginConfirm` are its first critical section, `RevertConfirm` and `ResolveConfirm` the second, `FinishConfirm` the return of the executor |
| `VehicleGateway` | `gateway.py`, `verifier.py`, the reset's side of the boundary | `exec[c]` is an `execute()` call: *waiting* for the boundary, *entered*, *verified* (`verify`), *armed* (`mark_used`), *done*. `cutoff` is `_revoked_before` and `_global_revoked_before` |
| `ActuationLifecycle` | abstract: what the driver is promised | invoked at most once, never after withdrawal |
| `GuardedExecution` | the composition, with orchestrator and HTTP | EXTENDS the three component modules; each action conjoins one or two component actions. `turn[t]` is the orchestrator's thread; `wire` holds posted requests not yet delivered; `swept` is a history variable |
| `ActiveActions` | `registry.py`, `monitor.py`, the handlers that start and stop monitored actions, and as much of the vehicle state as they share | `listed` and `on` are the vehicle's `active_actions` and engaged features, `record` and `index` the registry's two maps. `start[a]` is a handler call (`ApplyStart`: vehicle; `RecordStart` or `RollBackStart`: registry). `worker[w]` is the thread of an evaluation or a reset: *looping* over its batch, *stopping* (record marked, stop handler still to be called), *cascading* and *cascaded* (inside the handler of adaptive cruise) |
| `Vehicle` | the state machine, the invariants of its state, the handlers of the behaviour catalogue, the simulation's controls and presets | `state`, `version` and `events` are those of `VehicleStateMachine` and its event store. A patch is the set of the states it can return, empty when it raises; `Commit` is `apply`/`reset` under the machine's lock |
| `AgentRuntime` | `runtime.py`, `orchestrator/{approved,guarded}.py`, model providers, executor, simulation controller | EXTENDS `Vehicle` and `ToolMapping`. `turn[c].pc` is how far the call of a caller is; `table`, `held` and `locks` are the per-key lock tables; `history`, `results` and `pending` the runtime's and the coordinator's maps; `line` the rate-limited transports; `control` the operators' calls |
| `EventStream` | `events/{store,pipeline,adapters}.py`, the stream rules of the UI contract, `UIConnectionRegistry` and the end of a reset (`operations/runtime.py`) | `events` is the store; `emitted[e]` an event between `append` and `notify`; `sub`, `drain`, `calling` the subscriptions, who drains them and who is in a callback; `acked` and `conn` the cursors and the `reconnect()` calls; `reset` the two steps of a reset that concern events |
| `*_proofs` | proofs | section 6 |
| `MC*` | instances for TLC | section 4 |

Definitions whose comment starts with `Fault:` are not part of the system. They
are plausible bugs of the definition below them; replacing the one by the other
must break the property they are paired with, which shows that the property
depends on that line of the code.

The start-up checks of the code (the catalogue is well configured, every mapped
intent has a handler and is reached under one tool only) are the assumptions
`CatalogAssumption`, `HandlerAssumption` and `MappingAssumption`; TLC evaluates
them on the tables as they are.

### How the modules meet

`GuardedExecution` is the guarded path with the policy abstracted to any table
of verdicts. `GuardrailRequests` is the same service with the real policy and
without the clock: what a token and a permit promise is the former's business,
what the decision behind them promises the latter's. `AgentRuntime` is the path
the shipped runtime wires, in which the agent's executor calls the handlers
itself; the coordinator of `guarded.py`, which takes decisions of a guardrail,
shares its lock, its model and the vehicle. `ActiveActions` and `EventStream`
are the two parts a reset reaches besides confirmations and permits.

### Abstractions

- **Names.** Permit, token and proposal ids come from `uuid4`; here each is the
  call that caused it, so it is fresh. The digest that binds a permit to a
  proposal is the field `proposal`. Request ids are given by the caller and may
  repeat (`AgentRuntime`, `GuardrailRequests`).
- **One clock.** Both processes read one `now`. The code compares the agent's
  clock with the guardrail's stamps, so skew between the two machines is left
  out; the `issued <= now` check that guards against it is kept. The moment
  read just before a lock is taken is read inside it. In `GuardrailRequests`
  and `AgentRuntime` an expiry is a choice: it may have passed or not.
- **Policy**, in `GuardrailService`, is any function from snapshots and
  proposals to verdicts: the engine is pure. BLOCK stands for every outcome
  that denies with a reason.
- **Rules**, in `PolicyEngine`, are a number and an outcome, with the condition
  as the code evaluates it after the rewrites of `conditions.py`. Python's
  `None` is one value; a comparison of a number with it is an evaluation error,
  and one of a missing request parameter another, because every operand of
  every rule of the intent is evaluated whichever matches.
- **Turns** of `GuardedExecution` begin at the request for authority:
  clarification and ANSWER turns change none of that state. The session lock
  the orchestrator holds from the request to the end of the turn
  (`_state_change_lock`) is the guard of `StartTurn`.
- **Locks.** Acquiring one is a step with what follows, releasing it with what
  precedes. `RuntimeOperations._lock` orders resets, which the boundary does
  already, so it is not a variable of its own.
- **Model.** What a provider may answer to a text is a set given for each
  caller; wire formats, prompts and parsing are left out, an answer that does
  not parse is a failure of the provider.
- **Handlers**, in `VehicleGateway`, succeed, fail or raise,
  nondeterministically. `Vehicle` has what each of them writes; `ActiveActions`
  has what those of the monitored actions write besides.
- **Monitored actions.** Of the vehicle state `ActiveActions` keeps the power,
  the four features that have a stop handler and the entries of
  `active_actions`. Features are engaged by camp mode's own handler and by the
  simulation's presets, as in the code; the vehicle itself, which would engage
  adaptive cruise and self-parking, is outside it. Pet mode is left out:
  neither the bridge nor a stop handler is wired for it.
- **Data.** Speeds and battery levels are those at which a rule or an invariant
  changes its mind, seat positions tenths of the axis, an event its type and
  the ids the contract compares, an enum its members.

## 3. Properties

| Property | Says |
|---|---|
| `OnePermitPerProposal` | no proposal gets two permits, whatever is replayed or re-asked |
| `ConfirmedPermitIsFresh` | a permit earned by confirming rests on a snapshot no older than the consumption of an unexpired token |
| `OnlyOwnerTakesToken` | a token leaves the store only by a request of its own session |
| `AtMostOneExecution` | the executor is called at most once per token, and then the record ends CONSUMED |
| `SingleUsePermit` | a permit runs at most one handler |
| `NoRunCrossesReset` | no handler runs during a reset, nor later under a permit issued up to its cutoff |
| `ReportedSuccessHappened` | a success reported by a turn, or by a `confirm()` call with an executor, is one invocation, under the reporter's own permit; one reported without an executor is none at all |
| `AskedMeansConfirmed` | what the driver was asked about runs only under a permit of a `confirm()` of that token |
| `SessionResetIsIsolated` | a session's reset leaves other sessions' records and permits alone |
| `DriverPromise` | the composition refines `ActuationLifecycle` |
| `ManagerSpec`, `GatewaySpec` | the composition keeps to the specifications the manager's and the gateway's theorems are about |
| `ConfirmationSettles` | a record in flight is eventually consumed or offered again |
| `EveryCallReturns` | every turn, `confirm()` and reset that began ends |
| `StopHandledOnce` | whoever stops a record, and however many try, its stop handler is called once |
| `ListedIsMonitored` | no entry of the vehicle is out of the monitor's sight |
| `SweptStaysStopped` | nothing of its scope runs while a reset is under way |
| `StopReachesVehicle` | what stopped or failed leaves the vehicle's list in the end |
| `WorkersFinish` | an evaluation and a reset get through their batches, whoever stops the same records first |
| `PermitsAreSafe` | a permit for an at-rest action rests on a version of the vehicle with speed 0, one for a special mode on one without any |
| `AllowedMayRun` | what the gate permits, the monitor would not stop on the same version (highway assist with hands off aside) |
| `DecidesButFor` | no request the service maps is left undecided, but for the gaps `Excused` names |
| `EvidenceHolds` | the decision on record is the policy's for the version the record names |
| `LastRequestsKept` | the trace of a request is kept, whole, until its id is reused or `Capacity` others have begun |
| `LogTellsState` | the event store tells every version in turn, each coherent, the last one the state |
| `RequestRunsOnce` | a request id runs once, plus once for each time its cached result was dropped |
| `OneInside` | the lock tables exclude, although they delete and remake their entries |
| `MemoryIsContiguous` | a session's history is the end of one conversation, without a reset inside it |
| `TruthfulAnswers` | a success is one change under the version told; a change hides behind a cancellation or a failed verification at most |
| `ActsAsDecided` | what the coordinator changes is what was allowed, and confirmed if it had to be |
| `ConfirmedOnce` | a registered confirmation leads to one change or one refusal |
| `CallsReturn` | every call returns, however providers fail and whoever holds the locks |
| `MonitorHears` | every operator's change reaches the monitor |
| `ExecutionFollowsAllow` | what an execution id did, and every state change by it, follows its one start, which follows its proposal and an ALLOW; nothing follows its one end |
| `AnswersAreWhole` | the chunks of an answer, read in order, are the answer, once |
| `DeliveredInOrder` | a callback sees strictly increasing sequence numbers |
| `NoStrandedEvent` | a queued event has exactly one thread on its way; no callback is entered twice at once |
| `OnlyLateAcksSkip` | a reconnect leaves out events only if a reset overlaps it, or after an acknowledgement that came when its events had been cleared |
| `DeliveryCompletes` | what is queued is delivered, or its subscription ends |

Inside the proofs there are more: `LinearAuthority`, `BoundaryInv`,
`InFlightHeldOnce`, `SettledIsFinal`, `IndexAgrees`, `EndedIsFinal`.

## 4. The runs

| Run | Instance | Shows |
|---|---|---|
| `guardrail_service` | 2 proposals in 2 sessions, 2 attempts with any token and session, 4 snapshots, 2 rules, 1 monitored action | the guardrail's invariants under every interleaving of requests, state changes and monitor stops |
| `guarded_execution` | 1 turn, 2 attempts (hence a re-ask and a chain of tokens), 1 reset, 4 snapshots | the composition's safety and its refinement of `ActuationLifecycle` |
| `guarded_liveness` | 1 turn, 1 attempt, 1 reset, monitored action | the two liveness properties under `FairSpec`, and that the composition implements its components' specifications |
| `active_actions` | an adaptive cruise and two highway assists in 1 session, 1 evaluation, 1 reset of either scope | the registry against the vehicle, with cascade and restart; under `FairSpec` also that stops arrive and batches end |
| `agent_runtime` | nine companies of up to five callers, operators and session resets: repeated requests, a query and actions, cancelled and confirmed coordinator calls, presets and controls between them | the agent's invariants and, under `FairSpec`, that calls return and the monitor hears |
| `guardrail_requests` | seven scenes: every row of the mapping on five initial states and a dozen changes; queries; every monitored intent with stored, supplied and ill-typed snapshots; confirmations that meet another rule, a foreign session, a changed vehicle; repeated and evicted request ids | the policy at work and the trace |
| `event_stream` | 2 emitters, a subscription from the start and one from event 1 with a reset, a connection with a reset; a guarded action with two executions and the agent's state changes; 5 events, queues of 2, 2 chunks | the stream, its delivery and its reading, with liveness under `FairSpec` |
| `swept_never_runs`, `cascade_ends_records`, `stop_spares_successor`, `stream_misses_nothing`, `reconnect_complete` | small instances of the same modules | the disagreements of section 7 |

**Bounds.** `MaxTime` stops the clock and `MaxVersion` the vehicle's changes.
Lifetimes are one tick or none (`PermitTTL` 1, `ConfirmTTL` 0), so within
`MaxTime` an artefact can be issued, be valid at its last tick, and be expired:
the three cases the comparisons tell apart. Every other comparison of times is
between an issue time and a cutoff, which two values order in all three ways.
Two attempts suffice for a race on a token, and for a re-ask followed by a
confirmation of the fresh token. Each call makes one request, which is what
the code does: neither evaluation nor confirmation is retried by the client. A
retry by the driver is another attempt. The composition names `Versions` 1 and 2
for the versions its one change of state can reach.

In `ActiveActions` nothing is counted or timed: the numbers of actions,
evaluations and resets are the bounds. Two records of one key make a restart,
one of each of adaptive cruise and highway assist a cascade, and an evaluation
with a reset every race between two stops.

`AgentRuntime`, `GuardrailRequests` and `EventStream` run *companies* or
*scenes*: sets of threads that occur together, chosen at the start. Each holds
the threads of one question, so that threads that do not interact are not
multiplied. `MaxCached` 1 and `MaxHistory` 3 are below what two turns store, so
that eviction and truncation happen; `Capacity` 2 of the trace is below the
three ids of its scene; `MaxPending` 2 is below the events a subscription can
miss, and `MaxEvents` 5 lets a proposal, its decision, start, effect and end be
stored, or a second start or a state change in its place, or an answer's chunks
between them. Two kinds of events the run does not emit, though the model and
the proofs have them: an operator's `state_changed`, which nothing constrains,
and `turn_progress`, which constrains only itself; no property is about either,
and to every other they are one more event in the stream. `MaxVersion` 4 is the
most a company of `agent_runtime` can commit, so that nobody is stopped by it.

**Symmetry** permutes attempts in `guarded_execution`, which no definition
tells apart; the run checks safety properties only.

**Deadlock** is not an error: calls are finite, and when all have returned and
the clock has stopped so has the system.

**Fairness**. In `active_actions` a start, an evaluation or a reset that has
begun goes on: each is a thread in a loop over a finite batch, whose round
trips end by the HTTP timeout. None has to begin, and nothing is assumed of the
vehicle. In `guarded_liveness`: weak fairness of each agent thread's
step, each guardrail request's step, each execution's step and each reset's
steps: the operating system runs runnable threads. An agent thread waits for
an answer no longer than the HTTP timeout, so it can always go on by losing
the answer; nothing is assumed of the network, the driver, the clock or the
vehicle. Taking the boundary is weakly fair only: callers are finitely many, so
from some moment on a waiting thread finds it free for good. In
`agent_runtime`: while some caller can go on, one does, and so do operators; no
thread is promised a lock, since each call is finite. A transport's call ends,
by its timeout. In `event_stream`: a thread that has stored an event goes on to
notify, one that has a queue to drain goes on draining, and a callback returns
or raises; emitters, subscribers, connections and resets owe nothing.

## 5. Hazards

`PROJECT.json` lists them at their lines with the properties that would catch
them. One has no property: the guarded coordinator executes a decision on
whatever state the vehicle has by then. The model does the same, and no text of
the repository promises more for that path.

## 6. What is proved

Every safety property of a passing run, invariant or action property, is a
theorem: for all sets of threads, sessions and snapshots, all lifetimes, limits
and bounds that satisfy the named assumptions of the modules (names are
disjoint, `None` is no name and no permit, lifetimes are naturals and a permit's is positive, tables are typed,
subscriptions and callers are finitely many, a recorder and a cache have room
for one), and for any policy where the policy is not the subject.

- `ConfirmationManager_proofs`: `ManagerTypes`, `TokenExecutedOnce`,
  `SettledForGood`. The invariant is types, `InFlightHeldOnce` and
  `AtMostOneExecution` together: the executor is called only out of a record in
  flight, that the record has been called zero times follows from its being
  CONFIRMED, and only the one attempt that holds it can call.
- `VehicleGateway_proofs`: `GatewayTypes`, `BoundaryHolds`, `PermitUsedOnce`,
  `ResetsAreNotCrossed`. The invariant is types, `BoundaryInv` and
  `SingleUsePermit`. `HolderInside` gives mutual exclusion; with it
  `VerifiedStaysFit` survives a revocation, because a reset revokes only while
  it holds the boundary itself; `ArmedIsConsumed` carries "zero runs so far"
  from `mark_used` to the handler; `CutoffsHold` and fitness make a run after a
  reset younger than its cutoff.
- `GuardrailService_proofs`: `GuardrailTypes`, `AuthorityIsLinear`,
  `OnePermit`, `ConfirmedIsFresh`, `OwnerTakesToken`. The invariant adds to the
  types and `LinearAuthority` the facts on records that a handler relies on
  (`RequestsSound`: a request in a later phase names an existing token of its
  session, pending tokens exist and are not consumed, a proposal's session is
  its token's) and the freshness of what is already evaluated (`FreshInv`).
  `OnePermitPerProposal` is not inductive, since it does not say where the
  second permit could come from; `LinearAuthority` does: the authority to run a
  proposal is in one place, the undecided turn, a pending token, the attempt
  that took it, or a permit.
- `ActiveActions_proofs`: `ActionTypes`, `IndexIsRight`, `HandledOnce`,
  `NothingOrphaned`, `SweptStays`, `EndedForGood`. The invariant adds to the
  checked ones what they lean on. `StartsMatch`: a start that is not recorded
  yet has no record, so that recording it reopens none. `BoundaryHeld`: a start
  between its two writes and a reset under way hold the boundary, so they
  exclude each other, which is what `SweptStaysStopped` needs. `AtOutOfTodo`: a
  reset does not come back to a record whose handler it is calling. `OwnEntry`:
  between the two writes of a start its entry is the only one of its intent, so
  that the record it is about to supersede leaves nothing behind in the
  vehicle's list. `PointersSound`: a thread in a stop handler knows its record.
  A step is classified twice before the invariants are looked at, by what it
  does to the records (`RecordSteps`) and to the handler calls that are owed
  (`DebtSteps`); most invariants then need four cases instead of twenty.
- `GuardedExecution_proofs`: the composition. Every step of it is, for each of
  the three components, one of that component's steps or none
  (`GuardrailIsUsedRight`, `ManagerIsUsedRight`, `GatewayIsUsedRight`), so that
  a component's invariants hold in it as they are. `CrossInv` ties them: a
  thread's phase says where its request, its record and its execution are, and
  a permit on its way to the gateway is the guardrail's for that thread's
  proposal, and a `confirm()` call that was allowed without an executor leaves
  both its permit and its token alone for good (`LeftAlone`): the record is
  consumed, so nobody else can call for it. From it `SuccessHappened`,
  `AskedRunsConfirmed` and `ResetLeavesOthersAlone`. `PromiseKept` is the refinement of
  `ActuationLifecycle`: a proposal is invoked at most once, and only while it
  has not been withdrawn; each step is one of its steps or a stutter.
- `AgentRuntime_proofs`: the agent, from its locks upwards. `LockInv`: how many
  locks a caller has looked up and holds follows from how far its call is, an
  entry of the table counts those who have looked it up, and so an entry is
  never deleted under somebody (`LockTablesExclude`), nor kept, locked or not,
  once nobody in a call uses it (`CallsLeaveNothingBehind`). `LogInv` is
  `LogTellsState` with what a commit adds. `EffectInv`: what a caller changed
  follows from its phase and its answer; with `CacheInv`, that the cache holds
  only answers of turns that are over, it gives `CallersAreToldTheTruth`.
  `DecidedInv`: from the decision to the commit a caller of the coordinator
  works for one intent, the one of its verdict (`CallersActAsDecided`).
  `MemoryInv`: behind a session's lock there is one turn, and what it read is
  the history that it will continue unless a reset came between
  (`OneConversation`). `OnceInv`: a run of a request is in the cache, on its
  way there, or counted as forgotten (`RequestsRunOnce`). `ConfirmInv`: callers
  that took a confirmation, and it itself if still pending, are no more than
  its registrations (`ConfirmationsAreUsedOnce`). `TypesHold` is the rest of
  what the run checks. `CallersNeverDeadlock` is the safety half of
  `CallsReturn`: locks are taken in the order request, session, action, a
  transport is only ever held by a caller in a call to it (`LineInv`), and no
  call is made under an action's lock; so while anybody waits, somebody in a
  call can go on, whatever the numbers of callers, sessions and providers.
- `GuardrailRequests_proofs`, the policy: about every snapshot, not only those
  of the instance. `NeverAmbiguous`: the matching rules agree, or the mode exclusion (rules 34,
  38, 41) settles it, so the engine never reports an ambiguity. `OnlyAtRest`,
  `OneModeAtATime` and `StartsMayRun` read the rules of the intents they are
  about; `AlwaysDecides` goes through all of them, group by group, for a rule
  that matches whatever the snapshot says.
- `GuardrailRequests_proofs`, the requests: `SafePermits`, `PermittedMayRun`,
  `RequestsDecided`, `EvidenceIsTrue`, `LastRequests`. A thread that has judged holds the
  policy's decision for a snapshot whose version it still names (`Judged`,
  `Names`), the snapshot of a version never changes (`HistoryInv`), and no
  token is about `explain_feature`, whose parameter a confirmation would not
  bring (`TokenInv`). What the policy promises of every snapshot then holds of every
  answer. For the traces `LastRequestsKept` is not inductive, since it does not
  say where in the recorder a trace is; `TraceInv` says that the ids newer than
  it there are the ids begun since, and no id is there twice, so the number of
  newer traces is what the property counts.
- `EventStream_proofs`: `StreamTypes`, `DeliveryOrder`, `OneDrainer`,
  `CausalOrder`, `SecondStartAccepted`, `AnswersWhole`, `SkipsExplained`. `LineInv`: what a callback got and what is queued continue
  each other, below the watermark that the next event must exceed. `DrainInv`:
  nobody drains twice, no two threads the same subscription, and the flag says
  whether somebody drains. `CausalInv`: a proposal is unique and a decision
  follows its proposal, which the validator of one event takes for granted. The
  order is one of execution ids; `SecondStartAccepted` says that it is no more,
  see section 7.
  `AnswersAreWhole` is inductive by itself.
  `ReadInv`: what is acknowledged is of the present numbering, or of no
  account, or came late, or a reset has still to take it back. So a reconnect
  that skips can only be one of the two kinds `SkipsExplained` names.

Two arguments recur in the proofs. A history variable that counts (opened,
forgotten, the bodies run) is compared with the cardinality of a set, through the
library's facts on finite sets. And where a model picks a part of a sequence by
a recursive function (`Picked`), its length and its elements are proved by
induction on a set of naturals, as the library's induction rule cannot be
instantiated.

Only model-checked: liveness (`ConfirmationSettles`, `EveryCallReturns`,
`StopReachesVehicle`, `WorkersFinish`, `DeliveryCompletes`, `CallsReturn`,
`MonitorHears`), since it rests on fairness and so on ENABLED, which is out of the
prover's reach; and that the instances' tables (`ToolMapping`, the handlers)
satisfy the assumptions, which TLC evaluates on every run.

## 7. Where code and text disagree

- `SweptNeverRuns`: the reset's comment says a simulator reset invalidates
  every action, confirmation and permit derived from the old snapshot
  (`va/operations/runtime.py:148-150`). A confirmation in flight is skipped, and
  the permit that answers it may be stamped after the cutoff.
- `CascadeEndsRecords`: stopping adaptive cruise also stops the highway assist
  record, says `va/behaviors/hero/active_driving_assist.py:178-180`, so that
  nobody reads as started what is off. The vehicle's entries go in every
  session, the record only in the session of the adaptive cruise.
- `StopSparesSuccessor`: `va/behaviors/hero/_active_action_common.py:51-55`
  explains that a stop handler must not switch off a feature that a restarted
  run now owns. The handlers tell a restart by the reason of the stop; a
  monitor's stop that was decided before the restart and is carried out after
  it has another reason, and disengages the new run.
- `StreamMissesNothing`: a subscription "atomically replays events after
  `since_sequence` and then follows only that session"
  (`va/contracts/agent_ui/v1/README.md:50-51`). An event is stored under one
  lock and notified of under another (`va/events/pipeline.py:34-35`), so of two
  emitting threads the later may notify first; the watermark then passes the
  other event, which is never delivered. Order survives (`DeliveredInOrder`).
- `ReconnectComplete`: a detached consumer "can reconnect from its last
  acknowledged global session sequence" (`va/contracts/agent_ui/v1/README.md:51-53`).
  A reset restarts the numbering and forgets the acknowledgements, but
  `acknowledge()` takes any number at any time (`va/operations/runtime.py:90-95`).
  An acknowledgement of old events that arrives after the reset makes every
  later reconnect skip as many new ones, until there are more of them than its
  number says. `OnlyLateAcksSkip` is what holds.

None of these breaks the properties of section 3. Smaller ones, not runs of
their own:

- A comment in `va/orchestrator/orchestrator.py:312-315` says only
  confirmations with "a real future expiry" are registered, while the expiry is
  parsed and never compared with the clock. An expired confirmation can so be
  registered; `confirm()` then refuses it, which is `ConfirmExpired`.
- A turn during which its session is reset stores its conversation afterwards,
  with the history it began with: the reset's forgetting is undone
  (`va/runtime.py`). `MemoryIsContiguous` holds of that history too.
- A query reads its facts and its version from two snapshots
  (`va/runtime.py:295-298`), so the version of a reading may be younger.
- A repeated request id replaces a trace that is still being recorded; what the
  earlier request still has to say lands in the new trace.
- The contract's "Ordering" has "exactly one `execution(started)`" per Agent
  action after ALLOW (`va/contracts/agent_ui/v1/README.md:23-30`). The validator
  knows only execution ids (`contract.py:311-316`), so a second start of the
  same proposal under another id is accepted (`SecondStartAccepted`, and the run
  `event_stream` emits it); `ExecutionFollowsAllow` is about each id. Of an
  agent's `state_changed` only the execution id is compared (328-332), not the
  turn, request and proposal that README:33-36 lists.
- A `confirm()` call without an executor, the default, that is answered ALLOW
  consumes the record and returns `completed` with nothing executed
  (`va/confirmation/manager.py:338-344`). Only the missing `execution` of its
  result tells it apart from a success. `ReportedSuccessHappened` says that then
  nothing at all was or will be executed for the token.
- `guardrail/policy/state.py:14-15` says the seat's `target_angle` is supplied
  per request. `request_params_for` never supplies it
  (`guardrail/service/answer_facts.py:41`), so every request about the seat fails
  with `CONDITION_EVAL_ERROR`; it is one of the gaps `Excused` names in
  `DecidesButFor`.
- A reset that overlaps a reconnect may make it skip, or answer with a number of
  the old numbering, since the cursor and the events are read under two locks
  (`va/operations/runtime.py:97-102`).

## 8. Not modelled

- **Wiring that only tests construct**: the workflow engine. The guarded
  coordinator is in the same position but shares the vehicle and its locks with
  the runtime, so it is modelled.
- **Nothing to follow**: the intent classifier and the evaluation scripts
  (numerical, offline), the guardrail's text gateway (one call of the engine),
  queries and responses (read-only text), JSON schemas and manifests (a request
  they reject changes no state), trace and health routes (they read).
- **Beyond the model's data**: redaction and the text of answers, enums and
  speeds between the chosen values, skew between two clocks, callbacks that call
  back into the adapter. In the
  shipped wiring nothing outside tests emits a proposal, so the monitor's
  decision and execution events are refused and dropped there; the stream is
  checked for emitters that do emit them.
- **Taken as given**: a tick of the monitor raises only in the guardrail call,
  where it is caught (`va/integrations/aegis/monitor.py:131-134`); raised anywhere
  else an exception would end the batch, which the model never does. A stop
  handler does not raise: its patch only switches off and removes. In
  `AgentRuntime` whether a confirmation has expired is settled per confirmation
  id, not per decision, and `handle_text` is called without `intent_hint`.

`PROJECT.json` gives the status and the reason for each component.
