-------------------------- MODULE AgentRuntime_proofs --------------------------
(***************************************************************************)
(* The agent's lock tables exclude, its event log tells the state, and     *)
(* what a caller changed, was allowed to change and is told of agree, for  *)
(* any callers, operators, models and guardrail decisions.                 *)
(*                                                                         *)
(* The argument starts at the locks. How many locks a caller has looked up *)
(* and how many of them it holds follows from how far its call is          *)
(* (StackInv, Holds); an entry of the table counts the callers that have   *)
(* looked its lock up (TableInv), so that it is never deleted under one of *)
(* them, and everybody who waits for a key waits for one lock. What a      *)
(* caller changed follows from its phase and its answer, and the cache has *)
(* only answers of turns that are over (EffectInv, CacheInv); so a caller  *)
(* is told the truth. Behind one session lock there is one turn at a time, *)
(* so a history is the end of one conversation (MemoryInv); a run of a     *)
(* request is in the cache or on its way there (OnceInv); whoever changes  *)
(* something on a yes has taken that yes (ConfirmInv); and as everybody    *)
(* looks its locks up in one order, nobody waits in a circle (LineInv).    *)
(***************************************************************************)
EXTENDS AgentRuntime, FiniteSetTheorems, SequenceTheorems, WellFoundedInduction, TLAPS

(***************************************************************************)
(* The local state of a caller.                                            *)
(***************************************************************************)
Fields == {"pc", "history", "from", "for", "hint", "provider", "attempt",
           "reply", "intent", "code", "version", "seen", "answer"}

Outdoors == {"absent", "calling", "returned"}
Deciding == {"peeked", "popped", "heard"}
Asking   == {"asking", "called", "proposed"}
Acting   == {"at_action", "handled", "verified"}
Queued   == {"at_request", "at_session", "at_action", "left"}

Phases(c) ==
    Outdoors \cup Asking \cup Acting \cup {"left"}
      \cup IF c \in Turns THEN {"at_request", "at_session", "answered"}
                          ELSE Deciding

TurnInv ==
    /\ DOMAIN turn = Callers
    /\ \A c \in Callers : /\ DOMAIN turn[c] = Fields
                          /\ turn[c].pc \in Phases(c)
                          /\ turn[c].for \in Callers
                          /\ c \in Turns => turn[c].for = c
    /\ \A k \in DOMAIN pending : pending[k].of \in Callers
    /\ \A c \in Callers : turn[c].pc = "popped" => turn[c].seen.of \in Callers

\* The locks a caller looks up, outermost first. The first two are a turn's.
Outer(c) == IF c \in Turns THEN 2 ELSE 0
Path(c) ==
    IF c \in Turns
    THEN <<RequestLock(c), SessionLock(SessionOf[c]),
           ActionLock(SessionOf[turn[c].for])>>
    ELSE <<ActionLock(SessionOf[turn[c].for])>>

LockKeys == {RequestLock(c) : c \in Callers} \cup {SessionLock(s) : s \in Sessions}
                \cup {ActionLock(s) : s \in Sessions}
Locks == [key : LockKeys, id : Nat]

Depths(c, pc) ==
    {n \in 0..(Outer(c) + 1) :
        /\ pc \in Outdoors \cup Deciding => n = 0
        /\ pc = "at_request" => n = 1
        /\ pc = "at_session" => n = 2
        /\ pc \in Asking \cup {"answered"} => n = Outer(c)
        /\ pc \in Acting => n = Outer(c) + 1
        /\ pc = "left" => n > 0}

StackInv ==
    /\ DOMAIN locks = Callers
    /\ \A c \in Callers :
          /\ locks[c] \in Seq(Locks)
          /\ Len(locks[c]) \in Depths(c, turn[c].pc)
          /\ \A n \in 1..Len(locks[c]) : locks[c][n].key = Path(c)[n]

\* An answer ends the asking, acting or deciding of a caller.
Answered(t, c, code, v, pc) ==
    [t EXCEPT !.pc = pc, !.answer = Answer(c, code, v), !.provider = 1,
              !.attempt = 0, !.reply = None, !.code = None, !.version = None]

LEMMA AnswerSets ==
    ASSUME DOMAIN turn = Callers, NEW c \in Callers, DOMAIN turn[c] = Fields,
           NEW code, NEW v, NEW pc, AnswerAt(c, code, v, pc)
    PROVE  turn' = [turn EXCEPT ![c] = Answered(turn[c], c, code, v, pc)]
BY DEF AnswerAt, Answered, Fields

LEMMA AnswersSets ==
    ASSUME DOMAIN turn = Callers, NEW c \in Callers, DOMAIN turn[c] = Fields,
           NEW code, Answers(c, code)
    PROVE  turn' = [turn EXCEPT ![c] =
                       Answered(turn[c], c, code, None,
                                IF c \in Turns THEN "answered" ELSE "returned")]
BY AnswerSets DEF Answers

LEMMA AnsweredFields ==
    ASSUME NEW t, DOMAIN t = Fields, NEW c, NEW code, NEW v, NEW pc
    PROVE  LET u == Answered(t, c, code, v, pc) IN
           /\ DOMAIN u = Fields /\ u.pc = pc /\ u.answer = Answer(c, code, v)
           /\ u.history = t.history /\ u.from = t.from /\ u.for = t.for
           /\ u.hint = t.hint /\ u.intent = t.intent /\ u.seen = t.seen
           /\ u.provider = 1 /\ u.attempt = 0 /\ u.reply = None
           /\ u.code = None /\ u.version = None
BY DEF Answered, Fields

LEMMA AsksFields ==
    ASSUME NEW t, DOMAIN t = Fields
    PROVE  /\ DOMAIN Asks(t) = Fields /\ Asks(t).pc \in {"proposed", "asking"}
           /\ Asks(t).history = t.history /\ Asks(t).from = t.from
           /\ Asks(t).for = t.for /\ Asks(t).hint = t.hint
           /\ Asks(t).intent = t.intent /\ Asks(t).seen = t.seen
           /\ Asks(t).answer = t.answer
BY DEF Asks, Fields

\* What a step of c makes of its local state.
GoodMove(c, u) ==
    /\ DOMAIN u = Fields
    /\ u.pc \in Phases(c)
    /\ u.for \in Callers /\ (c \in Turns => u.for = c)
    /\ u.pc = "popped" => u.seen.of \in Callers

Moves(c) == \E u : turn' = [turn EXCEPT ![c] = u] /\ GoodMove(c, u)

LEMMA PlainMove ==
    ASSUME TurnInv, NEW c \in Callers, NEW u, turn' = [turn EXCEPT ![c] = u],
           DOMAIN u = Fields, u.pc \in Phases(c), u.for = turn[c].for,
           u.pc # "popped"
    PROVE  Moves(c)
BY DEF TurnInv, GoodMove, Moves

LEMMA AnswersMoves ==
    ASSUME TurnInv, NEW c \in Callers, NEW code, Answers(c, code)
    PROVE  Moves(c)
<1> DEFINE pc == IF c \in Turns THEN "answered" ELSE "returned"
           u == Answered(turn[c], c, code, None, pc)
<1>1. turn' = [turn EXCEPT ![c] = u]
      BY AnswersSets DEF TurnInv
<1>2. GoodMove(c, u)
      BY AnsweredFields DEF TurnInv, GoodMove, Phases, Outdoors
<1> QED BY <1>1, <1>2 DEF Moves

LEMMA AnswerAtMoves ==
    ASSUME TurnInv, NEW c \in Callers, NEW code, NEW v, AnswerAt(c, code, v, "left")
    PROVE  Moves(c)
<1> DEFINE u == Answered(turn[c], c, code, v, "left")
<1>1. turn' = [turn EXCEPT ![c] = u]
      BY AnswerSets DEF TurnInv
<1>2. GoodMove(c, u)
      BY AnsweredFields DEF TurnInv, GoodMove, Phases
<1> QED BY <1>1, <1>2 DEF Moves

LEMMA DecisionMoves ==
    ASSUME TurnInv, NEW c \in Callers, c \notin Turns, NEW d \in Callers,
           HandleDecision(c, d)
    PROVE  Moves(c)
<1>1. CASE \E code : Answers(c, code)
      BY <1>1, AnswersMoves
<1>2. CASE turn' = [turn EXCEPT ![c].pc = "heard", ![c].for = d,
                                ![c].hint = Verdict[c].intent]
      <2> DEFINE u == [turn[c] EXCEPT !.pc = "heard", !.for = d,
                                      !.hint = Verdict[c].intent]
      <2>1. turn' = [turn EXCEPT ![c] = u]
            BY <1>2 DEF TurnInv, Fields
      <2>2. GoodMove(c, u)
            BY DEF TurnInv, GoodMove, Phases, Fields, Deciding
      <2> QED BY <2>1, <2>2 DEF Moves
<1> QED BY <1>1, <1>2 DEF HandleDecision, RegisterConfirmation

LEMMA CallerMoves ==
    ASSUME TurnInv, StackInv, NEW c \in Callers, CallerStep(c)
    PROVE  Moves(c)
<1> USE DEF At, Goes
<1>1. CASE EnterRequest(c) \/ EnterSession(c) \/ Leave(c)
      <2>1. PICK pc \in Phases(c) \ {"popped"} : turn' = [turn EXCEPT ![c].pc = pc]
            <3>1. CASE EnterRequest(c) \/ EnterSession(c)
                  BY <3>1 DEF EnterRequest, EnterSession, Phases, Outdoors, TurnInv,
                              Deciding, Asking, Acting
            <3>2. CASE Leave(c)
                  <4>1. Len(locks[c]) = 3 => c \in Turns
                        <5>1. Len(locks[c]) \in 0..(Outer(c) + 1)
                              BY DEF StackInv, Depths
                        <5>2. c \notin Turns => Outer(c) + 1 = 1
                              BY DEF Outer
                        <5>3. 3 \notin 0..1
                              OBVIOUS
                        <5> QED BY <5>1, <5>2, <5>3
                  <4> QED BY <3>2, <4>1 DEF Leave, Phases, Outdoors
            <3> QED BY <1>1, <3>1, <3>2
      <2> DEFINE u == [turn[c] EXCEPT !.pc = pc]
      <2>2. turn' = [turn EXCEPT ![c] = u]
            BY <2>1 DEF TurnInv, Fields
      <2>3. GoodMove(c, u)
            BY DEF TurnInv, GoodMove, Fields
      <2> QED BY <2>2, <2>3 DEF Moves
<1>2. CASE FindCached(c)
      <2>1. PICK a : turn' = [turn EXCEPT ![c].pc = "left", ![c].answer = a]
            BY <1>2 DEF FindCached
      <2> DEFINE u == [turn[c] EXCEPT !.pc = "left", !.answer = a]
      <2>2. turn' = [turn EXCEPT ![c] = u]
            BY <2>1 DEF TurnInv, Fields
      <2>3. GoodMove(c, u)
            BY DEF TurnInv, GoodMove, Fields, Phases
      <2> QED BY <2>2, <2>3 DEF Moves
<1>3. CASE BeginTurn(c) \/ Hear(c)
      <2>1. CASE BeginTurn(c)
            <3> DEFINE t == [turn[c] EXCEPT !.history = history[SessionOf[c]],
                                            !.from = epoch[SessionOf[c]]]
            <3>1. turn' = [turn EXCEPT ![c] = Asks(t)]
                  BY <2>1 DEF BeginTurn, TurnInv, Fields
            <3>2. DOMAIN t = Fields /\ t.for = turn[c].for
                  BY DEF TurnInv, Fields
            <3>3. GoodMove(c, Asks(t))
                  BY <3>2, AsksFields DEF TurnInv, GoodMove, Phases, Asking
            <3> QED BY <3>1, <3>3 DEF Moves
      <2>2. CASE Hear(c) /\ turn' = [turn EXCEPT ![c] = Asks(@)]
            <3>1. turn' = [turn EXCEPT ![c] = Asks(turn[c])]
                  BY <2>2 DEF TurnInv
            <3>3. GoodMove(c, Asks(turn[c]))
                  BY AsksFields DEF TurnInv, GoodMove, Phases, Asking
            <3> QED BY <3>1, <3>3 DEF Moves
      <2>3. CASE Answers(c, "TURN_CANCELLED")
            BY <2>3, AnswersMoves
      <2> QED BY <1>3, <2>1, <2>2, <2>3 DEF Hear
<1>4. CASE StoreTurn(c)
      <2> DEFINE u == [turn[c] EXCEPT !.pc = "left", !.history = <<>>, !.from = 0]
      <2>2. turn' = [turn EXCEPT ![c] = u]
            BY <1>4 DEF TurnInv, Fields, StoreTurn
      <2>3. GoodMove(c, u)
            BY DEF TurnInv, GoodMove, Fields, Phases
      <2> QED BY <2>2, <2>3 DEF Moves
<1>5. CASE Decide(c) \/ Resolve(c)
      <2>1. c \notin Turns
            BY <1>5 DEF Decide, Resolve, Turns, TurnInv, Phases, Outdoors, Deciding,
                        Asking, Acting
      <2>2. CASE \E d \in Callers : HandleDecision(c, d)
            BY <2>1, <2>2, DecisionMoves
      <2>3. CASE \E code : Answers(c, code)
            BY <2>3, AnswersMoves
      <2> QED BY <1>5, <2>2, <2>3 DEF Decide, Resolve, TurnInv
<1>6. CASE Peek(c) \/ Pop(c)
      <2>1. c \notin Turns
            BY <1>6 DEF Peek, Pop, Turns, TurnInv, Phases, Outdoors, Deciding,
                        Asking, Acting
      <2>2. CASE \E code : Answers(c, code)
            BY <2>2, AnswersMoves
      <2>3. CASE \E pc \in Deciding : \E k \in DOMAIN pending :
                    turn' = [turn EXCEPT ![c].pc = pc, ![c].seen = pending[k]]
            <3>1. PICK pc \in Deciding, k \in DOMAIN pending :
                    turn' = [turn EXCEPT ![c].pc = pc, ![c].seen = pending[k]]
                  BY <2>3
            <3> DEFINE u == [turn[c] EXCEPT !.pc = pc, !.seen = pending[k]]
            <3>2. turn' = [turn EXCEPT ![c] = u]
                  BY <3>1 DEF TurnInv, Fields
            <3>3. GoodMove(c, u)
                  BY <2>1 DEF TurnInv, GoodMove, Fields, Phases
            <3> QED BY <3>2, <3>3 DEF Moves
      <2> QED BY <1>6, <2>2, <2>3 DEF Peek, Pop, TakePending, Deciding
<1>7. CASE CannotAsk(c) \/ Call(c) \/ Retry(c) \/ ProviderFails(c) \/ ModelReplies(c)
      <2>1. CASE \E code : Answers(c, code)
            BY <2>1, AnswersMoves
      <2>3. CASE Call(c)
            <3> DEFINE u == [turn[c] EXCEPT !.pc = "called", !.attempt = 1]
            <3>1. turn' = [turn EXCEPT ![c] = u]
                  BY <2>3 DEF Call, TurnInv, Fields
            <3>9. DOMAIN u = Fields /\ u.pc \in Phases(c) /\ u.for = turn[c].for
                    /\ u.pc # "popped"
                  BY DEF TurnInv, Fields, Phases, Asking, Acting
            <3> QED BY <3>1, <3>9, PlainMove
      <2>4. CASE Retry(c)
            <3> DEFINE u == [turn[c] EXCEPT !.attempt = 2]
            <3>1. turn' = [turn EXCEPT ![c] = u]
                  BY <2>4 DEF Retry, TurnInv, Fields
            <3>9. DOMAIN u = Fields /\ u.pc \in Phases(c) /\ u.for = turn[c].for
                    /\ u.pc # "popped"
                  BY <2>4 DEF Retry, TurnInv, Fields, Phases, Asking, Acting
            <3> QED BY <3>1, <3>9, PlainMove
      <2>5. CASE turn' = [turn EXCEPT ![c].pc = "asking", ![c].provider = @ + 1]
            <3> DEFINE u == [turn[c] EXCEPT !.pc = "asking", !.provider = @ + 1]
            <3>1. turn' = [turn EXCEPT ![c] = u]
                  BY <2>5 DEF TurnInv, Fields
            <3>9. DOMAIN u = Fields /\ u.pc \in Phases(c) /\ u.for = turn[c].for
                    /\ u.pc # "popped"
                  BY DEF TurnInv, Fields, Phases, Asking, Acting
            <3> QED BY <3>1, <3>9, PlainMove
      <2>6. CASE ModelReplies(c)
            <3>1. PICK r : turn' = [turn EXCEPT ![c].pc = "proposed", ![c].reply = r,
                                       ![c].provider = 1, ![c].attempt = 0]
                  BY <2>6 DEF ModelReplies
            <3> DEFINE u == [turn[c] EXCEPT !.pc = "proposed", !.reply = r,
                                            !.provider = 1, !.attempt = 0]
            <3>2. turn' = [turn EXCEPT ![c] = u]
                  BY <3>1 DEF TurnInv, Fields
            <3>9. DOMAIN u = Fields /\ u.pc \in Phases(c) /\ u.for = turn[c].for
                    /\ u.pc # "popped"
                  BY DEF TurnInv, Fields, Phases, Asking, Acting
            <3> QED BY <3>2, <3>9, PlainMove
      <2> QED BY <1>7, <2>1, <2>3, <2>4, <2>5, <2>6
              DEF CannotAsk, ProviderFails, GiveUp, NextProvider
<1>8. CASE DenyProposal(c)
      BY <1>8, AnswersMoves DEF DenyProposal
<1>9. CASE MapProposal(c)
      <2>1. PICK i : turn' = [turn EXCEPT ![c].pc = "at_action", ![c].intent = i]
            BY <1>9 DEF MapProposal
      <2> DEFINE u == [turn[c] EXCEPT !.pc = "at_action", !.intent = i]
      <2>2. turn' = [turn EXCEPT ![c] = u]
            BY <2>1 DEF TurnInv, Fields
      <2>3. GoodMove(c, u)
            BY DEF TurnInv, GoodMove, Fields, Phases, Acting
      <2> QED BY <2>2, <2>3 DEF Moves
<1>10. CASE StopBeforeEffect(c) \/ Conclude(c)
      BY <1>10, AnswerAtMoves DEF StopBeforeEffect, Conclude
<1>11. CASE Execute(c)
      <2>1. PICK code, v : Handled(c, code, v)
            BY <1>11 DEF Execute
      <2> DEFINE u == [turn[c] EXCEPT !.pc = "handled", !.code = code,
                                      !.version = v, !.reply = None]
      <2>2. turn' = [turn EXCEPT ![c] = u]
            BY <2>1 DEF TurnInv, Fields, Handled
      <2>3. GoodMove(c, u)
            BY DEF TurnInv, GoodMove, Fields, Phases, Acting
      <2> QED BY <2>2, <2>3 DEF Moves
<1>12. CASE Verify(c)
      <2>1. PICK code, v : turn' = [turn EXCEPT ![c].pc = "verified", ![c].code = code,
                                                ![c].version = v]
            <3> DEFINE stale == turn[c].code = "COMPLETED" /\ Mutating(turn[c].intent)
                                   /\ turn[c].version # version
                       code == IF stale THEN "EXECUTION_VERIFICATION_FAILED"
                                        ELSE turn[c].code
                       v == IF turn[c].intent \in Readers THEN version
                                                          ELSE turn[c].version
            <3>1. turn' = [turn EXCEPT ![c].pc = "verified", ![c].code = code,
                                       ![c].version = v]
                  BY <1>12 DEF Verify, TurnInv, Fields
            <3> QED BY <3>1
      <2> DEFINE u == [turn[c] EXCEPT !.pc = "verified", !.code = code,
                                      !.version = v]
      <2>2. turn' = [turn EXCEPT ![c] = u]
            BY <2>1 DEF TurnInv, Fields
      <2>9. DOMAIN u = Fields /\ u.pc \in Phases(c) /\ u.for = turn[c].for
              /\ u.pc # "popped"
            BY DEF TurnInv, Fields, Phases, Asking, Acting
      <2> QED BY <2>2, <2>9, PlainMove
<1> QED BY <1>1, <1>2, <1>3, <1>4, <1>5, <1>6, <1>7, <1>8, <1>9, <1>10, <1>11, <1>12
        DEF CallerStep

\* What a step of c makes of the confirmations: it leaves them, registers its
\* own decision for the request of some caller, or takes one.
Registers(c, d) ==
    /\ Verdict[c].id \notin DOMAIN pending
    /\ pending' = Put(pending, Verdict[c].id, [of |-> d, intent |-> Verdict[c].intent])
    /\ opened' = [opened EXCEPT ![Verdict[c].id] = @ + 1]

LEMMA DecisionPends ==
    ASSUME NEW c \in Callers, NEW d \in Callers, HandleDecision(c, d)
    PROVE  \/ UNCHANGED <<pending, opened>>
           \/ Registers(c, d) /\ Answers(c, "NEEDS_CONFIRMATION")
BY DEF HandleDecision, RegisterConfirmation, Registers, guardVars

LEMMA PendingCases ==
    ASSUME TurnInv, NEW c \in Callers, CallerStep(c)
    PROVE  \/ UNCHANGED <<pending, opened>>
           \/ \E d \in Callers : Registers(c, d) /\ Answers(c, "NEEDS_CONFIRMATION")
           \/ Pop(c)
<1>1. CASE Decide(c)
      BY <1>1, DecisionPends DEF Decide
<1>2. CASE Resolve(c)
      <2>1. turn[c].seen.of \in Callers
            BY <1>2 DEF Resolve, At, TurnInv
      <2> QED BY <1>2, <2>1, DecisionPends DEF Resolve, guardVars
<1>3. CASE Peek(c)
      BY <1>3 DEF Peek, guardVars
<1> QED BY <1>1, <1>2, <1>3
        DEF CallerStep, EnterRequest, EnterSession, FindCached, BeginTurn, StoreTurn,
            Leave, Hear, CannotAsk, Call, Retry, ProviderFails, ModelReplies,
            DenyProposal, MapProposal, StopBeforeEffect, Execute, Verify, Conclude,
            AgentStep, ExecutionStep, guardVars

\* The steps in which no caller moves.
LEMMA OthersStep ==
    ASSUME [Next]_vars, ~\E c \in Callers : CallerStep(c)
    PROVE  UNCHANGED <<turn, lockVars, pending, opened, stored>>
<1>1. CASE UNCHANGED vars
      BY <1>1 DEF vars, callerVars, lockVars, memoryVars, guardVars
<1>2. CASE \E c \in Callers : Cancel(c)
      BY <1>2 DEF Cancel, lockVars, memoryVars, guardVars
<1>3. CASE \E o \in Operators : ControlStep(o)
      BY <1>3 DEF ControlStep, ApplyControl, RejectControl, TriggerMonitor,
                  OperatorStep, callerVars, lockVars, memoryVars, guardVars
<1>4. CASE \E r \in Resets : ResetSession(r)
      BY <1>4 DEF ResetSession, callerVars, lockVars, guardVars
<1>5. CASE \E k \in Confirmations : Expire(k)
      BY <1>5 DEF Expire, callerVars, lockVars, memoryVars
<1> QED BY <1>1, <1>2, <1>3, <1>4, <1>5 DEF Next

LEMMA TurnNext ==
    ASSUME TurnInv, StackInv, [Next]_vars
    PROVE  TurnInv'
<1>1. CASE ~\E c \in Callers : CallerStep(c)
      <2>1. UNCHANGED <<turn, pending>>
            BY <1>1, OthersStep
      <2> QED BY <2>1 DEF TurnInv, Phases
<1>2. CASE \E c \in Callers : CallerStep(c)
      <2>1. PICK c \in Callers : CallerStep(c)
            BY <1>2
      <2>2. PICK u : turn' = [turn EXCEPT ![c] = u] /\ GoodMove(c, u)
            BY <2>1, CallerMoves DEF Moves
      <2>3. DOMAIN turn' = Callers /\ turn'[c] = u
               /\ \A d \in Callers \ {c} : turn'[d] = turn[d]
            BY <2>2 DEF TurnInv
      <2>4. \A k \in DOMAIN pending' : pending'[k].of \in Callers
            <3>1. CASE UNCHANGED <<pending, opened>>
                  BY <3>1 DEF TurnInv
            <3>2. CASE \E d \in Callers : Registers(c, d)
                  BY <3>2 DEF TurnInv, Registers, Put
            <3>3. CASE Pop(c)
                  BY <3>3 DEF TurnInv, Pop, TakePending, Without
            <3> QED BY <2>1, <3>1, <3>2, <3>3, PendingCases
      <2>5. \A d \in Callers : Phases(d)' = Phases(d)
            BY DEF Phases
      <2> QED BY <2>2, <2>3, <2>4, <2>5 DEF TurnInv, GoodMove
<1> QED BY <1>1, <1>2
-----------------------------------------------------------------------------
(***************************************************************************)
(* What a step of a caller does to its locks: nothing; it looks the next   *)
(* one up, acquires the last one, releases it, or leaves its entry.        *)
(***************************************************************************)
Same(c) == turn'[c].for = turn[c].for \/ Len(locks[c]) = 0

Stays(c) ==
    /\ UNCHANGED lockVars /\ Same(c)
    /\ Len(locks[c]) \in Depths(c, turn'[c].pc)
    /\ turn'[c].pc \in Queued <=> turn[c].pc \in Queued

Enters(c) ==
    /\ turn'[c].for = turn[c].for
    /\ Len(locks[c]) \in 0..Outer(c)
    /\ CountIn(c, Path(c)[Len(locks[c]) + 1])
    /\ Len(locks[c]) + 1 \in Depths(c, turn'[c].pc)
    /\ turn'[c].pc \in Queued
    /\ IF turn[c].pc \in Queued THEN Len(locks[c]) > 0 /\ Acquire(c) ELSE UNCHANGED held

Takes(c) ==
    /\ UNCHANGED <<table, locks>> /\ Same(c)
    /\ Len(locks[c]) > 0 /\ Acquire(c)
    /\ Len(locks[c]) \in Depths(c, turn'[c].pc)
    /\ turn[c].pc \in Queued /\ turn'[c].pc \notin Queued

Gives(c) ==
    /\ UNCHANGED <<table, locks>> /\ Same(c)
    /\ Len(locks[c]) > 0 /\ ReleaseLock(c, Len(locks[c]))
    /\ Len(locks[c]) \in Depths(c, turn'[c].pc)
    /\ turn[c].pc \notin Queued /\ turn'[c].pc \in Queued

Exits(c) ==
    /\ turn[c].pc = "left" /\ Same(c)
    /\ CountOut(c)
    /\ Len(locks[c]) > 0 /\ Len(locks[c]) - 1 \in Depths(c, turn'[c].pc)
    /\ IF turn'[c].pc \in Queued THEN Len(locks[c]) = 2 /\ ReleaseLock(c, 1)
                                 ELSE UNCHANGED held

LEMMA LengthsAreNat ==
    ASSUME StackInv, NEW c \in Callers
    PROVE  Len(locks[c]) \in Nat
BY DEF StackInv

LEMMA AnswersStays ==
    ASSUME TurnInv, StackInv, NEW c \in Callers, NEW code, Answers(c, code),
           UNCHANGED lockVars,
           \/ turn[c].pc \in Asking
           \/ c \notin Turns /\ turn[c].pc \in Deciding \cup Outdoors
    PROVE  Stays(c)
<1> DEFINE pc == IF c \in Turns THEN "answered" ELSE "returned"
           u == Answered(turn[c], c, code, None, pc)
<1>1. turn' = [turn EXCEPT ![c] = u]
      BY AnswersSets DEF TurnInv
<1>2. turn'[c].pc = pc /\ turn'[c].for = turn[c].for
      BY <1>1, AnsweredFields DEF TurnInv
<1>3. Len(locks[c]) = Outer(c)
      BY DEF StackInv, Depths, Outer
<1> QED BY <1>2, <1>3 DEF Stays, Same, Depths, Outer, Asking, Deciding, Outdoors, Queued,
                        Acting

LEMMA DecisionStays ==
    ASSUME TurnInv, StackInv, NEW c \in Callers, NEW d \in Callers,
           HandleDecision(c, d), UNCHANGED lockVars,
           c \notin Turns, turn[c].pc \in Deciding \cup Outdoors
    PROVE  Stays(c)
<1>1. CASE \E code : Answers(c, code)
      BY <1>1, AnswersStays
<1>2. CASE turn' = [turn EXCEPT ![c].pc = "heard", ![c].for = d,
                                ![c].hint = Verdict[c].intent]
      <2>1. turn'[c].pc = "heard"
            BY <1>2 DEF TurnInv, Fields
      <2>2. Len(locks[c]) = 0
            BY DEF StackInv, Depths
      <2> QED BY <2>1, <2>2
              DEF Stays, Same, Depths, Outer, Asking, Deciding, Outdoors, Queued, Acting
<1> QED BY <1>1, <1>2 DEF HandleDecision, RegisterConfirmation

LEMMA LockCases ==
    ASSUME TurnInv, StackInv, NEW c \in Callers, CallerStep(c)
    PROVE  Stays(c) \/ Enters(c) \/ Takes(c) \/ Gives(c) \/ Exits(c)
<1> USE DEF At, Goes
<1>0. /\ DOMAIN turn = Callers /\ DOMAIN turn[c] = Fields /\ turn[c].pc \in Phases(c)
      /\ Len(locks[c]) \in Nat /\ Len(locks[c]) \in Depths(c, turn[c].pc)
      BY DEF TurnInv, StackInv
<1>1. CASE EnterRequest(c)
      <2>1. turn'[c].pc = "at_request" /\ turn'[c].for = turn[c].for
            BY <1>0, <1>1 DEF EnterRequest, Fields
      <2>2. Len(locks[c]) = 0 /\ Outer(c) = 2 /\ Path(c)[1] = RequestLock(c)
            BY <1>0, <1>1 DEF EnterRequest, Depths, Outer, Outdoors, Path
      <2> QED BY <1>0, <1>1, <2>1, <2>2 DEF EnterRequest, Enters, Depths, Queued, Outdoors,
                                          Deciding, Asking, Acting
<1>2. CASE EnterSession(c)
      <2>1. turn'[c].pc = "at_session" /\ turn'[c].for = turn[c].for
            BY <1>0, <1>2 DEF EnterSession, Fields
      <2>2. /\ Len(locks[c]) = 1 /\ Outer(c) = 2
            /\ Path(c)[2] = SessionLock(SessionOf[c])
            BY <1>0, <1>2 DEF EnterSession, Depths, Outer, Outdoors, Path, Phases, Deciding,
                              Asking, Acting
      <2> QED BY <1>0, <1>2, <2>1, <2>2 DEF EnterSession, Enters, Depths, Queued, Outdoors,
                                          Deciding, Asking, Acting
<1>3. CASE FindCached(c)
      <2>1. turn'[c].pc = "left" /\ turn'[c].for = turn[c].for
            BY <1>0, <1>3 DEF FindCached, Fields
      <2>2. Len(locks[c]) = 2 /\ Outer(c) = 2
            BY <1>0, <1>3 DEF FindCached, Depths, Outer, Phases, Outdoors, Asking, Acting,
                              Deciding
      <2> QED BY <1>0, <1>3, <2>1, <2>2 DEF FindCached, Stays, Same, Depths, Queued, Outdoors,
                                          Deciding, Asking, Acting
<1>4. CASE BeginTurn(c)
      <2> DEFINE t == [turn[c] EXCEPT !.history = history[SessionOf[c]],
                                      !.from = epoch[SessionOf[c]]]
      <2>1. turn' = [turn EXCEPT ![c] = Asks(t)]
            BY <1>4 DEF BeginTurn, TurnInv, Fields
      <2>2. DOMAIN t = Fields /\ t.for = turn[c].for
            BY DEF TurnInv, Fields
      <2>3. turn'[c].pc \in {"asking", "proposed"} /\ turn'[c].for = turn[c].for
            BY <1>0, <2>1, <2>2, AsksFields
      <2>4. Len(locks[c]) = 2 /\ Outer(c) = 2
            BY <1>0, <1>4 DEF BeginTurn, Depths, Outer, Phases, Outdoors, Asking, Acting,
                              Deciding
      <2> QED BY <1>0, <1>4, <2>3, <2>4 DEF BeginTurn, Takes, Same, Depths, Queued,
                                          Outdoors, Deciding, Asking, Acting
<1>5. CASE StoreTurn(c)
      <2>1. turn'[c].pc = "left" /\ turn'[c].for = turn[c].for
            BY <1>0, <1>5 DEF StoreTurn, Fields
      <2>2. Len(locks[c]) = 2 /\ Outer(c) = 2
            BY <1>0, <1>5 DEF StoreTurn, Depths, Outer
      <2> QED BY <1>0, <1>5, <2>1, <2>2 DEF StoreTurn, Gives, Same, Depths, Queued,
                                          Outdoors, Deciding, Asking, Acting
<1>6. CASE Leave(c)
      <2>1. turn'[c].for = turn[c].for
            BY <1>0, <1>6 DEF Leave, Fields
      <2>2. \/ Len(locks[c]) = 3 /\ turn'[c].pc = "answered" /\ UNCHANGED held
            \/ Len(locks[c]) = 2 /\ turn'[c].pc = "left" /\ ReleaseLock(c, 1)
            \/ Len(locks[c]) = 1 /\ turn'[c].pc = "returned" /\ UNCHANGED held
            BY <1>0, <1>6 DEF Leave, Fields
      <2>3. Len(locks[c]) \in {2, 3} => Outer(c) = 2
            <3>1. Len(locks[c]) \in 0..(Outer(c) + 1)
                  BY <1>0 DEF Depths
            <3> QED BY <3>1 DEF Outer
      <2>4. CountOut(c) /\ turn[c].pc = "left"
            BY <1>6 DEF Leave
      <2>5. CASE Len(locks[c]) = 3 /\ turn'[c].pc = "answered" /\ UNCHANGED held
            <3>1. 2 \in Depths(c, "answered")
                  BY <2>3, <2>5 DEF Depths, Outdoors, Deciding, Asking, Acting
            <3> QED BY <2>1, <2>4, <2>5, <3>1 DEF Exits, Same, Queued
      <2>6. CASE Len(locks[c]) = 2 /\ turn'[c].pc = "left" /\ ReleaseLock(c, 1)
            <3>1. 1 \in Depths(c, "left")
                  BY <2>3, <2>6 DEF Depths, Outdoors, Deciding, Asking, Acting
            <3> QED BY <2>1, <2>4, <2>6, <3>1 DEF Exits, Same, Queued
      <2>7. CASE Len(locks[c]) = 1 /\ turn'[c].pc = "returned" /\ UNCHANGED held
            <3>1. 0 \in Depths(c, "returned")
                  BY DEF Depths, Outdoors, Deciding, Asking, Acting, Outer
            <3> QED BY <2>1, <2>4, <2>7, <3>1 DEF Exits, Same, Queued
      <2> QED BY <2>2, <2>5, <2>6, <2>7
<1>7. CASE Decide(c)
      BY <1>7, DecisionStays DEF Decide, GuardedStep, Turns, Outdoors
<1>8. CASE Resolve(c)
      <2>1. c \notin Turns /\ turn[c].seen.of \in Callers
            BY <1>8 DEF Resolve, TurnInv, Phases, Outdoors, Deciding, Asking, Acting
      <2> QED BY <1>8, <2>1, DecisionStays, AnswersStays DEF Resolve, GuardedStep, Deciding
<1>9. CASE Peek(c) \/ Pop(c)
      <2>1. c \notin Turns
            BY <1>9 DEF Peek, Pop, Turns, TurnInv, Phases, Outdoors, Deciding, Asking,
                        Acting
      <2>2. turn[c].pc \in Deciding \cup Outdoors /\ UNCHANGED lockVars
            BY <1>9 DEF Peek, Pop, Outdoors, Deciding, GuardedStep
      <2>3. CASE \E code : Answers(c, code)
            BY <2>1, <2>2, <2>3, AnswersStays
      <2>4. CASE \E k : \/ turn' = [turn EXCEPT ![c].pc = "peeked", ![c].seen = k]
                        \/ turn' = [turn EXCEPT ![c].pc = "popped", ![c].seen = k]
            <3>1. turn'[c].pc \in Deciding
                  BY <1>0, <2>4 DEF Fields, Deciding
            <3>2. Len(locks[c]) = 0
                  BY <1>0, <2>2 DEF Depths
            <3> QED BY <2>2, <3>1, <3>2 DEF Stays, Same, Depths, Queued, Outdoors, Deciding,
                                          Asking, Acting, Outer
      <2> QED BY <1>9, <2>3, <2>4 DEF Peek, Pop, TakePending
<1>10. CASE Hear(c) \/ CannotAsk(c) \/ ProviderFails(c) \/ DenyProposal(c) \/ Call(c)
              \/ Retry(c) \/ ModelReplies(c)
      <2>1. /\ turn[c].pc \in Asking \/ (c \notin Turns /\ turn[c].pc = "heard")
            /\ UNCHANGED lockVars
            <3>1. turn[c].pc \in Asking \cup {"heard"}
                  BY <1>10 DEF Hear, CannotAsk, ProviderFails, GiveUp, DenyProposal, Call,
                               Retry, ModelReplies, Asking
            <3>2. turn[c].pc = "heard" => c \notin Turns
                  BY <1>0 DEF Phases, Outdoors, Asking, Acting
            <3>3. UNCHANGED lockVars
                  BY <1>10 DEF Hear, CannotAsk, ProviderFails, DenyProposal, Call,
                               Retry, ModelReplies, AgentStep
            <3> QED BY <3>1, <3>2, <3>3
      <2>2. CASE \E code : Answers(c, code)
            BY <2>1, <2>2, AnswersStays DEF Deciding
      <2>3. CASE turn'[c].pc \in Asking /\ turn'[c].for = turn[c].for
            <3>1. Len(locks[c]) = Outer(c)
                  BY <1>0, <2>1 DEF Depths, Outer, Deciding
            <3> QED BY <2>1, <2>3, <3>1 DEF Stays, Same, Depths, Queued, Outdoors, Deciding,
                                          Asking, Acting, Outer
      <2>4. CASE Hear(c) /\ turn' = [turn EXCEPT ![c] = Asks(@)]
            <3>1. turn'[c] = Asks(turn[c])
                  BY <1>0, <2>4
            <3> QED BY <1>0, <2>3, <3>1, AsksFields DEF Asking
      <2>5. CASE turn' = [turn EXCEPT ![c].pc = "asking", ![c].provider = @ + 1]
            BY <1>0, <2>3, <2>5 DEF Asking, Fields
      <2>6. CASE Call(c) \/ Retry(c) \/ ModelReplies(c)
            <3>1. CASE Call(c)
                  BY <1>0, <2>3, <3>1 DEF Call, Asking, Fields
            <3>2. CASE Retry(c)
                  BY <1>0, <2>3, <3>2 DEF Retry, Asking, Fields
            <3>3. CASE ModelReplies(c)
                  <4>1. PICK r : turn' = [turn EXCEPT ![c].pc = "proposed",
                             ![c].reply = r, ![c].provider = 1, ![c].attempt = 0]
                        BY <3>3 DEF ModelReplies
                  <4> QED BY <1>0, <2>3, <4>1 DEF Asking, Fields
            <3> QED BY <2>6, <3>1, <3>2, <3>3
      <2> QED BY <1>10, <2>2, <2>4, <2>5, <2>6
              DEF Hear, CannotAsk, ProviderFails, GiveUp, NextProvider, DenyProposal
<1>11. CASE MapProposal(c)
      <2>1. turn'[c].pc = "at_action" /\ turn'[c].for = turn[c].for
            BY <1>0, <1>11 DEF MapProposal, Fields
      <2>2. /\ Len(locks[c]) = Outer(c)
            /\ Path(c)[Outer(c) + 1] = ActionLock(SessionOf[turn[c].for])
            <3>1. Len(locks[c]) = Outer(c)
                  BY <1>0, <1>11 DEF MapProposal, Depths, Asking
            <3> QED BY <3>1 DEF Path, Outer
      <2> QED BY <1>0, <1>11, <2>1, <2>2 DEF MapProposal, Enters, Depths, Queued, Outdoors,
                                          Deciding, Asking, Acting, Outer
<1>12. CASE StopBeforeEffect(c)
      <2>1. turn' = [turn EXCEPT ![c] = Answered(turn[c], c, "TURN_CANCELLED", None, "left")]
            BY <1>0, <1>12, AnswerSets DEF StopBeforeEffect
      <2>2. turn'[c].pc = "left" /\ turn'[c].for = turn[c].for
            BY <1>0, <2>1, AnsweredFields
      <2>3. Len(locks[c]) = Outer(c) + 1
            BY <1>0, <1>12 DEF StopBeforeEffect, Depths, Acting
      <2>4. Len(locks[c]) \in Depths(c, "left")
            BY <2>3 DEF Depths, Outer, Outdoors, Deciding, Asking, Acting
      <2> QED BY <1>12, <2>2, <2>4 DEF StopBeforeEffect, ExecutionStep, Stays, Same,
                                       lockVars, Queued
<1>13. CASE Execute(c)
      <2>1. turn'[c].pc = "handled" /\ turn'[c].for = turn[c].for
            BY <1>0, <1>13 DEF Execute, Handled, Fields
      <2>2. Len(locks[c]) = Outer(c) + 1
            BY <1>0, <1>13 DEF Execute, Depths, Acting
      <2>3. Len(locks[c]) \in Depths(c, "handled") /\ Len(locks[c]) > 0
            BY <2>2 DEF Depths, Outer, Outdoors, Deciding, Asking, Acting
      <2>4. Acquire(c) /\ UNCHANGED <<table, locks>> /\ turn[c].pc = "at_action"
            BY <1>13 DEF Execute, ExecutionStep
      <2> QED BY <2>1, <2>3, <2>4 DEF Takes, Same, Queued
<1>14. CASE Verify(c)
      <2>1. turn'[c].pc = "verified" /\ turn'[c].for = turn[c].for
            BY <1>0, <1>14 DEF Verify, Fields
      <2> QED BY <1>0, <1>14, <2>1 DEF Verify, ExecutionStep, Stays, Same, Depths, lockVars,
                              Queued, Outdoors, Deciding, Asking, Acting, Outer
<1>15. CASE Conclude(c)
      <2>1. PICK v : turn' = [turn EXCEPT ![c] = Answered(turn[c], c, Reported(c), v, "left")]
            BY <1>0, <1>15, AnswerSets DEF Conclude
      <2>2. turn'[c].pc = "left" /\ turn'[c].for = turn[c].for
            BY <1>0, <2>1, AnsweredFields
      <2>3. Len(locks[c]) = Outer(c) + 1
            BY <1>0, <1>15 DEF Conclude, Depths, Acting
      <2>4. Len(locks[c]) \in Depths(c, "left") /\ Len(locks[c]) > 0
            BY <2>3 DEF Depths, Outer, Outdoors, Deciding, Asking, Acting
      <2> QED BY <1>15, <2>2, <2>4 DEF Conclude, ExecutionStep, Gives, Same, Queued
<1> QED BY <1>1, <1>2, <1>3, <1>4, <1>5, <1>6, <1>7, <1>8, <1>9, <1>10, <1>11, <1>12,
           <1>13, <1>14, <1>15 DEF CallerStep
-----------------------------------------------------------------------------
(***************************************************************************)
(* The tables.                                                             *)
(***************************************************************************)
Users(key) ==
    {c \in Callers : \E n \in 1..Len(locks[c]) : locks[c][n].key = key}

TableInv ==
    /\ \A key \in DOMAIN table :
          /\ DOMAIN table[key] = {"lock", "users"}
          /\ table[key].lock \in Locks /\ table[key].lock.key = key
          /\ table[key].users = Cardinality(Users(key))
          /\ Users(key) # {}
    /\ \A c \in Callers : \A n \in 1..Len(locks[c]) :
          /\ locks[c][n].key \in DOMAIN table
          /\ table[locks[c][n].key].lock = locks[c][n]

LEMMA PathKeys ==
    ASSUME TurnInv, NEW c \in Callers
    PROVE  /\ \A n \in 1..(Outer(c) + 1) : Path(c)[n] \in LockKeys
           /\ \A m, n \in 1..(Outer(c) + 1) : Path(c)[m] = Path(c)[n] => m = n
<1>1. RequestLock(c) \in LockKeys /\ SessionLock(SessionOf[c]) \in LockKeys
         /\ ActionLock(SessionOf[turn[c].for]) \in LockKeys
      BY DEF LockKeys, Sessions, TurnInv
<1>2. /\ RequestLock(c)[1] = "request" /\ SessionLock(SessionOf[c])[1] = "session"
      /\ ActionLock(SessionOf[turn[c].for])[1] = "action"
      BY DEF RequestLock, SessionLock, ActionLock
<1>3. CASE c \in Turns
      BY <1>1, <1>2, <1>3 DEF Outer, Path
<1>4. CASE c \notin Turns
      BY <1>1, <1>4 DEF Outer, Path
<1> QED BY <1>3, <1>4

LEMMA FrontIs ==
    ASSUME NEW S, NEW q \in Seq(S), Len(q) > 0
    PROVE  /\ Front(q) \in Seq(S) /\ Len(Front(q)) = Len(q) - 1
           /\ \A n \in 1..(Len(q) - 1) : Front(q)[n] = q[n]
<1>1. PICK k \in Nat : k = Len(q) - 1
      OBVIOUS
<1>2. \A i \in 1..k : q[i] \in S
      BY <1>1
<1>3. /\ SubSeq(q, 1, k) \in Seq(S)
      /\ Len(SubSeq(q, 1, k)) = IF 1 <= k THEN k - 1 + 1 ELSE 0
      /\ \A i \in 1..(k - 1 + 1) : SubSeq(q, 1, k)[i] = q[1 + i - 1]
      BY <1>2, SubSeqProperties
<1>4. \A i \in 1..k : 1 + i - 1 = i /\ i \in 1..(k - 1 + 1)
      OBVIOUS
<1>5. \A i \in 1..k : SubSeq(q, 1, k)[i] = q[i]
      BY <1>3, <1>4
<1> QED BY <1>1, <1>3, <1>5 DEF Front

LEMMA UsersFinite ==
    ASSUME NEW key
    PROVE  IsFiniteSet(Users(key)) /\ Cardinality(Users(key)) \in Nat
BY CallersAssumption, FS_Subset, FS_CardinalityType DEF Users

\* Whoever makes a new lock is alone with it.
LEMMA NewLockIs ==
    ASSUME StackInv, NEW c \in Callers, NEW key, Users(key) = {}
    PROVE  NewLock(key) = [key |-> key, id |-> 1]
<1>1. {m \in InUse : m.key = key} = {}
      BY DEF InUse, Users, StackInv, ToSet
<1>2. Cardinality(Callers) \in Nat /\ Cardinality(Callers) # 0
      BY CallersAssumption, FS_EmptySet, FS_CardinalityType
<1> DEFINE Free(n) == n \notin {} /\ \A m \in 1..(n - 1) : m \in {}
<1>3. (CHOOSE n \in 1..Cardinality(Callers) : Free(n)) = 1
      <2>1. \A n \in 1..Cardinality(Callers) : Free(n) <=> n = 1
            BY <1>2
      <2> QED BY <1>2, <2>1
<1>4. {l.id : l \in {m \in InUse : m.key = key}} = {}
      BY <1>1
<1> QED BY <1>3, <1>4 DEF NewLock

LEMMA CountInStep ==
    ASSUME TurnInv, StackInv, TableInv, NEW c \in Callers, NEW key \in LockKeys,
           CountIn(c, key), c \notin Users(key)
    PROVE  /\ \E l \in Locks : /\ locks' = [locks EXCEPT ![c] = Append(@, l)]
                               /\ l.key = key
           /\ TableInv'
<1> DEFINE known == key \in DOMAIN table
           entry == IF known THEN table[key] ELSE [lock |-> NewLock(key), users |-> 0]
<1>1. /\ table' = Put(table, key, [entry EXCEPT !.users = @ + 1])
      /\ locks' = [locks EXCEPT ![c] = Append(@, entry.lock)]
      BY DEF CountIn
<1>2. Users(key) = {} <=> ~known
      <2>1. known => Users(key) # {}
            BY DEF TableInv
      <2>2. Users(key) # {} => known
            BY DEF TableInv, Users
      <2> QED BY <2>1, <2>2
<1>3. /\ DOMAIN entry = {"lock", "users"} /\ entry.lock \in Locks /\ entry.lock.key = key
      /\ entry.users = Cardinality(Users(key))
      <2>1. CASE known
            BY <2>1 DEF TableInv
      <2>2. CASE ~known
            <3>1. entry.lock = [key |-> key, id |-> 1] /\ entry.users = 0
                  BY <1>2, <2>2, NewLockIs
            <3>2. [key |-> key, id |-> 1] \in Locks
                  BY DEF Locks
            <3> QED BY <1>2, <2>2, <3>1, <3>2, FS_EmptySet
      <2> QED BY <2>1, <2>2
<1> HIDE DEF entry
<1>4. /\ DOMAIN table' = DOMAIN table \cup {key}
      /\ table'[key].lock = entry.lock /\ table'[key].users = entry.users + 1
      /\ DOMAIN table'[key] = {"lock", "users"}
      /\ \A k \in DOMAIN table \ {key} : table'[k] = table[k]
      BY <1>1, <1>3 DEF Put
<1>5. /\ locks[c] \in Seq(Locks) /\ DOMAIN locks = Callers
      BY DEF StackInv
<1>6. /\ locks'[c] = Append(locks[c], entry.lock)
      /\ \A d \in Callers \ {c} : locks'[d] = locks[d]
      BY <1>1, <1>5
<1>7. /\ Len(locks'[c]) = Len(locks[c]) + 1 /\ Len(locks[c]) \in Nat
      /\ locks'[c][Len(locks[c]) + 1] = entry.lock
      /\ \A n \in 1..Len(locks[c]) : locks'[c][n] = locks[c][n]
      BY <1>3, <1>5, <1>6
<1>8. \A k : Users(k)' = IF k = key THEN Users(k) \cup {c} ELSE Users(k)
      <2> TAKE k
      <2>1. \A d \in Callers \ {c} : d \in Users(k)' <=> d \in Users(k)
            BY <1>6 DEF Users
      <2>2. c \in Users(k)' <=> c \in Users(k) \/ k = key
            BY <1>3, <1>7 DEF Users
      <2>3. Users(k)' \subseteq Callers /\ Users(k) \subseteq Callers
            BY DEF Users
      <2> QED BY <2>1, <2>2, <2>3
<1>9. Cardinality(Users(key) \cup {c}) = Cardinality(Users(key)) + 1
      BY UsersFinite, FS_AddElement
<1>10. \A k \in DOMAIN table' :
          /\ DOMAIN table'[k] = {"lock", "users"}
          /\ table'[k].lock \in Locks /\ table'[k].lock.key = k
          /\ table'[k].users = Cardinality(Users(k)')
          /\ Users(k)' # {}
       <2> TAKE k \in DOMAIN table'
       <2>1. CASE k = key
             BY <1>3, <1>4, <1>8, <1>9, <2>1
       <2>2. CASE k # key
             <3>1. k \in DOMAIN table /\ table'[k] = table[k] /\ Users(k)' = Users(k)
                   BY <1>4, <1>8, <2>2
             <3> QED BY <3>1 DEF TableInv
       <2> QED BY <2>1, <2>2
<1>11. \A d \in Callers : \A n \in 1..Len(locks'[d]) :
          /\ locks'[d][n].key \in DOMAIN table'
          /\ table'[locks'[d][n].key].lock = locks'[d][n]
       <2>1. ASSUME NEW d \in Callers, NEW l, l.key \in DOMAIN table,
                    table[l.key].lock = l
             PROVE  l.key \in DOMAIN table' /\ table'[l.key].lock = l
             <3>1. CASE l.key = key
                   BY <1>4, <2>1, <3>1 DEF entry
             <3>2. CASE l.key # key
                   BY <1>4, <2>1, <3>2
             <3> QED BY <3>1, <3>2
       <2>2. \A d \in Callers \ {c} : \A n \in 1..Len(locks'[d]) :
                /\ locks'[d][n].key \in DOMAIN table'
                /\ table'[locks'[d][n].key].lock = locks'[d][n]
             BY <1>6, <2>1 DEF TableInv
       <2>3. \A n \in 1..Len(locks'[c]) :
                /\ locks'[c][n].key \in DOMAIN table'
                /\ table'[locks'[c][n].key].lock = locks'[c][n]
             <3> SUFFICES ASSUME NEW n \in 1..Len(locks'[c])
                          PROVE  /\ locks'[c][n].key \in DOMAIN table'
                                 /\ table'[locks'[c][n].key].lock = locks'[c][n]
                 OBVIOUS
             <3>1. n = Len(locks[c]) + 1 \/ n \in 1..Len(locks[c])
                   BY <1>7
             <3>2. CASE n = Len(locks[c]) + 1
                   BY <1>3, <1>4, <1>7, <3>2
             <3>3. CASE n \in 1..Len(locks[c])
                   <4>1. /\ locks[c][n].key \in DOMAIN table
                         /\ table[locks[c][n].key].lock = locks[c][n]
                         BY <3>3 DEF TableInv
                   <4> QED BY <1>7, <2>1, <3>3, <4>1
             <3> QED BY <3>1, <3>2, <3>3
       <2> QED BY <2>2, <2>3
<1>12. TableInv'
       BY <1>10, <1>11 DEF TableInv
<1> QED BY <1>1, <1>3, <1>12

LEMMA CountOutStep ==
    ASSUME TurnInv, StackInv, TableInv, NEW c \in Callers, Len(locks[c]) > 0,
           CountOut(c)
    PROVE  locks' = [locks EXCEPT ![c] = Front(@)] /\ TableInv'
<1>0. PICK key : key = Last(locks[c]).key
      OBVIOUS
<1> DEFINE top == Last(locks[c])
           entry == table[key]
<1>1. /\ locks[c] \in Seq(Locks) /\ DOMAIN locks = Callers
      /\ Len(locks[c]) \in Nat /\ Len(locks[c]) \in 0..(Outer(c) + 1)
      BY DEF StackInv, Depths
<1>2. /\ locks' = [locks EXCEPT ![c] = Front(@)]
      /\ table' = IF entry.users = 1 THEN Without(table, key)
                                     ELSE [table EXCEPT ![key].users = @ - 1]
      BY <1>0 DEF CountOut
<1>3. top = locks[c][Len(locks[c])]
      BY DEF Last
<1>4. key \in DOMAIN table /\ entry.lock = top /\ c \in Users(key)
      BY <1>0, <1>1, <1>3 DEF TableInv, Users
<1>5. /\ DOMAIN entry = {"lock", "users"} /\ entry.users = Cardinality(Users(key))
      BY <1>4 DEF TableInv
<1>6. /\ \A d \in Callers \ {c} : locks'[d] = locks[d]
      /\ Len(locks'[c]) = Len(locks[c]) - 1
      /\ \A n \in 1..(Len(locks[c]) - 1) : locks'[c][n] = locks[c][n]
      BY <1>1, <1>2, FrontIs
<1>7. \A n \in 1..(Len(locks[c]) - 1) : locks[c][n].key # key
      <2>1. \A n \in 1..Len(locks[c]) : /\ locks[c][n].key = Path(c)[n]
                                         /\ n \in 1..(Outer(c) + 1)
            <3>1. Outer(c) \in Nat
                  BY DEF Outer
            <3> QED BY <1>1, <3>1 DEF StackInv
      <2>2. key = Path(c)[Len(locks[c])]
            BY <1>0, <1>1, <1>3, <2>1
      <2> QED BY <1>1, <2>1, <2>2, PathKeys
<1>8. \A k : Users(k)' = IF k = key THEN Users(k) \ {c} ELSE Users(k)
      <2> TAKE k
      <2>1. \A d \in Callers \ {c} : d \in Users(k)' <=> d \in Users(k)
            BY <1>6 DEF Users
      <2>2. c \in Users(k)' <=> c \in Users(k) /\ k # key
            <3>1. c \in Users(k)' <=> \E n \in 1..(Len(locks[c]) - 1) : locks[c][n].key = k
                  BY <1>6 DEF Users
            <3>2. c \in Users(k) <=> \E n \in 1..Len(locks[c]) : locks[c][n].key = k
                  BY DEF Users
            <3>3. 1..Len(locks[c]) = (1..(Len(locks[c]) - 1)) \cup {Len(locks[c])}
                  BY <1>1
            <3> QED BY <1>0, <1>3, <1>7, <3>1, <3>2, <3>3
      <2>3. Users(k)' \subseteq Callers /\ Users(k) \subseteq Callers
            BY DEF Users
      <2>4. CASE k = key
            BY <2>1, <2>2, <2>3, <2>4
      <2>5. CASE k # key
            <3>1. \A d \in Callers : d \in Users(k)' <=> d \in Users(k)
                  BY <2>1, <2>2, <2>5
            <3>2. Users(k)' = Users(k)
                  BY <2>3, <3>1
            <3> QED BY <2>5, <3>2
      <2> QED BY <2>4, <2>5
<1>9. Cardinality(Users(key) \ {c}) = Cardinality(Users(key)) - 1
      <2>1. IsFiniteSet(Users(key))
            BY UsersFinite
      <2> QED BY <1>4, <2>1, FS_RemoveElement
<1>10. Users(key) \ {c} = {} <=> entry.users = 1
       <2> DEFINE U == Users(key)
       <2>1. IsFiniteSet(U \ {c}) /\ Cardinality(U) \in Nat
             BY UsersFinite, FS_Subset
       <2>2. U \ {c} = {} <=> Cardinality(U \ {c}) = 0
             BY <2>1, FS_EmptySet
       <2> HIDE DEF U
       <2>3. entry.users = Cardinality(U) /\ Cardinality(U \ {c}) = Cardinality(U) - 1
             BY <1>5, <1>9 DEF U
       <2>4. U \ {c} = {} <=> Cardinality(U) = 1
             BY <2>1, <2>2, <2>3
       <2> HIDE DEF entry
       <2> QED BY <2>3, <2>4 DEF U
<1> HIDE DEF top, entry
<1>11. /\ \A k \in DOMAIN table \ {key} : k \in DOMAIN table' /\ table'[k] = table[k]
       /\ DOMAIN table' \subseteq DOMAIN table
       /\ key \in DOMAIN table' <=> Users(key)' # {}
       /\ key \in DOMAIN table' => /\ DOMAIN table'[key] = {"lock", "users"}
                                   /\ table'[key].lock = top
                                   /\ table'[key].users = Cardinality(Users(key)')
       <2>1. CASE entry.users = 1
             <3>1. table' = Without(table, key)
                   BY <1>2, <2>1
             <3>2. Users(key)' = {}
                   BY <1>8, <1>10, <2>1
             <3> QED BY <3>1, <3>2 DEF Without
       <2>2. CASE entry.users # 1
             <3>1. table' = [table EXCEPT ![key].users = @ - 1]
                   BY <1>2, <2>2
             <3>2. Users(key)' = Users(key) \ {c} /\ Users(key)' # {}
                   BY <1>8, <1>10, <2>2
             <3>3. /\ DOMAIN table' = DOMAIN table
                   /\ \A k \in DOMAIN table \ {key} : table'[k] = table[k]
                   /\ table'[key] = [table[key] EXCEPT !.users = @ - 1]
                   BY <1>4, <3>1
             <3>4. /\ DOMAIN table'[key] = {"lock", "users"}
                   /\ table'[key].lock = entry.lock
                   /\ table'[key].users = entry.users - 1
                   BY <1>5, <3>3 DEF entry
             <3>5. table'[key].users = Cardinality(Users(key)')
                   BY <1>5, <1>9, <3>2, <3>4
             <3> QED BY <1>4, <3>2, <3>3, <3>4, <3>5
       <2> QED BY <2>1, <2>2
<1>12. \A k \in DOMAIN table' :
          /\ DOMAIN table'[k] = {"lock", "users"}
          /\ table'[k].lock \in Locks /\ table'[k].lock.key = k
          /\ table'[k].users = Cardinality(Users(k)')
          /\ Users(k)' # {}
       <2> TAKE k \in DOMAIN table'
       <2>1. CASE k = key
             <3>1. entry.lock \in Locks /\ entry.lock.key = key
                   BY <1>4 DEF TableInv, entry
             <3>2. key \in DOMAIN table'
                   BY <2>1
             <3>3. /\ DOMAIN table'[key] = {"lock", "users"}
                   /\ table'[key].lock = entry.lock /\ Users(key)' # {}
                   /\ table'[key].users = Cardinality(Users(key)')
                   BY <1>4, <1>11, <3>2
             <3>4. Users(k)' = Users(key)'
                   BY <1>8, <2>1
             <3> QED BY <2>1, <3>1, <3>3, <3>4
       <2>2. CASE k # key
             BY <1>8, <1>11, <2>2 DEF TableInv
       <2> QED BY <2>1, <2>2
<1>13. \A d \in Callers : \A n \in 1..Len(locks'[d]) :
          /\ locks'[d][n].key \in DOMAIN table'
          /\ table'[locks'[d][n].key].lock = locks'[d][n]
       <2> TAKE d \in Callers
       <2> TAKE n \in 1..Len(locks'[d])
       <2>1. n \in 1..Len(locks[d]) /\ locks'[d][n] = locks[d][n]
             BY <1>1, <1>6
       <2>2. /\ locks[d][n].key \in DOMAIN table
             /\ table[locks[d][n].key].lock = locks[d][n]
             BY <2>1 DEF TableInv
       <2>3. CASE locks[d][n].key = key
             <3>1. Users(key)' # {}
                   BY <2>1, <2>3 DEF Users
             <3> QED BY <1>4, <1>11, <2>1, <2>2, <2>3, <3>1 DEF entry
       <2>4. CASE locks[d][n].key # key
             BY <1>11, <2>1, <2>2, <2>4
       <2> QED BY <2>3, <2>4
<1> QED BY <1>2, <1>12, <1>13 DEF TableInv

LEMMA StackSteps ==
    ASSUME TurnInv, StackInv, TableInv, NEW c \in Callers, CallerStep(c)
    PROVE  StackInv' /\ TableInv'
<1>1. /\ DOMAIN locks = Callers /\ locks[c] \in Seq(Locks) /\ Len(locks[c]) \in Nat
      /\ Len(locks[c]) \in 0..(Outer(c) + 1) /\ Outer(c) \in Nat
      /\ \A n \in 1..Len(locks[c]) : locks[c][n].key = Path(c)[n]
      BY DEF StackInv, Depths, Outer
<1>2. PICK u : turn' = [turn EXCEPT ![c] = u] /\ GoodMove(c, u)
      <2>1. Moves(c)
            BY CallerMoves
      <2> QED BY <2>1 DEF Moves
<1>3. /\ DOMAIN turn' = Callers /\ turn'[c] = u
      /\ \A d \in Callers \ {c} : turn'[d] = turn[d]
      BY <1>2 DEF TurnInv
<1>4. \A d \in Callers \ {c} : Path(d)' = Path(d)
      BY <1>3 DEF Path, RequestLock, SessionLock, ActionLock
<1>5. u.for = turn[c].for => Path(c)' = Path(c)
      BY <1>3 DEF Path, RequestLock, SessionLock, ActionLock
\* It is enough to look at the stack of c.
<1>6. ASSUME NEW q, DOMAIN locks' = Callers, locks'[c] = q,
             \A d \in Callers \ {c} : locks'[d] = locks[d],
             q \in Seq(Locks), Len(q) \in Depths(c, u.pc),
             \A n \in 1..Len(q) : q[n].key = Path(c)'[n]
      PROVE  StackInv'
      <2>2. \A d \in Callers \ {c} :
               /\ locks'[d] \in Seq(Locks)
               /\ Len(locks'[d]) \in Depths(d, turn'[d].pc)
               /\ \A n \in 1..Len(locks'[d]) : locks'[d][n].key = Path(d)'[n]
            <3> TAKE d \in Callers \ {c}
            <3>1. turn'[d] = turn[d] /\ Path(d)' = Path(d) /\ locks'[d] = locks[d]
                  BY <1>3, <1>4, <1>6
            <3>2. /\ locks[d] \in Seq(Locks)
                  /\ Len(locks[d]) \in Depths(d, turn[d].pc)
                  /\ \A n \in 1..Len(locks[d]) : locks[d][n].key = Path(d)[n]
                  BY DEF StackInv
            <3> QED BY <3>1, <3>2
      <2> QED BY <1>3, <1>6, <2>2 DEF StackInv
<1>7. CASE UNCHANGED <<table, locks>> /\ Same(c) /\ Len(locks[c]) \in Depths(c, turn'[c].pc)
      <2>2. \A n \in 1..Len(locks[c]) : locks[c][n].key = Path(c)'[n]
            BY <1>1, <1>3, <1>5, <1>7 DEF Same
      <2>3. StackInv'
            BY <1>1, <1>3, <1>6, <1>7, <2>2
      <2>4. \A k : Users(k)' = Users(k)
            BY <1>7 DEF Users
      <2>5. TableInv'
            BY <1>7, <2>4 DEF TableInv
      <2> QED BY <2>3, <2>5
<1>8. CASE Enters(c)
      <2>1. PICK key : key = Path(c)[Len(locks[c]) + 1]
            OBVIOUS
      <2>2. Len(locks[c]) + 1 \in 1..(Outer(c) + 1) /\ CountIn(c, key)
            BY <1>1, <1>8, <2>1 DEF Enters
      <2>3. key \in LockKeys
            BY <2>1, <2>2, PathKeys
      <2>4. c \notin Users(key)
            <3>1. \A n \in 1..Len(locks[c]) : n \in 1..(Outer(c) + 1)
                                                 /\ n # Len(locks[c]) + 1
                  BY <1>1
            <3>2. \A n \in 1..Len(locks[c]) : locks[c][n].key # key
                  BY <1>1, <2>1, <2>2, <3>1, PathKeys
            <3> QED BY <3>2 DEF Users
      <2>5. PICK l \in Locks : locks' = [locks EXCEPT ![c] = Append(@, l)] /\ l.key = key
            BY <2>2, <2>3, <2>4, CountInStep
      <2>6. TableInv'
            BY <2>2, <2>3, <2>4, CountInStep
      <2> DEFINE q == Append(locks[c], l)
      <2>7. /\ DOMAIN locks' = Callers /\ locks'[c] = q
            /\ \A d \in Callers \ {c} : locks'[d] = locks[d]
            BY <1>1, <2>5
      <2>8. /\ q \in Seq(Locks) /\ Len(q) = Len(locks[c]) + 1
            /\ q[Len(locks[c]) + 1] = l
            /\ \A n \in 1..Len(locks[c]) : q[n] = locks[c][n]
            BY <1>1
      <2> HIDE DEF q
      <2>9. Len(q) \in Depths(c, u.pc) /\ Path(c)' = Path(c)
            BY <1>3, <1>5, <1>8, <2>8 DEF Enters
      <2>10. \A n \in 1..Len(q) : q[n].key = Path(c)'[n]
             BY <1>1, <2>1, <2>5, <2>8, <2>9
      <2>11. StackInv'
             BY <1>6, <2>7, <2>8, <2>9, <2>10
      <2> QED BY <2>6, <2>11
<1>9. CASE Exits(c)
      <2>1. CountOut(c) /\ Len(locks[c]) > 0 /\ Len(locks[c]) - 1 \in Depths(c, u.pc)
               /\ Same(c)
            BY <1>3, <1>9 DEF Exits
      <2>2. locks' = [locks EXCEPT ![c] = Front(@)] /\ TableInv'
            BY <2>1, CountOutStep
      <2> DEFINE q == Front(locks[c])
      <2>3. /\ DOMAIN locks' = Callers /\ locks'[c] = q
            /\ \A d \in Callers \ {c} : locks'[d] = locks[d]
            BY <1>1, <2>2
      <2>4. /\ q \in Seq(Locks) /\ Len(q) = Len(locks[c]) - 1
            /\ \A n \in 1..(Len(locks[c]) - 1) : q[n] = locks[c][n]
            BY <1>1, <2>1, FrontIs
      <2> HIDE DEF q
      <2>5. Path(c)' = Path(c)
            BY <1>3, <1>5, <2>1 DEF Same
      <2>6. \A n \in 1..Len(q) : q[n].key = Path(c)'[n]
            BY <1>1, <2>4, <2>5
      <2>7. StackInv'
            BY <1>6, <2>1, <2>3, <2>4, <2>6
      <2> QED BY <2>2, <2>7
<1>10. Stays(c) \/ Takes(c) \/ Gives(c) =>
          UNCHANGED <<table, locks>> /\ Same(c) /\ Len(locks[c]) \in Depths(c, turn'[c].pc)
       BY DEF Stays, Takes, Gives, lockVars
<1> QED BY <1>7, <1>8, <1>9, <1>10, LockCases

(***************************************************************************)
(* Who holds what.                                                         *)
(***************************************************************************)
Holds(c) == IF turn[c].pc \in Queued THEN Len(locks[c]) - 1 ELSE Len(locks[c])
Hold(l, c) == [lock |-> l, by |-> c]

HeldInv ==
    /\ \A h \in held : \E c \in Callers : \E n \in 1..Holds(c) :
          h = Hold(locks[c][n], c)
    /\ \A c \in Callers : \A n \in 1..Holds(c) : Hold(locks[c][n], c) \in held

AloneInv == \A g, h \in held : g.lock = h.lock => g = h

LockInv == TurnInv /\ StackInv /\ TableInv /\ HeldInv /\ AloneInv

LEMMA HoldFields ==
    ASSUME NEW l, NEW c
    PROVE  Hold(l, c).lock = l /\ Hold(l, c).by = c
BY DEF Hold

LEMMA HeldSteps ==
    ASSUME LockInv, NEW c \in Callers, CallerStep(c)
    PROVE  HeldInv' /\ AloneInv'
<1>1. /\ DOMAIN locks = Callers /\ locks[c] \in Seq(Locks) /\ Len(locks[c]) \in Nat
      /\ Len(locks[c]) \in 0..(Outer(c) + 1) /\ Outer(c) \in Nat
      /\ \A n \in 1..Len(locks[c]) : locks[c][n].key = Path(c)[n]
      BY DEF LockInv, StackInv, Depths, Outer
<1>2. \A d \in Callers \ {c} : Holds(d)' = Holds(d) /\ locks'[d] = locks[d]
      <2>1. PICK u : turn' = [turn EXCEPT ![c] = u]
            BY CallerMoves DEF Moves, LockInv
      <2>2. \A d \in Callers \ {c} : turn'[d] = turn[d]
            BY <2>1 DEF LockInv, TurnInv
      <2>3. \A d \in Callers \ {c} : locks'[d] = locks[d]
            <3>1. Stays(c) \/ Enters(c) \/ Takes(c) \/ Gives(c) \/ Exits(c)
                  BY LockCases DEF LockInv
            <3>2. UNCHANGED locks \/ \E q : locks' = [locks EXCEPT ![c] = q]
                  BY <3>1 DEF Stays, Enters, Takes, Gives, Exits, CountIn, CountOut, lockVars
            <3> QED BY <1>1, <3>2
      <2> QED BY <2>2, <2>3 DEF Holds
<1> DEFINE Mine(l) == Hold(l, c)
<1>3. \A m, n \in 1..Len(locks[c]) : locks[c][m] = locks[c][n] => m = n
      BY <1>1, PathKeys DEF LockInv
\* What is held by c is held by nobody else.
<1>4. ASSUME \A n \in 1..Holds(c)' : Hold(locks'[c][n], c) \in held',
             \A h \in held : h \in held' \/ h.by = c,
             \A h \in held' : \/ h \in held /\ h.by # c
                              \/ \E n \in 1..Holds(c)' : h = Hold(locks'[c][n], c)
      PROVE  HeldInv'
      <2>1. \A h \in held' : \E d \in Callers : \E n \in 1..Holds(d)' :
                h = Hold(locks'[d][n], d)
            <3> TAKE h \in held'
            <3>1. CASE h \in held /\ h.by # c
                  <4>1. PICK d \in Callers : \E n \in 1..Holds(d) : h = Hold(locks[d][n], d)
                        BY <3>1 DEF LockInv, HeldInv
                  <4>2. d # c
                        BY <3>1, <4>1, HoldFields
                  <4> QED BY <1>2, <4>1, <4>2
            <3>2. CASE \E n \in 1..Holds(c)' : h = Hold(locks'[c][n], c)
                  BY <3>2
            <3> QED BY <1>4, <3>1, <3>2
      <2>2. \A d \in Callers : \A n \in 1..Holds(d)' : Hold(locks'[d][n], d) \in held'
            <3> TAKE d \in Callers
            <3>1. CASE d = c
                  BY <1>4, <3>1
            <3>2. CASE d # c
                  <4>1. \A n \in 1..Holds(d)' : Hold(locks'[d][n], d) \in held
                        BY <1>2, <3>2 DEF LockInv, HeldInv
                  <4> QED BY <1>4, <3>2, <4>1, HoldFields
            <3> QED BY <3>1, <3>2
      <2> QED BY <2>1, <2>2 DEF HeldInv
<1>5. \A h \in held : h.by = c => \E n \in 1..Holds(c) : h = Hold(locks[c][n], c)
      BY HoldFields DEF LockInv, HeldInv
\* Nothing is acquired or released.
<1>6. ASSUME UNCHANGED held, Holds(c)' = Holds(c),
             \A n \in 1..Holds(c) : locks'[c][n] = locks[c][n]
      PROVE  HeldInv' /\ AloneInv'
      <2>1. HeldInv'
            BY <1>4, <1>5, <1>6 DEF LockInv, HeldInv
      <2> QED BY <1>6, <2>1 DEF LockInv, AloneInv
\* The last lock is acquired.
<1>7. ASSUME Len(locks[c]) > 0, Acquire(c), Holds(c) = Len(locks[c]) - 1,
             Holds(c)' = Len(locks[c]),
             \A n \in 1..Len(locks[c]) : locks'[c][n] = locks[c][n]
      PROVE  HeldInv' /\ AloneInv'
      <2>1. /\ held' = held \cup {Hold(locks[c][Len(locks[c])], c)}
            /\ \A h \in held : h.lock # locks[c][Len(locks[c])]
            BY <1>7 DEF Acquire, Hold, Last
      <2>2. \A n \in 1..Len(locks[c]) : n \in 1..Holds(c) \/ n = Len(locks[c])
            BY <1>1, <1>7
      <2>3. /\ \A n \in 1..Holds(c) : Hold(locks[c][n], c) \in held
            /\ \A n \in 1..Holds(c) : n \in 1..Len(locks[c])
            /\ Len(locks[c]) \in 1..Len(locks[c])
            BY <1>1, <1>7 DEF LockInv, HeldInv
      <2>4. HeldInv'
            BY <1>4, <1>5, <1>7, <2>1, <2>2, <2>3
      <2>5. AloneInv'
            BY <2>1, HoldFields DEF LockInv, AloneInv
      <2> QED BY <2>4, <2>5
\* The last one held is released.
<1>8. ASSUME NEW k \in 1..Len(locks[c]), ReleaseLock(c, k), Holds(c) = k,
             Holds(c)' = k - 1, \A n \in 1..(k - 1) : locks'[c][n] = locks[c][n]
      PROVE  HeldInv' /\ AloneInv'
      <2>1. held' = held \ {Hold(locks[c][k], c)}
            BY <1>8 DEF ReleaseLock, Hold
      <2>2. \A n \in 1..(k - 1) : /\ n \in 1..Len(locks[c]) /\ n # k
                                  /\ Hold(locks[c][n], c) \in held
            BY <1>1, <1>8 DEF LockInv, HeldInv
      <2>3. \A n \in 1..(k - 1) : Hold(locks'[c][n], c) \in held'
            BY <1>3, <1>8, <2>1, <2>2, HoldFields
      <2>4. \A h \in held' : h.by = c => \E n \in 1..(k - 1) : h = Hold(locks'[c][n], c)
            <3> TAKE h \in held'
            <3> HAVE h.by = c
            <3>1. PICK n \in 1..k : h = Hold(locks[c][n], c)
                  BY <1>5, <1>8, <2>1
            <3>2. n # k
                  BY <2>1, <3>1
            <3> QED BY <1>1, <1>8, <3>1, <3>2
      <2>5. HeldInv'
            BY <1>4, <1>8, <2>1, <2>3, <2>4, HoldFields
      <2> QED BY <2>1, <2>5 DEF LockInv, AloneInv
<1>9. CASE Stays(c)
      <2>1. UNCHANGED <<held, locks>> /\ Holds(c)' = Holds(c)
            BY <1>9 DEF Stays, Holds, lockVars
      <2> QED BY <1>6, <2>1
<1>10. CASE Enters(c)
       <2>1. PICK l : locks'[c] = Append(locks[c], l)
             BY <1>1, <1>10 DEF Enters, CountIn
       <2>2. Len(locks'[c]) = Len(locks[c]) + 1
                /\ \A n \in 1..Len(locks[c]) : locks'[c][n] = locks[c][n]
             <3>1. locks[c] \in Seq(Locks \cup {l})
                   BY <1>1, SeqMonotonic
             <3> QED BY <1>1, <2>1, <3>1
       <2>3. Holds(c)' = Len(locks[c])
             BY <1>1, <1>10, <2>2 DEF Enters, Holds
       <2>4. CASE turn[c].pc \in Queued
             <3>1. /\ Len(locks[c]) > 0 /\ Acquire(c)
                   /\ Holds(c) = Len(locks[c]) - 1
                   BY <1>10, <2>4 DEF Enters, Holds
             <3> QED BY <1>7, <2>2, <2>3, <3>1
       <2>5. CASE turn[c].pc \notin Queued
             <3>1. UNCHANGED held /\ Holds(c) = Len(locks[c])
                   BY <1>10, <2>5 DEF Enters, Holds
             <3> QED BY <1>6, <2>2, <2>3, <3>1
       <2> QED BY <2>4, <2>5
<1>11. CASE Takes(c)
       <2>1. UNCHANGED locks /\ Acquire(c) /\ Len(locks[c]) > 0
                /\ Holds(c) = Len(locks[c]) - 1 /\ Holds(c)' = Len(locks[c])
             BY <1>11 DEF Takes, Holds
       <2> QED BY <1>7, <2>1
<1>12. CASE Gives(c)
       <2>1. /\ UNCHANGED locks /\ ReleaseLock(c, Len(locks[c]))
             /\ Holds(c) = Len(locks[c]) /\ Holds(c)' = Len(locks[c]) - 1
             BY <1>12 DEF Gives, Holds
       <2>2. PICK k \in 1..Len(locks[c]) : k = Len(locks[c])
             BY <1>1, <1>12 DEF Gives
       <2> QED BY <1>8, <2>1, <2>2
<1>13. CASE Exits(c)
       <2>1. locks'[c] = Front(locks[c]) /\ Len(locks[c]) > 0
             BY <1>1, <1>13 DEF Exits, CountOut
       <2>2. Len(locks'[c]) = Len(locks[c]) - 1
                /\ \A n \in 1..(Len(locks[c]) - 1) : locks'[c][n] = locks[c][n]
             BY <1>1, <2>1, FrontIs
       <2>3. Holds(c) = Len(locks[c]) - 1
             BY <1>13 DEF Exits, Holds, Queued
       <2>4. CASE turn'[c].pc \in Queued
             <3>1. Len(locks[c]) = 2 /\ ReleaseLock(c, 1)
                   BY <1>13, <2>4 DEF Exits
             <3>2. Holds(c) = 1 /\ Holds(c)' = 0 /\ 1 \in 1..Len(locks[c])
                   BY <2>2, <2>3, <2>4, <3>1 DEF Holds
             <3>3. \A n \in 1..(1 - 1) : locks'[c][n] = locks[c][n]
                   OBVIOUS
             <3> QED BY <1>8, <3>1, <3>2, <3>3
       <2>5. CASE turn'[c].pc \notin Queued
             <3>1. UNCHANGED held /\ Holds(c)' = Len(locks[c]) - 1
                   BY <1>13, <2>2, <2>5 DEF Exits, Holds
             <3> QED BY <1>6, <2>2, <2>3, <3>1
       <2> QED BY <2>4, <2>5
<1> QED BY <1>9, <1>10, <1>11, <1>12, <1>13, LockCases DEF LockInv

LEMMA LockNext ==
    ASSUME LockInv, [Next]_vars
    PROVE  LockInv'
<1>1. CASE \E c \in Callers : CallerStep(c)
      BY <1>1, TurnNext, StackSteps, HeldSteps DEF LockInv
<1>2. CASE ~\E c \in Callers : CallerStep(c)
      <2>1. UNCHANGED <<turn, table, held, locks, pending>>
            BY <1>2, OthersStep DEF lockVars
      <2>2. TurnInv'
            BY TurnNext DEF LockInv
      <2>3. /\ \A c \in Callers : Path(c)' = Path(c) /\ Holds(c)' = Holds(c)
            /\ \A k : Users(k)' = Users(k)
            BY <2>1 DEF Path, RequestLock, SessionLock, ActionLock, Holds, Users
      <2>4. StackInv'
            BY <2>1, <2>3 DEF LockInv, StackInv
      <2>5. TableInv'
            BY <2>1, <2>3 DEF LockInv, TableInv
      <2>6. HeldInv' /\ AloneInv'
            BY <2>1, <2>3 DEF LockInv, HeldInv, AloneInv
      <2> QED BY <2>2, <2>4, <2>5, <2>6 DEF LockInv
<1> QED BY <1>1, <1>2

LEMMA LockInit ==
    ASSUME Init
    PROVE  LockInv
<1>1. PICK present \in Companies :
        turn = [c \in Callers |->
                   [Idle(c) EXCEPT !.pc = IF c \in present THEN @ ELSE "absent"]]
      BY DEF Init
<1>2. \A c \in Callers : /\ turn[c].pc \in {"calling", "absent"} /\ turn[c].for = c
                         /\ DOMAIN turn[c] = Fields
      BY <1>1 DEF Idle, Fields
<1>3. \A c \in Callers : locks[c] = <<>>
      BY DEF Init, AgentInit
<1>4. TurnInv
      <2>1. DOMAIN turn = Callers
            BY <1>1
      <2>2. DOMAIN pending = {}
            BY DEF Init, AgentInit
      <2> QED BY <1>2, <2>1, <2>2 DEF TurnInv, Phases, Outdoors
<1>5. StackInv
      <2>1. \A c \in Callers : 0 \in Depths(c, turn[c].pc)
            BY <1>2 DEF Depths, Asking, Acting, Outer
      <2>2. <<>> \in Seq(Locks) /\ Len(<<>>) = 0
            OBVIOUS
      <2> QED BY <1>3, <2>1, <2>2 DEF StackInv, Init, AgentInit
<1>6. TableInv
      BY <1>3 DEF TableInv, Init, AgentInit
<1>7. HeldInv /\ AloneInv
      <2>1. \A c \in Callers : Holds(c) = 0
            BY <1>2, <1>3 DEF Holds, Queued
      <2> QED BY <2>1 DEF HeldInv, AloneInv, Init, AgentInit
<1> QED BY <1>4, <1>5, <1>6, <1>7 DEF LockInv

LEMMA LockInvariance == Spec => []LockInv
<1>1. Init => LockInv
      BY LockInit
<1>2. LockInv /\ [Next]_vars => LockInv'
      BY LockNext
<1> QED BY <1>1, <1>2, PTL DEF Spec

LEMMA LocksExclude ==
    ASSUME LockInv
    PROVE  OneInside
<1>1. \A c \in Callers : \A l \in ToSet(locks[c]) :
          l.key \in DOMAIN table /\ table[l.key].lock = l
      <2>1. \A c \in Callers : \A l \in ToSet(locks[c]) :
               \E n \in 1..Len(locks[c]) : l = locks[c][n]
            BY DEF LockInv, StackInv, ToSet
      <2> QED BY <2>1 DEF LockInv, TableInv
<1>2. \A c \in Callers : \A n \in 1..Len(locks[c]) : locks[c][n] \in ToSet(locks[c])
      BY DEF LockInv, StackInv, ToSet
<1>3. \A key \in DOMAIN table : \E c \in Callers : table[key].lock \in ToSet(locks[c])
      <2> TAKE key \in DOMAIN table
      <2>1. PICK c \in Callers : \E n \in 1..Len(locks[c]) : locks[c][n].key = key
            BY DEF LockInv, TableInv, Users
      <2> QED BY <1>2, <2>1 DEF LockInv, TableInv
<1>4. ASSUME NEW g \in held, NEW h \in held, g.lock.key = h.lock.key
      PROVE  g = h
      <2>1. \A k \in held : \E c \in Callers : k.lock \in ToSet(locks[c])
            <3> TAKE k \in held
            <3>1. PICK c \in Callers : \E n \in 1..Holds(c) : k.lock = locks[c][n]
                  BY HoldFields DEF LockInv, HeldInv
            <3>2. \A n \in 1..Holds(c) : n \in 1..Len(locks[c])
                  BY LengthsAreNat DEF LockInv, Holds
            <3> QED BY <1>2, <3>1, <3>2
      <2>2. g.lock = h.lock
            BY <1>1, <1>4, <2>1
      <2> QED BY <2>2 DEF LockInv, AloneInv
<1> QED BY <1>1, <1>3, <1>4 DEF OneInside

\* However the entries of the tables come and go, nobody is inside a request,
\* a session or a session's state change together with another.
THEOREM LockTablesExclude == Spec => []OneInside
<1>1. LockInv => OneInside
      BY LocksExclude
<1> QED BY <1>1, LockInvariance, PTL

\* An entry of a lock table is there for somebody in a call that looked it up,
\* and a lock that is held is held by somebody in a call.
NothingLeftBehind ==
    LET InCall(c) == turn[c].pc \notin Outdoors \cup Deciding IN
    /\ \A key \in DOMAIN table :
          \E c \in Callers : InCall(c) /\ \E n \in 1..Len(locks[c]) : locks[c][n].key = key
    /\ \A h \in held : \E c \in Callers : InCall(c) /\ h.by = c

\* Whichever way calls end, refused, answered from the cache or after a
\* provider failed, they leave neither an entry in the lock tables, which
\* would grow with every request id, nor a lock nobody will release: the
\* finally clauses of the two context managers.
THEOREM CallsLeaveNothingBehind == Spec => []NothingLeftBehind
<1>1. ASSUME LockInv PROVE NothingLeftBehind
  <2>1. ASSUME NEW c \in Callers, NEW n \in 1..Len(locks[c])
        PROVE  turn[c].pc \notin Outdoors \cup Deciding
    <3>1. Len(locks[c]) \in Depths(c, turn[c].pc)
          BY <1>1 DEF LockInv, StackInv
    <3>2. Len(locks[c]) # 0
          BY <1>1 DEF LockInv, StackInv
    <3> QED BY <3>1, <3>2 DEF Depths
  <2>2. ASSUME NEW key \in DOMAIN table
        PROVE  \E c \in Callers : \E n \in 1..Len(locks[c]) : locks[c][n].key = key
        BY <1>1 DEF LockInv, TableInv, Users
  <2>3. ASSUME NEW h \in held
        PROVE  \E c \in Callers : \E n \in 1..Len(locks[c]) : h.by = c
    <3>1. PICK c \in Callers : \E n \in 1..Holds(c) : h = Hold(locks[c][n], c)
          BY <1>1 DEF LockInv, HeldInv
    <3>2. PICK n \in 1..Holds(c) : h = Hold(locks[c][n], c)
          BY <3>1
    <3>3. Len(locks[c]) \in Nat
          BY <1>1 DEF LockInv, StackInv
    <3>4. n \in 1..Len(locks[c])
          BY <3>2, <3>3 DEF Holds
    <3> QED BY <3>2, <3>4, HoldFields
  <2> QED BY <2>1, <2>2, <2>3 DEF NothingLeftBehind
<1> QED BY <1>1, LockInvariance, PTL
-----------------------------------------------------------------------------
(***************************************************************************)
(* The vehicle and its log.                                                *)
(***************************************************************************)
LogInv ==
    /\ \E S : events \in Seq(S)
    /\ version \in 0..MaxVersion
    /\ LogTellsState

LEMMA DefaultCoherent == Coherent(Default)
<1>1. {m \in {"camp_mode_active", "pet_mode_active", "valet_mode_active"} : Default[m]} = {}
      BY DEF Default
<1>2. ModesHold(Default)
      BY <1>1, FS_EmptySet DEF ModesHold
<1>3. AdasHolds(Default) /\ CabinHolds(Default)
      BY DEF AdasHolds, CabinHolds, Default, SeatMax
<1>4. SnapshotHolds(Default)
      BY DEF SnapshotHolds, Default
<1> QED BY <1>2, <1>3, <1>4 DEF Coherent

\* A commit adds one event with the coherent state it left.
Commits(kind, by) ==
    /\ version < MaxVersion /\ version' = version + 1
    /\ Coherent(state')
    /\ events' = Append(events, Event(kind, by, state'))

LEMMA CommitCommits ==
    ASSUME NEW candidates, NEW kind, NEW by, Commit(candidates, kind, by)
    PROVE  Commits(kind, by)
BY DEF Commit, Commits, Stamped, Built

\* Only the execution touches the vehicle.
LEMMA OthersLeaveVehicle ==
    ASSUME NEW c \in Callers, CallerStep(c), ~Execute(c)
    PROVE  UNCHANGED vehicleVars
<1>1. CASE EnterRequest(c) \/ EnterSession(c) \/ FindCached(c) \/ BeginTurn(c)
             \/ StoreTurn(c) \/ Leave(c)
      BY <1>1 DEF EnterRequest, EnterSession, FindCached, BeginTurn, StoreTurn, Leave
<1>2. CASE Decide(c) \/ Peek(c) \/ Pop(c) \/ Resolve(c)
      BY <1>2 DEF Decide, Peek, Pop, Resolve, GuardedStep
<1>3. CASE Hear(c) \/ CannotAsk(c) \/ Call(c) \/ Retry(c) \/ ProviderFails(c)
             \/ ModelReplies(c) \/ DenyProposal(c)
      BY <1>3 DEF Hear, CannotAsk, Call, Retry, ProviderFails, ModelReplies,
                  DenyProposal, AgentStep
<1>4. CASE MapProposal(c) \/ StopBeforeEffect(c) \/ Verify(c) \/ Conclude(c)
      BY <1>4 DEF MapProposal, StopBeforeEffect, Verify, Conclude
<1> QED BY <1>1, <1>2, <1>3, <1>4 DEF CallerStep

LEMMA VehicleCases ==
    ASSUME [Next]_vars
    PROVE  \/ UNCHANGED vehicleVars
           \/ \E c \in Callers :
                /\ Execute(c) /\ ~OnlyReads(turn[c].intent)
                /\ Handled(c, "COMPLETED", version')
                /\ Commits("agent", [caller |-> c, intent |-> turn[c].intent])
           \/ \E o \in Operators :
                Commits(ActorKind(CallOf[o]), [caller |-> o, intent |-> CallOf[o].op])
<1>1. CASE \E c \in Callers : CallerStep(c) /\ ~Execute(c)
      BY <1>1, OthersLeaveVehicle
<1>2. CASE \E c \in Callers : Execute(c)
      <2>1. PICK c \in Callers : Execute(c)
            BY <1>2
      <2>2. CASE UNCHANGED vehicleVars
            BY <2>2
      <2>3. CASE ~UNCHANGED vehicleVars
            <3>1. /\ ~OnlyReads(turn[c].intent) /\ Handled(c, "COMPLETED", version')
                  /\ Commit(HandlerPatch(state, turn[c].intent, turn[c].reply.arguments),
                            "agent", [caller |-> c, intent |-> turn[c].intent])
                  BY <2>1, <2>3 DEF Execute
            <3> QED BY <2>1, <3>1, CommitCommits
      <2> QED BY <2>2, <2>3
<1>3. CASE \E o \in Operators : ControlStep(o)
      BY <1>3, CommitCommits DEF ControlStep, ApplyControl, RejectControl, TriggerMonitor
<1>4. CASE ~\E c \in Callers : CallerStep(c)
      BY <1>3, <1>4 DEF Next, vars, Cancel, ResetSession, Expire
<1> QED BY <1>1, <1>2, <1>4

LEMMA CommitLogs ==
    ASSUME LogInv, NEW kind, NEW by, Commits(kind, by)
    PROVE  /\ LogInv'
           /\ Len(events) = version /\ Len(events') = version' /\ version' = version + 1
           /\ \A i \in 1..version : events'[i] = events[i]
           /\ events'[version'].by = by /\ events'[version'].kind = kind
<1> DEFINE e == Event(kind, by, state')
<1>1. PICK S : events \in Seq(S)
      BY DEF LogInv
<1>2. events \in Seq(S \cup {e})
      BY <1>1, SeqMonotonic
<1>3. /\ events' = Append(events, e) /\ events' \in Seq(S \cup {e})
      /\ Len(events') = Len(events) + 1 /\ events'[Len(events) + 1] = e
      /\ \A i \in 1..Len(events) : events'[i] = events[i]
      /\ DOMAIN events' = 1..(Len(events) + 1) /\ Len(events) \in Nat
      BY <1>2 DEF Commits
<1>4. /\ version \in Nat /\ version' = version + 1 /\ version' \in 0..MaxVersion
      /\ Len(events) = version /\ Coherent(state')
      BY BoundAssumption DEF Commits, LogInv, LogTellsState
<1>5. /\ e.previous = version /\ e.next = version + 1 /\ e.snapshot = state'
      /\ e.by = by /\ e.kind = kind
      BY DEF Event
<1> HIDE DEF e
<1>6. \A i \in DOMAIN events' :
         /\ events'[i].next = i /\ events'[i].previous = i - 1
         /\ Coherent(events'[i].snapshot)
      <2> TAKE i \in DOMAIN events'
      <2>1. CASE i = Len(events) + 1
            BY <1>3, <1>4, <1>5, <2>1
      <2>2. CASE i # Len(events) + 1
            <3>1. i \in DOMAIN events /\ events'[i] = events[i]
                  BY <1>1, <1>3, <2>2
            <3> QED BY <3>1 DEF LogInv, LogTellsState
      <2> QED BY <2>1, <2>2
<1>7. state' = IF events' = <<>> THEN Default ELSE Last(events').snapshot
      <2>1. events' # <<>> /\ Last(events') = e
            BY <1>3 DEF Last
      <2> QED BY <1>5, <2>1
<1>8. LogTellsState'
      BY <1>3, <1>4, <1>6, <1>7 DEF LogTellsState
<1>9. \E T : events' \in Seq(T)
      BY <1>3
<1> QED BY <1>3, <1>4, <1>5, <1>8, <1>9 DEF LogInv

LEMMA LogNext ==
    ASSUME LogInv, [Next]_vars
    PROVE  LogInv'
<1>1. CASE UNCHANGED vehicleVars
      BY <1>1 DEF LogInv, LogTellsState, vehicleVars
<1>2. CASE \E kind, by : Commits(kind, by)
      BY <1>2, CommitLogs
<1> QED BY <1>1, <1>2, VehicleCases

LEMMA LogInit ==
    ASSUME Init
    PROVE  LogInv
<1>1. <<>> \in Seq({}) /\ Len(<<>>) = 0 /\ DOMAIN <<>> = {}
      OBVIOUS
<1> QED BY <1>1, BoundAssumption DEF LogInv, LogTellsState, Init, VehicleInit

\* The event store tells the whole story of the vehicle, whatever handlers
\* and controls were asked for and refused.
THEOREM LogIsTheStory == Spec => []LogTellsState
<1>1. Init => LogInv
      BY LogInit
<1>2. LogInv /\ [Next]_vars => LogInv'
      BY LogNext
<1>3. LogInv => LogTellsState
      BY DEF LogInv
<1> QED BY <1>1, <1>2, <1>3, PTL DEF Spec
-----------------------------------------------------------------------------
(***************************************************************************)
(* What is picked from a sequence. Induction is on a set of naturals: it   *)
(* is empty if it lacks 0 and does not grow by a successor.                *)
(***************************************************************************)
LEMMA NoFirst ==
    ASSUME NEW B \in SUBSET Nat, 0 \notin B, \A n \in Nat : n \notin B => n + 1 \notin B
    PROVE  B = {}
<1> DEFINE R == OpToRel(<, Nat)
<1>1. SUFFICES ASSUME B # {} PROVE FALSE
      OBVIOUS
<1>2. IsWellFoundedOn(R, Nat)
      BY NatLessThanWellFounded
<1>3. \A y, z \in Nat : y < z => <<y, z>> \in R
      BY DEF OpToRel
<1> HIDE DEF R
<1>4. PICK x \in B : \A y \in B : ~(<<y, x>> \in R)
      BY <1>1, <1>2, WFMin
<1>5. x \in Nat /\ x # 0 /\ x - 1 \in Nat /\ x - 1 < x /\ x = (x - 1) + 1
      BY <1>4
<1>6. x - 1 \in B
      BY <1>5
<1>7. <<x - 1, x>> \in R
      BY <1>3, <1>5
<1> QED BY <1>4, <1>6, <1>7, Zenon

Picks(f, q, I, n) ==
    f = [m \in 0..n |-> IF m = 0 THEN <<>>
                        ELSE IF m \in I THEN Append(f[m - 1], q[m])
                        ELSE f[m - 1]]

LEMMA PicksExist ==
    ASSUME NEW q, NEW I, NEW L \in Nat
    PROVE  \E f : Picks(f, q, I, L)
<1> DEFINE B == {n \in Nat : ~\E f : Picks(f, q, I, n)}
<1>1. 0 \notin B
      <2> DEFINE f == [m \in 0..0 |-> <<>>]
      <2>1. Picks(f, q, I, 0)
            BY DEF Picks
      <2> QED BY <2>1
<1>2. ASSUME NEW n \in Nat, n \notin B
      PROVE  n + 1 \notin B
      <2>1. PICK f : Picks(f, q, I, n)
            BY <1>2
      <2> DEFINE g == [m \in 0..(n + 1) |->
                         IF m = n + 1
                         THEN IF n + 1 \in I THEN Append(f[n], q[n + 1]) ELSE f[n]
                         ELSE f[m]]
      <2>2. \A m \in 0..n : f[m] = IF m = 0 THEN <<>>
                                   ELSE IF m \in I THEN Append(f[m - 1], q[m])
                                   ELSE f[m - 1]
            BY <2>1 DEF Picks
      <2>3. \A m \in 0..(n + 1) : m # 0 => m - 1 \in 0..n
            OBVIOUS
      <2>5. \A m \in 0..n : m \in 0..(n + 1) /\ g[m] = f[m]
            OBVIOUS
      <2>6. g[n + 1] = IF n + 1 \in I THEN Append(f[n], q[n + 1]) ELSE f[n]
            OBVIOUS
      <2> HIDE DEF g
      <2>4. \A m \in 0..(n + 1) : g[m] = IF m = 0 THEN <<>>
                                         ELSE IF m \in I THEN Append(g[m - 1], q[m])
                                         ELSE g[m - 1]
            <3> TAKE m \in 0..(n + 1)
            <3>1. CASE m = n + 1
                  <4>1. m - 1 = n /\ n \in 0..n /\ m # 0
                        BY <3>1
                  <4> QED BY <2>5, <2>6, <3>1, <4>1
            <3>2. CASE m # n + 1
                  <4>1. m \in 0..n
                        BY <3>2
                  <4>2. m # 0 => g[m - 1] = f[m - 1]
                        BY <2>3, <2>5
                  <4> QED BY <2>2, <2>5, <4>1, <4>2
            <3> QED BY <3>1, <3>2
      <2>7. g = [m \in 0..(n + 1) |-> g[m]]
            BY DEF g
      <2>8. Picks(g, q, I, n + 1)
            BY <2>4, <2>7 DEF Picks
      <2> QED BY <2>8
<1> HIDE DEF B
<1>3. B = {}
      BY <1>1, <1>2, NoFirst DEF B
<1> QED BY <1>3 DEF B

LEMMA PickedEntries ==
    ASSUME NEW S, NEW q \in Seq(S), NEW I
    PROVE  /\ Picked(q, I) \in Seq({q[i] : i \in I \cap DOMAIN q})
           /\ Len(Picked(q, I)) <= Len(q)
           /\ \A i \in DOMAIN q : i \notin I => Len(Picked(q, I)) < Len(q)
           /\ \A i \in I \cap DOMAIN q : \E j \in 1..Len(Picked(q, I)) : Picked(q, I)[j] = q[i]
<1> DEFINE L == Len(q)
           f == CHOOSE f : Picks(f, q, I, L)
           T == {q[i] : i \in I \cap DOMAIN q}
<1>1. L \in Nat /\ DOMAIN q = 1..L
      OBVIOUS
<1>2. Picks(f, q, I, L)
      BY <1>1, PicksExist
<1>3. Picked(q, I) = f[L]
      BY DEF Picked, Picks
<1> HIDE DEF f, T, L
<1>4. f[0] = <<>>
      BY <1>1, <1>2 DEF Picks
<1>5. \A n \in 1..L : f[n] = IF n \in I THEN Append(f[n - 1], q[n]) ELSE f[n - 1]
      <2>1. \A n \in 0..L : f[n] = IF n = 0 THEN <<>>
                                   ELSE IF n \in I THEN Append(f[n - 1], q[n])
                                   ELSE f[n - 1]
            BY <1>2, Zenon DEF Picks
      <2> QED BY <1>1, <2>1
<1> DEFINE Ok(n) == /\ f[n] \in Seq(T) /\ Len(f[n]) <= n
                    /\ \A i \in 1..n : i \notin I => Len(f[n]) < n
                    /\ \A i \in I \cap 1..n : \E j \in 1..Len(f[n]) : f[n][j] = q[i]
           B == {n \in 0..L : ~Ok(n)}
<1>6. 0 \notin B
      <2>1. f[0] \in Seq(T) /\ Len(f[0]) = 0 /\ 1..0 = {}
            BY <1>4
      <2> QED BY <2>1
<1>7. ASSUME NEW n \in Nat, n \notin B PROVE n + 1 \notin B
      <2>1. SUFFICES ASSUME n + 1 \in 0..L PROVE Ok(n + 1)
            OBVIOUS
      <2>2. n \in 0..L /\ n + 1 \in 1..L /\ (n + 1) - 1 = n
            BY <1>1, <2>1
      <2>3. Ok(n)
            BY <1>7, <2>2
      <2>4. f[n + 1] = IF n + 1 \in I THEN Append(f[n], q[n + 1]) ELSE f[n]
            BY <1>5, <2>2
      <2>5. \A i \in 1..(n + 1) : i \in 1..n \/ i = n + 1
            BY <1>1, <2>1
      <2>6. CASE n + 1 \in I
            <3>1. q[n + 1] \in T
                  BY <1>1, <2>2, <2>6 DEF T
            <3>2. /\ f[n + 1] \in Seq(T) /\ Len(f[n + 1]) = Len(f[n]) + 1
                  /\ f[n + 1][Len(f[n]) + 1] = q[n + 1]
                  /\ \A j \in 1..Len(f[n]) : f[n + 1][j] = f[n][j]
                  BY <2>3, <2>4, <2>6, <3>1, AppendProperties
            <3>3. Len(f[n]) \in Nat
                  BY <2>3
            <3>4. /\ Len(f[n + 1]) <= n + 1
                  /\ \A i \in 1..(n + 1) : i \notin I => Len(f[n + 1]) < n + 1
                  BY <2>3, <2>5, <2>6, <3>2, <3>3
            <3>5. ASSUME NEW i \in I \cap 1..(n + 1)
                  PROVE  \E j \in 1..Len(f[n + 1]) : f[n + 1][j] = q[i]
                  <4>1. CASE i = n + 1
                        <5>1. Len(f[n]) + 1 \in 1..Len(f[n + 1])
                              BY <3>2, <3>3
                        <5> QED BY <3>2, <4>1, <5>1
                  <4>2. CASE i \in 1..n
                        <5>1. PICK j \in 1..Len(f[n]) : f[n][j] = q[i]
                              BY <2>3, <3>5, <4>2
                        <5>2. j \in 1..Len(f[n + 1])
                              BY <3>2, <3>3
                        <5> QED BY <3>2, <5>1, <5>2
                  <4> QED BY <2>5, <3>5, <4>1, <4>2
            <3> QED BY <3>2, <3>4, <3>5
      <2>7. CASE n + 1 \notin I
            <3>1. f[n + 1] = f[n]
                  BY <2>4, <2>7
            <3>2. Len(f[n]) \in Nat /\ Len(f[n]) < n + 1
                  BY <2>3
            <3>3. \A i \in I \cap 1..(n + 1) : i \in I \cap 1..n
                  BY <2>5, <2>7
            <3> QED BY <2>3, <3>1, <3>2, <3>3
      <2> QED BY <2>6, <2>7
<1> HIDE DEF B, Ok
<1>8. B = {}
      <2>1. B \in SUBSET Nat
            BY DEF B
      <2> QED BY <1>6, <1>7, <2>1, NoFirst
<1>9. Ok(L)
      <2>1. L \in 0..L
            BY <1>1
      <2>2. L \notin B
            BY <1>8
      <2> QED BY <2>1, <2>2 DEF B
<1> USE DEF Ok
<1> QED BY <1>1, <1>3, <1>9 DEF T, L
-----------------------------------------------------------------------------
(***************************************************************************)
(* The cache of a session's answers.                                       *)
(***************************************************************************)
LEMMA LastOfEntries ==
    ASSUME NEW S, NEW q \in Seq(S), NEW n \in Nat
    PROVE  LET r == LastOf(q, n) IN
           /\ r \in Seq(S)
           /\ Len(r) = IF Len(q) > n THEN n ELSE Len(q)
           /\ \A i \in 1..Len(r) : r[i] = q[Len(q) - Len(r) + i]
<1> DEFINE m == IF Len(q) > n THEN Len(q) - n + 1 ELSE 1
           r == SubSeq(q, m, Len(q))
<1>1. Len(q) \in Nat /\ m \in 1..(Len(q) + 1)
      OBVIOUS
<1>2. LastOf(q, n) = r
      BY DEF LastOf
<1> HIDE DEF m
<1>3. \A i \in m..Len(q) : q[i] \in S
      BY <1>1
<1>4. /\ r \in Seq(S) /\ Len(r) = IF m <= Len(q) THEN Len(q) - m + 1 ELSE 0
      /\ \A i \in 1..(Len(q) - m + 1) : r[i] = q[m + i - 1]
      BY <1>1, <1>3, SubSeqProperties
<1> HIDE DEF r
<1>5. Len(r) = Len(q) - m + 1
      BY <1>1, <1>4
<1>6. Len(r) = IF Len(q) > n THEN n ELSE Len(q)
      BY <1>1, <1>5 DEF m
<1>7. \A i \in 1..Len(r) : Len(q) - Len(r) + i = m + i - 1
      BY <1>1, <1>5
<1> QED BY <1>2, <1>4, <1>5, <1>6, <1>7

Entries == {results[i] : i \in DOMAIN results}
CachedKeys == {e.key : e \in Entries}

CacheInv ==
    /\ results \in Seq(Entries)
    /\ Len(results) <= MaxCached
    /\ forgotten \in [Keys -> Nat]
    /\ CachedKeys \subseteq Keys

\* The entry a turn leaves.
Entry(c) == [key |-> Key(c), answer |-> turn[c].answer]

LEMMA EntriesOf ==
    ASSUME NEW S, NEW q \in Seq(S)
    PROVE  q \in Seq({q[i] : i \in DOMAIN q})
<1> DEFINE T == {q[i] : i \in DOMAIN q}
<1>1. DOMAIN q = 1..Len(q) /\ Len(q) \in Nat
      OBVIOUS
<1>2. \A i \in 1..Len(q) : q[i] \in T
      BY <1>1
<1> HIDE DEF T
<1>3. q = [i \in 1..Len(q) |-> q[i]]
      BY <1>1
<1> QED BY <1>1, <1>2, <1>3 DEF T

LEMMA FindKeeps ==
    ASSUME CacheInv, NEW c \in Callers, FindCached(c)
    PROVE  CacheInv' /\ Entries' = Entries /\ UNCHANGED forgotten
<1>1. PICK i \in Cached(Key(c)) :
        results' = Append(Picked(results, DOMAIN results \ {i}), results[i])
      BY DEF FindCached
<1> DEFINE D == DOMAIN results
           P == Picked(results, D \ {i})
           T == {results[j] : j \in (D \ {i}) \cap D}
<1>2. /\ results \in Seq(Entries) /\ i \in D /\ Len(results) \in Nat
      /\ D = 1..Len(results)
      BY <1>1 DEF CacheInv, Cached
<1>3. /\ P \in Seq(T) /\ Len(P) < Len(results)
      /\ \A j \in (D \ {i}) \cap D : \E n \in 1..Len(P) : P[n] = results[j]
      BY <1>2, PickedEntries
<1>4. T \subseteq Entries /\ results[i] \in Entries
      BY <1>2 DEF Entries
<1>5. P \in Seq(Entries)
      BY <1>3, <1>4, SeqMonotonic
<1> HIDE DEF P, T
<1>6. /\ results' \in Seq(Entries) /\ Len(results') = Len(P) + 1
      /\ \A n \in 1..Len(P) : results'[n] = P[n]
      /\ results'[Len(P) + 1] = results[i]
      <2>1. results' = Append(P, results[i])
            BY <1>1 DEF P
      <2> QED BY <1>4, <1>5, <2>1, AppendProperties
<1>7. Len(P) \in Nat /\ DOMAIN results' = 1..(Len(P) + 1)
      BY <1>5, <1>6
<1>8. Entries' \subseteq Entries
      BY <1>6 DEF Entries
<1>9. Entries \subseteq Entries'
      <2> SUFFICES ASSUME NEW j \in D PROVE results[j] \in Entries'
          BY DEF Entries
      <2>1. \E n \in DOMAIN results' : results'[n] = results[j]
            <3>1. CASE j = i
                  BY <1>6, <1>7, <3>1
            <3>2. CASE j # i
                  <4>1. PICK n \in 1..Len(P) : P[n] = results[j]
                        BY <1>3, <3>2
                  <4> QED BY <1>6, <1>7, <4>1
            <3> QED BY <3>1, <3>2
      <2> QED BY <2>1 DEF Entries
<1>10. Len(results') <= MaxCached
       BY <1>2, <1>3, <1>6, <1>7, CallersAssumption DEF CacheInv
<1>11. UNCHANGED forgotten
       BY DEF FindCached
<1>12. Entries' = Entries
       BY <1>8, <1>9
<1>13. results' \in Seq(Entries)'
       BY <1>6, <1>12
<1> QED BY <1>10, <1>11, <1>12, <1>13 DEF CacheInv, CachedKeys

LEMMA KeepKeeps ==
    ASSUME CacheInv, NEW c \in Callers, Keep(c)
    PROVE  /\ CacheInv'
           /\ Entries' \subseteq Entries \cup {Entry(c)} /\ Entry(c) \in Entries'
           /\ \A k \in Keys : forgotten'[k] >= forgotten[k]
           /\ \A k \in CachedKeys \ CachedKeys' : forgotten'[k] = forgotten[k] + 1
<1> DEFINE D == DOMAIN results
           I == D \ Cached(Key(c))
           P == Picked(results, I)
           T == {results[j] : j \in I \cap D}
           E == Entries \cup {Entry(c)}
           all == Append(P, Entry(c))
           gone == {all[i].key : i \in 1..(Len(all) - MaxCached)}
<1>1. /\ results' = LastOf(all, MaxCached)
      /\ forgotten' = [k \in Keys |-> forgotten[k] + (IF k \in gone THEN 1 ELSE 0)]
      BY DEF Keep, Others, Entry
<1>2. results \in Seq(Entries) /\ D = 1..Len(results) /\ MaxCached \in Nat \ {0}
      BY CallersAssumption DEF CacheInv
<1>3. /\ P \in Seq(T) /\ Len(P) <= Len(results)
      /\ \A j \in I \cap D : \E n \in 1..Len(P) : P[n] = results[j]
      BY <1>2, PickedEntries
<1>4. T \subseteq E /\ Entry(c) \in E
      BY DEF Entries
<1>5. P \in Seq(E)
      BY <1>3, <1>4, SeqMonotonic
<1> HIDE DEF P, T
<1>6. /\ all \in Seq(E) /\ Len(all) = Len(P) + 1 /\ Len(P) \in Nat
      /\ \A n \in 1..Len(P) : all[n] = P[n]
      /\ all[Len(P) + 1] = Entry(c)
      BY <1>4, <1>5, AppendProperties
<1> HIDE DEF all, E
<1>7. /\ results' \in Seq(E) /\ Len(results') <= MaxCached /\ Len(results') > 0
      /\ Len(results') = IF Len(all) > MaxCached THEN MaxCached ELSE Len(all)
      /\ \A i \in 1..Len(results') : results'[i] = all[Len(all) - Len(results') + i]
      <2>1. LET r == LastOf(all, MaxCached) IN
            /\ r \in Seq(E)
            /\ Len(r) = IF Len(all) > MaxCached THEN MaxCached ELSE Len(all)
            /\ \A i \in 1..Len(r) : r[i] = all[Len(all) - Len(r) + i]
            BY <1>2, <1>6, LastOfEntries
      <2>2. /\ results' \in Seq(E)
            /\ Len(results') = IF Len(all) > MaxCached THEN MaxCached ELSE Len(all)
            /\ \A i \in 1..Len(results') : results'[i] = all[Len(all) - Len(results') + i]
            BY <1>1, <2>1
      <2>3. Len(all) \in Nat /\ Len(all) > 0
            BY <1>6
      <2>4. Len(results') <= MaxCached /\ Len(results') > 0
            BY <1>2, <2>2, <2>3
      <2> QED BY <2>2, <2>4
<1>8. DOMAIN results' = 1..Len(results') /\ Len(results') \in Nat /\ Len(all) \in Nat
      BY <1>6, <1>7
<1>9. Entries' \subseteq Entries \cup {Entry(c)}
      BY <1>7 DEF Entries, E
<1>10. Entry(c) \in Entries'
      <2>1. Len(results') \in DOMAIN results' /\ results'[Len(results')] = Entry(c)
            BY <1>6, <1>7, <1>8
      <2> QED BY <2>1 DEF Entries
<1>11. \A k \in Keys : forgotten'[k] >= forgotten[k]
      BY <1>1 DEF CacheInv
<1>12. ASSUME NEW k \in CachedKeys, k \notin CachedKeys'
       PROVE  forgotten'[k] = forgotten[k] + 1
       <2>1. PICK j \in D : results[j].key = k
             BY DEF CachedKeys, Entries
       <2>2. k # Key(c)
             BY <1>10, <1>12 DEF CachedKeys, Entry
       <2>3. j \in I
             BY <2>1, <2>2 DEF Cached
       <2>4. PICK n \in 1..Len(P) : P[n] = results[j]
             BY <1>3, <2>3
       <2>5. all[n].key = k /\ n \in 1..Len(all)
             BY <1>6, <2>1, <2>4
       <2>6. n <= Len(all) - Len(results')
             <3> SUFFICES ASSUME ~(n <= Len(all) - Len(results')) PROVE FALSE
                 OBVIOUS
             <3>1. /\ n - (Len(all) - Len(results')) \in 1..Len(results')
                   /\ Len(all) - Len(results') + (n - (Len(all) - Len(results'))) = n
                   BY <1>8, <2>5
             <3>2. results'[n - (Len(all) - Len(results'))] = all[n]
                   BY <1>7, <3>1
             <3>3. all[n] \in Entries'
                   BY <1>8, <3>1, <3>2 DEF Entries
             <3> QED BY <1>12, <2>5, <3>3 DEF CachedKeys
       <2>7. n \in 1..(Len(all) - MaxCached)
             BY <1>2, <1>7, <1>8, <2>5, <2>6
       <2>8. k \in gone
             BY <2>5, <2>7
       <2>9. k \in Keys
             BY DEF CacheInv
       <2> QED BY <1>1, <2>8, <2>9
<1>13. forgotten' \in [Keys -> Nat]
       BY <1>1 DEF CacheInv
<1>14. CachedKeys' \subseteq Keys
        <2> SUFFICES ASSUME NEW e \in Entries' PROVE e.key \in Keys
           BY DEF CachedKeys
       <2>1. CASE e \in Entries
             BY <2>1 DEF CachedKeys, CacheInv
       <2>2. CASE e = Entry(c)
             BY <2>2 DEF Entry, Keys
       <2> QED BY <1>9, <2>1, <2>2
<1>15. results' \in Seq(Entries)'
       <2>1. results' \in Seq({results'[i] : i \in DOMAIN results'})
             BY <1>7, EntriesOf
       <2> QED BY <2>1 DEF Entries
<1> QED BY <1>7, <1>9, <1>10, <1>11, <1>12, <1>13, <1>14, <1>15 DEF CacheInv

LEMMA ResetKeeps ==
    ASSUME CacheInv, NEW r, ResetSession(r)
    PROVE  /\ CacheInv' /\ Entries' \subseteq Entries
           /\ \A k \in Keys : forgotten'[k] >= forgotten[k]
           /\ \A k \in CachedKeys \ CachedKeys' : forgotten'[k] = forgotten[k] + 1
<1> DEFINE D == DOMAIN results
           dropped == {i \in D : results[i].key[1] = ResetOf[r]}
           gone == {results[i].key : i \in dropped}
           I == D \ dropped
           T == {results[j] : j \in I \cap D}
<1>1. /\ results' = Picked(results, I)
      /\ forgotten' = [k \in Keys |-> forgotten[k] + (IF k \in gone THEN 1 ELSE 0)]
      BY DEF ResetSession
<1>2. results \in Seq(Entries) /\ D = 1..Len(results)
      BY DEF CacheInv
<1>3. /\ results' \in Seq(T) /\ Len(results') <= Len(results)
      /\ \A j \in I \cap D : \E n \in 1..Len(results') : results'[n] = results[j]
      <2> DEFINE P == Picked(results, I)
      <2> HIDE DEF dropped, I
      <2>1. /\ P \in Seq(T) /\ Len(P) <= Len(results)
            /\ \A j \in I \cap D : \E n \in 1..Len(P) : P[n] = results[j]
            BY <1>2, PickedEntries
      <2>2. results' = P
            BY <1>1
      <2> HIDE DEF P
      <2> QED BY <2>1, <2>2
<1>4. T \subseteq Entries
      BY DEF Entries
<1> HIDE DEF T
<1>5. DOMAIN results' = 1..Len(results') /\ \A n \in 1..Len(results') : results'[n] \in T
      BY <1>3
<1>6. Entries' \subseteq Entries
      BY <1>4, <1>5 DEF Entries
<1>7. results' \in Seq(Entries)'
      <2>1. results' \in Seq({results'[i] : i \in DOMAIN results'})
            BY <1>3, EntriesOf
      <2> QED BY <2>1 DEF Entries
<1>8. Len(results') <= MaxCached
      <2>1. Len(results) \in Nat /\ Len(results') \in Nat
            BY <1>2, <1>3
      <2> QED BY <1>3, <2>1, CallersAssumption DEF CacheInv
<1>9. /\ \A k \in Keys : forgotten'[k] >= forgotten[k]
      /\ forgotten' \in [Keys -> Nat]
      BY <1>1 DEF CacheInv
<1>10. ASSUME NEW k \in CachedKeys, k \notin CachedKeys'
       PROVE  forgotten'[k] = forgotten[k] + 1
       <2>1. PICK j \in D : results[j].key = k
             BY DEF CachedKeys, Entries
       <2>2. j \notin I
             <3> SUFFICES ASSUME j \in I PROVE FALSE
                 OBVIOUS
             <3>1. PICK n \in 1..Len(results') : results'[n] = results[j]
                   BY <1>3
             <3>2. results[j] \in Entries'
                   BY <1>5, <3>1 DEF Entries
             <3> QED BY <1>10, <2>1, <3>2 DEF CachedKeys
       <2>3. k \in gone
             BY <2>1, <2>2 DEF I
       <2>4. k \in Keys
             BY DEF CacheInv
       <2> QED BY <1>1, <2>3, <2>4
<1>11. CachedKeys' \subseteq Keys
       BY <1>6 DEF CachedKeys, CacheInv
<1> QED BY <1>6, <1>7, <1>8, <1>9, <1>10, <1>11 DEF CacheInv

\* What a step makes of the cache.
LEMMA CacheCases ==
    ASSUME [Next]_vars
    PROVE  \/ UNCHANGED <<results, forgotten>>
           \/ \E c \in Callers : FindCached(c) \/ StoreTurn(c)
           \/ \E r \in Resets : ResetSession(r)
<1>1. CASE \E c \in Callers : CallerStep(c)
      <2>1. PICK c \in Callers : CallerStep(c)
            BY <1>1
      <2>2. CASE EnterRequest(c) \/ EnterSession(c) \/ BeginTurn(c) \/ Leave(c)
            BY <2>2 DEF EnterRequest, EnterSession, BeginTurn, Leave, memoryVars
      <2>3. CASE Decide(c) \/ Peek(c) \/ Pop(c) \/ Resolve(c)
            BY <2>3 DEF Decide, Peek, Pop, Resolve, GuardedStep, memoryVars
      <2>4. CASE Hear(c) \/ CannotAsk(c) \/ Call(c) \/ Retry(c) \/ ProviderFails(c)
                   \/ ModelReplies(c) \/ DenyProposal(c)
            BY <2>4 DEF Hear, CannotAsk, Call, Retry, ProviderFails, ModelReplies,
                        DenyProposal, AgentStep, memoryVars
      <2>5. CASE MapProposal(c) \/ StopBeforeEffect(c) \/ Execute(c) \/ Verify(c)
                   \/ Conclude(c)
            BY <2>5 DEF MapProposal, StopBeforeEffect, Execute, Verify, Conclude,
                        ExecutionStep, memoryVars
      <2> QED BY <2>1, <2>2, <2>3, <2>4, <2>5 DEF CallerStep
<1>2. CASE \E o \in Operators : ControlStep(o)
      BY <1>2 DEF ControlStep, ApplyControl, RejectControl, TriggerMonitor, OperatorStep,
             memoryVars
<1> QED BY <1>1, <1>2 DEF Next, vars, Cancel, Expire, memoryVars

LEMMA CacheNext ==
    ASSUME CacheInv, [Next]_vars
    PROVE  CacheInv'
<1>1. CASE UNCHANGED <<results, forgotten>>
      BY <1>1 DEF CacheInv, Entries, CachedKeys
<1>2. CASE \E c \in Callers : FindCached(c) \/ StoreTurn(c)
      BY <1>2, FindKeeps, KeepKeeps DEF StoreTurn
<1>3. CASE \E r \in Resets : ResetSession(r)
      BY <1>3, ResetKeeps
<1> QED BY <1>1, <1>2, <1>3, CacheCases

LEMMA CacheInit ==
    ASSUME Init
    PROVE  CacheInv
<1>1. results = <<>> /\ Entries = {} /\ CachedKeys = {}
      BY DEF Init, AgentInit, Entries, CachedKeys
<1>2. <<>> \in Seq({}) /\ Len(<<>>) = 0
      OBVIOUS
<1> QED BY <1>1, <1>2, CallersAssumption DEF CacheInv, Init, AgentInit
-----------------------------------------------------------------------------
(***************************************************************************)
(* What a step of a caller does to its local state.                        *)
(***************************************************************************)
Done  == {"handled", "verified"}
Late  == {"answered", "left", "returned"}
Early(c) == turn[c].pc \notin Done \cup Late

Kept(c) ==
    /\ turn'[c].for = turn[c].for /\ turn'[c].hint = turn[c].hint
    /\ turn'[c].seen = turn[c].seen /\ turn'[c].intent = turn[c].intent

KeptTalk(c) == turn'[c].history = turn[c].history /\ turn'[c].from = turn[c].from

Passes(c) ==
    /\ Kept(c) /\ KeptTalk(c) /\ turn'[c].answer = turn[c].answer
    /\ Early(c) /\ Early(c)' /\ turn'[c].pc \notin Acting \cup Deciding
    /\ turn'[c].pc \in Asking => turn[c].pc \in Asking \cup {"heard"}

Begins(c) ==
    /\ BeginTurn(c) /\ Kept(c) /\ turn'[c].answer = turn[c].answer
    /\ turn'[c].pc \in Asking
    /\ turn'[c].history = history[SessionOf[c]] /\ turn'[c].from = epoch[SessionOf[c]]

Allowed(c) ==
    /\ \/ Role[c] = "decide" /\ turn[c].pc = "calling" /\ turn'[c].for = c
       \/ /\ turn[c].pc = "popped" /\ c \in Accepted
          /\ turn'[c].for = turn[c].seen.of /\ turn[c].seen.intent = Verdict[c].intent
    /\ Valid(turn'[c].for, Verdict[c]) /\ Verdict[c].outcome = "ALLOW"
    /\ turn'[c].pc = "heard" /\ turn'[c].hint = Verdict[c].intent
    /\ turn'[c].seen = turn[c].seen /\ turn'[c].intent = turn[c].intent
    /\ turn'[c].answer = turn[c].answer /\ KeptTalk(c)

Looks(c) ==
    /\ \/ Peek(c) /\ turn'[c].pc = "peeked"
       \/ Pop(c) /\ turn'[c].pc = "popped" /\ Verdict[c].id \in DOMAIN pending
    /\ turn'[c].seen = pending[Verdict[c].id]
    /\ turn'[c].for = turn[c].for /\ turn'[c].hint = turn[c].hint
    /\ turn'[c].intent = turn[c].intent /\ turn'[c].answer = turn[c].answer
    /\ KeptTalk(c)

Maps(c) ==
    /\ MapProposal(c) /\ turn'[c].pc = "at_action"
    /\ turn'[c].intent \in Mapped(turn[c].reply)
    /\ turn'[c].for = turn[c].for /\ turn'[c].hint = turn[c].hint
    /\ turn'[c].seen = turn[c].seen /\ turn'[c].answer = turn[c].answer
    /\ KeptTalk(c)

Refuses(c) ==
    /\ Early(c) /\ turn[c].pc \notin {"absent", "at_request", "at_session", "at_action"}
    /\ c \in Turns => turn[c].pc \in Asking
    /\ turn'[c].pc = IF c \in Turns THEN "answered" ELSE "returned"
    /\ \E code : code # "COMPLETED" /\ turn'[c].answer = Answer(c, code, None)
                 /\ Answers(c, code)
    /\ Kept(c) /\ KeptTalk(c)

Stops(c) ==
    /\ StopBeforeEffect(c) /\ Kept(c) /\ KeptTalk(c) /\ turn'[c].pc = "left"
    /\ turn'[c].answer = Answer(c, "TURN_CANCELLED", None)

Finds(c) ==
    /\ FindCached(c) /\ Kept(c) /\ KeptTalk(c) /\ turn'[c].pc = "left"
    /\ \E i \in Cached(Key(c)) : turn'[c].answer = results[i].answer

Executes(c) ==
    /\ Execute(c) /\ Kept(c) /\ KeptTalk(c) /\ turn'[c].pc = "handled"
    /\ turn'[c].answer = turn[c].answer

Verifies(c) ==
    /\ Verify(c) /\ Kept(c) /\ KeptTalk(c) /\ turn'[c].pc = "verified"
    /\ turn'[c].answer = turn[c].answer
    /\ turn'[c].code \in {turn[c].code, "EXECUTION_VERIFICATION_FAILED"}
    /\ turn'[c].version = IF turn[c].intent \in Readers THEN version ELSE turn[c].version

Concludes(c) ==
    /\ Conclude(c) /\ Kept(c) /\ KeptTalk(c) /\ turn'[c].pc = "left"
    /\ turn'[c].answer = Answer(c, Reported(c), IF Reported(c) = "COMPLETED"
                                                THEN turn[c].version ELSE None)

Stores(c) ==
    /\ StoreTurn(c) /\ Kept(c) /\ turn'[c].pc = "left"
    /\ turn'[c].answer = turn[c].answer

Leaves(c) ==
    /\ Leave(c) /\ Kept(c) /\ KeptTalk(c) /\ turn'[c].pc \in Late
    /\ turn'[c].answer = turn[c].answer

Fate(c) ==
    \/ Passes(c) \/ Begins(c) \/ Allowed(c) \/ Looks(c) \/ Maps(c) \/ Refuses(c)
    \/ Stops(c) \/ Finds(c) \/ Executes(c) \/ Verifies(c) \/ Concludes(c)
    \/ Stores(c) \/ Leaves(c)

LEMMA Refusal ==
    ASSUME TurnInv, NEW c \in Callers, NEW code, Answers(c, code), code # "COMPLETED",
           Early(c), turn[c].pc \notin {"absent", "at_request", "at_session", "at_action"},
           c \in Turns => turn[c].pc \in Asking
    PROVE  Fate(c)
<1> DEFINE pc == IF c \in Turns THEN "answered" ELSE "returned"
           u == Answered(turn[c], c, code, None, pc)
<1>1. turn' = [turn EXCEPT ![c] = u]
      BY AnswersSets DEF TurnInv
<1>2. turn'[c] = u
      BY <1>1 DEF TurnInv
<1> HIDE DEF u
<1>3. /\ u.pc = pc /\ u.answer = Answer(c, code, None)
      /\ u.history = turn[c].history /\ u.from = turn[c].from /\ u.for = turn[c].for
      /\ u.hint = turn[c].hint /\ u.intent = turn[c].intent /\ u.seen = turn[c].seen
      BY AnsweredFields DEF TurnInv, u
<1> QED BY <1>2, <1>3 DEF Refuses, Kept, KeptTalk, Fate

LEMMA AnswerAtFields ==
    ASSUME TurnInv, NEW c \in Callers, NEW code, NEW v, NEW pc, AnswerAt(c, code, v, pc)
    PROVE  /\ Kept(c) /\ KeptTalk(c) /\ turn'[c].pc = pc
           /\ turn'[c].answer = Answer(c, code, v)
<1> DEFINE u == Answered(turn[c], c, code, v, pc)
<1>1. turn' = [turn EXCEPT ![c] = u]
      BY AnswerSets DEF TurnInv
<1>2. turn'[c] = u
      BY <1>1 DEF TurnInv
<1> HIDE DEF u
<1>3. /\ u.pc = pc /\ u.answer = Answer(c, code, v)
      /\ u.history = turn[c].history /\ u.from = turn[c].from /\ u.for = turn[c].for
      /\ u.hint = turn[c].hint /\ u.intent = turn[c].intent /\ u.seen = turn[c].seen
      BY AnsweredFields DEF TurnInv, u
<1> QED BY <1>2, <1>3 DEF Kept, KeptTalk

LEMMA DecisionFate ==
    ASSUME TurnInv, NEW c \in Callers, NEW d \in Callers, HandleDecision(c, d),
           \/ Role[c] = "decide" /\ turn[c].pc = "calling" /\ d = c
           \/ /\ turn[c].pc = "popped" /\ c \in Accepted
              /\ d = turn[c].seen.of /\ turn[c].seen.intent = Verdict[c].intent
    PROVE  Fate(c)
<1>1. CASE \E code : code # "COMPLETED" /\ Answers(c, code)
      <2>1. c \notin Turns
            BY DEF TurnInv, Phases, Turns, Outdoors, Asking, Acting
      <2> QED BY <1>1, <2>1, Refusal DEF Early, Done, Late
<1>2. CASE /\ turn' = [turn EXCEPT ![c].pc = "heard", ![c].for = d,
                                   ![c].hint = Verdict[c].intent]
           /\ Valid(d, Verdict[c]) /\ Verdict[c].outcome = "ALLOW"
      <2>1. /\ turn'[c].pc = "heard" /\ turn'[c].for = d
            /\ turn'[c].hint = Verdict[c].intent
            /\ turn'[c].seen = turn[c].seen /\ turn'[c].intent = turn[c].intent
            /\ turn'[c].answer = turn[c].answer /\ KeptTalk(c)
            BY <1>2 DEF TurnInv, Fields, KeptTalk
      <2> QED BY <1>2, <2>1 DEF Allowed, Fate
<1> QED BY <1>1, <1>2 DEF HandleDecision, RegisterConfirmation

LEMMA Fates ==
    ASSUME TurnInv, StackInv, NEW c \in Callers, CallerStep(c)
    PROVE  Fate(c)
<1> USE DEF At, Goes
<1>0. /\ DOMAIN turn = Callers /\ DOMAIN turn[c] = Fields /\ turn[c].pc \in Phases(c)
      BY DEF TurnInv
<1>a. Early(c) <=> turn[c].pc \notin {"handled", "verified", "answered", "left", "returned"}
      BY DEF Early, Done, Late
<1>b. Early(c)' <=> turn'[c].pc \notin {"handled", "verified", "answered", "left", "returned"}
      BY DEF Early, Done, Late
<1>1. CASE EnterRequest(c) \/ EnterSession(c)
      <2>1. /\ turn[c].pc \in {"calling", "at_request"}
            /\ turn'[c].pc \in {"at_request", "at_session"}
            /\ Kept(c) /\ KeptTalk(c) /\ turn'[c].answer = turn[c].answer
            BY <1>0, <1>1 DEF EnterRequest, EnterSession, Fields, Kept, KeptTalk
      <2> QED BY <1>a, <1>b, <2>1 DEF Passes, Fate, Acting, Deciding, Asking
<1>2. CASE FindCached(c)
      <2>1. /\ turn'[c].pc = "left" /\ Kept(c) /\ KeptTalk(c)
            /\ \E i \in Cached(Key(c)) : turn'[c].answer = results[i].answer
            BY <1>0, <1>2 DEF FindCached, Fields, Kept, KeptTalk
      <2> QED BY <1>2, <2>1 DEF Finds, Fate
<1>3. CASE BeginTurn(c)
      <2> DEFINE t == [turn[c] EXCEPT !.history = history[SessionOf[c]],
                                      !.from = epoch[SessionOf[c]]]
      <2>1. turn' = [turn EXCEPT ![c] = Asks(t)]
            BY <1>0, <1>3 DEF BeginTurn, Fields
      <2>2. /\ DOMAIN t = Fields /\ t.for = turn[c].for /\ t.hint = turn[c].hint
            /\ t.intent = turn[c].intent /\ t.seen = turn[c].seen
            /\ t.answer = turn[c].answer
            /\ t.history = history[SessionOf[c]] /\ t.from = epoch[SessionOf[c]]
            BY <1>0 DEF Fields
      <2>3. turn'[c] = Asks(t)
            BY <1>0, <2>1
      <2> HIDE DEF t
      <2>4. /\ turn'[c].pc \in Asking /\ Kept(c) /\ turn'[c].answer = turn[c].answer
            /\ turn'[c].history = history[SessionOf[c]]
            /\ turn'[c].from = epoch[SessionOf[c]]
            BY <2>2, <2>3, AsksFields DEF Kept, Asking
      <2> QED BY <1>3, <2>4 DEF Begins, Fate
<1>4. CASE StoreTurn(c)
      <2>1. turn'[c].pc = "left" /\ Kept(c) /\ turn'[c].answer = turn[c].answer
            BY <1>0, <1>4 DEF StoreTurn, Fields, Kept
      <2> QED BY <1>4, <2>1 DEF Stores, Fate
<1>5. CASE Leave(c)
      <2>1. /\ turn'[c].pc \in Late /\ Kept(c) /\ KeptTalk(c)
            /\ turn'[c].answer = turn[c].answer
            BY <1>0, <1>5 DEF Leave, Fields, Kept, KeptTalk, Late
      <2> QED BY <1>5, <2>1 DEF Leaves, Fate
<1>6. CASE Decide(c)
      BY <1>6, DecisionFate DEF Decide
<1>7. CASE Resolve(c)
      <2>1. turn[c].pc = "popped" /\ turn[c].seen.of \in Callers
            BY <1>7 DEF Resolve, TurnInv
      <2>2. CASE /\ HandleDecision(c, turn[c].seen.of) /\ c \in Accepted
                 /\ turn[c].seen.intent = Verdict[c].intent
            BY <2>1, <2>2, DecisionFate
      <2>3. CASE \E code : code # "COMPLETED" /\ Answers(c, code)
            <3>1. c \notin Turns
                  BY <1>0, <2>1 DEF Phases, Outdoors, Asking, Acting
            <3> QED BY <1>a, <2>1, <2>3, <3>1, Refusal
      <2> QED BY <1>7, <2>2, <2>3 DEF Resolve
<1>8. CASE Peek(c)
      <2>1. CASE Answers(c, "VALUE_ERROR")
            <3>1. c \notin Turns
                  BY <1>8 DEF Peek, Turns
            <3> QED BY <1>8, <1>a, <2>1, <3>1, Refusal DEF Peek
      <2>2. CASE turn' = [turn EXCEPT ![c].pc = "peeked", ![c].seen = pending[Verdict[c].id]]
            <3>1. /\ turn'[c].pc = "peeked" /\ turn'[c].seen = pending[Verdict[c].id]
                  /\ turn'[c].for = turn[c].for /\ turn'[c].hint = turn[c].hint
                  /\ turn'[c].intent = turn[c].intent /\ turn'[c].answer = turn[c].answer
                  /\ KeptTalk(c)
                  BY <1>0, <2>2 DEF Fields, KeptTalk
            <3> QED BY <1>8, <3>1 DEF Looks, Fate
      <2> QED BY <1>8, <2>1, <2>2 DEF Peek
<1>9. CASE Pop(c)
      <2>1. CASE Answers(c, "VALUE_ERROR")
            <3>1. c \notin Turns
                  BY <1>0, <1>9 DEF Pop, Phases, Outdoors, Asking, Acting
            <3> QED BY <1>9, <1>a, <2>1, <3>1, Refusal DEF Pop
      <2>2. CASE /\ turn' = [turn EXCEPT ![c].pc = "popped", ![c].seen = pending[Verdict[c].id]]
                 /\ Verdict[c].id \in DOMAIN pending
            <3>1. /\ turn'[c].pc = "popped" /\ turn'[c].seen = pending[Verdict[c].id]
                  /\ turn'[c].for = turn[c].for /\ turn'[c].hint = turn[c].hint
                  /\ turn'[c].intent = turn[c].intent /\ turn'[c].answer = turn[c].answer
                  /\ KeptTalk(c)
                  BY <1>0, <2>2 DEF Fields, KeptTalk
            <3> QED BY <1>9, <2>2, <3>1 DEF Looks, Fate
      <2> QED BY <1>9, <2>1, <2>2 DEF Pop, TakePending
<1>10. CASE Hear(c)
      <2>1. CASE Answers(c, "TURN_CANCELLED")
            <3>1. c \notin Turns
                  BY <1>0, <1>10 DEF Hear, Phases, Outdoors, Asking, Acting
            <3> QED BY <1>10, <1>a, <2>1, <3>1, Refusal DEF Hear
      <2>2. CASE turn' = [turn EXCEPT ![c] = Asks(@)]
            <3>1. turn'[c] = Asks(turn[c])
                  BY <1>0, <2>2
            <3>2. /\ turn'[c].pc \in Asking /\ Kept(c) /\ KeptTalk(c)
                  /\ turn'[c].answer = turn[c].answer
                  BY <1>0, <3>1, AsksFields DEF Kept, KeptTalk, Asking
            <3> QED BY <1>10, <1>a, <1>b, <3>2
                    DEF Hear, Passes, Fate, Asking, Acting, Deciding
      <2> QED BY <1>10, <2>1, <2>2 DEF Hear
<1>11. CASE /\ turn[c].pc \in Asking
            /\ \E code : code # "COMPLETED" /\ Answers(c, code)
      BY <1>11, <1>a, Refusal DEF Asking
<1>12. CASE /\ turn[c].pc \in Asking /\ turn'[c].pc \in Asking
            /\ Kept(c) /\ KeptTalk(c) /\ turn'[c].answer = turn[c].answer
      BY <1>12, <1>a, <1>b DEF Passes, Fate, Asking, Acting, Deciding
<1>13. CASE CannotAsk(c)
      BY <1>13, <1>11 DEF CannotAsk, Asking
<1>14. CASE Call(c)
      <2>1. /\ turn'[c].pc \in Asking /\ Kept(c) /\ KeptTalk(c)
            /\ turn'[c].answer = turn[c].answer
            BY <1>0, <1>14 DEF Call, Fields, Kept, KeptTalk, Asking
      <2> QED BY <1>12, <1>14, <2>1 DEF Call, Asking
<1>15. CASE Retry(c)
      <2>1. /\ turn'[c].pc \in Asking /\ Kept(c) /\ KeptTalk(c)
            /\ turn'[c].answer = turn[c].answer
            BY <1>0, <1>15 DEF Retry, Fields, Kept, KeptTalk, Asking
      <2> QED BY <1>12, <1>15, <2>1 DEF Retry, Asking
<1>16. CASE ProviderFails(c)
      <2>1. turn[c].pc = "called" /\ NextProvider(c)
            BY <1>16 DEF ProviderFails, GiveUp
      <2>2. CASE turn' = [turn EXCEPT ![c].pc = "asking", ![c].provider = @ + 1]
            <3>1. /\ turn'[c].pc \in Asking /\ Kept(c) /\ KeptTalk(c)
                  /\ turn'[c].answer = turn[c].answer
                  BY <1>0, <2>2 DEF Fields, Kept, KeptTalk, Asking
            <3> QED BY <1>12, <2>1, <3>1 DEF Asking
      <2> QED BY <1>11, <2>1, <2>2 DEF NextProvider, Asking
<1>17. CASE ModelReplies(c)
      <2>1. PICK r : turn' = [turn EXCEPT ![c].pc = "proposed", ![c].reply = r,
                                          ![c].provider = 1, ![c].attempt = 0]
            BY <1>17 DEF ModelReplies
      <2>2. /\ turn'[c].pc \in Asking /\ Kept(c) /\ KeptTalk(c)
            /\ turn'[c].answer = turn[c].answer
            BY <1>0, <2>1 DEF Fields, Kept, KeptTalk, Asking
      <2> QED BY <1>12, <1>17, <2>2 DEF ModelReplies, Asking
<1>18. CASE DenyProposal(c)
      <2>1. \A code \in Denied(c) : code # "COMPLETED"
            BY DEF Denied
      <2> QED BY <1>11, <1>18, <2>1 DEF DenyProposal, Asking
<1>19. CASE MapProposal(c)
      <2>1. PICK i \in Mapped(turn[c].reply) :
               turn' = [turn EXCEPT ![c].pc = "at_action", ![c].intent = i]
            BY <1>19 DEF MapProposal
      <2>2. /\ turn'[c].pc = "at_action" /\ turn'[c].intent = i
            /\ turn'[c].for = turn[c].for /\ turn'[c].hint = turn[c].hint
            /\ turn'[c].seen = turn[c].seen /\ turn'[c].answer = turn[c].answer
            /\ KeptTalk(c)
            BY <1>0, <2>1 DEF Fields, KeptTalk
      <2> QED BY <1>19, <2>2 DEF Maps, Fate
<1>20. CASE StopBeforeEffect(c)
      <2>1. AnswerAt(c, "TURN_CANCELLED", None, "left")
            BY <1>20 DEF StopBeforeEffect
      <2> QED BY <1>20, <2>1, AnswerAtFields DEF Stops, Fate
<1>21. CASE Execute(c)
      <2>1. PICK code, v : Handled(c, code, v)
            BY <1>21 DEF Execute
      <2>2. /\ turn'[c].pc = "handled" /\ Kept(c) /\ KeptTalk(c)
            /\ turn'[c].answer = turn[c].answer
            BY <1>0, <2>1 DEF Handled, Fields, Kept, KeptTalk
      <2> QED BY <1>21, <2>2 DEF Executes, Fate
<1>22. CASE Verify(c)
      <2> DEFINE stale == turn[c].code = "COMPLETED" /\ Mutating(turn[c].intent)
                            /\ turn[c].version # version
                 code == IF stale THEN "EXECUTION_VERIFICATION_FAILED" ELSE turn[c].code
                 v == IF turn[c].intent \in Readers THEN version ELSE turn[c].version
      <2>1. turn' = [turn EXCEPT ![c].pc = "verified", ![c].code = code, ![c].version = v]
            BY <1>22, <1>0 DEF Verify, Fields
      <2>2. code \in {turn[c].code, "EXECUTION_VERIFICATION_FAILED"}
            OBVIOUS
      <2> HIDE DEF code, v
      <2>3. /\ turn'[c].pc = "verified" /\ Kept(c) /\ KeptTalk(c)
            /\ turn'[c].answer = turn[c].answer
            /\ turn'[c].code = code /\ turn'[c].version = v
            BY <1>0, <2>1 DEF Fields, Kept, KeptTalk
      <2> QED BY <1>22, <2>2, <2>3 DEF Verifies, Fate, v
<1>23. CASE Conclude(c)
      <2>1. AnswerAt(c, Reported(c),
                     IF Reported(c) = "COMPLETED" THEN turn[c].version ELSE None, "left")
            BY <1>23 DEF Conclude
      <2> QED BY <1>23, <2>1, AnswerAtFields DEF Concludes, Fate
<1> QED BY <1>1, <1>2, <1>3, <1>4, <1>5, <1>6, <1>7, <1>8, <1>9, <1>10, <1>13, <1>14,
           <1>15, <1>16, <1>17, <1>18, <1>19, <1>20, <1>21, <1>22, <1>23
        DEF CallerStep
-----------------------------------------------------------------------------
(***************************************************************************)
(* What a caller changed, and what it is told.                             *)
(***************************************************************************)
Mine(c) == EffectsBy({c})

LEMMA EffectsGrow ==
    ASSUME LogInv, NEW kind, NEW by, Commits(kind, by), NEW C
    PROVE  EffectsBy(C)' = EffectsBy(C) \cup (IF by.caller \in C THEN {version'} ELSE {})
<1>1. /\ Len(events) = version /\ Len(events') = version' /\ version' = version + 1
      /\ \A i \in 1..version : events'[i] = events[i]
      /\ events'[version'].by = by /\ LogInv'
      BY CommitLogs
<1>2. version \in Nat
      BY BoundAssumption DEF LogInv
<1>3. DOMAIN events = 1..version /\ DOMAIN events' = 1..(version + 1)
      BY <1>1 DEF LogInv
<1>4. ASSUME NEW i
      PROVE  i \in EffectsBy(C)' <=> i \in EffectsBy(C) \/ (i = version' /\ by.caller \in C)
      <2>1. CASE i = version'
            <3>1. i \in 1..(version + 1) /\ i \notin 1..version /\ events'[i].by = by
                  BY <1>1, <1>2, <2>1
            <3> QED BY <1>3, <2>1, <3>1 DEF EffectsBy
      <2>2. CASE i # version'
            <3>1. i \in 1..(version + 1) <=> i \in 1..version
                  BY <1>1, <1>2, <2>2
            <3>2. i \in 1..version => events'[i] = events[i]
                  BY <1>1
            <3> QED BY <1>3, <2>2, <3>1, <3>2 DEF EffectsBy
      <2> QED BY <2>1, <2>2
<1>5. CASE by.caller \in C
      BY <1>4, <1>5
<1>6. CASE by.caller \notin C
      BY <1>4, <1>6
<1> QED BY <1>5, <1>6

LEMMA EffectsStay ==
    ASSUME UNCHANGED vehicleVars, NEW C
    PROVE  EffectsBy(C)' = EffectsBy(C)
BY DEF EffectsBy, vehicleVars

LEMMA EffectsFinite ==
    ASSUME LogInv, NEW C
    PROVE  IsFiniteSet(EffectsBy(C)) /\ EffectsBy(C) \subseteq 1..version
<1>1. version \in Nat /\ DOMAIN events = 1..version
      BY BoundAssumption DEF LogInv, LogTellsState
<1>2. EffectsBy(C) \subseteq 1..version
      BY <1>1 DEF EffectsBy
<1> QED BY <1>1, <1>2, FS_Interval, FS_Subset

\* A caller's step adds to its own effects only, anybody else's to no caller's.
LEMMA CallerEffects ==
    ASSUME LogInv, NEW c \in Callers, CallerStep(c)
    PROVE  \/ UNCHANGED vehicleVars
           \/ /\ Execute(c) /\ ~OnlyReads(turn[c].intent)
              /\ Handled(c, "COMPLETED", version')
              /\ Commits("agent", [caller |-> c, intent |-> turn[c].intent])
              /\ \A C : EffectsBy(C)' =
                          EffectsBy(C) \cup (IF c \in C THEN {version'} ELSE {})
<1>1. CASE ~Execute(c)
      BY <1>1, OthersLeaveVehicle
<1>2. CASE Execute(c) /\ ~UNCHANGED vehicleVars
      <2> DEFINE by == [caller |-> c, intent |-> turn[c].intent]
      <2>1. /\ ~OnlyReads(turn[c].intent) /\ Handled(c, "COMPLETED", version')
            /\ Commit(HandlerPatch(state, turn[c].intent, turn[c].reply.arguments),
                      "agent", [caller |-> c, intent |-> turn[c].intent])
            BY <1>2 DEF Execute
      <2>2. Commits("agent", [caller |-> c, intent |-> turn[c].intent])
            BY <2>1, CommitCommits
      <2>3. PICK e : e = [caller |-> c, intent |-> turn[c].intent]
            OBVIOUS
      <2>4. Commits("agent", e) /\ e.caller = c
            BY <2>2, <2>3
      <2>5. \A C : EffectsBy(C)' =
                     EffectsBy(C) \cup (IF c \in C THEN {version'} ELSE {})
            BY <2>4, EffectsGrow
      <2> QED BY <1>2, <2>1, <2>2, <2>5
<1> QED BY <1>1, <1>2

LEMMA OtherEffects ==
    ASSUME LogInv, [Next]_vars, ~\E c \in Callers : CallerStep(c),
           NEW C \in SUBSET Callers
    PROVE  EffectsBy(C)' = EffectsBy(C)
<1>1. CASE UNCHANGED vehicleVars
      BY <1>1, EffectsStay
<1>2. CASE \E o \in Operators :
              Commits(ActorKind(CallOf[o]), [caller |-> o, intent |-> CallOf[o].op])
      <2>1. PICK o \in Operators :
              Commits(ActorKind(CallOf[o]), [caller |-> o, intent |-> CallOf[o].op])
            BY <1>2
      <2>2. o \notin C
            BY CallersAssumption
      <2>3. PICK e, k : e = [caller |-> o, intent |-> CallOf[o].op] /\ k = ActorKind(CallOf[o])
            OBVIOUS
      <2>4. Commits(k, e) /\ e.caller \notin C
            BY <2>1, <2>2, <2>3
      <2>5. EffectsBy(C)' = EffectsBy(C) \cup (IF e.caller \in C THEN {version'} ELSE {})
            BY <2>4, EffectsGrow
      <2>6. (IF e.caller \in C THEN {version'} ELSE {}) = {}
            BY <2>4
      <2> QED BY <2>5, <2>6
<1> QED BY <1>1, <1>2, VehicleCases DEF CallerStep

\* What is to be told of a caller's effects: none, and no success unless of a
\* reading; or one, as a success with its version, or as a failure to confirm it.
Told(c, code, v) ==
    \/ Mine(c) = {} /\ (code = "COMPLETED" => OnlyReads(turn[c].intent))
    \/ /\ ~OnlyReads(turn[c].intent)
       /\ code \in {"COMPLETED", "TURN_CANCELLED", "EXECUTION_VERIFICATION_FAILED"}
       /\ \E i \in Nat : Mine(c) = {i} /\ (code = "COMPLETED" => v = i)

CallerTold(c) ==
    LET t == turn[c] IN
    /\ Early(c) => Mine(c) = {}
    /\ t.pc \notin Late => t.answer = None
    /\ t.pc \in Done => Told(c, t.code, t.version)
    /\ t.pc \in Late /\ t.answer.by = c => Told(c, t.answer.code, t.answer.version)
    /\ t.pc \in Late /\ t.answer.by # c => Mine(c) = {}
    /\ t.pc = "answered" \/ (t.pc = "left" /\ Len(locks[c]) = 3) => t.answer.by = c

EffectInv ==
    /\ \A c \in Callers : CallerTold(c)
    /\ \A e \in Entries : e.answer.by \in Turns /\ turn[e.answer.by].pc \in Late

LEMMA OthersKeepTheirs ==
    ASSUME TurnInv, StackInv, NEW c \in Callers, CallerStep(c), NEW d \in Callers, d # c
    PROVE  turn'[d] = turn[d] /\ locks'[d] = locks[d]
<1>1. PICK u : turn' = [turn EXCEPT ![c] = u]
      BY CallerMoves DEF Moves
<1>2. turn'[d] = turn[d]
      BY <1>1 DEF TurnInv
<1>3. \/ UNCHANGED locks
      \/ \E q : locks' = [locks EXCEPT ![c] = q]
      BY LockCases DEF Stays, Enters, Takes, Gives, Exits, CountIn, CountOut, lockVars,
                       StackInv
<1> QED BY <1>2, <1>3 DEF StackInv

LEMMA ToldElsewhere ==
    ASSUME NEW d \in Callers, CallerTold(d), turn'[d] = turn[d], locks'[d] = locks[d],
           Mine(d)' = Mine(d)
    PROVE  CallerTold(d)'
BY DEF CallerTold, Told, Early

LEMMA ToldRefusing ==
    ASSUME EffectInv, NEW c \in Callers, Mine(c) = {}, Mine(c)' = {}, turn'[c].pc \in Late,
           NEW code, NEW v, turn'[c].answer = Answer(c, code, v), code # "COMPLETED"
    PROVE  CallerTold(c)'
<1>1. turn'[c].answer.by = c /\ turn'[c].answer.code = code
      BY DEF Answer
<1>2. Told(c, turn[c].answer.code, turn[c].answer.version)'
      BY <1>1 DEF Told
<1>3. turn'[c].pc \notin Done /\ ~Early(c)'
      BY DEF Late, Done, Early
<1> QED BY <1>1, <1>2, <1>3 DEF CallerTold

LEMMA EarlyFates ==
    ASSUME NEW c \in Callers, Passes(c) \/ Begins(c) \/ Allowed(c) \/ Looks(c) \/ Maps(c)
    PROVE  Early(c) /\ Early(c)' /\ turn'[c].answer = turn[c].answer
<1>1. Early(c) <=> turn[c].pc \notin {"handled", "verified", "answered", "left", "returned"}
      BY DEF Early, Done, Late
<1>2. Early(c)' <=> turn'[c].pc \notin {"handled", "verified", "answered", "left", "returned"}
      BY DEF Early, Done, Late
<1>3. CASE Passes(c)
      BY <1>3 DEF Passes
<1>4. CASE Begins(c)
      BY <1>1, <1>2, <1>4 DEF Begins, BeginTurn, At, Asking
<1>5. CASE Allowed(c)
      BY <1>1, <1>2, <1>5 DEF Allowed
<1>6. CASE Looks(c)
      BY <1>1, <1>2, <1>6 DEF Looks, Peek, Pop, At
<1>7. CASE Maps(c)
      BY <1>1, <1>2, <1>7 DEF Maps, MapProposal, At
<1> QED BY <1>3, <1>4, <1>5, <1>6, <1>7

\* Out of its three locks a turn is back at its answer; out of two it is not.
LEMMA LeavesHow ==
    ASSUME LockInv, NEW c \in Callers, Leaves(c)
    PROVE  /\ turn[c].pc = "left"
           /\ turn'[c].pc = "answered" => Len(locks[c]) = 3
           /\ turn'[c].pc = "left" => Len(locks'[c]) # 3
<1>1. Leave(c) /\ turn[c].pc = "left"
      BY DEF Leaves, Leave, At
<1>2. DOMAIN turn = Callers /\ DOMAIN turn[c] = Fields
      BY DEF LockInv, TurnInv
<1>3. turn'[c].pc = "answered" => Len(locks[c]) = 3
      BY <1>1, <1>2 DEF Leave, Goes, Fields
<1>4. locks[c] \in Seq(Locks) /\ locks'[c] = Front(locks[c])
      BY <1>1 DEF Leave, CountOut, LockInv, StackInv
<1>5. PICK n \in Nat : n = Len(locks[c])
      BY <1>4
<1>6. n = 1 \/ n = 2 \/ n = 3
      BY <1>1, <1>5 DEF Leave
<1>7. n > 0 /\ n - 1 # 3
      <2>1. CASE n = 1
            BY <2>1
      <2>2. CASE n = 2
            BY <2>2
      <2>3. CASE n = 3
            BY <2>3
      <2> QED BY <1>6, <2>1, <2>2, <2>3
<1>8. Len(locks[c]) > 0
      BY <1>5, <1>7
<1>9. Len(Front(locks[c])) = Len(locks[c]) - 1
      BY <1>4, <1>8, FrontIs
<1> QED BY <1>1, <1>3, <1>4, <1>5, <1>7, <1>9

LEMMA ToldByStep ==
    ASSUME LockInv, LogInv, CacheInv, EffectInv, NEW c \in Callers, CallerStep(c)
    PROVE  CallerTold(c)'
<1>1. Fate(c)
      BY Fates DEF LockInv
<1>2. /\ DOMAIN turn = Callers /\ DOMAIN turn[c] = Fields /\ turn[c].pc \in Phases(c)
      /\ Len(locks[c]) \in Depths(c, turn[c].pc) /\ Len(locks[c]) \in Nat
      BY DEF LockInv, TurnInv, StackInv
<1>3. CallerTold(c)
      BY DEF EffectInv
<1>4. turn'[c].pc # "handled" => Mine(c)' = Mine(c)
      <2>1. Execute(c) => turn'[c].pc = "handled"
            BY <1>2 DEF Execute, Handled, Fields
      <2>2. ~Execute(c) => UNCHANGED vehicleVars
            BY CallerEffects
      <2> QED BY <2>1, <2>2, EffectsStay DEF Mine
<1>5. CASE Passes(c) \/ Begins(c) \/ Allowed(c) \/ Looks(c) \/ Maps(c)
      <2>1. Early(c) /\ Early(c)' /\ turn'[c].answer = turn[c].answer
            BY <1>5, EarlyFates
      <2>2. turn[c].pc \notin Late /\ turn'[c].pc \notin Late \cup Done
            BY <2>1 DEF Early
      <2>3. turn'[c].pc \notin {"handled", "answered", "left"}
            BY <2>2 DEF Late, Done
      <2> QED BY <1>3, <1>4, <2>1, <2>2, <2>3 DEF CallerTold
<1>6. CASE Refuses(c) \/ Stops(c)
      <2>1. Early(c) /\ turn'[c].pc \in Late
            BY <1>6 DEF Refuses, Stops, StopBeforeEffect, At, Early, Done, Late
      <2>2. PICK code, v : turn'[c].answer = Answer(c, code, v) /\ code # "COMPLETED"
            <3>1. CASE Refuses(c)
                  BY <3>1 DEF Refuses
            <3>2. CASE Stops(c)
                  BY <3>2 DEF Stops
            <3> QED BY <1>6, <3>1, <3>2
      <2>3. Mine(c) = {} /\ Mine(c)' = {}
            BY <1>3, <1>4, <2>1 DEF CallerTold, Late
      <2> QED BY <2>1, <2>2, <2>3, ToldRefusing
<1>7. CASE Finds(c)
      <2>1. PICK i \in Cached(Key(c)) : turn'[c].answer = results[i].answer
            BY <1>7 DEF Finds
      <2>2. turn[c].pc = "at_session" /\ turn'[c].pc = "left" /\ UNCHANGED locks
            BY <1>7 DEF Finds, FindCached, At, lockVars
      <2>3. results[i] \in Entries
            BY DEF Entries, Cached
      <2>4. turn'[c].answer.by # c
            BY <2>1, <2>2, <2>3 DEF EffectInv, Late
      <2>5. Len(locks[c]) # 3
            <3>1. Len(locks[c]) \in Depths(c, "at_session")
                  BY <1>2, <2>2
            <3>2. Len(locks[c]) = 2
                  BY <3>1 DEF Depths
            <3> QED BY <3>2
      <2>6. Mine(c) = {} /\ Mine(c)' = {}
            BY <1>3, <1>4, <2>2 DEF CallerTold, Early, Late, Done
      <2> QED BY <2>2, <2>4, <2>5, <2>6 DEF CallerTold, Early, Late, Done
<1>8. CASE Executes(c)
      <2>1. turn[c].pc = "at_action" /\ turn'[c].pc = "handled" /\ Kept(c) /\ Execute(c)
              /\ turn'[c].answer = turn[c].answer
            BY <1>8 DEF Executes, Execute, At
      <2>2. Mine(c) = {} /\ turn[c].answer = None
            BY <1>3, <2>1 DEF CallerTold, Early, Late, Done
      <2>3. PICK code, v : Handled(c, code, v)
                /\ (UNCHANGED vehicleVars /\ code = "COMPLETED" => OnlyReads(turn[c].intent))
                /\ (~UNCHANGED vehicleVars => code = "COMPLETED" /\ v = version')
            <3>1. CASE UNCHANGED vehicleVars
                  <4>1. ASSUME NEW candidates, Commit(candidates, "agent",
                                    [caller |-> c, intent |-> turn[c].intent])
                        PROVE  FALSE
                        BY <3>1, <4>1, BoundAssumption DEF Commit, vehicleVars, LogInv
                  <4> QED BY <2>1, <3>1, <4>1 DEF Execute
            <3>2. CASE ~UNCHANGED vehicleVars
                  BY <2>1, <3>2 DEF Execute
            <3> QED BY <3>1, <3>2
      <2>4. turn'[c].code = code /\ turn'[c].version = v
            BY <1>2, <2>3 DEF Handled, Fields
      <2>5. Told(c, turn[c].code, turn[c].version)'
            <3>1. CASE UNCHANGED vehicleVars
                  <4>1. Mine(c)' = {}
                        BY <2>2, <3>1, EffectsStay DEF Mine
                  <4> QED BY <2>1, <2>3, <2>4, <3>1, <4>1 DEF Told, Kept
            <3>2. CASE ~UNCHANGED vehicleVars
                  <4>1. /\ ~OnlyReads(turn[c].intent)
                        /\ Mine(c)' = Mine(c) \cup (IF c \in {c} THEN {version'} ELSE {})
                        BY <3>2, CallerEffects DEF Mine
                  <4>2. Mine(c)' = {version'} /\ version' \in Nat
                        <5>1. version' \in Nat
                              <6>1. version' = version + 1
                                    BY <3>2, CallerEffects DEF Commits
                              <6> QED BY <6>1, BoundAssumption DEF LogInv
                        <5> QED BY <2>2, <4>1, <5>1
                  <4> QED BY <2>1, <2>3, <2>4, <3>2, <4>1, <4>2 DEF Told, Kept
            <3> QED BY <3>1, <3>2
      <2> QED BY <2>1, <2>2, <2>5 DEF CallerTold, Early, Late, Done
<1>9. CASE Verifies(c)
      <2>1. turn[c].pc = "handled" /\ turn'[c].pc = "verified" /\ Kept(c)
              /\ turn'[c].answer = turn[c].answer
              /\ turn'[c].code \in {turn[c].code, "EXECUTION_VERIFICATION_FAILED"}
              /\ turn'[c].version = IF turn[c].intent \in Readers THEN version
                                                                  ELSE turn[c].version
            BY <1>9 DEF Verifies, Verify, At
      <2>2. Mine(c)' = Mine(c)
            BY <1>4, <2>1
      <2>3. Told(c, turn[c].code, turn[c].version) /\ turn[c].answer = None
            BY <1>3, <2>1 DEF CallerTold, Late, Done
      <2>4. Told(c, turn[c].code, turn[c].version)'
            <3>1. CASE Mine(c) = {} /\ (turn[c].code = "COMPLETED" => OnlyReads(turn[c].intent))
                  BY <2>1, <2>2, <3>1 DEF Told, Kept
            <3>2. CASE Mine(c) # {}
                  <4>1. turn[c].intent \notin Readers
                        BY <2>3, <3>2 DEF Told, OnlyReads
                  <4> QED BY <2>1, <2>2, <2>3, <3>2, <4>1 DEF Told, Kept
            <3> QED BY <2>3, <3>1, <3>2 DEF Told
      <2> QED BY <2>1, <2>3, <2>4 DEF CallerTold, Early, Late, Done
<1>10. CASE Concludes(c)
      <2> DEFINE code == Reported(c)
                 v == IF code = "COMPLETED" THEN turn[c].version ELSE None
      <2>1. turn[c].pc = "verified" /\ turn'[c].pc = "left" /\ Kept(c)
              /\ turn'[c].answer = Answer(c, code, v)
            BY <1>10 DEF Concludes, Conclude, At
      <2>2. Mine(c)' = Mine(c)
            BY <1>4, <2>1
      <2>3. Told(c, turn[c].code, turn[c].version)
            BY <1>3, <2>1 DEF CallerTold, Done
      <2>4. /\ code \in {turn[c].code, "TURN_CANCELLED"}
            /\ code = "COMPLETED" => v = turn[c].version
            BY DEF Reported
      <2> HIDE DEF code, v
      <2>5. turn'[c].answer.by = c /\ turn'[c].answer.code = code /\ turn'[c].answer.version = v
            BY <2>1 DEF Answer
      <2>6. Told(c, turn[c].answer.code, turn[c].answer.version)'
            BY <2>1, <2>2, <2>3, <2>4, <2>5 DEF Told, Kept
      <2> QED BY <2>1, <2>5, <2>6 DEF CallerTold, Early, Late, Done
<1>11. CASE Stores(c) \/ Leaves(c)
      <2>1. turn[c].pc \in {"answered", "left"} /\ turn'[c].pc \in Late /\ Kept(c)
              /\ turn'[c].answer = turn[c].answer
            BY <1>11 DEF Stores, Leaves, StoreTurn, Leave, At, Late
      <2>2. Mine(c)' = Mine(c)
            BY <1>4, <2>1 DEF Late
      <2>3. turn[c].answer.by = c => Told(c, turn[c].answer.code, turn[c].answer.version)'
            BY <1>3, <2>1, <2>2 DEF CallerTold, Told, Kept, Late
      <2>4. turn'[c].pc = "answered" \/ (turn'[c].pc = "left" /\ Len(locks'[c]) = 3)
               => turn[c].answer.by = c
            <3>1. CASE Stores(c)
                  BY <1>3, <3>1 DEF CallerTold, Stores, StoreTurn, At
            <3>2. CASE Leaves(c)
                  BY <1>3, <3>2, LeavesHow DEF CallerTold
            <3> QED BY <1>11, <3>1, <3>2
      <2> QED BY <1>3, <2>1, <2>2, <2>3, <2>4 DEF CallerTold, Early, Late, Done
<1> QED BY <1>1, <1>5, <1>6, <1>7, <1>8, <1>9, <1>10, <1>11 DEF Fate

LEMMA EffectNext ==
    ASSUME LockInv, LogInv, CacheInv, EffectInv, [Next]_vars
    PROVE  EffectInv'
<1>1. CASE ~\E c \in Callers : CallerStep(c)
      <2>1. UNCHANGED <<turn, lockVars>>
            BY <1>1, OthersStep
      <2>2. \A d \in Callers : CallerTold(d)'
            <3> TAKE d \in Callers
            <3>1. Mine(d)' = Mine(d)
                  BY <1>1, OtherEffects DEF Mine
            <3> QED BY <2>1, <3>1, ToldElsewhere DEF EffectInv, lockVars
      <2>3. Entries' \subseteq Entries
            <3>1. ~\E c \in Callers : FindCached(c) \/ StoreTurn(c)
                  BY <1>1 DEF CallerStep
            <3> QED BY <3>1, CacheCases, ResetKeeps DEF Entries
      <2> QED BY <2>1, <2>2, <2>3 DEF EffectInv
<1>2. CASE \E c \in Callers : CallerStep(c)
      <2>1. PICK c \in Callers : CallerStep(c)
            BY <1>2
      <2>2. \A d \in Callers : d # c => turn'[d] = turn[d] /\ locks'[d] = locks[d]
            BY <2>1, OthersKeepTheirs DEF LockInv
      <2>3. \A d \in Callers : CallerTold(d)'
            <3> TAKE d \in Callers
            <3>1. CASE d = c
                  BY <2>1, <3>1, ToldByStep
            <3>2. CASE d # c
                  <4>1. Mine(d)' = Mine(d)
                        <5>1. CASE UNCHANGED vehicleVars
                              BY <5>1, EffectsStay DEF Mine
                        <5>2. CASE ~UNCHANGED vehicleVars
                              <6>1. EffectsBy({d})' = EffectsBy({d}) \cup
                                      (IF c \in {d} THEN {version'} ELSE {})
                                    BY <2>1, <5>2, CallerEffects
                              <6> QED BY <3>2, <6>1 DEF Mine
                        <5> QED BY <5>1, <5>2
                  <4> QED BY <2>2, <3>2, <4>1, ToldElsewhere DEF EffectInv
            <3> QED BY <3>1, <3>2
      <2>4. turn[c].pc \in Late \ {"returned"} => turn'[c].pc \in Late
            <3>1. Fate(c)
                  BY <2>1, Fates DEF LockInv
            <3> QED BY <3>1, EarlyFates
                    DEF Fate, Refuses, Stops, Finds, Executes, Execute, Verifies, Verify,
                        Concludes, Stores, Leaves, Early, Late, Done, At
      <2>5. turn[c].pc = "returned" => turn'[c].pc \in Late
            <3>1. Fate(c)
                  BY <2>1, Fates DEF LockInv
            <3> QED BY <3>1, EarlyFates
                    DEF Fate, Refuses, Stops, Finds, Executes, Execute, Verifies, Verify,
                        Concludes, Stores, Leaves, Early, Late, Done, At
      <2>6. \A e \in Entries : e.answer.by \in Turns /\ turn'[e.answer.by].pc \in Late
            BY <2>2, <2>4, <2>5 DEF EffectInv, Turns
      <2>7. CASE ~StoreTurn(c)
            <3>1. Entries' = Entries
                  <4>1. CASE FindCached(c)
                        BY <4>1, FindKeeps
                  <4>2. CASE ~FindCached(c)
                        <5>1. UNCHANGED results
                              BY <2>1, <2>7, <4>2 DEF CallerStep, EnterRequest,
                                 EnterSession, BeginTurn, Leave, Decide, Peek, Pop, Resolve,
                                 GuardedStep, Hear, CannotAsk, Call, Retry, ProviderFails,
                                 ModelReplies, DenyProposal, AgentStep, MapProposal,
                                 StopBeforeEffect, Execute, Verify, Conclude,
                                 ExecutionStep, memoryVars
                        <5> QED BY <5>1 DEF Entries
                  <4> QED BY <4>1, <4>2
            <3> QED BY <2>3, <2>6, <3>1 DEF EffectInv
      <2>8. CASE StoreTurn(c)
            <3>1. Entries' \subseteq Entries \cup {Entry(c)}
                  BY <2>8, KeepKeeps DEF StoreTurn
            <3>2. c \in Turns /\ turn[c].pc = "answered" /\ turn'[c].pc \in Late
                  BY <2>4, <2>8 DEF StoreTurn, At, Late
            <3>3. Entry(c).answer.by = c
                  <4>1. turn[c].answer.by = c
                        BY <3>2 DEF EffectInv, CallerTold
                  <4> QED BY <4>1 DEF Entry
            <3> QED BY <2>3, <2>6, <3>1, <3>2, <3>3 DEF EffectInv
      <2> QED BY <2>7, <2>8
<1> QED BY <1>1, <1>2

LEMMA InitialTurns ==
    ASSUME Init
    PROVE  \A c \in Callers : \E pc \in {"calling", "absent"} :
              turn[c] = [Idle(c) EXCEPT !.pc = pc]
BY DEF Init, Idle

LEMMA InitialFields ==
    ASSUME Init, NEW c \in Callers
    PROVE  /\ turn[c].pc \in {"calling", "absent"} /\ turn[c].answer = None
           /\ turn[c].attempt = 0 /\ turn[c].provider = 1
<1>1. PICK pc \in {"calling", "absent"} : turn[c] = [Idle(c) EXCEPT !.pc = pc]
      BY InitialTurns
<1> QED BY <1>1 DEF Idle

LEMMA EffectInit ==
    ASSUME Init
    PROVE  EffectInv
<1>1. \A c \in Callers : /\ turn[c].pc \in {"calling", "absent"} /\ turn[c].answer = None
      BY InitialFields
<1>2. events = <<>> /\ results = <<>>
      BY DEF Init, VehicleInit, AgentInit
<1>3. \A c \in Callers : Mine(c) = {}
      BY <1>2 DEF Mine, EffectsBy
<1>4. Entries = {}
      BY <1>2 DEF Entries
<1> QED BY <1>1, <1>3, <1>4 DEF EffectInv, CallerTold, Late, Done

\* What the runtime keeps true: its locks, its log, its cache, its answers.
RuntimeInv == LockInv /\ LogInv /\ CacheInv /\ EffectInv

LEMMA RuntimeInvariance == Spec => []RuntimeInv
<1>1. Init => RuntimeInv
      BY LockInit, LogInit, CacheInit, EffectInit DEF RuntimeInv
<1>2. RuntimeInv /\ [Next]_vars => RuntimeInv'
      BY LockNext, LogNext, CacheNext, EffectNext DEF RuntimeInv
<1> QED BY <1>1, <1>2, PTL DEF Spec

LEMMA ToldTheTruth ==
    ASSUME EffectInv
    PROVE  TruthfulAnswers
<1> SUFFICES ASSUME NEW c \in Callers
             PROVE  LET mine == EffectsBy({c})  a == turn[c].answer IN
                    /\ Cardinality(mine) <= 1
                    /\ OwnAnswer(c) /\ a.code = "COMPLETED" =>
                          \/ mine = {a.version}
                          \/ mine = {} /\ OnlyReads(turn[c].intent)
                    /\ OwnAnswer(c) /\ mine # {} =>
                          a.code \in {"COMPLETED", "TURN_CANCELLED",
                                      "EXECUTION_VERIFICATION_FAILED"}
    BY DEF TruthfulAnswers
<1>1. CallerTold(c)
      BY DEF EffectInv
<1>2. Mine(c) = {} \/ \E i \in Nat : Mine(c) = {i}
      BY <1>1 DEF CallerTold, Told, Early
<1>3. Cardinality(Mine(c)) <= 1
      <2>1. CASE Mine(c) = {}
            BY <2>1, FS_EmptySet
      <2>2. CASE \E i \in Nat : Mine(c) = {i}
            <3>1. PICK i \in Nat : Mine(c) = {i}
                  BY <2>2
            <3>2. Cardinality({i}) = 1
                  BY FS_Singleton
            <3> QED BY <3>1, <3>2
      <2> QED BY <1>2, <2>1, <2>2
<1>4. OwnAnswer(c) => Told(c, turn[c].answer.code, turn[c].answer.version)
      BY <1>1 DEF CallerTold, OwnAnswer
<1> QED BY <1>3, <1>4 DEF Mine, Told

\* A caller is told the truth of what it did, whoever shares the cache, cancels
\* it or commits in between.
THEOREM CallersAreToldTheTruth == Spec => []TruthfulAnswers
<1>1. RuntimeInv => TruthfulAnswers
      BY ToldTheTruth DEF RuntimeInv
<1> QED BY <1>1, RuntimeInvariance, PTL
-----------------------------------------------------------------------------
(***************************************************************************)
(* What a caller of the coordinator may do.                                *)
(***************************************************************************)
Decided(c) ==
    LET v == Verdict[c]  t == turn[c] IN
    /\ v.outcome = "ALLOW" /\ t.hint = v.intent /\ v.request = RequestOf[t.for]
    /\ Role[c] = "resolve" => c \in Accepted /\ t.seen.intent = v.intent

CallerDecided(c) ==
    /\ turn[c].pc \in {"heard"} \cup Asking \cup Acting \/ Mine(c) # {} => Decided(c)
    /\ turn[c].pc \in Acting => turn[c].intent = Verdict[c].intent

DecidedInv ==
    /\ \A c \in Callers \ Turns : CallerDecided(c)
    /\ \A i \in EffectsBy(Callers \ Turns) :
          events[i].by.intent = Verdict[events[i].by.caller].intent

LEMMA OneIntent ==
    ASSUME NEW p, NEW i \in Mapped(p), NEW j \in Mapped(p)
    PROVE  i = j
<1> DEFINE rules == MappingRules[p.tool]
           exact == {MappingKey(p.arguments)} \cap DOMAIN rules
           key == <<p.arguments.action, p.arguments.target, "*">>
           free == {key} \cap DOMAIN rules
<1>1. exact \subseteq {MappingKey(p.arguments)} /\ free \subseteq {key}
      OBVIOUS
<1>2. PICK K : /\ K = IF exact # {} THEN exact
                      ELSE IF "value" \in DOMAIN p.arguments THEN free ELSE {}
               /\ Mapped(p) = {rules[k] : k \in K}
      BY DEF Mapped
<1> HIDE DEF exact, key, free
<1>3. \A k, l \in K : k = l
      BY <1>1, <1>2
<1> QED BY <1>2, <1>3

LEMMA MapsTheHint ==
    ASSUME NEW c, Maps(c), turn[c].hint # None
    PROVE  turn'[c].intent = turn[c].hint
<1>1. Denied(c) = {} /\ turn'[c].intent \in Mapped(turn[c].reply)
      BY DEF Maps, MapProposal
<1>2. \E i \in Mapped(turn[c].reply) : MatchesHint(c, i)
      BY <1>1 DEF Denied
<1>3. MatchesHint(c, turn'[c].intent)
      BY <1>1, <1>2, OneIntent
<1> QED BY <1>3 DEF MatchesHint

LEMMA EffectsStayUnlessHandled ==
    ASSUME LockInv, LogInv, NEW c \in Callers, CallerStep(c), turn'[c].pc # "handled"
    PROVE  UNCHANGED vehicleVars /\ \A C : EffectsBy(C)' = EffectsBy(C)
<1>1. Execute(c) => turn'[c].pc = "handled"
      BY DEF Execute, Handled, Fields, LockInv, TurnInv
<1>2. UNCHANGED vehicleVars
      BY <1>1, CallerEffects
<1> QED BY <1>2, EffectsStay

LEMMA DecidedElsewhere ==
    ASSUME NEW d \in Callers, CallerDecided(d), turn'[d] = turn[d], Mine(d)' = Mine(d)
    PROVE  CallerDecided(d)'
BY DEF CallerDecided, Decided

LEMMA DecidedByStep ==
    ASSUME RuntimeInv, RuntimeInv', NEW c \in Callers \ Turns, CallerDecided(c), CallerStep(c)
    PROVE  CallerDecided(c)'
<1>1. Fate(c)
      BY Fates DEF LockInv, RuntimeInv
<1>2. turn[c].pc \in Phases(c)
      BY DEF LockInv, TurnInv, RuntimeInv
<1>3. Early(c)' => Mine(c)' = {}
      BY DEF RuntimeInv, EffectInv, CallerTold
<1>4. Early(c) => Mine(c) = {}
      BY DEF RuntimeInv, EffectInv, CallerTold
<1>5. turn'[c].pc # "handled" => Mine(c)' = Mine(c)
      BY EffectsStayUnlessHandled DEF RuntimeInv, Mine
<1>6. Verdict[c].intent # None
      BY CallersAssumption DEF Turns
<1>7. CASE Passes(c)
      <2>1. Kept(c) /\ Early(c)' /\ turn'[c].pc \notin Acting \cup Deciding
            /\ (turn'[c].pc \in Asking => turn[c].pc \in Asking \cup {"heard"})
            BY <1>7 DEF Passes
      <2> QED BY <1>3, <2>1 DEF CallerDecided, Decided, Kept, Deciding
<1>8. CASE Begins(c) \/ Finds(c) \/ Stores(c)
      <2>1. turn[c].pc \in {"at_session", "answered"}
            BY <1>8 DEF Begins, BeginTurn, Finds, FindCached, Stores, StoreTurn, At
      <2> QED BY <1>2, <2>1 DEF Phases, Outdoors, Asking, Acting, Deciding
<1>9. CASE Allowed(c)
      <2>1. Early(c)'
            BY <1>9, EarlyFates
      <2>2. Decided(c)' /\ turn'[c].pc \notin Acting
            BY <1>9 DEF Allowed, Decided, Valid, Acting
      <2> QED BY <1>3, <2>1, <2>2 DEF CallerDecided
<1>10. CASE Looks(c)
      <2>1. Early(c)' /\ turn'[c].pc \in {"peeked", "popped"}
            BY <1>10, EarlyFates DEF Looks
      <2> QED BY <1>3, <2>1 DEF CallerDecided, Asking, Acting
<1>11. CASE Maps(c)
      <2>1. Early(c)' /\ turn[c].pc \in Asking
            BY <1>11, EarlyFates DEF Maps, MapProposal, At, Asking
      <2>2. Decided(c) /\ turn[c].hint = Verdict[c].intent
            BY <2>1 DEF CallerDecided, Decided
      <2>3. turn'[c].intent = Verdict[c].intent
            BY <1>6, <1>11, <2>2, MapsTheHint
      <2>4. Decided(c)'
            BY <1>11, <2>2 DEF Maps, Decided
      <2> QED BY <1>3, <2>1, <2>3, <2>4 DEF CallerDecided
<1>12. CASE Refuses(c) \/ Stops(c)
      <2>1. Early(c) /\ turn'[c].pc \in {"answered", "returned", "left"}
            BY <1>12 DEF Refuses, Stops, StopBeforeEffect, At, Early, Late, Done
      <2> QED BY <1>4, <1>5, <2>1 DEF CallerDecided, Asking, Acting
<1>13. CASE Executes(c) \/ Verifies(c)
      <2>1. turn[c].pc \in Acting /\ turn'[c].pc \in Acting /\ Kept(c)
            BY <1>13 DEF Executes, Execute, Verifies, Verify, At, Acting
      <2> QED BY <2>1 DEF CallerDecided, Decided, Kept
<1>14. CASE Concludes(c) \/ Leaves(c)
      <2>1. turn'[c].pc \in Late /\ Kept(c)
            BY <1>14 DEF Concludes, Leaves, Late
      <2>2. Mine(c)' = Mine(c)
            BY <1>5, <2>1 DEF Late
      <2>3. turn'[c].pc \notin {"heard"} \cup Asking \cup Acting
            BY <2>1 DEF Late, Asking, Acting
      <2> QED BY <2>1, <2>2, <2>3 DEF CallerDecided, Decided, Kept
<1> QED BY <1>1, <1>7, <1>8, <1>9, <1>10, <1>11, <1>12, <1>13, <1>14 DEF Fate

LEMMA LoggedIntents ==
    ASSUME RuntimeInv, DecidedInv, [Next]_vars
    PROVE  \A i \in EffectsBy(Callers \ Turns)' :
              events'[i].by.intent = Verdict[events'[i].by.caller].intent
<1> DEFINE D == Callers \ Turns
<1>1. CASE UNCHANGED vehicleVars
      BY <1>1, EffectsStay DEF DecidedInv, vehicleVars
<1>2. ASSUME NEW kind, NEW by, Commits(kind, by),
             by.caller \in D => by.intent = Verdict[by.caller].intent
      PROVE  \A i \in EffectsBy(D)' :
                events'[i].by.intent = Verdict[events'[i].by.caller].intent
      <2>1. EffectsBy(D)' = EffectsBy(D) \cup (IF by.caller \in D THEN {version'} ELSE {})
            BY <1>2, EffectsGrow DEF RuntimeInv
      <2>2. /\ \A i \in 1..version : events'[i] = events[i]
            /\ events'[version'].by = by
            BY <1>2, CommitLogs DEF RuntimeInv
      <2>3. EffectsBy(D) \subseteq 1..version
            BY EffectsFinite DEF RuntimeInv
      <2> SUFFICES ASSUME NEW i \in EffectsBy(D)'
                   PROVE  events'[i].by.intent = Verdict[events'[i].by.caller].intent
          OBVIOUS
      <2>4. CASE i \in EffectsBy(D)
            BY <2>2, <2>3, <2>4 DEF DecidedInv
      <2>5. CASE i \notin EffectsBy(D)
            <3>1. i = version' /\ by.caller \in D
                  BY <2>1, <2>5
            <3> QED BY <1>2, <2>2, <3>1
      <2> QED BY <2>4, <2>5
<1>3. CASE \E c \in Callers :
             /\ Execute(c)
             /\ Commits("agent", [caller |-> c, intent |-> turn[c].intent])
      <2>1. PICK c \in Callers :
             /\ Execute(c)
             /\ Commits("agent", [caller |-> c, intent |-> turn[c].intent])
            BY <1>3
      <2>2. c \in D => turn[c].intent = Verdict[c].intent
            BY <2>1 DEF DecidedInv, CallerDecided, Execute, At, Acting
      <2>3. PICK by : by = [caller |-> c, intent |-> turn[c].intent]
            OBVIOUS
      <2>4. Commits("agent", by) /\ by.caller = c /\ by.intent = turn[c].intent
            BY <2>1, <2>3
      <2> QED BY <1>2, <2>2, <2>4
<1>4. CASE \E o \in Operators :
             Commits(ActorKind(CallOf[o]), [caller |-> o, intent |-> CallOf[o].op])
      <2>1. PICK o \in Operators :
             Commits(ActorKind(CallOf[o]), [caller |-> o, intent |-> CallOf[o].op])
            BY <1>4
      <2>2. PICK k, by : by = [caller |-> o, intent |-> CallOf[o].op] /\ k = ActorKind(CallOf[o])
            OBVIOUS
      <2>3. Commits(k, by) /\ by.caller = o
            BY <2>1, <2>2
      <2>4. o \notin D
            BY CallersAssumption
      <2> QED BY <1>2, <2>3, <2>4
<1> QED BY <1>1, <1>3, <1>4, VehicleCases

LEMMA DecidedNext ==
    ASSUME RuntimeInv, RuntimeInv', DecidedInv, [Next]_vars
    PROVE  DecidedInv'
<1>1. \A i \in EffectsBy(Callers \ Turns)' :
         events'[i].by.intent = Verdict[events'[i].by.caller].intent
      BY LoggedIntents
<1>2. ASSUME NEW d \in Callers \ Turns
      PROVE  CallerDecided(d)'
      <2>1. CASE ~\E c \in Callers : CallerStep(c)
            <3>1. turn'[d] = turn[d]
                  BY <2>1, OthersStep
            <3>2. Mine(d)' = Mine(d)
                  BY <2>1, OtherEffects DEF Mine, RuntimeInv
            <3> QED BY <3>1, <3>2, DecidedElsewhere DEF DecidedInv
      <2>2. CASE CallerStep(d)
            BY <2>2, DecidedByStep DEF DecidedInv
      <2>3. CASE \E c \in Callers : c # d /\ CallerStep(c)
            <3>1. PICK c \in Callers : c # d /\ CallerStep(c)
                  BY <2>3
            <3>2. turn'[d] = turn[d]
                  BY <3>1, OthersKeepTheirs DEF RuntimeInv, LockInv
            <3>3. Mine(d)' = Mine(d)
                  <4>1. CASE UNCHANGED vehicleVars
                        BY <4>1, EffectsStay DEF Mine
                  <4>2. CASE ~UNCHANGED vehicleVars
                        <5>1. EffectsBy({d})' = EffectsBy({d}) \cup
                                (IF c \in {d} THEN {version'} ELSE {})
                              BY <3>1, <4>2, CallerEffects DEF RuntimeInv
                        <5> QED BY <3>1, <5>1 DEF Mine
                  <4> QED BY <4>1, <4>2
            <3> QED BY <3>2, <3>3, DecidedElsewhere DEF DecidedInv
      <2> QED BY <2>1, <2>2, <2>3
<1> QED BY <1>1, <1>2 DEF DecidedInv

LEMMA DecidedInit ==
    ASSUME Init
    PROVE  DecidedInv
<1>1. \A c \in Callers : turn[c].pc \in {"calling", "absent"}
      BY InitialFields
<1>2. events = <<>>
      BY DEF Init, VehicleInit
<1>3. \A C : EffectsBy(C) = {}
      BY <1>2 DEF EffectsBy
<1> QED BY <1>1, <1>3 DEF DecidedInv, CallerDecided, Mine, Asking, Acting

\* What a caller of the coordinator changes is what its decision allowed and,
\* where the driver was asked, what the driver said yes to.
THEOREM CallersActAsDecided == Spec => []ActsAsDecided
<1>1. Init => DecidedInv
      BY DecidedInit
<1>2. RuntimeInv /\ RuntimeInv' /\ DecidedInv /\ [Next]_vars => DecidedInv'
      BY DecidedNext
<1>3. DecidedInv => ActsAsDecided
      <2> SUFFICES ASSUME DecidedInv, NEW i \in EffectsBy(Callers \ Turns)
                   PROVE  LET c == events[i].by.caller  v == Verdict[c] IN
                          /\ v.outcome = "ALLOW" /\ v.intent = events[i].by.intent
                          /\ v.request = RequestOf[turn[c].for]
                          /\ Role[c] = "resolve" =>
                                c \in Accepted /\ turn[c].seen.intent = v.intent
          BY DEF ActsAsDecided
      <2>1. PICK c \in Callers \ Turns : c = events[i].by.caller /\ i \in Mine(c)
            BY DEF EffectsBy, Mine
      <2>2. Decided(c) /\ events[i].by.intent = Verdict[c].intent
            BY <2>1 DEF DecidedInv, CallerDecided
      <2> QED BY <2>1, <2>2 DEF Decided
<1> QED BY <1>1, <1>2, <1>3, RuntimeInvariance, PTL DEF Spec
-----------------------------------------------------------------------------
(***************************************************************************)
(* Inside a session: one turn at a time, from the look at the cache to the *)
(* answer that is stored.                                                  *)
(***************************************************************************)
InTurn(c) ==
    /\ c \in Turns
    /\ \/ turn[c].pc \in Asking \cup Acting \cup {"answered"}
       \/ turn[c].pc = "left" /\ Len(locks[c]) = 3

LEMMA HoldsSession ==
    ASSUME LockInv, NEW c \in Callers, InTurn(c)
    PROVE  \E l : l.key = SessionLock(SessionOf[c]) /\ Hold(l, c) \in held
<1>1. /\ Len(locks[c]) \in Nat /\ Len(locks[c]) \in Depths(c, turn[c].pc)
      /\ \A n \in 1..Len(locks[c]) : locks[c][n].key = Path(c)[n]
      BY LengthsAreNat DEF LockInv, StackInv
<1>2. c \in Turns /\ Outer(c) = 2
      BY DEF InTurn, Outer
<1>3. Holds(c) \in Nat /\ Holds(c) >= 2 /\ Len(locks[c]) >= 2
      <2>1. CASE turn[c].pc \in Asking \cup {"answered"}
            <3>1. Len(locks[c]) = 2 /\ turn[c].pc \notin Queued
                  BY <1>1, <1>2, <2>1 DEF Depths, Asking, Queued
            <3> QED BY <3>1 DEF Holds
      <2>2. CASE turn[c].pc \in Acting
            <3>1. Len(locks[c]) = 3
                  BY <1>1, <1>2, <2>2 DEF Depths
            <3> QED BY <3>1 DEF Holds
      <2>3. CASE turn[c].pc = "left" /\ Len(locks[c]) = 3
            BY <2>3 DEF Holds
      <2> QED BY <2>1, <2>2, <2>3 DEF InTurn
<1>4. 2 \in 1..Holds(c) /\ 2 \in 1..Len(locks[c])
      BY <1>1, <1>3
<1>5. locks[c][2].key = SessionLock(SessionOf[c])
      BY <1>1, <1>2, <1>4 DEF Path
<1>6. Hold(locks[c][2], c) \in held
      BY <1>4 DEF LockInv, HeldInv
<1> QED BY <1>5, <1>6

LEMMA OneTurn ==
    ASSUME LockInv, NEW c \in Callers, NEW d \in Callers, InTurn(c), InTurn(d),
           SessionOf[c] = SessionOf[d]
    PROVE  c = d
<1>1. PICK l : l.key = SessionLock(SessionOf[c]) /\ Hold(l, c) \in held
      BY HoldsSession
<1>2. PICK m : m.key = SessionLock(SessionOf[c]) /\ Hold(m, d) \in held
      BY HoldsSession
<1>3. Hold(l, c) = Hold(m, d)
      BY <1>1, <1>2, LocksExclude, HoldFields DEF OneInside
<1> QED BY <1>3, HoldFields

\* A turn begins at the look at the cache and lasts until it is stored.
LEMMA TurnLasts ==
    ASSUME LockInv, NEW c \in Turns, CallerStep(c)
    PROVE  /\ InTurn(c)' => Begins(c) \/ (InTurn(c) /\ KeptTalk(c) /\ ~StoreTurn(c))
           /\ InTurn(c) /\ ~Early(c) => InTurn(c)' \/ StoreTurn(c)
           /\ StoreTurn(c) => InTurn(c)
<1>0. /\ c \in Callers /\ turn[c].pc \in Phases(c) /\ Len(locks[c]) \in Depths(c, turn[c].pc)
      /\ Len(locks[c]) \in Nat
      BY LengthsAreNat DEF Turns, LockInv, TurnInv, StackInv
<1>1. Fate(c)
      BY <1>0, Fates DEF LockInv
<1>2. turn[c].pc \notin Deciding
      BY <1>0 DEF Phases, Outdoors, Asking, Acting, Deciding
<1>3. StoreTurn(c) => turn[c].pc = "answered" /\ InTurn(c)
      BY DEF StoreTurn, At, InTurn
<1>4. CASE Passes(c)
      <2>1. /\ turn'[c].pc \notin Acting \cup {"left", "answered"} /\ KeptTalk(c)
            /\ turn[c].pc \notin {"left", "answered"} \cup Done
            /\ (turn'[c].pc \in Asking => turn[c].pc \in Asking) /\ Early(c)
            BY <1>2, <1>4 DEF Passes, Early, Late, Done, Acting, Deciding
      <2> QED BY <1>3, <2>1 DEF InTurn
<1>5. CASE Begins(c)
      <2>1. Early(c)
            BY <1>5, EarlyFates, <1>0
      <2> QED BY <1>3, <1>5, <2>1
<1>6. CASE Allowed(c) \/ Looks(c)
      <2>1. turn'[c].pc \in Deciding /\ Early(c)
            BY <1>0, <1>6, EarlyFates DEF Allowed, Looks, Deciding
      <2> QED BY <1>3, <2>1 DEF InTurn, Deciding, Asking, Acting
<1>7. CASE Maps(c)
      <2>1. turn[c].pc = "proposed" /\ KeptTalk(c) /\ Early(c)
            BY <1>0, <1>7, EarlyFates DEF Maps, MapProposal, At
      <2> QED BY <1>3, <2>1 DEF InTurn, Asking
<1>8. CASE Refuses(c)
      <2>1. turn[c].pc \in Asking /\ KeptTalk(c) /\ Early(c)
            BY <1>8 DEF Refuses
      <2> QED BY <1>3, <2>1 DEF InTurn, Asking
<1>9. CASE Stops(c) \/ Executes(c)
      <2>1. turn[c].pc = "at_action" /\ KeptTalk(c)
            BY <1>9 DEF Stops, StopBeforeEffect, Executes, Execute, At
      <2> QED BY <1>3, <2>1 DEF InTurn, Acting, Early, Late, Done
<1>10. CASE Finds(c)
      <2>1. turn[c].pc = "at_session" /\ turn'[c].pc = "left" /\ UNCHANGED locks
            BY <1>10 DEF Finds, FindCached, At, lockVars
      <2>2. Len(locks[c]) \in Depths(c, "at_session")
            BY <1>0, <2>1
      <2>3. Len(locks[c]) = 2
            BY <2>2 DEF Depths
      <2> QED BY <1>3, <2>1, <2>3 DEF InTurn, Asking, Acting, Early, Late, Done
<1>11. CASE Verifies(c) \/ Concludes(c)
      <2>1. turn[c].pc \in Acting /\ KeptTalk(c) /\ turn'[c].pc \in {"verified", "left"}
              /\ UNCHANGED locks
            BY <1>11 DEF Verifies, Verify, Concludes, Conclude, At, Acting, ExecutionStep
      <2>2. Len(locks[c]) = 3
            BY <1>0, <2>1 DEF Depths, Outer
      <2> QED BY <1>3, <2>1, <2>2 DEF InTurn, Acting
<1>12. CASE Stores(c)
      <2>1. turn[c].pc = "answered" /\ turn'[c].pc = "left" /\ UNCHANGED locks /\ StoreTurn(c)
            BY <1>12 DEF Stores, StoreTurn, At
      <2>2. Len(locks[c]) \in Depths(c, "answered")
            BY <1>0, <2>1
      <2>3. Len(locks[c]) = 2
            BY <2>2 DEF Depths, Outer
      <2> QED BY <1>3, <2>1, <2>3 DEF InTurn, Asking, Acting
<1>13. CASE Leaves(c)
      <2>1. /\ turn[c].pc = "left" /\ KeptTalk(c) /\ turn'[c].pc \in Late
            /\ turn'[c].pc = "answered" => Len(locks[c]) = 3
            /\ turn'[c].pc = "left" => Len(locks'[c]) # 3
            BY <1>0, <1>13, LeavesHow DEF Leaves
      <2>2. Len(locks[c]) = 3 => turn'[c].pc = "answered"
            BY <1>0, <1>13 DEF Leaves, Leave, Goes, LockInv, TurnInv, Fields
      <2>3. turn'[c].pc \notin Asking \cup Acting
            BY <2>1 DEF Late, Asking, Acting
      <2> QED BY <1>3, <2>1, <2>2, <2>3 DEF InTurn, Asking, Acting
<1> QED BY <1>1, <1>4, <1>5, <1>6, <1>7, <1>8, <1>9, <1>10, <1>11, <1>12, <1>13 DEF Fate

(***************************************************************************)
(* The memory of a session.                                                *)
(***************************************************************************)
Message == [role : {"user", "assistant"}, turn : Callers, from : Nat, to : Nat, at : Nat]

Follows(m, n) ==
    IF n.role = "assistant"
    THEN m = [n EXCEPT !.role = "user"]
    ELSE m.role = "assistant" /\ n.at = m.at + 1 /\ n.from = m.to

Chain(h) == \A i \in 1..(Len(h) - 1) : Follows(h[i], h[i + 1])

\* The next message may be the first of a turn stored as number at, begun in
\* epoch e.
Ends(h, at, e) ==
    Len(h) > 0 => h[Len(h)].role = "assistant" /\ h[Len(h)].at + 1 = at /\ h[Len(h)].to = e

Talk(h, at, e) == h \in Seq(Message) /\ Chain(h) /\ Ends(h, at, e)

MemoryInv ==
    /\ DOMAIN history = Sessions
    /\ epoch \in [Sessions -> Nat] /\ stored \in [Sessions -> Nat]
    /\ \A s \in Sessions : /\ Talk(history[s], stored[s], epoch[s])
                           /\ Len(history[s]) <= MaxHistory
    /\ \A c \in Callers : InTurn(c) =>
          /\ Talk(turn[c].history, stored[SessionOf[c]], turn[c].from)
          /\ turn[c].from \in Nat

LEMMA EmptyTalk ==
    ASSUME NEW at, NEW e
    PROVE  Talk(<<>>, at, e)
<1>1. <<>> \in Seq(Message) /\ Len(<<>>) = 0
      OBVIOUS
<1> QED BY <1>1 DEF Talk, Chain, Ends

\* The end of a conversation is one.
LEMMA EndOfTalk ==
    ASSUME NEW h, NEW at, NEW e, Talk(h, at, e), NEW n \in Nat
    PROVE  Talk(LastOf(h, n), at, e) /\ Len(LastOf(h, n)) <= n
<1> DEFINE r == LastOf(h, n)
<1>1. h \in Seq(Message) /\ Len(h) \in Nat
      BY DEF Talk
<1>2. /\ r \in Seq(Message) /\ Len(r) = IF Len(h) > n THEN n ELSE Len(h)
      /\ \A i \in 1..Len(r) : r[i] = h[Len(h) - Len(r) + i]
      BY <1>1, LastOfEntries
<1> HIDE DEF r
<1>3. Len(r) \in Nat /\ Len(r) <= n /\ Len(r) <= Len(h)
      BY <1>1, <1>2
<1>4. ASSUME NEW i \in 1..(Len(r) - 1)
      PROVE  Follows(r[i], r[i + 1])
      <2> DEFINE j == Len(h) - Len(r) + i
      <2>1. j \in 1..(Len(h) - 1) /\ i \in 1..Len(r) /\ i + 1 \in 1..Len(r)
              /\ Len(h) - Len(r) + (i + 1) = j + 1
            BY <1>1, <1>3
      <2>2. r[i] = h[j]
            BY <1>2, <2>1
      <2>3. r[i + 1] = h[Len(h) - Len(r) + (i + 1)]
            BY <1>2, <2>1
      <2> HIDE DEF j
      <2> QED BY <2>1, <2>2, <2>3 DEF Talk, Chain
<1>5. Len(r) > 0 => r[Len(r)] = h[Len(h)] /\ Len(h) > 0
      <2> SUFFICES ASSUME Len(r) > 0
                   PROVE  r[Len(r)] = h[Len(h)] /\ Len(h) > 0
          OBVIOUS
      <2>1. Len(r) \in 1..Len(r) /\ Len(h) > 0 /\ Len(h) - Len(r) + Len(r) = Len(h)
            BY <1>1, <1>3
      <2>2. r[Len(r)] = h[Len(h) - Len(r) + Len(r)]
            BY <1>2, <2>1
      <2> QED BY <2>1, <2>2
<1>6. Talk(r, at, e)
      BY <1>2, <1>4, <1>5 DEF Talk, Chain, Ends
<1> QED BY <1>3, <1>6 DEF r

\* A turn that began in the epoch the conversation ended in goes on with it.
LEMMA TalkGoesOn ==
    ASSUME NEW h, NEW at \in Nat, NEW e \in Nat, NEW now \in Nat, Talk(h, at, e),
           NEW u \in Message, NEW a \in Message,
           u.role = "user" /\ u.at = at /\ u.from = e,
           a.role = "assistant" /\ a.at = at /\ a.to = now /\ u = [a EXCEPT !.role = "user"]
    PROVE  Talk(h \o <<u, a>>, at + 1, now)
<1> DEFINE q == h \o <<u, a>>
<1>1. h \in Seq(Message) /\ Len(h) \in Nat
      BY DEF Talk
<1>2. <<u, a>> \in Seq(Message) /\ Len(<<u, a>>) = 2
      OBVIOUS
<1>3. /\ q \in Seq(Message) /\ Len(q) = Len(h) + 2
      /\ \A i \in 1..(Len(h) + 2) : q[i] = IF i <= Len(h) THEN h[i] ELSE <<u, a>>[i - Len(h)]
      BY <1>1, <1>2, ConcatProperties
<1> HIDE DEF q
<1>4. /\ \A i \in 1..Len(h) : q[i] = h[i]
      /\ q[Len(h) + 1] = u /\ q[Len(h) + 2] = a
      <2>1. \A i \in 1..Len(h) : q[i] = h[i]
            BY <1>1, <1>3
      <2>2. q[Len(h) + 1] = u
            <3>1. /\ Len(h) + 1 \in 1..(Len(h) + 2) /\ ~(Len(h) + 1 <= Len(h))
                  /\ (Len(h) + 1) - Len(h) = 1
                  BY <1>1
            <3>2. q[Len(h) + 1] = <<u, a>>[(Len(h) + 1) - Len(h)]
                  BY <1>3, <3>1
            <3> QED BY <3>1, <3>2
      <2>3. q[Len(h) + 2] = a
            <3>1. /\ Len(h) + 2 \in 1..(Len(h) + 2) /\ ~(Len(h) + 2 <= Len(h))
                  /\ (Len(h) + 2) - Len(h) = 2
                  BY <1>1
            <3>2. q[Len(h) + 2] = <<u, a>>[(Len(h) + 2) - Len(h)]
                  BY <1>3, <3>1
            <3> QED BY <3>1, <3>2
      <2> QED BY <2>1, <2>2, <2>3
<1>5. ASSUME NEW i \in 1..(Len(q) - 1)
      PROVE  Follows(q[i], q[i + 1])
      <2>1. CASE i < Len(h)
            <3>1. i \in 1..(Len(h) - 1) /\ i \in 1..Len(h) /\ i + 1 \in 1..Len(h)
                  BY <1>1, <2>1
            <3> QED BY <1>4, <3>1 DEF Talk, Chain
      <2>2. CASE i = Len(h)
            <3>1. q[i] = h[Len(h)] /\ q[i + 1] = u /\ Len(h) > 0
                  BY <1>1, <1>4, <2>2
            <3>2. /\ h[Len(h)].role = "assistant" /\ h[Len(h)].at + 1 = at
                  /\ h[Len(h)].to = e
                  BY <3>1 DEF Talk, Ends
            <3> QED BY <3>1, <3>2 DEF Follows
      <2>3. CASE i = Len(h) + 1
            <3>1. q[i] = u /\ q[i + 1] = a
                  BY <1>1, <1>4, <2>3
            <3> QED BY <3>1 DEF Follows
      <2> QED BY <1>1, <1>3, <2>1, <2>2, <2>3
<1>6. Ends(q, at + 1, now)
      BY <1>1, <1>3, <1>4 DEF Ends
<1>7. Talk(q, at + 1, now)
      BY <1>3, <1>5, <1>6 DEF Talk, Chain
<1> QED BY <1>7 DEF q

LEMMA StoreTalks ==
    ASSUME LockInv, MemoryInv, NEW c \in Callers, StoreTurn(c)
    PROVE  MemoryInv'
<1> DEFINE s == SessionOf[c]
           m(role) == [role |-> role, turn |-> c, from |-> turn[c].from,
                       to |-> epoch[s], at |-> stored[s]]
           all == turn[c].history \o <<m("user"), m("assistant")>>
<1>1. /\ InTurn(c) /\ s \in Sessions /\ MaxHistory \in Nat
      /\ Talk(turn[c].history, stored[s], turn[c].from) /\ turn[c].from \in Nat
      /\ epoch[s] \in Nat /\ stored[s] \in Nat
      BY CallersAssumption DEF StoreTurn, At, InTurn, MemoryInv, Sessions
<1>2. /\ history' = [history EXCEPT ![s] = LastOf(all, MaxHistory)]
      /\ stored' = [stored EXCEPT ![s] = @ + 1] /\ UNCHANGED epoch
      BY DEF StoreTurn, Remember, Said
<1>3. Talk(all, stored[s] + 1, epoch[s])
      <2>1. m("user") \in Message /\ m("assistant") \in Message
            BY <1>1 DEF Message
      <2>2. m("user") = [m("assistant") EXCEPT !.role = "user"]
            OBVIOUS
      <2>3. PICK u, a : u = m("user") /\ a = m("assistant")
            OBVIOUS
      <2>4. /\ u \in Message /\ a \in Message /\ u = [a EXCEPT !.role = "user"]
            /\ u.role = "user" /\ u.at = stored[s] /\ u.from = turn[c].from
            /\ a.role = "assistant" /\ a.at = stored[s] /\ a.to = epoch[s]
            BY <2>1, <2>2, <2>3
      <2>5. Talk(turn[c].history \o <<u, a>>, stored[s] + 1, epoch[s])
            BY <1>1, <2>4, TalkGoesOn
      <2> QED BY <2>3, <2>5
<1> HIDE DEF all
<1>4. /\ Talk(LastOf(all, MaxHistory), stored[s] + 1, epoch[s])
      /\ Len(LastOf(all, MaxHistory)) <= MaxHistory
      BY <1>1, <1>3, EndOfTalk
<1>5. /\ DOMAIN history' = Sessions /\ epoch' \in [Sessions -> Nat]
      /\ stored' \in [Sessions -> Nat]
      /\ \A z \in Sessions : z # s => history'[z] = history[z] /\ stored'[z] = stored[z]
      /\ history'[s] = LastOf(all, MaxHistory) /\ stored'[s] = stored[s] + 1
      BY <1>1, <1>2 DEF MemoryInv
<1>6. ASSUME NEW z \in Sessions
      PROVE  Talk(history'[z], stored'[z], epoch'[z]) /\ Len(history'[z]) <= MaxHistory
      <2>1. CASE z = s
            BY <1>2, <1>4, <1>5, <2>1
      <2>2. CASE z # s
            BY <1>2, <1>5, <2>2 DEF MemoryInv
      <2> QED BY <2>1, <2>2
<1>7. ASSUME NEW d \in Callers, InTurn(d)'
      PROVE  /\ Talk(turn'[d].history, stored'[SessionOf[d]], turn'[d].from)
             /\ turn'[d].from \in Nat
      <2>1. CallerStep(c) /\ c \in Turns
            BY DEF CallerStep, StoreTurn
      <2>2. d # c
            <3>1. ~Begins(c)
                  BY DEF Begins, BeginTurn, StoreTurn, At
            <3>2. ~InTurn(c)'
                  BY <2>1, <3>1, TurnLasts
            <3> QED BY <1>7, <3>2
      <2>3. turn'[d] = turn[d] /\ locks'[d] = locks[d]
            BY <2>1, <2>2, OthersKeepTheirs DEF LockInv
      <2>4. InTurn(d)
            BY <1>7, <2>3 DEF InTurn
      <2>5. SessionOf[d] # s /\ SessionOf[d] \in Sessions
            BY <1>1, <2>2, <2>4, OneTurn DEF Sessions
      <2>6. stored'[SessionOf[d]] = stored[SessionOf[d]]
            BY <1>5, <2>5
      <2> QED BY <2>3, <2>4, <2>6 DEF MemoryInv
<1> QED BY <1>5, <1>6, <1>7 DEF MemoryInv

LEMMA TalkCases ==
    ASSUME [Next]_vars
    PROVE  \/ UNCHANGED <<history, epoch, stored>>
           \/ \E c \in Callers : StoreTurn(c)
           \/ \E r \in Resets : ResetSession(r)
<1>1. CASE \E c \in Callers : FindCached(c)
      BY <1>1 DEF FindCached
<1>2. ASSUME NEW c \in Callers, CallerStep(c), ~FindCached(c), ~StoreTurn(c)
      PROVE  UNCHANGED memoryVars
      <2>1. CASE EnterRequest(c) \/ EnterSession(c) \/ BeginTurn(c) \/ Leave(c)
            BY <2>1 DEF EnterRequest, EnterSession, BeginTurn, Leave
      <2>2. CASE Decide(c) \/ Peek(c) \/ Pop(c) \/ Resolve(c)
            BY <2>2 DEF Decide, Peek, Pop, Resolve, GuardedStep
      <2>3. CASE \/ Hear(c) \/ CannotAsk(c) \/ Call(c) \/ Retry(c) \/ ProviderFails(c)
                 \/ ModelReplies(c) \/ DenyProposal(c) \/ MapProposal(c)
            BY <2>3 DEF Hear, CannotAsk, Call, Retry, ProviderFails, ModelReplies,
                        DenyProposal, MapProposal, AgentStep
      <2>4. CASE StopBeforeEffect(c) \/ Execute(c) \/ Verify(c) \/ Conclude(c)
            BY <2>4 DEF StopBeforeEffect, Execute, Verify, Conclude, ExecutionStep
      <2> QED BY <1>2, <2>1, <2>2, <2>3, <2>4 DEF CallerStep
<1>3. CASE \E o \in Operators : ControlStep(o)
      BY <1>3 DEF ControlStep, ApplyControl, RejectControl, TriggerMonitor, OperatorStep,
             memoryVars
<1> QED BY <1>1, <1>2, <1>3 DEF Next, vars, Cancel, Expire, memoryVars

LEMMA MemoryNext ==
    ASSUME LockInv, MemoryInv, [Next]_vars
    PROVE  MemoryInv'
<1>1. CASE \E c \in Callers : StoreTurn(c)
      BY <1>1, StoreTalks
<1>2. CASE \E r \in Resets : ResetSession(r)
      <2>1. PICK r \in Resets : ResetSession(r)
            BY <1>2
      <2> DEFINE s == ResetOf[r]
      <2>2. /\ history' = [history EXCEPT ![s] = <<>>]
            /\ epoch' = [epoch EXCEPT ![s] = @ + 1] /\ UNCHANGED <<stored, turn, locks>>
            BY <2>1 DEF ResetSession, Forget, callerVars, lockVars
      <2>3. Len(<<>>) <= MaxHistory
            BY CallersAssumption
      <2>4. \A z \in Sessions : /\ Talk(history'[z], stored'[z], epoch'[z])
                                /\ Len(history'[z]) <= MaxHistory
            <3> TAKE z \in Sessions
            <3>1. CASE z = s
                  BY <2>2, <2>3, <3>1, EmptyTalk DEF MemoryInv
            <3>2. CASE z # s
                  BY <2>2, <3>2 DEF MemoryInv
            <3> QED BY <3>1, <3>2
      <2>5. /\ DOMAIN history = Sessions /\ epoch \in [Sessions -> Nat]
            /\ stored \in [Sessions -> Nat]
            BY DEF MemoryInv
      <2> HIDE DEF s
      <2>7. DOMAIN history' = Sessions
            BY <2>2, <2>5
      <2>8. epoch' \in [Sessions -> Nat]
            <3>1. epoch[s] + 1 \in Nat \/ s \notin Sessions
                  BY <2>5
            <3> QED BY <2>2, <2>5, <3>1
      <2>6. \A c \in Callers : InTurn(c)' => InTurn(c)
            BY <2>2 DEF InTurn
      <2> QED BY <2>2, <2>4, <2>5, <2>6, <2>7, <2>8 DEF MemoryInv
<1>3. CASE UNCHANGED <<history, epoch, stored>> /\ ~\E c \in Callers : StoreTurn(c)
      <2>1. \A d \in Callers : InTurn(d)' => \/ InTurn(d) /\ KeptTalk(d)
                                             \/ Begins(d)
            <3> TAKE d \in Callers
            <3>1. CASE ~\E c \in Callers : CallerStep(c)
                  BY <3>1, OthersStep DEF lockVars, InTurn, KeptTalk
            <3>2. CASE CallerStep(d)
                  BY <3>2, TurnLasts DEF InTurn
            <3>3. CASE \E c \in Callers : c # d /\ CallerStep(c)
                  <4>1. turn'[d] = turn[d] /\ locks'[d] = locks[d]
                        BY <3>3, OthersKeepTheirs DEF LockInv
                  <4> QED BY <4>1 DEF InTurn, KeptTalk
            <3> QED BY <3>1, <3>2, <3>3
      <2>2. ASSUME NEW d \in Callers, InTurn(d)'
            PROVE  /\ Talk(turn'[d].history, stored[SessionOf[d]], turn'[d].from)
                   /\ turn'[d].from \in Nat
            <3>1. CASE InTurn(d) /\ KeptTalk(d)
                  BY <3>1 DEF MemoryInv, KeptTalk
            <3>2. CASE Begins(d)
                  <4>1. SessionOf[d] \in Sessions
                        BY DEF Sessions
                  <4> QED BY <3>2, <4>1 DEF MemoryInv, Begins
            <3> QED BY <2>1, <2>2, <3>1, <3>2
      <2> QED BY <1>3, <2>2 DEF MemoryInv
<1> QED BY <1>1, <1>2, <1>3, TalkCases

LEMMA MemoryInit ==
    ASSUME Init
    PROVE  MemoryInv
<1>1. \A c \in Callers : turn[c].pc \in {"calling", "absent"}
      BY InitialFields
<1>2. \A c \in Callers : ~InTurn(c)
      BY <1>1 DEF InTurn, Asking, Acting
<1>3. Len(<<>>) <= MaxHistory
      BY CallersAssumption
<1> QED BY <1>2, <1>3, EmptyTalk DEF MemoryInv, Init, AgentInit

\* A session's history is the end of one conversation, however turns, resets
\* and repeated requests interleave.
THEOREM OneConversation == Spec => []MemoryIsContiguous
<1>1. Init => MemoryInv
      BY MemoryInit
<1>2. LockInv /\ MemoryInv /\ [Next]_vars => MemoryInv'
      BY MemoryNext
<1>3. MemoryInv => MemoryIsContiguous
      BY DEF MemoryInv, MemoryIsContiguous, Talk, Chain, Follows
<1> QED BY <1>1, <1>2, <1>3, LockInvariance, PTL DEF Spec
-----------------------------------------------------------------------------
(***************************************************************************)
(* A request id runs once.                                                 *)
(***************************************************************************)
LEMMA TurnComes ==
    ASSUME LockInv, [Next]_vars, NEW d \in Callers, InTurn(d)'
    PROVE  Begins(d) \/ (InTurn(d) /\ KeptTalk(d) /\ ~StoreTurn(d))
<1>1. CASE ~\E c \in Callers : CallerStep(c)
      BY <1>1, OthersStep DEF lockVars, InTurn, KeptTalk, CallerStep
<1>2. CASE CallerStep(d)
      BY <1>2, TurnLasts DEF InTurn
<1>3. CASE ~CallerStep(d) /\ \E c \in Callers : CallerStep(c)
      <2>1. turn'[d] = turn[d] /\ locks'[d] = locks[d]
            BY <1>3, OthersKeepTheirs DEF LockInv
      <2> QED BY <1>3, <2>1 DEF InTurn, KeptTalk, CallerStep
<1> QED BY <1>1, <1>2, <1>3

LEMMA TurnStays ==
    ASSUME LockInv, [Next]_vars, NEW d \in Callers, InTurn(d), ~Early(d)
    PROVE  InTurn(d)' \/ StoreTurn(d)
<1>1. CASE ~\E c \in Callers : CallerStep(c)
      BY <1>1, OthersStep DEF lockVars, InTurn
<1>2. CASE CallerStep(d)
      BY <1>2, TurnLasts DEF InTurn
<1>3. CASE ~CallerStep(d) /\ \E c \in Callers : CallerStep(c)
      <2>1. turn'[d] = turn[d] /\ locks'[d] = locks[d]
            BY <1>3, OthersKeepTheirs DEF LockInv
      <2> QED BY <2>1 DEF InTurn
<1> QED BY <1>1, <1>2, <1>3

LEMMA CacheKeeps ==
    ASSUME CacheInv, [Next]_vars
    PROVE  /\ \A k \in Keys : forgotten'[k] >= forgotten[k]
           /\ \A k \in CachedKeys \ CachedKeys' : forgotten'[k] = forgotten[k] + 1
           /\ \/ CachedKeys' \subseteq CachedKeys
              \/ \E c \in Callers : /\ StoreTurn(c) /\ Key(c) \in CachedKeys'
                                    /\ CachedKeys' \subseteq CachedKeys \cup {Key(c)}
           /\ \A c \in Callers : StoreTurn(c) => Key(c) \in CachedKeys'
<1>0. \A k \in Keys : forgotten[k] \in Nat
      BY DEF CacheInv
<1>1. CASE \E c \in Callers : StoreTurn(c)
      <2>1. ASSUME NEW c \in Callers, StoreTurn(c)
            PROVE  /\ \A k \in Keys : forgotten'[k] >= forgotten[k]
                   /\ \A k \in CachedKeys \ CachedKeys' : forgotten'[k] = forgotten[k] + 1
                   /\ Key(c) \in CachedKeys' /\ CachedKeys' \subseteq CachedKeys \cup {Key(c)}
            <3>1. Keep(c)
                  BY <2>1 DEF StoreTurn
            <3>2. Entry(c).key = Key(c)
                  BY DEF Entry
            <3> QED BY <3>1, <3>2, KeepKeeps DEF CachedKeys
      <2> QED BY <1>1, <2>1
<1>2. CASE ~\E c \in Callers : StoreTurn(c)
      <2>1. CASE UNCHANGED <<results, forgotten>>
            BY <1>0, <1>2, <2>1 DEF CachedKeys, Entries
      <2>2. CASE \E c \in Callers : FindCached(c)
            <3>1. Entries' = Entries /\ UNCHANGED forgotten
                  BY <2>2, FindKeeps
            <3> QED BY <1>0, <1>2, <3>1 DEF CachedKeys
      <2>3. CASE \E r \in Resets : ResetSession(r)
            <3>1. /\ Entries' \subseteq Entries
                  /\ \A k \in Keys : forgotten'[k] >= forgotten[k]
                  /\ \A k \in CachedKeys \ CachedKeys' : forgotten'[k] = forgotten[k] + 1
                  BY <2>3, ResetKeeps
            <3> QED BY <1>2, <3>1 DEF CachedKeys
      <2> QED BY <1>2, <2>1, <2>2, <2>3, CacheCases
<1> QED BY <1>1, <1>2

OfKey(k) == {c \in Turns : Key(c) = k}

\* A run of the request is in the cache, or on its way there.
Accounted(k) ==
    \/ k \in CachedKeys
    \/ \E c \in OfKey(k) : InTurn(c) /\ Mine(c) # {}

OnceInv ==
    /\ \A c \in Callers : InTurn(c) => Key(c) \notin CachedKeys
    /\ \A k \in Keys : Cardinality(EffectsBy(OfKey(k)))
                          <= forgotten[k] + (IF Accounted(k) THEN 1 ELSE 0)

\* A turn runs only a request without a cached answer.
LEMMA UncachedNext ==
    ASSUME LockInv, CacheInv, OnceInv, [Next]_vars, NEW c \in Callers, InTurn(c)'
    PROVE  Key(c) \notin CachedKeys'
<1>1. Begins(c) \/ (InTurn(c) /\ ~StoreTurn(c))
      BY TurnComes
<1>2. Key(c) \notin CachedKeys
      <2>1. CASE Begins(c)
            BY <2>1 DEF Begins, BeginTurn, Cached, CachedKeys, Entries
      <2> QED BY <1>1, <2>1 DEF OnceInv
<1>3. ASSUME NEW d \in Callers, StoreTurn(d), Key(c) = Key(d)
      PROVE  FALSE
      <2>1. CallerStep(d) /\ d \in Turns
            BY <1>3 DEF CallerStep, StoreTurn
      <2>2. InTurn(d)
            BY <1>3, <2>1, TurnLasts
      <2>3. SessionOf[c] = SessionOf[d]
            BY <1>3 DEF Key
      <2>4. ~Begins(c)
            <3>1. CASE c = d
                  BY <1>3, <3>1 DEF Begins, BeginTurn, StoreTurn, At
            <3>2. CASE c # d
                  <4>1. turn'[c] = turn[c] /\ locks'[c] = locks[c]
                        BY <2>1, <3>2, OthersKeepTheirs DEF LockInv
                  <4>2. turn[c].pc # "at_session"
                        BY <4>1 DEF InTurn, Asking, Acting
                  <4> QED BY <4>2 DEF Begins, BeginTurn, At
            <3> QED BY <3>1, <3>2
      <2>5. c = d
            BY <1>1, <2>2, <2>3, <2>4, OneTurn
      <2> QED BY <1>1, <1>3, <2>4, <2>5
<1> QED BY <1>2, <1>3, CacheKeeps

\* Room for a run stays until it is used.
LEMMA RoomStays ==
    ASSUME LockInv, LogInv, CacheInv, EffectInv, [Next]_vars, NEW k \in Keys,
           \A c \in Callers : Mine(c) \subseteq Mine(c)'
    PROVE  forgotten[k] + (IF Accounted(k) THEN 1 ELSE 0)
              <= forgotten'[k] + (IF Accounted(k)' THEN 1 ELSE 0)
<1>1. forgotten[k] \in Nat /\ forgotten'[k] \in Nat /\ forgotten'[k] >= forgotten[k]
      <2>1. CacheInv'
            BY CacheNext
      <2> QED BY <2>1, CacheKeeps DEF CacheInv
<1>2. CASE k \in CachedKeys /\ k \notin CachedKeys'
      <2>1. forgotten'[k] = forgotten[k] + 1
            BY <1>2, CacheKeeps
      <2> QED BY <1>1, <2>1
<1>3. CASE k \in CachedKeys'
      BY <1>1, <1>3 DEF Accounted
<1>4. ASSUME NEW c \in OfKey(k), InTurn(c), Mine(c) # {}
      PROVE  Accounted(k)'
      <2>1. c \in Callers /\ Key(c) = k
            BY DEF OfKey, Turns
      <2>2. ~Early(c)
            BY <1>4, <2>1 DEF EffectInv, CallerTold
      <2>3. InTurn(c)' \/ StoreTurn(c)
            BY <1>4, <2>1, <2>2, TurnStays
      <2>4. StoreTurn(c) => k \in CachedKeys'
            BY <2>1, CacheKeeps
      <2>5. Mine(c)' # {}
            BY <1>4, <2>1
      <2> QED BY <2>3, <2>4, <2>5 DEF Accounted
<1>5. Accounted(k) /\ k \notin CachedKeys => Accounted(k)'
      BY <1>4 DEF Accounted
<1>6. CASE Accounted(k)' \/ ~Accounted(k)
      BY <1>1, <1>6
<1> QED BY <1>2, <1>3, <1>5, <1>6

LEMMA MineGrows ==
    ASSUME LogInv, [Next]_vars, NEW c \in Callers
    PROVE  Mine(c) \subseteq Mine(c)'
<1>1. CASE ~\E d \in Callers : CallerStep(d)
      BY <1>1, OtherEffects DEF Mine
<1>2. ASSUME NEW d \in Callers, CallerStep(d)
      PROVE  Mine(c) \subseteq Mine(c)'
      <2>1. CASE UNCHANGED vehicleVars
            BY <2>1, EffectsStay DEF Mine
      <2>2. CASE ~UNCHANGED vehicleVars
            <3>1. EffectsBy({c})' = EffectsBy({c}) \cup (IF d \in {c} THEN {version'} ELSE {})
                  BY <1>2, <2>2, CallerEffects
            <3> QED BY <3>1 DEF Mine
      <2> QED BY <2>1, <2>2
<1> QED BY <1>1, <1>2

LEMMA OnceNext ==
    ASSUME RuntimeInv, OnceInv, [Next]_vars
    PROVE  OnceInv'
<1>1. ASSUME NEW c \in Callers, InTurn(c)'
      PROVE  Key(c) \notin CachedKeys'
      BY <1>1, UncachedNext DEF RuntimeInv
<1>2. ASSUME NEW k \in Keys
      PROVE  Cardinality(EffectsBy(OfKey(k))')
                <= forgotten'[k] + (IF Accounted(k)' THEN 1 ELSE 0)
      <2> DEFINE C == OfKey(k)
                 room == forgotten[k] + (IF Accounted(k) THEN 1 ELSE 0)
      <2>1. room <= forgotten'[k] + (IF Accounted(k)' THEN 1 ELSE 0)
            <3>1. \A c \in Callers : Mine(c) \subseteq Mine(c)'
                  BY MineGrows DEF RuntimeInv
            <3> QED BY <3>1, RoomStays DEF RuntimeInv
      <2>2. /\ IsFiniteSet(EffectsBy(C)) /\ Cardinality(EffectsBy(C)) \in Nat
            /\ Cardinality(EffectsBy(C)) <= room
            /\ EffectsBy(C) \subseteq 1..version
            BY EffectsFinite, FS_CardinalityType DEF RuntimeInv, OnceInv
      <2>3. forgotten[k] \in Nat /\ forgotten'[k] \in Nat
            <3>1. CacheInv'
                  BY CacheNext DEF RuntimeInv
            <3> QED BY <3>1 DEF RuntimeInv, CacheInv
      <2>4. CASE EffectsBy(C)' = EffectsBy(C)
            BY <2>1, <2>2, <2>3, <2>4
      <2>5. CASE \E c \in Callers : CallerStep(c) /\ ~UNCHANGED vehicleVars
            <3>1. PICK c \in Callers : CallerStep(c) /\ ~UNCHANGED vehicleVars
                  BY <2>5
            <3>2. /\ Execute(c)
                  /\ Handled(c, "COMPLETED", version')
                  /\ \A D : EffectsBy(D)' = EffectsBy(D) \cup (IF c \in D THEN {version'} ELSE {})
                  BY <3>1, CallerEffects DEF RuntimeInv
            <3>3. CASE c \notin C
                  <4>1. EffectsBy(C)' = EffectsBy(C)
                        BY <3>2, <3>3
                  <4> QED BY <2>4, <4>1
            <3>4. CASE c \in C
                  <4>1. c \in Turns /\ Key(c) = k
                        BY <3>4 DEF OfKey
                  <4>2. turn[c].pc = "at_action" /\ turn'[c].pc = "handled"
                        BY <3>2 DEF Execute, At, Handled, Fields, RuntimeInv, LockInv, TurnInv
                  <4>3. InTurn(c) /\ InTurn(c)'
                        BY <4>1, <4>2 DEF InTurn, Acting
                  <4>4. Mine(c) = {}
                        BY <4>2 DEF RuntimeInv, EffectInv, CallerTold, Early, Late, Done
                  <4>5. ~Accounted(k)
                        <5>1. k \notin CachedKeys
                              BY <4>1, <4>3 DEF OnceInv
                        <5>2. ASSUME NEW d \in C, InTurn(d)
                              PROVE  d = c
                              <6>1. d \in Callers /\ SessionOf[d] = SessionOf[c]
                                    BY <4>1 DEF OfKey, Turns, Key
                              <6> QED BY <4>3, <5>2, <6>1, OneTurn DEF RuntimeInv
                        <5> QED BY <4>4, <5>1, <5>2 DEF Accounted
                  <4>6. Accounted(k)'
                        <5>1. Mine(c)' # {}
                              BY <3>2 DEF Mine
                        <5> QED BY <3>4, <4>3, <5>1 DEF Accounted
                  <4>7. UNCHANGED forgotten
                        BY <3>2 DEF Execute, ExecutionStep, memoryVars
                  <4>8. EffectsBy(C)' = EffectsBy(C) \cup {version'}
                        BY <3>2, <3>4
                  <4>9. Cardinality(EffectsBy(C) \cup {version'}) <= Cardinality(EffectsBy(C)) + 1
                        <5> DEFINE E == EffectsBy(C)
                        <5>1. IsFiniteSet(E) /\ Cardinality(E) \in Nat
                              BY <2>2
                        <5> HIDE DEF E
                        <5>2. Cardinality(E \cup {version'}) \in {Cardinality(E), Cardinality(E) + 1}
                              BY <5>1, FS_AddElement
                        <5> QED BY <5>1, <5>2 DEF E
                  <4>10. Cardinality(EffectsBy(C))' <= Cardinality(EffectsBy(C)) + 1
                        BY <4>8, <4>9
                  <4>11. room = forgotten[k]
                        BY <2>3, <4>5
                  <4>12. forgotten'[k] + (IF Accounted(k)' THEN 1 ELSE 0) = forgotten[k] + 1
                        BY <2>3, <4>6, <4>7
                  <4>13. Cardinality(EffectsBy(C))' \in Nat
                        <5>1. LogInv'
                              BY LogNext DEF RuntimeInv
                        <5>2. IsFiniteSet(EffectsBy(C))'
                              BY <2>2, <4>8, FS_AddElement
                        <5> QED BY <5>2, FS_CardinalityType
                  <4> HIDE DEF C, room
                  <4>14. Cardinality(EffectsBy(C))' <= forgotten[k] + 1
                        BY <2>2, <2>3, <4>10, <4>11, <4>13
                  <4> QED BY <4>12, <4>14 DEF C
            <3> QED BY <3>3, <3>4
      <2>6. CASE ~\E c \in Callers : CallerStep(c)
            <3>1. C \in SUBSET Callers
                  BY DEF OfKey, Turns
            <3> HIDE DEF C
            <3>2. EffectsBy(C)' = EffectsBy(C)
                  BY <2>6, <3>1, OtherEffects DEF RuntimeInv
            <3> QED BY <2>4, <3>2
      <2>7. CASE UNCHANGED vehicleVars
            <3>1. EffectsBy(C)' = EffectsBy(C)
                  BY <2>7, EffectsStay
            <3> QED BY <2>4, <3>1
      <2> QED BY <2>5, <2>6, <2>7
<1> QED BY <1>1, <1>2 DEF OnceInv

LEMMA OnceInit ==
    ASSUME Init
    PROVE  OnceInv
<1>1. \A c \in Callers : turn[c].pc \in {"calling", "absent"}
      BY InitialFields
<1>2. \A c \in Callers : ~InTurn(c)
      BY <1>1 DEF InTurn, Asking, Acting
<1>3. events = <<>> /\ results = <<>> /\ forgotten = [k \in Keys |-> 0]
      BY DEF Init, VehicleInit, AgentInit
<1>4. \A C : EffectsBy(C) = {}
      BY <1>3 DEF EffectsBy
<1>5. \A C : Cardinality(EffectsBy(C)) = 0
      BY <1>4, FS_EmptySet
<1> QED BY <1>2, <1>3, <1>5 DEF OnceInv

\* However often and by however many threads a request id is repeated, it runs
\* once for each time its answer was not there to be found.
THEOREM RequestsRunOnce == Spec => []RequestRunsOnce
<1>1. Init => OnceInv
      BY OnceInit
<1>2. RuntimeInv /\ OnceInv /\ [Next]_vars => OnceInv'
      BY OnceNext
<1>3. RuntimeInv /\ OnceInv => RequestRunsOnce
      <2> SUFFICES ASSUME RuntimeInv, OnceInv, NEW k \in Keys
                   PROVE  Cardinality(EffectsBy({c \in Turns : Key(c) = k})) <= 1 + forgotten[k]
          BY DEF RequestRunsOnce
      <2>1. Cardinality(EffectsBy(OfKey(k))) <= forgotten[k] + (IF Accounted(k) THEN 1 ELSE 0)
            BY DEF OnceInv
      <2>2. forgotten[k] \in Nat /\ Cardinality(EffectsBy(OfKey(k))) \in Nat
            BY EffectsFinite, FS_CardinalityType DEF RuntimeInv, CacheInv
      <2> HIDE DEF Accounted
      <2>3. Cardinality(EffectsBy(OfKey(k))) <= 1 + forgotten[k]
            BY <2>1, <2>2
      <2> QED BY <2>3 DEF OfKey
<1> QED BY <1>1, <1>2, <1>3, RuntimeInvariance, PTL DEF Spec
-----------------------------------------------------------------------------
(***************************************************************************)
(* A confirmation is used once.                                            *)
(***************************************************************************)
Refusals == {"CONFIRMATION_REJECTED", "CONFIRMATION_EXPIRED"}
Answering(k) == {c \in Callers : Role[c] = "resolve" /\ Verdict[c].id = k}
Refused(c) == OwnAnswer(c) /\ turn[c].answer.code \in Refusals

\* The callers that use up, or used up, a confirmation they took.
Took(c) ==
    \/ turn[c].pc \in {"popped", "heard"} \cup Asking \cup Acting
    \/ Mine(c) # {} \/ Refused(c)
Taken(k) == {c \in Answering(k) : Took(c)}

ConfirmInv ==
    /\ opened \in [Confirmations -> Nat]
    /\ \A k \in Confirmations :
          Cardinality(Taken(k)) + (IF k \in DOMAIN pending THEN 1 ELSE 0) <= opened[k]

\* Only what was taken is refused.
LEMMA RefusesHow ==
    ASSUME LockInv, NEW c \in Callers, c \notin Turns, Role[c] # "decide", CallerStep(c),
           Refuses(c), turn'[c].answer.code \in Refusals
    PROVE  turn[c].pc \in {"popped", "heard"} \cup Asking
<1>1. turn[c].pc \in Phases(c)
      BY DEF LockInv, TurnInv
<1>2. turn[c].pc \in {"calling", "peeked", "popped", "heard"} \cup Asking
      BY <1>1 DEF Refuses, Early, Late, Done, Phases, Outdoors, Deciding, Acting
<1>3. ASSUME turn[c].pc \in {"calling", "peeked"}
      PROVE  FALSE
      <2>1. Peek(c) \/ Pop(c)
            BY <1>3 DEF CallerStep, EnterRequest, EnterSession, FindCached, BeginTurn,
                   StoreTurn, Leave, Decide, Resolve, Hear, CannotAsk, Call, Retry,
                   ProviderFails, GiveUp, ModelReplies, DenyProposal, MapProposal,
                   StopBeforeEffect, Execute, Verify, Conclude, At
      <2>2. turn'[c].pc = "returned"
            BY DEF Refuses
      <2>3. Answers(c, "VALUE_ERROR")
            <3>1. ASSUME NEW pc, NEW s, turn' = [turn EXCEPT ![c].pc = pc, ![c].seen = s]
                  PROVE  turn'[c].pc = pc
                  BY <3>1 DEF LockInv, TurnInv, Fields
            <3> QED BY <2>1, <2>2, <3>1 DEF Peek, Pop, TakePending
      <2>4. turn'[c].answer = Answer(c, "VALUE_ERROR", None)
            BY <2>3, AnswerAtFields DEF Answers, LockInv
      <2> QED BY <2>4 DEF Answer, Refusals
<1> QED BY <1>2, <1>3

LEMMA TakesHow ==
    ASSUME RuntimeInv, RuntimeInv', NEW c \in Callers, Role[c] = "resolve", CallerStep(c), Took(c)'
    PROVE  Took(c) \/ (Pop(c) /\ Verdict[c].id \in DOMAIN pending)
<1>1. Fate(c)
      BY Fates DEF LockInv, RuntimeInv
<1>2. c \notin Turns /\ turn[c].pc \in Phases(c)
      BY DEF LockInv, TurnInv, RuntimeInv, Turns
<1>3. Early(c)' => Mine(c)' = {}
      BY DEF RuntimeInv, EffectInv, CallerTold
<1>4. Early(c) => Mine(c) = {}
      BY DEF RuntimeInv, EffectInv, CallerTold
<1>5. turn'[c].pc # "handled" => Mine(c)' = Mine(c)
      BY EffectsStayUnlessHandled DEF RuntimeInv, Mine
<1>6. CASE Passes(c)
      BY <1>3, <1>6 DEF Passes, Took, Refused, OwnAnswer, Deciding
<1>7. CASE Begins(c) \/ Finds(c) \/ Stores(c)
      <2>1. turn[c].pc \in {"at_session", "answered"}
            BY <1>7 DEF Begins, BeginTurn, Finds, FindCached, Stores, StoreTurn, At
      <2> QED BY <1>2, <2>1 DEF Phases, Outdoors, Asking, Acting, Deciding
<1>8. CASE Allowed(c)
      BY <1>8 DEF Allowed, Took
<1>9. CASE Looks(c)
      <2>1. Early(c)' /\ turn'[c].answer = turn[c].answer
            BY <1>9, EarlyFates
      <2> QED BY <1>3, <1>9, <2>1 DEF Looks, Took, Refused, OwnAnswer, Asking, Acting
<1>10. CASE Maps(c)
      BY <1>10 DEF Maps, MapProposal, At, Took, Asking
<1>11. CASE Refuses(c)
      <2>1. turn'[c].pc = "returned" /\ Early(c)
            BY <1>2, <1>11 DEF Refuses
      <2>2. Mine(c)' = {}
            BY <1>4, <1>5, <2>1
      <2>3. turn'[c].answer.code \in Refusals
            BY <2>1, <2>2 DEF Took, Refused, Asking, Acting
      <2> QED BY <1>2, <1>11, <2>3, RefusesHow DEF RuntimeInv, Took
<1>12. CASE Stops(c) \/ Executes(c) \/ Verifies(c) \/ Concludes(c)
      BY <1>12 DEF Stops, StopBeforeEffect, Executes, Execute, Verifies, Verify,
                   Concludes, Conclude, At, Took, Acting
<1>13. CASE Leaves(c)
      <2>1. turn'[c].pc \in Late /\ turn'[c].answer = turn[c].answer
            BY <1>13 DEF Leaves
      <2>2. Mine(c)' = Mine(c) /\ turn'[c].pc \notin {"popped", "heard"} \cup Asking \cup Acting
            BY <1>5, <2>1 DEF Late, Asking, Acting
      <2> QED BY <2>1, <2>2 DEF Took, Refused, OwnAnswer
<1> QED BY <1>1, <1>6, <1>7, <1>8, <1>9, <1>10, <1>11, <1>12, <1>13 DEF Fate

\* Who does not move takes nothing.
LEMMA OthersTakeNothing ==
    ASSUME RuntimeInv, [Next]_vars, NEW d \in Callers, ~CallerStep(d)
    PROVE  Took(d)' <=> Took(d)
<1>1. turn'[d] = turn[d]
      <2>1. CASE ~\E c \in Callers : CallerStep(c)
            BY <2>1, OthersStep
      <2>2. CASE \E c \in Callers : c # d /\ CallerStep(c)
            BY <2>2, OthersKeepTheirs DEF RuntimeInv, LockInv
      <2> QED BY <2>1, <2>2
<1>2. Mine(d)' = Mine(d)
      <2>1. CASE ~\E c \in Callers : CallerStep(c)
            BY <2>1, OtherEffects DEF RuntimeInv, Mine
      <2>2. ASSUME NEW c \in Callers, c # d, CallerStep(c)
            PROVE  Mine(d)' = Mine(d)
            <3>1. CASE UNCHANGED vehicleVars
                  BY <3>1, EffectsStay DEF Mine
            <3>2. CASE ~UNCHANGED vehicleVars
                  <4>1. EffectsBy({d})' = EffectsBy({d}) \cup (IF c \in {d} THEN {version'} ELSE {})
                        BY <2>2, <3>2, CallerEffects DEF RuntimeInv
                  <4> QED BY <2>2, <4>1 DEF Mine
            <3> QED BY <3>1, <3>2
      <2> QED BY <2>1, <2>2
<1> QED BY <1>1, <1>2 DEF Took, Refused, OwnAnswer

LEMMA TakenFinite ==
    ASSUME NEW k
    PROVE  IsFiniteSet(Taken(k)) /\ Cardinality(Taken(k)) \in Nat
<1>1. Taken(k) \subseteq Callers
      BY DEF Taken, Answering
<1>2. IsFiniteSet(Taken(k))
      BY <1>1, CallersAssumption, FS_Subset
<1> QED BY <1>2, FS_CardinalityType

\* One more caller has taken k, or none.
LEMMA TakenBy ==
    ASSUME RuntimeInv, RuntimeInv', [Next]_vars, NEW k
    PROVE  \/ Cardinality(Taken(k)') <= Cardinality(Taken(k))
           \/ /\ Cardinality(Taken(k)') <= Cardinality(Taken(k)) + 1
              /\ \E c \in Answering(k) : Pop(c) /\ k \in DOMAIN pending
<1>1. IsFiniteSet(Taken(k)) /\ Cardinality(Taken(k)) \in Nat
      BY TakenFinite
<1>2. Taken(k)' = {c \in Answering(k) : Took(c)'}
      BY DEF Taken, Answering
<1>3. CASE Taken(k)' \subseteq Taken(k)
      <2> DEFINE P == Taken(k)'
                 T == Taken(k)
      <2> HIDE DEF P, T
      <2>1. P \subseteq T /\ IsFiniteSet(T) => Cardinality(P) <= Cardinality(T)
            BY FS_Subset
      <2> QED BY <1>1, <1>3, <2>1 DEF P, T
<1>4. ASSUME NEW c \in Answering(k), Took(c)', ~Took(c)
      PROVE  /\ Cardinality(Taken(k)') <= Cardinality(Taken(k)) + 1
             /\ Pop(c) /\ k \in DOMAIN pending
      <2>1. c \in Callers /\ Role[c] = "resolve" /\ Verdict[c].id = k
            BY DEF Answering
      <2>2. CallerStep(c)
            BY <1>4, <2>1, OthersTakeNothing
      <2>3. Pop(c) /\ k \in DOMAIN pending
            BY <1>4, <2>1, <2>2, TakesHow
      <2>4. ASSUME NEW d \in Answering(k), d # c, Took(d)'
            PROVE  Took(d)
            <3>1. d \in Callers
                  BY DEF Answering
            <3>2. turn'[d] = turn[d]
                  BY <2>1, <2>2, <2>4, <3>1, OthersKeepTheirs DEF RuntimeInv, LockInv
            <3>3. CASE ~CallerStep(d)
                  BY <2>4, <3>1, <3>3, OthersTakeNothing
            <3>4. CASE CallerStep(d)
                  <4>1. turn'[c] = turn[c]
                        BY <2>1, <2>4, <3>1, <3>4, OthersKeepTheirs DEF RuntimeInv, LockInv
                  <4>2. turn[c].pc = "peeked" /\ turn'[c].pc # "peeked"
                        <5>1. turn[c].pc = "peeked"
                              BY <2>3 DEF Pop, At
                        <5>2. turn'[c].pc = "popped"
                              BY <2>1, <2>3 DEF Pop, TakePending, RuntimeInv, LockInv, TurnInv, Fields
                        <5> QED BY <5>1, <5>2
                  <4> QED BY <4>1, <4>2
            <3> QED BY <3>3, <3>4
      <2> DEFINE P == Taken(k)'
                 T == Taken(k)
      <2>5. P \subseteq T \cup {c}
            BY <1>2, <2>4 DEF Taken
      <2> HIDE DEF P, T
      <2>6. IsFiniteSet(T) => /\ IsFiniteSet(T \cup {c})
                              /\ Cardinality(T \cup {c}) \in {Cardinality(T), Cardinality(T) + 1}
            BY FS_AddElement
      <2>7. IsFiniteSet(T \cup {c}) => Cardinality(P) <= Cardinality(T \cup {c}) /\ IsFiniteSet(P)
            BY <2>5, FS_Subset
      <2>8. IsFiniteSet(P) => Cardinality(P) \in Nat
            BY FS_CardinalityType
      <2>9. IsFiniteSet(T) /\ Cardinality(T) \in Nat
            BY <1>1 DEF T
      <2>10. Cardinality(P) <= Cardinality(T) + 1
            BY <2>6, <2>7, <2>8, <2>9
      <2> QED BY <2>3, <2>10 DEF P, T
<1>5. Taken(k)' \subseteq Taken(k) \/ \E c \in Answering(k) : Took(c)' /\ ~Took(c)
      BY <1>2 DEF Taken
<1> QED BY <1>3, <1>4, <1>5

LEMMA ConfirmNext ==
    ASSUME RuntimeInv, RuntimeInv', ConfirmInv, [Next]_vars
    PROVE  ConfirmInv'
<1> DEFINE waits(k) == IF k \in DOMAIN pending THEN 1 ELSE 0
<1>0. \A k : Cardinality(Taken(k)) \in Nat /\ Cardinality(Taken(k)') \in Nat
      <2> TAKE k
      <2>1. Cardinality(Taken(k)) \in Nat
            BY TakenFinite
      <2>2. Taken(k)' \subseteq Callers
            BY DEF Taken, Answering
      <2>3. IsFiniteSet(Taken(k)')
            BY <2>2, CallersAssumption, FS_Subset
      <2>4. Cardinality(Taken(k)') \in Nat
            BY <2>3, FS_CardinalityType
      <2> QED BY <2>1, <2>4
<1>1. \/ UNCHANGED <<pending, opened>>
      \/ \E c, d \in Callers : Registers(c, d) /\ Answers(c, "NEEDS_CONFIRMATION")
      \/ \E c \in Callers : Pop(c)
      <2>1. CASE ~\E c \in Callers : CallerStep(c)
            BY <2>1, OthersStep
      <2>2. CASE \E c \in Callers : CallerStep(c)
            BY <2>2, PendingCases DEF RuntimeInv, LockInv
      <2> QED BY <2>1, <2>2
<1>2. CASE \E c \in Callers : Pop(c)
      <2>1. PICK c \in Callers : Pop(c)
            BY <1>2
      <2>2. UNCHANGED opened /\ DOMAIN pending' = DOMAIN pending \ {Verdict[c].id}
            BY <2>1 DEF Pop, TakePending, Without
      <2>3. ASSUME NEW k \in Confirmations
            PROVE  Cardinality(Taken(k)') + waits(k)' <= opened[k]
            <3>1. Cardinality(Taken(k)) + waits(k) <= opened[k] /\ opened[k] \in Nat
                  BY DEF ConfirmInv
            <3>2. CASE Cardinality(Taken(k)') <= Cardinality(Taken(k))
                  <4>1. waits(k)' <= waits(k) /\ waits(k) \in Nat /\ waits(k)' \in Nat
                        BY <2>2
                  <4> HIDE DEF waits
                  <4> QED BY <1>0, <3>1, <3>2, <4>1
            <3>3. ASSUME Cardinality(Taken(k)') <= Cardinality(Taken(k)) + 1,
                         NEW d \in Answering(k), Pop(d), k \in DOMAIN pending
                  PROVE  Cardinality(Taken(k)') + waits(k)' <= opened[k]
                  <4>1. DOMAIN pending' = DOMAIN pending \ {k}
                        BY <3>3 DEF Pop, TakePending, Without, Answering
                  <4>2. waits(k)' = 0 /\ waits(k) = 1
                        BY <3>3, <4>1
                  <4> HIDE DEF waits
                  <4> QED BY <1>0, <3>1, <3>3, <4>2
            <3> QED BY <3>2, <3>3, TakenBy
      <2> QED BY <2>2, <2>3 DEF ConfirmInv
<1>3. ASSUME ~\E c \in Callers : Pop(c), NEW k
      PROVE  Cardinality(Taken(k)') <= Cardinality(Taken(k))
      BY <1>3, TakenBy DEF Answering
<1>4. CASE UNCHANGED <<pending, opened>> /\ ~\E c \in Callers : Pop(c)
      <2>1. ASSUME NEW k \in Confirmations
            PROVE  Cardinality(Taken(k)') + waits(k)' <= opened'[k]
            <3>1. Cardinality(Taken(k)) + waits(k) <= opened[k] /\ opened[k] \in Nat
                  BY DEF ConfirmInv
            <3>2. waits(k)' = waits(k) /\ waits(k) \in Nat
                  BY <1>4
            <3>3. Cardinality(Taken(k)') <= Cardinality(Taken(k))
                  BY <1>3, <1>4
            <3> HIDE DEF waits
            <3> QED BY <1>0, <1>4, <3>1, <3>2, <3>3
      <2> QED BY <1>4, <2>1 DEF ConfirmInv
<1>5. CASE /\ \E c, d \in Callers : Registers(c, d)
           /\ ~\E c \in Callers : Pop(c)
      <2>1. PICK c \in Callers, d \in Callers : Registers(c, d)
            BY <1>5
      <2>2. /\ Verdict[c].id \notin DOMAIN pending
            /\ DOMAIN pending' = DOMAIN pending \cup {Verdict[c].id}
            /\ opened' = [opened EXCEPT ![Verdict[c].id] = @ + 1]
            BY <2>1 DEF Registers, Put
      <2>3. ASSUME NEW k \in Confirmations
            PROVE  Cardinality(Taken(k)') + waits(k)' <= opened'[k] /\ opened'[k] \in Nat
            <3>1. Cardinality(Taken(k)) + waits(k) <= opened[k] /\ opened[k] \in Nat
                  BY DEF ConfirmInv
            <3>2. Cardinality(Taken(k)') <= Cardinality(Taken(k))
                  BY <1>3, <1>5
            <3>3. CASE k = Verdict[c].id
                  <4>1. waits(k) = 0 /\ waits(k)' = 1
                        BY <2>2, <3>3
                  <4>2. opened'[k] = opened[k] + 1
                        BY <2>2, <3>3 DEF ConfirmInv
                  <4> HIDE DEF waits
                  <4> QED BY <1>0, <3>1, <3>2, <4>1, <4>2
            <3>4. CASE k # Verdict[c].id
                  <4>1. waits(k)' = waits(k) /\ waits(k) \in Nat
                        BY <2>2, <3>4
                  <4>2. opened'[k] = opened[k]
                        BY <2>2, <3>4 DEF ConfirmInv
                  <4> HIDE DEF waits
                  <4> QED BY <1>0, <3>1, <3>2, <4>1, <4>2
            <3> QED BY <3>3, <3>4
      <2>4. opened' \in [Confirmations -> Nat]
            <3>1. DOMAIN opened' = Confirmations /\ opened' = [k \in Confirmations |-> opened'[k]]
                  BY <2>2 DEF ConfirmInv
            <3> QED BY <2>3, <3>1
      <2> QED BY <2>3, <2>4 DEF ConfirmInv
<1> QED BY <1>1, <1>2, <1>4, <1>5

LEMMA ConfirmInit ==
    ASSUME Init
    PROVE  ConfirmInv
<1>1. \A c \in Callers : turn[c].pc \in {"calling", "absent"} /\ turn[c].answer = None
      BY InitialFields
<1>2. events = <<>> /\ pending = <<>> /\ opened = [k \in Confirmations |-> 0]
      BY DEF Init, VehicleInit, AgentInit
<1>3. \A c \in Callers : ~Took(c)
      BY <1>1, <1>2 DEF Took, Mine, EffectsBy, Refused, OwnAnswer, Asking, Acting
<1>4. \A k : Taken(k) = {}
      BY <1>3 DEF Taken, Answering
<1>5. \A k : Cardinality(Taken(k)) = 0
      BY <1>4, FS_EmptySet
<1>6. DOMAIN pending = {}
      BY <1>2
<1> QED BY <1>2, <1>5, <1>6 DEF ConfirmInv

\* As many in a part of a set, and in another part, as in the set at most.
LEMMA TwoParts ==
    ASSUME NEW T, IsFiniteSet(T), NEW R \in SUBSET T, NEW S, NEW f \in Injection(S, T \ R)
    PROVE  IsFiniteSet(S) /\ Cardinality(S) + Cardinality(R) <= Cardinality(T)
<1>1. IsFiniteSet(R) /\ IsFiniteSet(T \ R)
      BY FS_Subset
<1>2. IsFiniteSet(S) /\ Cardinality(S) <= Cardinality(T \ R)
      BY <1>1, FS_Injection
<1>3. Cardinality((T \ R) \cup R) = Cardinality(T \ R) + Cardinality(R) - Cardinality((T \ R) \cap R)
      BY <1>1, FS_Union
<1>4. (T \ R) \cup R = T /\ (T \ R) \cap R = {}
      OBVIOUS
<1>5. Cardinality((T \ R) \cap R) = 0
      BY <1>4, FS_EmptySet
<1>6. Cardinality(S) \in Nat /\ Cardinality(R) \in Nat /\ Cardinality(T \ R) \in Nat
      BY <1>1, <1>2, FS_CardinalityType
<1>7. Cardinality(T) = Cardinality(T \ R) + Cardinality(R) - 0
      BY <1>3, <1>4, <1>5
<1> QED BY <1>2, <1>6, <1>7

LEMMA TakenBounds ==
    ASSUME EffectInv, NEW k
    PROVE  LET refused == {c \in Answering(k) : Refused(c)} IN
           Cardinality(EffectsBy(Answering(k))) + Cardinality(refused) <= Cardinality(Taken(k))
<1> DEFINE refused == {c \in Answering(k) : Refused(c)}
           S == EffectsBy(Answering(k))
           f == [i \in S |-> events[i].by.caller]
<1>1. ASSUME NEW i \in S
      PROVE  /\ f[i] \in Taken(k) \ refused
             /\ i \in Mine(f[i]) /\ \A j \in Mine(f[i]) : j = i
      <2>1. f[i] \in Answering(k) /\ i \in Mine(f[i])
            BY DEF EffectsBy, Mine
      <2>2. CallerTold(f[i])
            BY <2>1 DEF EffectInv, Answering
      <2>3. \A j \in Mine(f[i]) : j = i
            <3>1. Mine(f[i]) = {} \/ \E j \in Nat : Mine(f[i]) = {j}
                  BY <2>2 DEF CallerTold, Told, Early
            <3> QED BY <2>1, <3>1
      <2>4. ~Refused(f[i])
            BY <2>1, <2>2 DEF CallerTold, Told, Refused, Refusals, OwnAnswer
      <2> QED BY <2>1, <2>3, <2>4 DEF Taken, Took
<1>2. f \in Injection(S, Taken(k) \ refused)
      <2>1. f \in [S -> Taken(k) \ refused]
            BY <1>1
      <2>2. \A i, j \in S : f[i] = f[j] => i = j
            BY <1>1
      <2> QED BY <2>1, <2>2 DEF Injection, IsInjective
<1>3. refused \subseteq Taken(k)
      BY DEF Taken, Took
<1>4. IsFiniteSet(Taken(k))
      BY TakenFinite
<1> HIDE DEF refused, S, f
<1>5. Cardinality(S) + Cardinality(refused) <= Cardinality(Taken(k))
      BY <1>2, <1>3, <1>4, TwoParts
<1> QED BY <1>5 DEF S, refused

\* Whoever answers a confirmation at the same time, each registration of it
\* leads to one change or one refusal at most.
THEOREM ConfirmationsAreUsedOnce == Spec => []ConfirmedOnce
<1>1. Init => ConfirmInv
      BY ConfirmInit
<1>2. RuntimeInv /\ RuntimeInv' /\ ConfirmInv /\ [Next]_vars => ConfirmInv'
      BY ConfirmNext
<1>3. RuntimeInv /\ ConfirmInv => ConfirmedOnce
      <2> SUFFICES ASSUME RuntimeInv, ConfirmInv, NEW k \in Confirmations
                   PROVE  Cardinality(EffectsBy(Answering(k)))
                            + Cardinality({c \in Answering(k) : Refused(c)}) <= opened[k]
          BY DEF ConfirmedOnce, Answering, Refused, Refusals
      <2>1. Cardinality(EffectsBy(Answering(k)))
              + Cardinality({c \in Answering(k) : Refused(c)}) <= Cardinality(Taken(k))
            BY TakenBounds DEF RuntimeInv
      <2>2. /\ Cardinality(Taken(k)) + (IF k \in DOMAIN pending THEN 1 ELSE 0) <= opened[k]
            /\ opened[k] \in Nat
            BY DEF ConfirmInv
      <2>3. Cardinality(Taken(k)) \in Nat
            BY TakenFinite
      <2>4. IsFiniteSet(EffectsBy(Answering(k))) /\ IsFiniteSet({c \in Answering(k) : Refused(c)})
            <3>1. {c \in Answering(k) : Refused(c)} \subseteq Callers
                  BY DEF Answering
            <3> QED BY <3>1, EffectsFinite, FS_Subset, CallersAssumption DEF RuntimeInv
      <2>5. /\ Cardinality(EffectsBy(Answering(k))) \in Nat
            /\ Cardinality({c \in Answering(k) : Refused(c)}) \in Nat
            BY <2>4, FS_CardinalityType
      <2> QED BY <2>1, <2>2, <2>3, <2>5
<1> QED BY <1>1, <1>2, <1>3, RuntimeInvariance, PTL DEF Spec
-----------------------------------------------------------------------------
(***************************************************************************)
(* The types.                                                              *)
(***************************************************************************)
CallInv ==
    /\ \A c \in Callers : /\ turn[c].attempt \in 0..2 /\ turn[c].provider \in 1..2
                          /\ turn[c].provider = 1 \/ turn[c].provider <= Tried
    /\ \A p \in DOMAIN line : line[p] \in Callers \cup {None}

\* A step leaves a caller's provider and attempt, or sets them within bounds.
LEMMA CallSteps ==
    ASSUME LockInv, CallInv, NEW c \in Callers, CallerStep(c)
    PROVE  /\ turn'[c].attempt \in 0..2 /\ turn'[c].provider \in 1..2
           /\ turn'[c].provider = 1 \/ turn'[c].provider <= Tried
<1> DEFINE Good == /\ turn'[c].attempt \in 0..2 /\ turn'[c].provider \in 1..2
                   /\ turn'[c].provider = 1 \/ turn'[c].provider <= Tried
<1>0. /\ DOMAIN turn = Callers /\ DOMAIN turn[c] = Fields
      /\ turn[c].attempt \in 0..2 /\ turn[c].provider \in 1..2
      /\ turn[c].provider = 1 \/ turn[c].provider <= Tried
      BY DEF LockInv, TurnInv, CallInv
<1>1. ASSUME NEW code, NEW v, NEW pc, AnswerAt(c, code, v, pc)
      PROVE  Good
      <2> DEFINE u == Answered(turn[c], c, code, v, pc)
      <2>1. turn' = [turn EXCEPT ![c] = u] /\ u.provider = 1 /\ u.attempt = 0
            BY <1>0, <1>1, AnswerSets, AnsweredFields
      <2> HIDE DEF u
      <2>2. turn'[c].provider = 1 /\ turn'[c].attempt = 0
            BY <1>0, <2>1
      <2> QED BY <2>2
<1>2. ASSUME NEW code, Answers(c, code)
      PROVE  Good
      BY <1>1, <1>2 DEF Answers
<1>3. CASE turn'[c].attempt = turn[c].attempt /\ turn'[c].provider = turn[c].provider
      BY <1>0, <1>3
<1>4. CASE EnterRequest(c) \/ EnterSession(c) \/ FindCached(c) \/ StoreTurn(c) \/ Leave(c)
      <2>1. CASE EnterRequest(c) \/ EnterSession(c) \/ Leave(c)
            BY <1>0, <1>3, <2>1 DEF EnterRequest, EnterSession, Leave, Goes, Fields
      <2>2. CASE FindCached(c)
            <3>1. PICK a : turn' = [turn EXCEPT ![c].pc = "left", ![c].answer = a]
                  BY <2>2 DEF FindCached
            <3> QED BY <1>0, <1>3, <3>1 DEF Fields
      <2>3. CASE StoreTurn(c)
            BY <1>0, <1>3, <2>3 DEF StoreTurn, Fields
      <2> QED BY <1>4, <2>1, <2>2, <2>3
<1>5. CASE BeginTurn(c)
      <2> DEFINE t == [turn[c] EXCEPT !.history = history[SessionOf[c]],
                                      !.from = epoch[SessionOf[c]]]
      <2>1. turn'[c] = Asks(t)
            BY <1>0, <1>5 DEF BeginTurn, Fields
      <2>2. t.attempt = turn[c].attempt /\ t.provider = turn[c].provider /\ DOMAIN t = Fields
            BY <1>0 DEF Fields
      <2> HIDE DEF t
      <2>3. Asks(t).attempt = t.attempt /\ Asks(t).provider = t.provider
            BY <2>2 DEF Asks, Fields
      <2> QED BY <1>3, <2>1, <2>2, <2>3
<1>6. CASE Hear(c)
      <2>1. CASE turn' = [turn EXCEPT ![c] = Asks(@)]
            <3>1. turn'[c] = Asks(turn[c])
                  BY <1>0, <2>1
            <3>2. /\ Asks(turn[c]).attempt = turn[c].attempt
                  /\ Asks(turn[c]).provider = turn[c].provider
                  BY <1>0 DEF Asks, Fields
            <3> QED BY <1>3, <3>1, <3>2
      <2> QED BY <1>2, <1>6, <2>1 DEF Hear
<1>7. ASSUME NEW d, HandleDecision(c, d)
      PROVE  Good
      <2>1. CASE turn' = [turn EXCEPT ![c].pc = "heard", ![c].for = d,
                                      ![c].hint = Verdict[c].intent]
            BY <1>0, <1>3, <2>1 DEF Fields
      <2> QED BY <1>2, <1>7, <2>1 DEF HandleDecision, RegisterConfirmation
<1>8. CASE Decide(c) \/ Resolve(c)
      BY <1>2, <1>7, <1>8 DEF Decide, Resolve
<1>9. CASE Peek(c) \/ Pop(c)
      <2>1. ASSUME NEW pc, NEW s, turn' = [turn EXCEPT ![c].pc = pc, ![c].seen = s]
            PROVE  Good
            BY <1>0, <1>3, <2>1 DEF Fields
      <2> QED BY <1>2, <1>9, <2>1 DEF Peek, Pop, TakePending
<1>10. CASE CannotAsk(c) \/ DenyProposal(c)
      BY <1>2, <1>10 DEF CannotAsk, DenyProposal
<1>11. CASE Call(c) \/ Retry(c)
      <2>1. turn'[c].attempt \in {1, 2} /\ turn'[c].provider = turn[c].provider
            BY <1>0, <1>11 DEF Call, Retry, Fields
      <2> QED BY <1>0, <2>1
<1>12. CASE ProviderFails(c)
      <2>1. CASE /\ turn[c].provider < Tried
                 /\ turn' = [turn EXCEPT ![c].pc = "asking", ![c].provider = @ + 1]
            <3>1. turn'[c].attempt = turn[c].attempt /\ turn'[c].provider = turn[c].provider + 1
                  BY <1>0, <2>1 DEF Fields
            <3>2. Tried \in Nat /\ Tried <= 2
                  BY CallersAssumption DEF Tried
            <3> QED BY <1>0, <2>1, <3>1, <3>2
      <2> QED BY <1>2, <1>12, <2>1 DEF ProviderFails, GiveUp, NextProvider
<1>13. CASE ModelReplies(c)
      <2>1. PICK r : turn' = [turn EXCEPT ![c].pc = "proposed", ![c].reply = r,
                                          ![c].provider = 1, ![c].attempt = 0]
            BY <1>13 DEF ModelReplies
      <2>2. turn'[c].attempt = 0 /\ turn'[c].provider = 1
            BY <1>0, <2>1 DEF Fields
      <2> QED BY <2>2
<1>14. CASE MapProposal(c)
      BY <1>0, <1>3, <1>14 DEF MapProposal, Fields
<1>15. CASE StopBeforeEffect(c) \/ Conclude(c)
      BY <1>1, <1>15 DEF StopBeforeEffect, Conclude
<1>16. CASE Execute(c)
      BY <1>0, <1>3, <1>16 DEF Execute, Handled, Fields
<1>17. CASE Verify(c)
      BY <1>0, <1>3, <1>17 DEF Verify, Fields
<1> QED BY <1>4, <1>5, <1>6, <1>8, <1>9, <1>10, <1>11, <1>12, <1>13, <1>14, <1>15,
           <1>16, <1>17 DEF CallerStep

LEMMA CallerLeavesLine ==
    ASSUME NEW c \in Callers, CallerStep(c), ~Call(c), ~ModelReplies(c), ~ProviderFails(c)
    PROVE  UNCHANGED line
BY DEF CallerStep, EnterRequest, EnterSession, FindCached, BeginTurn, StoreTurn, Leave,
       Decide, Peek, Pop, Resolve, GuardedStep, Hear, CannotAsk, Retry, DenyProposal,
       MapProposal, StopBeforeEffect, Execute, Verify, Conclude, ExecutionStep

LEMMA LineCases ==
    ASSUME [Next]_vars
    PROVE  \/ UNCHANGED line
           \/ \E c \in Callers : Call(c) \/ ModelReplies(c) \/ ProviderFails(c)
<1>1. CASE \E o \in Operators : ControlStep(o)
      BY <1>1 DEF ControlStep, ApplyControl, RejectControl, TriggerMonitor, OperatorStep
<1> QED BY <1>1, CallerLeavesLine DEF Next, vars, Cancel, ResetSession, Expire

LEMMA CallNext ==
    ASSUME LockInv, CallInv, [Next]_vars
    PROVE  CallInv'
<1>1. ASSUME NEW d \in Callers
      PROVE  /\ turn'[d].attempt \in 0..2 /\ turn'[d].provider \in 1..2
             /\ turn'[d].provider = 1 \/ turn'[d].provider <= Tried
      <2>1. CASE CallerStep(d)
            BY <2>1, CallSteps
      <2>2. CASE ~CallerStep(d)
            <3>1. turn'[d] = turn[d]
                  BY <2>2, OthersStep, OthersKeepTheirs DEF LockInv
            <3> QED BY <3>1 DEF CallInv
      <2> QED BY <2>1, <2>2
<1>2. \A p \in DOMAIN line' : line'[p] \in Callers \cup {None}
      <2>1. CASE UNCHANGED line
            BY <2>1 DEF CallInv
      <2>2. CASE \E p, v : line' = [line EXCEPT ![p] = v] /\ v \in Callers \cup {None}
            BY <2>2 DEF CallInv
      <2>3. ASSUME NEW c \in Callers, Call(c) \/ ModelReplies(c) \/ ProviderFails(c)
            PROVE  \E p, v : line' = [line EXCEPT ![p] = v] /\ v \in Callers \cup {None}
            BY <2>3 DEF Call, ModelReplies, ProviderFails, GiveUp, HangUp
      <2> QED BY <2>1, <2>2, <2>3, LineCases
<1>3. UNCHANGED Tried
      BY DEF Tried
<1> QED BY <1>1, <1>2, <1>3 DEF CallInv

LEMMA CallInit ==
    ASSUME Init
    PROVE  CallInv
<1>1. \A c \in Callers : turn[c].attempt = 0 /\ turn[c].provider = 1
      BY InitialFields
<1> QED BY <1>1 DEF CallInv, Init, AgentInit

LEMMA Types ==
    ASSUME RuntimeInv, MemoryInv, CallInv
    PROVE  TypeOK
<1>1. Coherent(state) /\ version \in 0..MaxVersion
      <2>1. CASE events = <<>>
            BY <2>1, DefaultCoherent DEF RuntimeInv, LogInv, LogTellsState
      <2>2. CASE events # <<>>
            <3>1. PICK S : events \in Seq(S)
                  BY DEF RuntimeInv, LogInv
            <3>2. Len(events) \in DOMAIN events
                  BY <2>2, <3>1
            <3>3. state = events[Len(events)].snapshot
                  BY <2>2 DEF RuntimeInv, LogInv, LogTellsState, Last
            <3> QED BY <3>2, <3>3 DEF RuntimeInv, LogInv, LogTellsState
      <2> QED BY <2>1, <2>2 DEF RuntimeInv, LogInv
<1>2. \A key \in DOMAIN table : table[key].users \in 1..Cardinality(Callers)
      <2> TAKE key \in DOMAIN table
      <2>1. table[key].users = Cardinality(Users(key)) /\ Users(key) # {}
            BY DEF RuntimeInv, LockInv, TableInv
      <2>2. Users(key) \subseteq Callers /\ IsFiniteSet(Callers)
            BY CallersAssumption DEF Users
      <2>3. IsFiniteSet(Users(key)) /\ Cardinality(Users(key)) <= Cardinality(Callers)
            BY <2>2, FS_Subset
      <2>4. Cardinality(Users(key)) \in Nat /\ Cardinality(Callers) \in Nat
            BY <2>2, <2>3, FS_CardinalityType
      <2>5. Cardinality(Users(key)) # 0
            BY <2>1, <2>3, FS_EmptySet
      <2> QED BY <2>1, <2>3, <2>4, <2>5
<1>3. Len(results) <= MaxCached
      BY DEF RuntimeInv, CacheInv
<1>4. \A s \in Sessions : Len(history[s]) <= MaxHistory
      BY DEF MemoryInv
<1>5. /\ \A k \in DOMAIN pending : pending[k].of \in Callers
      /\ \A c \in Callers : turn[c].for \in Callers
      BY DEF RuntimeInv, LockInv, TurnInv
<1> QED BY <1>1, <1>2, <1>3, <1>4, <1>5 DEF TypeOK, CallInv

\* The types, the bounds of the cache and of each session's history, the count
\* of every lock table's entry, and the coherence of the vehicle's state.
THEOREM TypesHold == Spec => []TypeOK
<1>1. Init => MemoryInv /\ CallInv
      BY MemoryInit, CallInit
<1>2. LockInv /\ MemoryInv /\ CallInv /\ [Next]_vars => MemoryInv' /\ CallInv'
      BY MemoryNext, CallNext
<1>3. RuntimeInv => LockInv
      BY DEF RuntimeInv
<1>4. RuntimeInv /\ MemoryInv /\ CallInv => TypeOK
      BY Types
<1> QED BY <1>1, <1>2, <1>3, <1>4, RuntimeInvariance, PTL DEF Spec
-----------------------------------------------------------------------------
(***************************************************************************)
(* Nobody waits in a circle.                                               *)
(***************************************************************************)
\* The lock a caller waits for is held by somebody.
WaitsForLock(c) ==
    /\ turn[c].pc \in {"at_request", "at_session", "at_action"}
    /\ \E h \in held : h.lock = Last(locks[c])

\* The transport of the provider it would call is serving somebody.
WaitsForModel(c) ==
    /\ turn[c].pc = "asking" /\ turn[c].for \notin Unaskable
    /\ line[Providers[turn[c].provider]] # None

Waits(c) == WaitsForLock(c) \/ WaitsForModel(c)

\* These are all the places where a caller's step depends on another caller.
\* Whenever somebody waits there, somebody in a call waits nowhere.
SomebodyGoesOn ==
    \A c \in Callers : Waits(c) =>
        \E d \in Callers : turn[d].pc \notin Outdoors /\ ~Waits(d)

\* A transport serves a caller that is in a call to it.
LineInv ==
    /\ DOMAIN line = ToSet(Providers)
    /\ \A p \in DOMAIN line : line[p] # None =>
          /\ line[p] \in Callers /\ turn[line[p]].pc = "called"
          /\ Providers[turn[line[p]].provider] = p

\* Whoever is in a call stays in it, or hangs up.
LEMMA CalledStays ==
    ASSUME LockInv, NEW c \in Callers, CallerStep(c), turn[c].pc = "called",
           UNCHANGED line
    PROVE  \/ turn'[c].pc = "called" /\ turn'[c].provider = turn[c].provider
           \/ ModelReplies(c) \/ ProviderFails(c)
<1>0. DOMAIN turn = Callers /\ DOMAIN turn[c] = Fields
      BY DEF LockInv, TurnInv
<1>1. CASE Retry(c)
      BY <1>0, <1>1 DEF Retry, Fields
<1> QED BY <1>1 DEF CallerStep, At, EnterRequest, EnterSession, FindCached, BeginTurn,
             StoreTurn, Leave, Decide, Peek, Pop, Resolve, Hear, CannotAsk, Call,
             DenyProposal, MapProposal, StopBeforeEffect, Execute, Verify, Conclude

LEMMA LineNext ==
    ASSUME LockInv, LineInv, [Next]_vars
    PROVE  LineInv'
<1>0. DOMAIN turn = Callers /\ \A c \in Callers : DOMAIN turn[c] = Fields
      BY DEF LockInv, TurnInv
<1>1. CASE ~\E c \in Callers : CallerStep(c)
      <2>1. UNCHANGED line
            BY <1>1, LineCases DEF CallerStep
      <2>2. UNCHANGED turn
            BY <1>1, OthersStep
      <2> QED BY <2>1, <2>2 DEF LineInv
<1>2. ASSUME NEW c \in Callers, CallerStep(c)
      PROVE  LineInv'
      <2>1. \A d \in Callers \ {c} : turn'[d] = turn[d]
            BY <1>2, OthersKeepTheirs DEF LockInv
      <2>2. CASE Call(c)
            <3> DEFINE q == Providers[turn[c].provider]
            <3>1. line' = [line EXCEPT ![q] = c] /\ turn[c].pc = "asking"
                  BY <2>2 DEF Call, At
            <3>2. turn'[c].pc = "called" /\ turn'[c].provider = turn[c].provider
                  BY <1>0, <2>2 DEF Call, Fields
            <3>3. ASSUME NEW p \in DOMAIN line', line'[p] # None, p # q
                  PROVE  /\ line'[p] \in Callers /\ turn'[line'[p]].pc = "called"
                         /\ Providers[turn'[line'[p]].provider] = p
                  <4>1. p \in DOMAIN line /\ line'[p] = line[p] /\ line[p] # c
                        BY <3>1, <3>3 DEF LineInv
                  <4> QED BY <2>1, <3>3, <4>1 DEF LineInv
            <3>4. q \in DOMAIN line => line'[q] = c
                  BY <3>1
            <3> QED BY <3>1, <3>2, <3>3, <3>4 DEF LineInv
      <2>3. CASE ModelReplies(c) \/ ProviderFails(c)
            <3> DEFINE q == Providers[turn[c].provider]
            <3>1. line' = [line EXCEPT ![q] = None] /\ turn[c].pc = "called"
                  BY <2>3 DEF ModelReplies, ProviderFails, GiveUp, HangUp, Called, At
            <3>2. ASSUME NEW p \in DOMAIN line', line'[p] # None
                  PROVE  /\ line'[p] \in Callers /\ turn'[line'[p]].pc = "called"
                         /\ Providers[turn'[line'[p]].provider] = p
                  <4>1. p \in DOMAIN line /\ line'[p] = line[p] /\ p # q
                        BY <3>1, <3>2
                  <4>2. line[p] # c
                        BY <3>2, <4>1 DEF LineInv
                  <4> QED BY <2>1, <3>2, <4>1, <4>2 DEF LineInv
            <3> QED BY <3>1, <3>2 DEF LineInv
      <2>4. CASE ~Call(c) /\ ~ModelReplies(c) /\ ~ProviderFails(c)
            <3>1. UNCHANGED line
                  BY <1>2, <2>4, CallerLeavesLine
            <3>2. turn[c].pc = "called" => /\ turn'[c].pc = "called"
                                           /\ turn'[c].provider = turn[c].provider
                  BY <1>2, <2>4, <3>1, CalledStays
            <3> QED BY <2>1, <3>1, <3>2 DEF LineInv
      <2> QED BY <2>2, <2>3, <2>4
<1> QED BY <1>1, <1>2

LEMMA LineInit ==
    ASSUME Init
    PROVE  LineInv
BY DEF LineInv, Init, AgentInit

\* Who is awaited: somebody else holds the lock, as one of its own.
LEMMA Holder ==
    ASSUME LockInv, NEW c \in Callers, WaitsForLock(c)
    PROVE  /\ Len(locks[c]) \in 1..(Outer(c) + 1)
           /\ \E d \in Callers : \E m \in 1..Holds(d) :
                 Path(d)[m] = Path(c)[Len(locks[c])]
<1>1. /\ locks[c] \in Seq(Locks) /\ Len(locks[c]) \in Depths(c, turn[c].pc)
      /\ turn[c].pc \in {"at_request", "at_session", "at_action"}
      BY DEF LockInv, StackInv, WaitsForLock
<1>2. Len(locks[c]) \in 1..(Outer(c) + 1)
      <2>1. Len(locks[c]) \in 0..(Outer(c) + 1) /\ Outer(c) \in {0, 2}
            BY <1>1 DEF Depths, Outer
      <2>2. Len(locks[c]) \in {1, 2, Outer(c) + 1}
            BY <1>1 DEF Depths, Acting
      <2>3. \A o \in {0, 2} : \A n \in 0..(o + 1) : n \in {1, 2, o + 1} => n \in 1..(o + 1)
            OBVIOUS
      <2> QED BY <2>1, <2>2, <2>3
<1>3. Last(locks[c]) = locks[c][Len(locks[c])]
      BY DEF Last
<1>4. PICK d \in Callers : \E m \in 1..Holds(d) : locks[d][m] = Last(locks[c])
      <2>1. PICK h \in held : h.lock = Last(locks[c])
            BY DEF WaitsForLock
      <2>2. PICK d \in Callers : \E m \in 1..Holds(d) : h = Hold(locks[d][m], d)
            BY DEF LockInv, HeldInv
      <2> QED BY <2>1, <2>2, HoldFields
<1>5. \A m \in 1..Holds(d) : m \in 1..Len(locks[d])
      BY LengthsAreNat DEF LockInv, Holds
<1> QED BY <1>2, <1>3, <1>4, <1>5 DEF LockInv, StackInv

\* Where in its path a caller is that holds the key another one waits for.
LEMMA HolderIsDeeper ==
    ASSUME LockInv, NEW c \in Callers, WaitsForLock(c)
    PROVE  \E d \in Callers :
              /\ turn[d].pc \notin Outdoors
              /\ turn[d].pc # "at_request"
              /\ turn[c].pc = "at_session" => turn[d].pc # "at_session"
              /\ turn[c].pc = "at_action" =>
                    turn[d].pc \notin {"at_session", "at_action", "asking"}
<1>1. /\ Len(locks[c]) \in Depths(c, turn[c].pc) /\ turn[c].pc \in Phases(c)
      /\ turn[c].pc \in {"at_request", "at_session", "at_action"}
      BY DEF LockInv, TurnInv, StackInv, WaitsForLock
<1>2. PICK d \in Callers : \E m \in 1..Holds(d) : Path(d)[m] = Path(c)[Len(locks[c])]
      BY Holder
<1>2a. PICK m \in 1..Holds(d) : Path(d)[m] = Path(c)[Len(locks[c])]
      BY <1>2
<1>3. /\ Len(locks[d]) \in Depths(d, turn[d].pc) /\ turn[d].pc \in Phases(d)
      BY DEF LockInv, TurnInv, StackInv
<1>4. Len(locks[d]) \in 0..(Outer(d) + 1) /\ Outer(d) \in {0, 2} /\ Outer(c) \in {0, 2}
      BY <1>3 DEF Depths, Outer
<1>5. m \in 1..Len(locks[d]) /\ (turn[d].pc \in Queued => m < Len(locks[d]))
      BY <1>2a, <1>4 DEF Holds
<1>6. turn[d].pc \notin Outdoors /\ turn[d].pc # "at_request"
      <2>1. Len(locks[d]) > 0 /\ (turn[d].pc \in Queued => Len(locks[d]) > 1)
            BY <1>4, <1>5
      <2>2. turn[d].pc \in Outdoors => Len(locks[d]) = 0
            BY <1>3 DEF Depths
      <2>3. turn[d].pc = "at_request" => Len(locks[d]) = 1 /\ turn[d].pc \in Queued
            BY <1>3 DEF Depths, Queued
      <2>4. Len(locks[d]) # 0
            BY <1>4, <2>1
      <2>5. ASSUME turn[d].pc \in Queued
            PROVE  Len(locks[d]) # 1
            <3>1. Len(locks[d]) > 1
                  BY <2>1, <2>5
            <3>2. \A k \in Nat : k > 1 => k # 1
                  OBVIOUS
            <3> QED BY <3>1, <3>2, LengthsAreNat DEF LockInv
      <2> QED BY <2>2, <2>3, <2>4, <2>5
<1>7. \A x : /\ RequestLock(x)[1] = "request" /\ SessionLock(x)[1] = "session"
             /\ ActionLock(x)[1] = "action"
      BY DEF RequestLock, SessionLock, ActionLock
<1>8. \A x \in Callers : \A n \in 1..(Outer(x) + 1) :
         /\ Path(x)[n][1] = "session" => n = 2
         /\ Path(x)[n][1] = "action" => n = Outer(x) + 1
      <2> SUFFICES ASSUME NEW x \in Callers, NEW n \in 1..(Outer(x) + 1)
                   PROVE  /\ Path(x)[n][1] = "session" => n = 2
                          /\ Path(x)[n][1] = "action" => n = Outer(x) + 1
            OBVIOUS
      <2>1. CASE x \in Turns
            <3>1. n \in 1..3
                  BY <2>1 DEF Outer
            <3> QED BY <1>7, <2>1, <3>1 DEF Path, Outer
      <2>2. CASE x \notin Turns
            BY <1>7, <2>2 DEF Path, Outer
      <2> QED BY <2>1, <2>2
<1>9. m \in 1..(Outer(d) + 1)
      BY <1>4, <1>5
<1>10. turn[c].pc = "at_session" => turn[d].pc # "at_session"
      <2> SUFFICES ASSUME turn[c].pc = "at_session"
                   PROVE  turn[d].pc # "at_session"
            OBVIOUS
      <2>1. Len(locks[c]) = 2 /\ c \in Turns
            BY <1>1 DEF Depths, Phases, Deciding, Asking, Acting, Outdoors
      <2>2. Path(c)[2] = SessionLock(SessionOf[c])
            BY <2>1 DEF Path
      <2>3. m = 2
            BY <1>2a, <1>7, <1>8, <1>9, <2>1, <2>2
      <2>4. turn[d].pc \in Queued => Len(locks[d]) > 2
            BY <1>4, <1>5, <2>3
      <2>5. turn[d].pc = "at_session" => Len(locks[d]) = 2 /\ turn[d].pc \in Queued
            BY <1>3 DEF Depths, Queued
      <2>6. ASSUME turn[d].pc \in Queued
            PROVE  Len(locks[d]) # 2
            <3>1. Len(locks[d]) > 2
                  BY <2>4, <2>6
            <3>2. \A k \in Nat : k > 2 => k # 2
                  OBVIOUS
            <3> QED BY <3>1, <3>2, LengthsAreNat DEF LockInv
      <2> QED BY <2>5, <2>6
<1>11. turn[c].pc = "at_action" =>
           turn[d].pc \notin {"at_session", "at_action", "asking"}
      <2> SUFFICES ASSUME turn[c].pc = "at_action"
                   PROVE  turn[d].pc \notin {"at_session", "at_action", "asking"}
            OBVIOUS
      <2>1. Len(locks[c]) = Outer(c) + 1
            BY <1>1 DEF Depths, Acting
      <2>2. Path(c)[Outer(c) + 1] = ActionLock(SessionOf[turn[c].for])
            BY DEF Path, Outer
      <2>3. m = Outer(d) + 1
            BY <1>2a, <1>7, <1>8, <1>9, <2>1, <2>2
      <2>4. turn[d].pc \notin Queued /\ Len(locks[d]) = Outer(d) + 1
            BY <1>4, <1>5, <2>3
      <2> QED BY <1>3, <1>4, <2>4 DEF Depths, Queued, Asking
<1> QED BY <1>6, <1>10, <1>11

\* Whoever is awaited at a transport is in a call to it.
LEMMA ServedGoesOn ==
    ASSUME LockInv, LineInv, CallInv, NEW c \in Callers, WaitsForModel(c)
    PROVE  \E d \in Callers : turn[d].pc \notin Outdoors /\ ~Waits(d)
<1> DEFINE n == turn[c].provider
<1>0. Providers # <<>> /\ Providers \in Seq(ToSet(Providers))
      <2>1. turn[c].for \in Callers
            BY DEF LockInv, TurnInv
      <2> QED BY <2>1, CallersAssumption DEF WaitsForModel, Unaskable
<1>1. Len(Providers) \in Nat /\ DOMAIN Providers = 1..Len(Providers)
      BY <1>0
<1>2. Len(Providers) # 0
      BY <1>0, EmptySeq
<1>3. n \in 1..2 /\ (n = 1 \/ n <= Tried) /\ Tried <= Len(Providers)
      BY <1>1 DEF CallInv, Tried
<1>4. n \in 1..Len(Providers)
      <2>1. 1 <= Len(Providers) /\ n \in Nat /\ 1 <= n
            BY <1>1, <1>2, <1>3
      <2>2. n <= Len(Providers)
            BY <1>1, <1>3, <2>1, CallersAssumption DEF Tried
      <2> QED BY <1>1, <2>1, <2>2
<1>5. Providers[n] \in DOMAIN line /\ line[Providers[n]] # None
      BY <1>1, <1>4 DEF LineInv, ToSet, WaitsForModel
<1>6. line[Providers[n]] \in Callers /\ turn[line[Providers[n]]].pc = "called"
      BY <1>5 DEF LineInv
<1> QED BY <1>6 DEF Waits, WaitsForLock, WaitsForModel, Outdoors

LEMMA NobodyWaitsInACircle ==
    ASSUME LockInv, LineInv, CallInv
    PROVE  SomebodyGoesOn
<1> DEFINE Free == \E d \in Callers : turn[d].pc \notin Outdoors /\ ~Waits(d)
<1>1. ASSUME NEW c \in Callers, WaitsForModel(c)
      PROVE  Free
      BY <1>1, ServedGoesOn
<1>2. ASSUME NEW c \in Callers, WaitsForLock(c), turn[c].pc = "at_action"
      PROVE  Free
      <2>1. PICK d \in Callers :
               turn[d].pc \notin Outdoors
                  \cup {"at_request", "at_session", "at_action", "asking"}
            BY <1>2, HolderIsDeeper
      <2> QED BY <2>1 DEF Waits, WaitsForLock, WaitsForModel
<1>3. ASSUME NEW c \in Callers, WaitsForLock(c), turn[c].pc = "at_session"
      PROVE  Free
      <2>1. PICK d \in Callers :
               turn[d].pc \notin Outdoors \cup {"at_request", "at_session"}
            BY <1>3, HolderIsDeeper
      <2> QED BY <1>1, <1>2, <2>1 DEF Waits, WaitsForLock
<1>4. ASSUME NEW c \in Callers, WaitsForLock(c), turn[c].pc = "at_request"
      PROVE  Free
      <2>1. PICK d \in Callers : turn[d].pc \notin Outdoors \cup {"at_request"}
            BY <1>4, HolderIsDeeper
      <2> QED BY <1>1, <1>2, <1>3, <2>1 DEF Waits, WaitsForLock
<1> QED BY <1>1, <1>2, <1>3, <1>4 DEF SomebodyGoesOn, Waits, WaitsForLock

\* Callers never wait for each other in a circle, neither at the locks of
\* handle_text and handle_approved_text, which each takes in the order
\* request, session, action, nor at the transports of the providers, which
\* are taken inside the first two but never inside the third: while anybody
\* waits, somebody in a call can go on.
THEOREM CallersNeverDeadlock == Spec => []SomebodyGoesOn
<1>1. Init => LineInv /\ CallInv
      BY LineInit, CallInit
<1>2. LockInv /\ LineInv /\ CallInv /\ [Next]_vars => LineInv' /\ CallInv'
      BY LineNext, CallNext
<1>3. LockInv /\ LineInv /\ CallInv => SomebodyGoesOn
      BY NobodyWaitsInACircle
<1> QED BY <1>1, <1>2, <1>3, LockInvariance, PTL DEF Spec
=============================================================================
