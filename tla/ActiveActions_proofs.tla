-------------------------- MODULE ActiveActions_proofs --------------------------
(***************************************************************************)
(* Proofs about ActiveActions for any number of actions, sessions,         *)
(* evaluations and resets: its types, that the index of running records is *)
(* right, that a record is stopped once and for good, that no entry of the *)
(* vehicle escapes the monitor, and that nothing runs behind the back of a *)
(* reset.                                                                  *)
(***************************************************************************)
EXTENDS ActiveActions, TLAPS

\* A worker inside a stop handler knows the record it was called for.
PointersSound ==
    \A w \in Workers :
        /\ worker[w].phase \in {"stopping", "cascading"} => worker[w].at \in Actions
        /\ worker[w].phase = "cascaded" => worker[w].next \in Actions

Typed == TypeOK /\ PointersSound

LEMMA TypedInit == Init => Typed
BY ActionsAssumption
   DEF Init, Typed, PointersSound, TypeOK, Worker, Workers, RunningPhases, TerminalPhases, Intents

\* The helpers that write the records keep their types.
LEMMA MarkTypes ==
    ASSUME TypeOK, NEW S \in SUBSET Actions, NEW phase \in TerminalPhases
    PROVE  /\ [a \in Actions |-> IF a \in S THEN phase ELSE record[a]]
                 \in [Actions -> {"none"} \cup RunningPhases \cup TerminalPhases]
           /\ ClearIndex(S) \in [Sessions \X Intents -> Actions \cup {None}]
BY DEF TypeOK, ClearIndex, RunningPhases, TerminalPhases

MarkOK ==
    /\ record' \in [Actions -> {"none"} \cup RunningPhases \cup TerminalPhases]
    /\ index' \in [Sessions \X Intents -> Actions \cup {None}]

LEMMA MarkKeepsTypes ==
    \A a \in Actions, phase \in TerminalPhases : TypeOK /\ Mark({a}, phase) => MarkOK
<1> SUFFICES ASSUME NEW a \in Actions, NEW phase \in TerminalPhases, TypeOK, Mark({a}, phase)
             PROVE  MarkOK
    OBVIOUS
<1> DEFINE S == {a}
<1>1. S \in SUBSET Actions /\ Mark(S, phase)
      OBVIOUS
<1> HIDE DEF S
<1>2. /\ record' = [b \in Actions |-> IF b \in S THEN phase ELSE record[b]]
      /\ index' = ClearIndex(S)
      BY <1>1 DEF Mark
<1>3. /\ [b \in Actions |-> IF b \in S THEN phase ELSE record[b]]
            \in [Actions -> {"none"} \cup RunningPhases \cup TerminalPhases]
      /\ ClearIndex(S) \in [Sessions \X Intents -> Actions \cup {None}]
      BY <1>1, MarkTypes
<1> QED BY <1>2, <1>3 DEF MarkOK

LEMMA KeyType == \A a \in Actions : Key(a) \in Sessions \X Intents
BY ActionsAssumption DEF Key

\* A worker's thread moves to a record of the right type.
LEMMA WorkerMoves ==
    ASSUME Typed, NEW w \in Workers, NEW r \in Worker,
           worker' = [worker EXCEPT ![w] = r],
           r.phase \in {"stopping", "cascading"} => r.at \in Actions,
           r.phase = "cascaded" => r.next \in Actions
    PROVE  worker' \in [Workers -> Worker] /\ PointersSound'
<1>1. worker \in [Workers -> Worker] /\ PointersSound
      BY DEF Typed, TypeOK
<1>2. worker' \in [Workers -> Worker]
      BY <1>1
<1>3. \A v \in Workers : worker'[v] = IF v = w THEN r ELSE worker[v]
      BY <1>1
<1> QED BY <1>1, <1>2, <1>3 DEF PointersSound

LEMMA WorkerStays == Typed /\ worker' = worker => worker' \in [Workers -> Worker] /\ PointersSound'
BY DEF Typed, TypeOK, PointersSound

\* The rest of the state.
OthersOK ==
    /\ on \subseteq Intents \cup {"power"}
    /\ listed \subseteq Actions
    /\ record \in [Actions -> {"none"} \cup RunningPhases \cup TerminalPhases]
    /\ index \in [Sessions \X Intents -> Actions \cup {None}]
    /\ start \in [Actions -> {"idle", "applied", "done", "failed"}]
    /\ boundary \in Actions \cup Resets \cup {None}
    /\ handled \in [Actions -> Nat]

LEMMA TypedNext == Typed /\ [Next]_vars => Typed'
<1> SUFFICES ASSUME Typed, [Next]_vars
             PROVE  OthersOK' /\ worker' \in [Workers -> Worker] /\ PointersSound'
    BY DEF Typed, TypeOK, OthersOK
<1> DEFINE WorkersOK == worker \in [Workers -> Worker] /\ PointersSound
<1>t. OthersOK /\ WorkersOK /\ TypeOK
      BY DEF Typed, TypeOK, OthersOK
<1>w. \A w \in Workers : worker[w] \in Worker
      BY <1>t
<1>k. \A a \in Actions : Key(a) \in Sessions \X Intents
      BY KeyType
<1>1. CASE UNCHANGED vars
      BY <1>1, <1>t, WorkerStays DEF vars, OthersOK
<1>2. ASSUME NEW a \in Actions, ApplyStart(a) \/ RefuseStart(a) PROVE OthersOK' /\ WorkersOK'
      BY <1>2, <1>t, WorkerStays, ActionsAssumption
      DEF ApplyStart, RefuseStart, StartedOn, StartedListed, OthersOK, Intents
<1>3. ASSUME NEW a \in Actions, RecordStart(a) PROVE OthersOK' /\ WorkersOK'
      <2>1. record' \in [Actions -> {"none"} \cup RunningPhases \cup TerminalPhases]
            BY <1>3, <1>t DEF RecordStart, OthersOK, RunningPhases, TerminalPhases
      <2>2. index' \in [Sessions \X Intents -> Actions \cup {None}]
            BY <1>3, <1>t, <1>k DEF RecordStart, OthersOK
      <2>3. handled' \in [Actions -> Nat]
            BY <1>3, <1>t DEF RecordStart, OthersOK
      <2> QED BY <1>3, <1>t, <2>1, <2>2, <2>3, WorkerStays DEF RecordStart, OthersOK
<1>4. ASSUME NEW a \in Actions, RollBackStart(a) PROVE OthersOK' /\ WorkersOK'
      BY <1>4, <1>t, WorkerStays DEF RollBackStart, DropOrphan, OthersOK
<1>5. ASSUME NEW a \in Actions, UpdateProgress(a) \/ CompleteAction(a) PROVE OthersOK' /\ WorkersOK'
      BY <1>5, <1>t, WorkerStays
      DEF UpdateProgress, CompleteAction, ClearIndex, OthersOK, RunningPhases, TerminalPhases
<1>6. CASE SetPower
      BY <1>6, <1>t, WorkerStays DEF SetPower, OthersOK
<1>7. ASSUME NEW p \in Presets, ApplyPreset(p) PROVE OthersOK' /\ WorkersOK'
      BY <1>7, <1>t, WorkerStays DEF ApplyPreset, Presets, Intents, Adas, OthersOK
<1>8. ASSUME NEW w \in Workers, NEW s \in Sessions \cup {None}, BeginTick(w, s)
      PROVE  OthersOK' /\ WorkersOK'
      <2> DEFINE r == [worker[w] EXCEPT !.phase = "looping",
                         !.todo = {a \in Actions : Running(a) /\ InScope(a, s)}]
      <2>1. r \in Worker /\ r.phase = "looping"
            BY <1>w DEF Worker
      <2>2. worker' = [worker EXCEPT ![w] = r]
            BY <1>8, <1>t DEF BeginTick
      <2>3. WorkersOK'
            BY <2>1, <2>2, WorkerMoves
      <2> QED BY <1>8, <1>t, <2>3 DEF BeginTick, OthersOK
<1>9. ASSUME NEW w \in Workers, NEW s \in Sessions \cup {None}, BeginReset(w, s)
      PROVE  OthersOK' /\ WorkersOK'
      <2> DEFINE S == {a \in Actions : Running(a) /\ InScope(a, s)}
                 r == [worker[w] EXCEPT !.phase = "looping", !.scope = s, !.todo = S]
      <2>1. r \in Worker /\ r.phase = "looping"
            BY <1>w DEF Worker
      <2>2. worker' = [worker EXCEPT ![w] = r]
            BY <1>9, <1>t DEF BeginReset
      <2>3. WorkersOK'
            BY <2>1, <2>2, WorkerMoves
      <2>4. record' = [a \in Actions |-> IF a \in S THEN "STOPPED" ELSE record[a]]
            /\ index' = ClearIndex(S) /\ boundary' = w /\ w \in Resets
            /\ UNCHANGED <<on, listed, start, handled>>
            BY <1>9 DEF BeginReset, Mark
      <2>5. S \in SUBSET Actions /\ "STOPPED" \in TerminalPhases
            BY DEF TerminalPhases
      <2> HIDE DEF S
      <2>6. OthersOK'
            BY <1>t, <2>4, <2>5, MarkTypes DEF OthersOK
      <2> QED BY <2>3, <2>6
<1>10. ASSUME NEW w \in Workers, NEW a \in Actions, PassOver(w, a) PROVE OthersOK' /\ WorkersOK'
      <2> DEFINE r == [worker[w] EXCEPT !.todo = @ \ {a}]
      <2>1. r \in Worker /\ r.phase = "looping"
            BY <1>w, <1>10 DEF Worker, PassOver
      <2>2. worker' = [worker EXCEPT ![w] = r]
            BY <1>10, <1>t DEF PassOver
      <2>3. WorkersOK'
            BY <2>1, <2>2, WorkerMoves
      <2> QED BY <1>10, <1>t, <2>3 DEF PassOver, OthersOK
<1>11. ASSUME NEW w \in Workers, NEW a \in Actions, StopVerdict(w, a) \/ SweepNext(w, a)
      PROVE  OthersOK' /\ WorkersOK'
      <2> DEFINE r == [worker[w] EXCEPT !.phase = "stopping", !.at = a, !.todo = @ \ {a}]
      <2>1. r \in Worker /\ r.phase = "stopping" /\ r.at = a
            BY <1>w DEF Worker
      <2>2. /\ worker' = [worker EXCEPT ![w] = r]
            /\ UNCHANGED <<on, listed, start, boundary, handled>>
            BY <1>11 DEF StopVerdict, SweepNext
      <2> HIDE DEF r
      <2>3. WorkersOK'
            BY <2>1, <2>2, WorkerMoves
      <2>4. CASE SweepNext(w, a)
            BY <2>2, <2>3, <2>4, <1>t DEF SweepNext, OthersOK
      <2>5. CASE StopVerdict(w, a)
            <3>1. PICK phase \in TerminalPhases : Mark({a}, phase)
                  BY <2>5 DEF StopVerdict, TerminalPhases
            <3>2. MarkOK
                  BY <3>1, <1>t, MarkKeepsTypes
            <3> QED BY <2>2, <2>3, <3>2, <1>t DEF OthersOK, MarkOK
      <2> QED BY <1>11, <2>4, <2>5
<1>12. ASSUME NEW w \in Workers, HandleStop(w) PROVE OthersOK' /\ WorkersOK'
      <2> DEFINE r == [worker[w] EXCEPT !.phase = "looping"]
      <2>1. r \in Worker /\ r.phase = "looping"
            BY <1>w DEF Worker
      <2>2. worker' = [worker EXCEPT ![w] = r]
            BY <1>12, <1>t DEF HandleStop
      <2>3. WorkersOK'
            BY <2>1, <2>2, WorkerMoves
      <2>4. worker[w].at \in Actions
            BY <1>12, <1>t DEF HandleStop, PointersSound
      <2>5. handled' \in [Actions -> Nat]
            BY <1>12, <1>t, <2>4 DEF HandleStop, OthersOK
      <2>6. on' \subseteq Intents \cup {"power"} /\ listed' \subseteq Actions
            BY <1>12, <1>t DEF HandleStop, Delist, OthersOK
      <2>7. UNCHANGED <<record, index, start, boundary>>
            BY <1>12 DEF HandleStop
      <2> QED BY <1>t, <2>3, <2>5, <2>6, <2>7 DEF OthersOK
<1>13. ASSUME NEW w \in Workers, HandleAacStop(w) PROVE OthersOK' /\ WorkersOK'
      <2> DEFINE cut == IF "hda" \in on THEN HdaEntries ELSE {}
                 r == [worker[w] EXCEPT !.phase = IF "hda" \in on THEN "cascading" ELSE "looping",
                                        !.cut = cut]
      <2>1. cut \in SUBSET Actions
            BY <1>t DEF HdaEntries, OthersOK
      <2>2. r \in Worker /\ r.phase \in {"cascading", "looping"}
            BY <1>w, <2>1 DEF Worker
      <2>3. r.at = worker[w].at /\ worker[w].at \in Actions
            BY <1>13, <1>w, <1>t DEF Worker, HandleAacStop, PointersSound
      <2>4. worker' = [worker EXCEPT ![w] = r]
            BY <1>13, <1>t DEF HandleAacStop
      <2>5. WorkersOK'
            BY <2>2, <2>3, <2>4, WorkerMoves
      <2>6. handled' \in [Actions -> Nat]
            BY <1>13, <1>t, <2>3 DEF HandleAacStop, OthersOK
      <2>7. on' \subseteq Intents \cup {"power"} /\ listed' \subseteq Actions
            BY <1>13, <1>t DEF HandleAacStop, Delist, OthersOK
      <2>8. UNCHANGED <<record, index, start, boundary>>
            BY <1>13 DEF HandleAacStop
      <2> QED BY <1>t, <2>5, <2>6, <2>7, <2>8 DEF OthersOK
<1>14. ASSUME NEW w \in Workers, FindCascade(w) PROVE OthersOK' /\ WorkersOK'
      <2> DEFINE b == index[<<SessionOf[worker[w].at], "hda">>]
                 r == [worker[w] EXCEPT !.phase = IF b # None THEN "cascaded" ELSE "looping",
                                        !.next = b]
      <2>1. worker[w].at \in Actions
            BY <1>14, <1>t DEF FindCascade, PointersSound
      <2>2. b \in Actions \cup {None}
            BY <1>t, <2>1, ActionsAssumption DEF OthersOK, Intents, Adas
      <2> HIDE DEF b
      <2>3. r \in Worker /\ (r.phase = "cascaded" => r.next \in Actions)
            /\ r.phase \in {"cascaded", "looping"}
            BY <1>w, <2>2 DEF Worker
      <2>4. worker' = [worker EXCEPT ![w] = r]
            BY <1>14, <1>t DEF FindCascade, b
      <2>5. WorkersOK'
            BY <2>3, <2>4, WorkerMoves
      <2> QED BY <1>14, <1>t, <2>5 DEF FindCascade, OthersOK
<1>15. ASSUME NEW w \in Workers, StopCascade(w) PROVE OthersOK' /\ WorkersOK'
      <2> DEFINE b == worker[w].next
                 stop == [worker[w] EXCEPT !.phase = "stopping", !.at = b]
                 skip == [worker[w] EXCEPT !.phase = "looping"]
      <2>1. b \in Actions
            BY <1>15, <1>t DEF StopCascade, PointersSound
      <2>2. stop \in Worker /\ stop.phase = "stopping" /\ stop.at \in Actions
            BY <1>w, <2>1 DEF Worker
      <2>3. skip \in Worker /\ skip.phase = "looping"
            BY <1>w DEF Worker
      <2>4. CASE Stoppable(b)
            <3>1. Mark({b}, "STOPPED") /\ worker' = [worker EXCEPT ![w] = stop]
                  BY <1>15, <1>t, <2>4 DEF StopCascade
            <3>2. WorkersOK'
                  BY <2>2, <3>1, WorkerMoves
            <3>3. MarkOK
                  BY <1>t, <2>1, <3>1, MarkKeepsTypes DEF TerminalPhases
            <3>4. UNCHANGED <<on, listed, start, boundary, handled>>
                  BY <1>15 DEF StopCascade
            <3> QED BY <1>t, <3>2, <3>3, <3>4 DEF OthersOK, MarkOK
      <2>5. CASE ~Stoppable(b)
            <3>1. worker' = [worker EXCEPT ![w] = skip] /\ UNCHANGED <<record, index>>
                  BY <1>15, <1>t, <2>5 DEF StopCascade
            <3>2. WorkersOK'
                  BY <2>3, <3>1, WorkerMoves
            <3> QED BY <1>15, <1>t, <3>1, <3>2 DEF StopCascade, OthersOK
      <2> QED BY <2>4, <2>5
<1>16. ASSUME NEW w \in Workers, EndTick(w) \/ EndReset(w) PROVE OthersOK' /\ WorkersOK'
      <2> DEFINE r == [worker[w] EXCEPT !.phase = "done"]
      <2>1. r \in Worker /\ r.phase = "done"
            BY <1>w DEF Worker
      <2>2. worker' = [worker EXCEPT ![w] = r]
            BY <1>16, <1>t DEF EndTick, EndReset
      <2>3. WorkersOK'
            BY <2>1, <2>2, WorkerMoves
      <2> QED BY <1>16, <1>t, <2>3 DEF EndTick, EndReset, OthersOK
<1> QED
    BY <1>1, <1>2, <1>3, <1>4, <1>5, <1>6, <1>7, <1>8, <1>9, <1>10, <1>11, <1>12, <1>13,
       <1>14, <1>15, <1>16
    DEF Next, WorkerStep, StartStep

\* Actions, records, index and workers keep their types.
THEOREM ActionTypes == Spec => []TypeOK
<1>1. Spec => []Typed
      BY TypedInit, TypedNext, PTL DEF Spec
<1> QED BY <1>1, PTL DEF Typed
-----------------------------------------------------------------------------
\* A start that has not been recorded has no record, and it and a reset that
\* are under way hold the boundary.
StartsMatch == \A a \in Actions : start[a] \in {"idle", "applied"} => record[a] = "none"

BoundaryHeld ==
    /\ \A a \in Actions : start[a] = "applied" => boundary = a
    /\ \A w \in Resets : worker[w].phase \notin {"idle", "done"} => boundary = w

\* What a step does to the records: it ends some that run, or it writes one.
RecordEffect ==
    \/ UNCHANGED <<record, index>>
    \/ \E a \in Actions : RecordStart(a)
    \/ \E a \in Actions : UpdateProgress(a)
    \/ \E S \in SUBSET Actions, phase \in TerminalPhases :
         (\A a \in S : Running(a)) /\ Mark(S, phase)

LEMMA RecordSteps == Typed /\ [Next]_vars => RecordEffect
<1> SUFFICES ASSUME Typed, [Next]_vars PROVE RecordEffect
    OBVIOUS
<1>t. TypeOK
      BY DEF Typed
<1>1. CASE UNCHANGED vars
      BY <1>1 DEF vars, RecordEffect
<1>2. ASSUME NEW a \in Actions, ApplyStart(a) \/ RefuseStart(a) \/ RollBackStart(a) PROVE RecordEffect
      BY <1>2 DEF ApplyStart, RefuseStart, RollBackStart, RecordEffect
<1>3. ASSUME NEW a \in Actions, RecordStart(a) \/ UpdateProgress(a) PROVE RecordEffect
      BY <1>3 DEF RecordEffect
<1>4. ASSUME NEW a \in Actions, CompleteAction(a) PROVE RecordEffect
      <2>1. Mark({a}, "COMPLETED") /\ Running(a)
            BY <1>4, <1>t DEF CompleteAction, Mark, TypeOK
      <2> QED BY <2>1 DEF RecordEffect, TerminalPhases
<1>5. ASSUME NEW w \in Workers, NEW s \in Sessions \cup {None}, BeginTick(w, s) \/ BeginReset(w, s)
      PROVE  RecordEffect
      <2>1. CASE BeginTick(w, s)
            BY <2>1 DEF BeginTick, RecordEffect
      <2>2. CASE BeginReset(w, s)
            <3> DEFINE S == {a \in Actions : Running(a) /\ InScope(a, s)}
            <3>1. Mark(S, "STOPPED") /\ S \in SUBSET Actions /\ \A a \in S : Running(a)
                  BY <2>2 DEF BeginReset
            <3> HIDE DEF S
            <3> QED BY <3>1 DEF RecordEffect, TerminalPhases
      <2> QED BY <1>5, <2>1, <2>2
<1>6. ASSUME NEW w \in Workers, NEW a \in Actions, StopVerdict(w, a) PROVE RecordEffect
      <2>1. PICK phase \in TerminalPhases : Mark({a}, phase)
            BY <1>6 DEF StopVerdict, TerminalPhases
      <2>2. Running(a)
            BY <1>6 DEF StopVerdict, Stoppable
      <2> QED BY <2>1, <2>2 DEF RecordEffect
<1>7. ASSUME NEW w \in Workers, StopCascade(w) PROVE RecordEffect
      <2> DEFINE b == worker[w].next
      <2>1. CASE Stoppable(b)
            <3>1. b \in Actions /\ Mark({b}, "STOPPED") /\ Running(b)
                  BY <1>7, <2>1 DEF StopCascade, Stoppable, Typed, PointersSound
            <3> HIDE DEF b
            <3> QED BY <3>1 DEF RecordEffect, TerminalPhases
      <2>2. CASE ~Stoppable(b)
            BY <1>7, <2>2 DEF StopCascade, RecordEffect
      <2> QED BY <2>1, <2>2
<1>8. ASSUME NEW w \in Workers, NEW a \in Actions, PassOver(w, a) \/ SweepNext(w, a) PROVE RecordEffect
      BY <1>8 DEF PassOver, SweepNext, RecordEffect
<1>9. ASSUME NEW w \in Workers,
             HandleStop(w) \/ HandleAacStop(w) \/ FindCascade(w) \/ EndTick(w) \/ EndReset(w)
      PROVE  RecordEffect
      BY <1>9 DEF HandleStop, HandleAacStop, FindCascade, EndTick, EndReset, RecordEffect
<1>10. CASE SetPower \/ \E p \in Presets : ApplyPreset(p)
      BY <1>10 DEF SetPower, ApplyPreset, RecordEffect
<1> QED
    BY <1>1, <1>2, <1>3, <1>4, <1>5, <1>6, <1>7, <1>8, <1>9, <1>10
    DEF Next, WorkerStep, StartStep

\* What it means for Mark, record by record.
LEMMA MarkEffect ==
    ASSUME NEW S \in SUBSET Actions, NEW phase \in TerminalPhases, Mark(S, phase), TypeOK
    PROVE  /\ \A a \in Actions : record'[a] = IF a \in S THEN phase ELSE record[a]
           /\ \A k \in Sessions \X Intents : index'[k] = IF index[k] \in S THEN None ELSE index[k]
BY DEF Mark, ClearIndex

Ended(a) == record[a] \in TerminalPhases

LEMMA EndedStays ==
    ASSUME Typed, StartsMatch, [Next]_vars, NEW a \in Actions, Ended(a)
    PROVE  record'[a] = record[a]
<1>t. TypeOK
      BY DEF Typed
<1>1. CASE UNCHANGED <<record, index>>
      BY <1>1
<1>2. ASSUME NEW b \in Actions, RecordStart(b) PROVE record'[a] = record[a]
      <2>1. record[b] = "none" /\ a # b
            BY <1>2 DEF RecordStart, StartsMatch, Ended, TerminalPhases
      <2>2. ~Running(a)
            BY DEF Ended, Running, RunningPhases, TerminalPhases
      <2> QED BY <1>2, <2>1, <2>2 DEF RecordStart, Superseded
<1>3. ASSUME NEW b \in Actions, UpdateProgress(b) PROVE record'[a] = record[a]
      BY <1>3, <1>t DEF UpdateProgress, Running, Ended, RunningPhases, TerminalPhases, TypeOK
<1>4. ASSUME NEW S \in SUBSET Actions, NEW phase \in TerminalPhases,
             \A b \in S : Running(b), Mark(S, phase)
      PROVE  record'[a] = record[a]
      <2>1. a \notin S
            BY <1>4 DEF Running, Ended, RunningPhases, TerminalPhases
      <2> QED BY <1>4, <1>t, <2>1, MarkEffect
<1> QED BY <1>1, <1>2, <1>3, <1>4, RecordSteps DEF RecordEffect

LEMMA IndexAgreesNext == Typed /\ StartsMatch /\ IndexAgrees /\ [Next]_vars => IndexAgrees'
<1> SUFFICES ASSUME Typed, StartsMatch, IndexAgrees, [Next]_vars PROVE IndexAgrees'
    OBVIOUS
<1>t. TypeOK /\ None \notin Actions
      BY ActionsAssumption DEF Typed
<1>k. \A a \in Actions : Key(a) \in Sessions \X Intents
      BY KeyType
<1>1. CASE UNCHANGED <<record, index>>
      BY <1>1 DEF IndexAgrees, Running, Key
<1>2. ASSUME NEW a \in Actions, RecordStart(a) PROVE IndexAgrees'
      <2>1. index' = [index EXCEPT ![Key(a)] = a]
            BY <1>2 DEF RecordStart
      <2>2. \A k \in Sessions \X Intents : index'[k] = IF k = Key(a) THEN a ELSE index[k]
            BY <2>1, <1>t DEF TypeOK
      <2>3. \A b \in Actions : record'[b] = IF b = a THEN "STARTED"
                                            ELSE IF b \in Superseded(a) THEN "STOPPED"
                                            ELSE record[b]
            BY <1>2 DEF RecordStart
      <2>4. \A b \in Superseded(a) : b = index[Key(a)]
            BY DEF Superseded
      <2>5. record[a] = "none" /\ Running(a)'
            BY <1>2, <2>3 DEF StartsMatch, RecordStart, Running, RunningPhases
      <2>6. ASSUME NEW k \in Sessions \X Intents, index'[k] # None
            PROVE  record'[index'[k]] \in RunningPhases /\ Key(index'[k]) = k
            <3>1. CASE k = Key(a)
                  BY <2>2, <2>5, <3>1 DEF Running
            <3>2. CASE k # Key(a)
                  <4> DEFINE b == index[k]
                  <4>1. b \in Actions /\ Running(b) /\ Key(b) = k /\ index'[k] = b
                        BY <2>2, <2>6, <3>2, <1>t DEF IndexAgrees, TypeOK
                  <4>2. b # a /\ b \notin Superseded(a)
                        <5>1. b # a
                              BY <4>1, <3>2
                        <5>2. index[Key(a)] # None => Key(index[Key(a)]) = Key(a)
                              BY <1>k DEF IndexAgrees
                        <5>3. b # index[Key(a)]
                              BY <5>2, <4>1, <3>2, <1>t
                        <5> QED BY <5>1, <5>3, <2>4
                  <4> HIDE DEF b
                  <4>3. record'[b] = record[b]
                        BY <2>3, <4>1, <4>2
                  <4> QED BY <4>1, <4>3 DEF Running
            <3> QED BY <3>1, <3>2
      <2>7. ASSUME NEW b \in Actions, Running(b)' PROVE index'[Key(b)] = b
            <3>1. CASE b = a
                  BY <2>2, <3>1, <1>k
            <3>2. CASE b # a
                  <4>1. b \notin Superseded(a) /\ Running(b)
                        BY <2>3, <2>7, <3>2 DEF Running, RunningPhases
                  <4>2. index[Key(b)] = b
                        BY <4>1 DEF IndexAgrees
                  <4>3. Key(b) # Key(a)
                        BY <4>1, <4>2, <1>t DEF Superseded
                  <4> QED BY <4>2, <4>3, <2>2, <1>k
            <3> QED BY <3>1, <3>2
      <2> QED BY <2>6, <2>7 DEF IndexAgrees, Key, Running
<1>3. ASSUME NEW a \in Actions, UpdateProgress(a) PROVE IndexAgrees'
      <2>1. index' = index /\ \A b \in Actions : Running(b)' <=> Running(b)
            BY <1>3, <1>t DEF UpdateProgress, Running, RunningPhases, TypeOK
      <2>2. \A k \in Sessions \X Intents : index[k] # None => index[k] \in Actions
            BY <1>t DEF TypeOK
      <2> QED BY <2>1, <2>2 DEF IndexAgrees, Key, Running
<1>4. ASSUME NEW S \in SUBSET Actions, NEW phase \in TerminalPhases,
             \A b \in S : Running(b), Mark(S, phase)
      PROVE  IndexAgrees'
      <2>1. /\ \A a \in Actions : record'[a] = IF a \in S THEN phase ELSE record[a]
            /\ \A k \in Sessions \X Intents : index'[k] = IF index[k] \in S THEN None ELSE index[k]
            BY <1>4, <1>t, MarkEffect
      <2>2. \A a \in Actions : Running(a)' <=> Running(a) /\ a \notin S
            BY <2>1 DEF Running, RunningPhases, TerminalPhases
      <2>3. ASSUME NEW k \in Sessions \X Intents, index'[k] # None
            PROVE  record'[index'[k]] \in RunningPhases /\ Key(index'[k]) = k
            <3> DEFINE b == index[k]
            <3>1. b \notin S /\ b # None /\ index'[k] = b
                  BY <2>1, <2>3
            <3>2. b \in Actions /\ Running(b) /\ Key(b) = k
                  BY <3>1, <1>t DEF IndexAgrees, TypeOK
            <3> HIDE DEF b
            <3>3. record'[b] = record[b]
                  BY <2>1, <3>1, <3>2
            <3> QED BY <3>1, <3>2, <3>3 DEF Running
      <2>4. ASSUME NEW a \in Actions, Running(a)' PROVE index'[Key(a)] = a
            <3>1. Running(a) /\ a \notin S
                  BY <2>2, <2>4
            <3>2. index[Key(a)] = a
                  BY <3>1 DEF IndexAgrees
            <3> QED BY <2>1, <3>1, <3>2, <1>k
      <2> QED BY <2>3, <2>4 DEF IndexAgrees, Key, Running
<1> QED BY <1>1, <1>2, <1>3, <1>4, RecordSteps DEF RecordEffect

\* What a step does to the starts and to the boundary.
LEMMA StartsMatchNext == Typed /\ StartsMatch /\ IndexAgrees /\ [Next]_vars => StartsMatch'
<1> SUFFICES ASSUME Typed, StartsMatch, IndexAgrees, [Next]_vars,
                    NEW a \in Actions, start'[a] \in {"idle", "applied"}
             PROVE  record'[a] = "none"
    BY DEF StartsMatch
<1>t. TypeOK
      BY DEF Typed
<1>1. start[a] \in {"idle", "applied"} /\ ~RecordStart(a)
      BY <1>t
      DEF Next, WorkerStep, StartStep, ApplyStart, RefuseStart, RecordStart, RollBackStart,
          SetPower, ApplyPreset, UpdateProgress, CompleteAction, BeginTick, BeginReset, PassOver,
          StopVerdict, SweepNext, HandleStop, HandleAacStop, FindCascade, StopCascade, EndTick,
          EndReset, vars, TypeOK
<1>2. record[a] = "none" /\ ~Running(a)
      BY <1>1 DEF StartsMatch, Running, RunningPhases
<1>3. CASE UNCHANGED <<record, index>>
      BY <1>2, <1>3
<1>4. ASSUME NEW b \in Actions, RecordStart(b) PROVE record'[a] = "none"
      BY <1>1, <1>2, <1>4 DEF RecordStart, Superseded
<1>5. ASSUME NEW b \in Actions, UpdateProgress(b) PROVE record'[a] = "none"
      BY <1>2, <1>5, <1>t DEF UpdateProgress, TypeOK
<1>6. ASSUME NEW S \in SUBSET Actions, NEW phase \in TerminalPhases,
             \A b \in S : Running(b), Mark(S, phase)
      PROVE  record'[a] = "none"
      BY <1>2, <1>6, <1>t, MarkEffect
<1> QED BY <1>3, <1>4, <1>5, <1>6, RecordSteps DEF RecordEffect

\* What a step does to a thread: it leaves it alone, or the thread goes from
\* one record to the next, and only a reset that begins takes the boundary.
WorkerEffect(w) ==
    \/ worker'[w] = worker[w]
    \/ /\ worker[w].phase \notin {"idle", "done"}
       /\ worker'[w].phase \notin {"idle", "done"}
       /\ worker'[w].scope = worker[w].scope
       /\ boundary' = boundary
    \/ worker[w].phase = "idle" /\ w \in Ticks
    \/ \E s \in Sessions \cup {None} :
         BeginReset(w, s) /\ worker'[w].scope = s /\ worker'[w].phase = "looping"
    \/ EndTick(w)
    \/ EndReset(w) /\ worker'[w].phase = "done"

LEMMA WorkerSteps == Typed /\ [Next]_vars => \A w \in Workers : WorkerEffect(w)
<1> SUFFICES ASSUME Typed, [Next]_vars, NEW w \in Workers PROVE WorkerEffect(w)
    OBVIOUS
<1>t. worker \in [Workers -> Worker]
      BY DEF Typed, TypeOK
<1>w. worker[w] \in Worker
      BY <1>t
<1>1. CASE worker' = worker
      BY <1>1 DEF WorkerEffect
<1>2. ASSUME NEW v \in Workers, NEW r, worker' = [worker EXCEPT ![v] = r],
             v = w => r.phase \notin {"idle", "done"} /\ r.scope = worker[w].scope
                      /\ worker[w].phase \notin {"idle", "done"} /\ boundary' = boundary
      PROVE  WorkerEffect(w)
      <2>1. CASE v = w
            BY <1>2, <2>1, <1>t DEF WorkerEffect
      <2>2. CASE v # w
            BY <1>2, <2>2, <1>t DEF WorkerEffect
      <2> QED BY <2>1, <2>2
<1>3. ASSUME NEW v \in Workers, NEW s \in Sessions \cup {None}, BeginTick(v, s) \/ BeginReset(v, s)
      PROVE  WorkerEffect(w)
      <2>1. CASE v # w
            BY <1>3, <2>1, <1>t DEF BeginTick, BeginReset, WorkerEffect
      <2>2. CASE v = w /\ BeginTick(v, s)
            BY <2>2 DEF BeginTick, WorkerEffect
      <2>3. CASE v = w /\ BeginReset(v, s)
            <3> DEFINE S == {a \in Actions : Running(a) /\ InScope(a, s)}
            <3>1. worker' = [worker EXCEPT ![w] = [worker[w] EXCEPT !.phase = "looping", !.scope = s,
                                                                    !.todo = S]]
                  BY <2>3 DEF BeginReset
            <3>2. worker'[w].scope = s /\ worker'[w].phase = "looping"
                  BY <3>1, <1>t, <1>w DEF Worker
            <3> QED BY <3>2, <2>3 DEF WorkerEffect
      <2> QED BY <1>3, <2>1, <2>2, <2>3
<1>4. ASSUME NEW v \in Workers, NEW a \in Actions, PassOver(v, a) PROVE WorkerEffect(w)
      <2> DEFINE r == [worker[v] EXCEPT !.todo = @ \ {a}]
      <2>1. worker' = [worker EXCEPT ![v] = r]
            BY <1>4, <1>t DEF PassOver
      <2>2. v = w => r.phase = "looping" /\ worker[w].phase = "looping" /\ r.scope = worker[w].scope
            BY <1>4, <1>w DEF PassOver, Worker
      <2>3. boundary' = boundary
            BY <1>4 DEF PassOver
      <2> HIDE DEF r
      <2> QED BY <2>1, <2>2, <2>3, <1>2
<1>5. ASSUME NEW v \in Workers, NEW a \in Actions, StopVerdict(v, a) \/ SweepNext(v, a)
      PROVE  WorkerEffect(w)
      <2> DEFINE r == [worker[v] EXCEPT !.phase = "stopping", !.at = a, !.todo = @ \ {a}]
      <2>1. worker' = [worker EXCEPT ![v] = r] /\ boundary' = boundary /\ worker[v].phase = "looping"
            BY <1>5 DEF StopVerdict, SweepNext
      <2>2. v = w => r.phase = "stopping" /\ r.scope = worker[w].scope
            BY <1>w DEF Worker
      <2> HIDE DEF r
      <2> QED BY <2>1, <2>2, <1>2
<1>6. ASSUME NEW v \in Workers, HandleStop(v) PROVE WorkerEffect(w)
      <2> DEFINE r == [worker[v] EXCEPT !.phase = "looping"]
      <2>1. worker' = [worker EXCEPT ![v] = r] /\ boundary' = boundary /\ worker[v].phase = "stopping"
            BY <1>6, <1>t DEF HandleStop
      <2>2. v = w => r.phase = "looping" /\ r.scope = worker[w].scope
            BY <1>w DEF Worker
      <2> HIDE DEF r
      <2> QED BY <2>1, <2>2, <1>2
<1>7. ASSUME NEW v \in Workers, HandleAacStop(v) PROVE WorkerEffect(w)
      <2> DEFINE r == [worker[v] EXCEPT !.phase = IF "hda" \in on THEN "cascading" ELSE "looping",
                                        !.cut = IF "hda" \in on THEN HdaEntries ELSE {}]
      <2>1. worker' = [worker EXCEPT ![v] = r] /\ boundary' = boundary /\ worker[v].phase = "stopping"
            BY <1>7 DEF HandleAacStop
      <2>2. v = w => r.phase \in {"cascading", "looping"} /\ r.scope = worker[w].scope
            BY <1>w DEF Worker
      <2> HIDE DEF r
      <2> QED BY <2>1, <2>2, <1>2
<1>8. ASSUME NEW v \in Workers, FindCascade(v) PROVE WorkerEffect(w)
      <2> DEFINE b == index[<<SessionOf[worker[v].at], "hda">>]
                 r == [worker[v] EXCEPT !.phase = IF b # None THEN "cascaded" ELSE "looping",
                                        !.next = b]
      <2>1. worker' = [worker EXCEPT ![v] = r] /\ boundary' = boundary /\ worker[v].phase = "cascading"
            BY <1>8 DEF FindCascade
      <2> HIDE DEF b
      <2>2. v = w => r.phase \in {"cascaded", "looping"} /\ r.scope = worker[w].scope
            BY <1>w DEF Worker
      <2> HIDE DEF r
      <2> QED BY <2>1, <2>2, <1>2
<1>9. ASSUME NEW v \in Workers, StopCascade(v) PROVE WorkerEffect(w)
      <2> DEFINE b == worker[v].next
                 stop == [worker[v] EXCEPT !.phase = "stopping", !.at = b]
                 skip == [worker[v] EXCEPT !.phase = "looping"]
      <2>1. /\ worker' = [worker EXCEPT ![v] = stop] \/ worker' = [worker EXCEPT ![v] = skip]
            /\ boundary' = boundary /\ worker[v].phase = "cascaded"
            BY <1>9, <1>t DEF StopCascade
      <2>2. v = w => /\ stop.phase = "stopping" /\ stop.scope = worker[w].scope
                     /\ skip.phase = "looping" /\ skip.scope = worker[w].scope
            BY <1>w DEF Worker
      <2> HIDE DEF stop, skip
      <2> QED BY <2>1, <2>2, <1>2
<1>10. ASSUME NEW v \in Workers, EndTick(v) \/ EndReset(v) PROVE WorkerEffect(w)
      <2> DEFINE r == [worker[v] EXCEPT !.phase = "done"]
      <2>1. worker' = [worker EXCEPT ![v] = r]
            BY <1>10, <1>t DEF EndTick, EndReset
      <2>2. r.phase = "done"
            BY <1>t DEF Worker
      <2>3. CASE v = w
            <3>1. worker'[w].phase = "done"
                  BY <2>1, <2>2, <2>3, <1>t
            <3> QED BY <1>10, <2>3, <3>1 DEF WorkerEffect
      <2>4. CASE v # w
            BY <2>1, <2>4, <1>t DEF WorkerEffect
      <2> QED BY <2>3, <2>4
<1>11. ASSUME NEW a \in Actions, ApplyStart(a) \/ RefuseStart(a) \/ RecordStart(a) \/ RollBackStart(a)
                                \/ UpdateProgress(a) \/ CompleteAction(a)
      PROVE  worker' = worker
      BY <1>11 DEF ApplyStart, RefuseStart, RecordStart, RollBackStart, UpdateProgress, CompleteAction
<1>12. SetPower \/ (\E p \in Presets : ApplyPreset(p)) \/ UNCHANGED vars => worker' = worker
      BY DEF SetPower, ApplyPreset, vars
<1> QED
    BY <1>1, <1>3, <1>4, <1>5, <1>6, <1>7, <1>8, <1>9, <1>10, <1>11, <1>12
    DEF Next, WorkerStep, StartStep

LEMMA BoundaryHeldNext == Typed /\ BoundaryHeld /\ [Next]_vars => BoundaryHeld'
<1> SUFFICES ASSUME Typed, BoundaryHeld, [Next]_vars PROVE BoundaryHeld'
    OBVIOUS
<1>t. TypeOK /\ None \notin Actions \cup Resets /\ Actions \cap Resets = {} /\ Ticks \cap Resets = {}
      BY ActionsAssumption DEF Typed
<1>w. \A w \in Resets : w \in Workers /\ WorkerEffect(w)
      BY WorkerSteps DEF Workers
<1>1. ASSUME NEW a \in Actions, ApplyStart(a) PROVE BoundaryHeld'
      <2>1. boundary = None /\ boundary' = a /\ worker' = worker
            BY <1>1 DEF ApplyStart, BoundaryFree
      <2>2. \A b \in Actions : start'[b] = "applied" => b = a
            BY <1>1, <2>1, <1>t DEF ApplyStart, BoundaryHeld, TypeOK
      <2>3. \A w \in Resets : worker[w].phase \in {"idle", "done"}
            BY <2>1, <1>t DEF BoundaryHeld
      <2> QED BY <2>1, <2>2, <2>3 DEF BoundaryHeld
<1>2. ASSUME NEW a \in Actions, RecordStart(a) \/ RollBackStart(a) PROVE BoundaryHeld'
      <2>1. boundary = a /\ worker' = worker
            BY <1>2 DEF RecordStart, RollBackStart, BoundaryHeld
      <2>2. \A b \in Actions : start'[b] # "applied"
            BY <1>2, <2>1, <1>t DEF RecordStart, RollBackStart, BoundaryHeld, TypeOK
      <2>3. \A w \in Resets : worker[w].phase \in {"idle", "done"}
            BY <2>1, <1>t DEF BoundaryHeld
      <2> QED BY <2>1, <2>2, <2>3 DEF BoundaryHeld
<1>3. ASSUME NEW w \in Workers, NEW s \in Sessions \cup {None}, BeginReset(w, s) PROVE BoundaryHeld'
      <2>1. boundary = None /\ boundary' = w /\ w \in Resets /\ start' = start
            BY <1>3 DEF BeginReset, BoundaryFree
      <2>2. \A a \in Actions : start'[a] # "applied"
            BY <2>1, <1>t DEF BoundaryHeld
      <2>3. \A v \in Resets \ {w} : worker'[v] = worker[v] /\ worker[v].phase \in {"idle", "done"}
            BY <1>3, <2>1, <1>t DEF BeginReset, BoundaryHeld, TypeOK, Workers
      <2> QED BY <2>1, <2>2, <2>3 DEF BoundaryHeld
<1>4. ASSUME NEW w \in Workers, EndReset(w) PROVE BoundaryHeld'
      <2>1. boundary = w /\ w \in Resets /\ start' = start
            BY <1>4 DEF EndReset, BoundaryHeld
      <2>2. \A a \in Actions : start'[a] # "applied"
            BY <2>1, <1>t DEF BoundaryHeld
      <2>3. worker' = [worker EXCEPT ![w] = [worker[w] EXCEPT !.phase = "done"]]
            BY <1>4, <1>t DEF EndReset
      <2>4. \A v \in Resets : worker'[v].phase \in {"idle", "done"}
            BY <2>1, <2>3, <1>t DEF BoundaryHeld, TypeOK, Workers, Worker
      <2> QED BY <2>2, <2>4 DEF BoundaryHeld
<1>5. ASSUME boundary' = boundary,
             \A a \in Actions : start'[a] = "applied" => start[a] = "applied",
             \A w \in Workers, s \in Sessions \cup {None} : ~BeginReset(w, s)
      PROVE  BoundaryHeld'
      <2>1. \A w \in Resets : worker'[w].phase \notin {"idle", "done"}
                                => worker[w].phase \notin {"idle", "done"}
            BY <1>5, <1>w, <1>t DEF WorkerEffect, EndTick, EndReset
      <2> QED BY <1>5, <2>1 DEF BoundaryHeld
<1>6. ASSUME NEW w \in Workers, NEW s \in Sessions \cup {None}, BeginTick(w, s)
      PROVE  BoundaryHeld'
      <2>1. \A v \in Resets : worker'[v] = worker[v]
            BY <1>6, <1>t DEF BeginTick, TypeOK, Workers
      <2> QED BY <1>6, <2>1 DEF BeginTick, BoundaryHeld
<1>7. CASE /\ boundary' = boundary
           /\ \A a \in Actions : start'[a] = "applied" => start[a] = "applied"
      BY <1>3, <1>5, <1>7
<1>8. ASSUME NEW w \in Workers, WorkerStep(w), ~EndReset(w) PROVE boundary' = boundary /\ start' = start
      BY <1>8
      DEF WorkerStep, PassOver, StopVerdict, SweepNext, HandleStop, HandleAacStop, FindCascade,
          StopCascade, EndTick
<1>9. ASSUME NEW a \in Actions, RefuseStart(a) \/ UpdateProgress(a) \/ CompleteAction(a)
      PROVE  BoundaryHeld'
      BY <1>7, <1>9, <1>t DEF RefuseStart, UpdateProgress, CompleteAction, TypeOK
<1>10. CASE SetPower \/ (\E p \in Presets : ApplyPreset(p)) \/ UNCHANGED vars
      BY <1>7, <1>10 DEF SetPower, ApplyPreset, vars
<1> QED
    BY <1>1, <1>2, <1>3, <1>4, <1>6, <1>7, <1>8, <1>9, <1>10 DEF Next, StartStep

LEMMA SweptNext ==
    Typed /\ BoundaryHeld /\ SweptStaysStopped /\ [Next]_vars => SweptStaysStopped'
<1> SUFFICES ASSUME Typed, BoundaryHeld, SweptStaysStopped, [Next]_vars,
                    NEW w \in Resets, worker'[w].phase \notin {"idle", "done"},
                    NEW a \in Actions, InScope(a, worker'[w].scope)
             PROVE  ~Running(a)'
    BY DEF SweptStaysStopped, InScope
<1>t. TypeOK /\ Actions \cap Resets = {} /\ Ticks \cap Resets = {}
      BY ActionsAssumption DEF Typed
<1>1. WorkerEffect(w)
      BY WorkerSteps DEF Workers
<1>2. ASSUME NEW s \in Sessions \cup {None}, BeginReset(w, s), worker'[w].scope = s
      PROVE  ~Running(a)'
      <2> DEFINE S == {b \in Actions : Running(b) /\ InScope(b, s)}
      <2>1. Mark(S, "STOPPED") /\ S \in SUBSET Actions /\ "STOPPED" \in TerminalPhases
            BY <1>2 DEF BeginReset, TerminalPhases
      <2>2. Running(a) => a \in S
            BY <1>2
      <2> HIDE DEF S
      <2>3. record'[a] = IF a \in S THEN "STOPPED" ELSE record[a]
            BY <2>1, <1>t, MarkEffect
      <2> QED BY <2>2, <2>3 DEF Running, RunningPhases
<1>3. CASE worker[w].phase \notin {"idle", "done"} /\ worker'[w].scope = worker[w].scope
      <2>1. ~Running(a) /\ boundary = w
            BY <1>3 DEF SweptStaysStopped, BoundaryHeld
      <2>2. CASE UNCHANGED <<record, index>>
            BY <2>1, <2>2 DEF Running
      <2>3. ASSUME NEW b \in Actions, RecordStart(b) PROVE FALSE
            BY <2>1, <2>3, <1>t DEF RecordStart, BoundaryHeld
      <2>4. ASSUME NEW b \in Actions, UpdateProgress(b) PROVE ~Running(a)'
            BY <2>1, <2>4, <1>t DEF UpdateProgress, Running, TypeOK
      <2>5. ASSUME NEW S \in SUBSET Actions, NEW phase \in TerminalPhases,
                   \A b \in S : Running(b), Mark(S, phase)
            PROVE  ~Running(a)'
            <3>1. record'[a] = IF a \in S THEN phase ELSE record[a]
                  BY <2>5, <1>t, MarkEffect
            <3>2. a \notin S
                  BY <2>1, <2>5
            <3> QED BY <2>1, <3>1, <3>2 DEF Running
      <2> QED BY <2>2, <2>3, <2>4, <2>5, RecordSteps DEF RecordEffect
<1>4. worker'[w] = worker[w]
        => worker[w].phase \notin {"idle", "done"} /\ worker'[w].scope = worker[w].scope
      OBVIOUS
<1> QED BY <1>1, <1>2, <1>3, <1>4, <1>t DEF WorkerEffect, EndTick
-----------------------------------------------------------------------------
\* A reset does not owe the same handler call twice.
AtOutOfTodo == \A w \in Resets : worker[w].phase = "stopping" => worker[w].at \notin worker[w].todo

\* Nobody owes more handler calls than before, except w, for records in S.
NewDebts(w, S) ==
    \A v \in Workers, a \in Actions : Owes(v, a)' => Owes(v, a) \/ (v = w /\ a \in S)

\* What a step does to the debts: it leaves them alone, w ends records and owes
\* their handler calls, w pays, or a restart supersedes a record and pays.
DebtEffect ==
    \/ handled' = handled /\ \A w \in Workers : NewDebts(w, {})
    \/ \E w \in Workers, S \in SUBSET Actions, phase \in {"STOPPED", "FAILED"} :
         /\ \A a \in S : Running(a)
         /\ Mark(S, phase)
         /\ NewDebts(w, S)
         /\ handled' = handled
    \/ \E w \in Workers, a \in Actions :
         /\ Owes(w, a)
         /\ ~Owes(w, a)'
         /\ NewDebts(w, {})
         /\ handled' = [handled EXCEPT ![a] = @ + 1]
    \/ \E a \in Actions : RecordStart(a)

LEMMA DebtSteps == Typed /\ AtOutOfTodo /\ [Next]_vars => DebtEffect
<1> SUFFICES ASSUME Typed, AtOutOfTodo, [Next]_vars PROVE DebtEffect
    OBVIOUS
<1>t. worker \in [Workers -> Worker] /\ PointersSound
      BY DEF Typed, TypeOK
<1>w. \A w \in Workers : worker[w] \in Worker
      BY <1>t
<1>d. Ticks \cap Resets = {} /\ Resets \subseteq Workers
      BY ActionsAssumption DEF Workers
<1>1. ASSUME NEW w \in Workers, NEW r, worker' = [worker EXCEPT ![w] = r], NEW S,
             \A a \in Actions :
               (w \in Resets /\ a \in r.todo) \/ (r.phase = "stopping" /\ r.at = a)
                 => Owes(w, a) \/ a \in S
      PROVE  NewDebts(w, S)
      <2> SUFFICES ASSUME NEW v \in Workers, NEW a \in Actions, Owes(v, a)'
                   PROVE  Owes(v, a) \/ (v = w /\ a \in S)
          BY DEF NewDebts
      <2>1. CASE v = w
            <3>1. worker'[w] = r
                  BY <1>1, <1>t
            <3>2. \/ w \in Resets /\ a \in r.todo
                  \/ r.phase = "stopping" /\ r.at = a
                  BY <2>1, <3>1 DEF Owes
            <3> QED BY <1>1, <2>1, <3>2
      <2>2. CASE v # w
            BY <1>1, <1>t, <2>2 DEF Owes
      <2> QED BY <2>1, <2>2
<1>2. CASE worker' = worker /\ handled' = handled
      BY <1>2 DEF DebtEffect, NewDebts, Owes
<1>3. ASSUME NEW w \in Workers, NewDebts(w, {}), handled' = handled PROVE DebtEffect
      BY <1>3 DEF DebtEffect, NewDebts
<1>4. ASSUME NEW w \in Workers, NEW s \in Sessions \cup {None}, BeginTick(w, s) PROVE DebtEffect
      <2> DEFINE r == [worker[w] EXCEPT !.phase = "looping",
                         !.todo = {a \in Actions : Running(a) /\ InScope(a, s)}]
      <2>1. worker' = [worker EXCEPT ![w] = r] /\ w \notin Resets /\ handled' = handled
            BY <1>4, <1>d DEF BeginTick
      <2>2. r.phase = "looping"
            BY <1>w DEF Worker
      <2> HIDE DEF r
      <2> QED BY <2>1, <2>2, <1>1, <1>3
<1>5. ASSUME NEW w \in Workers, NEW s \in Sessions \cup {None}, BeginReset(w, s) PROVE DebtEffect
      <2> DEFINE S == {a \in Actions : Running(a) /\ InScope(a, s)}
                 r == [worker[w] EXCEPT !.phase = "looping", !.scope = s, !.todo = S]
      <2>1. worker' = [worker EXCEPT ![w] = r] /\ Mark(S, "STOPPED") /\ handled' = handled
            BY <1>5 DEF BeginReset
      <2>2. r.phase = "looping" /\ r.todo = S
            BY <1>w DEF Worker
      <2>3. S \in SUBSET Actions /\ \A a \in S : Running(a)
            OBVIOUS
      <2> HIDE DEF r, S
      <2>4. NewDebts(w, S)
            BY <2>1, <2>2, <1>1
      <2> QED BY <2>1, <2>3, <2>4 DEF DebtEffect
<1>6. ASSUME NEW w \in Workers, NEW a \in Actions, PassOver(w, a) PROVE DebtEffect
      <2> DEFINE r == [worker[w] EXCEPT !.todo = @ \ {a}]
      <2>1. worker' = [worker EXCEPT ![w] = r] /\ w \notin Resets /\ handled' = handled
            BY <1>6, <1>t, <1>d DEF PassOver
      <2>2. r.phase = "looping"
            BY <1>6, <1>w DEF PassOver, Worker
      <2> HIDE DEF r
      <2> QED BY <2>1, <2>2, <1>1, <1>3
<1>7. ASSUME NEW w \in Workers, NEW a \in Actions, StopVerdict(w, a) PROVE DebtEffect
      <2> DEFINE r == [worker[w] EXCEPT !.phase = "stopping", !.at = a, !.todo = @ \ {a}]
      <2>1. worker' = [worker EXCEPT ![w] = r] /\ w \notin Resets /\ handled' = handled /\ Running(a)
            BY <1>7, <1>d DEF StopVerdict, Stoppable
      <2>2. PICK phase \in {"STOPPED", "FAILED"} : Mark({a}, phase)
            BY <1>7 DEF StopVerdict
      <2>3. r.at = a
            BY <1>w DEF Worker
      <2> HIDE DEF r
      <2>4. NewDebts(w, {a})
            BY <2>1, <2>3, <1>1
      <2> QED BY <2>1, <2>2, <2>4 DEF DebtEffect
<1>8. ASSUME NEW w \in Workers, NEW a \in Actions, SweepNext(w, a) PROVE DebtEffect
      <2> DEFINE r == [worker[w] EXCEPT !.phase = "stopping", !.at = a, !.todo = @ \ {a}]
      <2>1. /\ worker' = [worker EXCEPT ![w] = r]
            /\ w \in Resets /\ a \in worker[w].todo
            /\ handled' = handled
            BY <1>8 DEF SweepNext
      <2>2. r.at = a /\ r.todo \subseteq worker[w].todo
            BY <1>w DEF Worker
      <2> HIDE DEF r
      <2>3. \A b \in Actions :
              (w \in Resets /\ b \in r.todo) \/ (r.phase = "stopping" /\ r.at = b) => Owes(w, b)
            BY <2>1, <2>2 DEF Owes
      <2>4. NewDebts(w, {})
            BY <2>1, <2>3, <1>1
      <2> QED BY <2>1, <2>4, <1>3
<1>9. ASSUME NEW w \in Workers, HandleStop(w) \/ HandleAacStop(w) PROVE DebtEffect
      <2>1. PICK a \in Actions : a = worker[w].at
            BY <1>9, <1>t DEF HandleStop, HandleAacStop, PointersSound
      <2>2. worker[w].phase = "stopping" /\ handled' = [handled EXCEPT ![a] = @ + 1]
            BY <1>9, <2>1 DEF HandleStop, HandleAacStop
      <2>3. worker'[w].phase # "stopping" /\ worker'[w].todo = worker[w].todo
            <3>1. CASE HandleStop(w)
                  BY <3>1, <1>t, <1>w DEF HandleStop, Worker
            <3>2. CASE HandleAacStop(w)
                  <4> DEFINE r == [worker[w] EXCEPT
                                     !.phase = IF "hda" \in on THEN "cascading" ELSE "looping",
                                     !.cut = IF "hda" \in on THEN HdaEntries ELSE {}]
                  <4>1. worker' = [worker EXCEPT ![w] = r]
                        BY <3>2 DEF HandleAacStop
                  <4>2. r.phase \in {"cascading", "looping"} /\ r.todo = worker[w].todo
                        BY <1>w DEF Worker
                  <4> HIDE DEF r
                  <4> QED BY <4>1, <4>2, <1>t
            <3> QED BY <1>9, <3>1, <3>2
      <2>4. worker' = [worker EXCEPT ![w] = worker'[w]]
            BY <1>9, <1>t DEF HandleStop, HandleAacStop
      <2>5. NewDebts(w, {})
            <3> DEFINE r == worker'[w]
            <3>1. worker' = [worker EXCEPT ![w] = r] /\ r.phase # "stopping" /\ r.todo = worker[w].todo
                  BY <2>3, <2>4
            <3> HIDE DEF r
            <3> QED BY <3>1, <1>1 DEF Owes
      <2>6. Owes(w, a) /\ (w \in Resets => a \notin worker[w].todo)
            BY <2>1, <2>2 DEF Owes, AtOutOfTodo
      <2>7. ~Owes(w, a)'
            BY <2>3, <2>6 DEF Owes
      <2> QED BY <2>2, <2>5, <2>6, <2>7 DEF DebtEffect
<1>10. ASSUME NEW w \in Workers, FindCascade(w) PROVE DebtEffect
      <2> DEFINE b == index[<<SessionOf[worker[w].at], "hda">>]
                 r == [worker[w] EXCEPT !.phase = IF b # None THEN "cascaded" ELSE "looping",
                                        !.next = b]
      <2>1. worker' = [worker EXCEPT ![w] = r] /\ handled' = handled
            BY <1>10 DEF FindCascade
      <2> HIDE DEF b
      <2>2. r.phase # "stopping" /\ r.todo = worker[w].todo
            BY <1>w DEF Worker
      <2> HIDE DEF r
      <2>3. NewDebts(w, {})
            BY <2>1, <2>2, <1>1 DEF Owes
      <2> QED BY <2>1, <2>3, <1>3
<1>11. ASSUME NEW w \in Workers, StopCascade(w) PROVE DebtEffect
      <2> DEFINE b == worker[w].next
                 stop == [worker[w] EXCEPT !.phase = "stopping", !.at = b]
                 skip == [worker[w] EXCEPT !.phase = "looping"]
      <2>1. b \in Actions /\ handled' = handled
            BY <1>11, <1>t DEF StopCascade, PointersSound
      <2>2. stop.at = b /\ stop.todo = worker[w].todo
            BY <1>w DEF Worker
      <2>3. skip.phase = "looping" /\ skip.todo = worker[w].todo
            BY <1>w DEF Worker
      <2>4. CASE Stoppable(b)
            <3>1. Mark({b}, "STOPPED") /\ worker' = [worker EXCEPT ![w] = stop] /\ Running(b)
                  BY <1>11, <1>t, <2>4 DEF StopCascade, Stoppable
            <3> HIDE DEF stop, b
            <3>2. \A a \in Actions : w \in Resets /\ a \in stop.todo => Owes(w, a)
                  BY <2>2 DEF Owes
            <3>3. NewDebts(w, {b})
                  BY <2>2, <3>1, <3>2, <1>1
            <3> QED BY <2>1, <3>1, <3>3 DEF DebtEffect
      <2>5. CASE ~Stoppable(b)
            <3>1. worker' = [worker EXCEPT ![w] = skip]
                  BY <1>11, <1>t, <2>5 DEF StopCascade
            <3> HIDE DEF skip
            <3>2. NewDebts(w, {})
                  BY <2>3, <3>1, <1>1 DEF Owes
            <3> QED BY <2>1, <3>2, <1>3
      <2> QED BY <2>4, <2>5
<1>12. ASSUME NEW w \in Workers, EndTick(w) \/ EndReset(w) PROVE DebtEffect
      <2> DEFINE r == [worker[w] EXCEPT !.phase = "done"]
      <2>1. worker' = [worker EXCEPT ![w] = r] /\ handled' = handled
            BY <1>12, <1>t DEF EndTick, EndReset
      <2>2. r.phase = "done" /\ r.todo = worker[w].todo
            BY <1>w DEF Worker
      <2> HIDE DEF r
      <2>3. NewDebts(w, {})
            BY <2>1, <2>2, <1>1 DEF Owes
      <2> QED BY <2>1, <2>3, <1>3
<1>13. ASSUME NEW a \in Actions, ApplyStart(a) \/ RefuseStart(a) \/ StartStep(a) \/ UpdateProgress(a)
                                 \/ CompleteAction(a)
      PROVE  DebtEffect
      BY <1>2, <1>13
      DEF ApplyStart, RefuseStart, StartStep, RollBackStart, UpdateProgress, CompleteAction, DebtEffect
<1>14. CASE SetPower \/ (\E p \in Presets : ApplyPreset(p)) \/ UNCHANGED vars
      BY <1>2, <1>14 DEF SetPower, ApplyPreset, vars
<1> QED
    BY <1>4, <1>5, <1>6, <1>7, <1>8, <1>9, <1>10, <1>11, <1>12, <1>13, <1>14 DEF Next, WorkerStep

LEMMA AtOutOfTodoNext ==
    Typed /\ AtOutOfTodo /\ StopHandledOnce /\ [Next]_vars => AtOutOfTodo'
<1> SUFFICES ASSUME Typed, AtOutOfTodo, StopHandledOnce, [Next]_vars,
                    NEW w \in Resets, worker'[w].phase = "stopping"
             PROVE  worker'[w].at \notin worker'[w].todo
    BY DEF AtOutOfTodo
<1>t. worker \in [Workers -> Worker] /\ PointersSound
      BY DEF Typed, TypeOK
<1>d. w \in Workers /\ Ticks \cap Resets = {} /\ worker[w] \in Worker
      BY <1>t, ActionsAssumption DEF Workers
<1>1. CASE worker'[w] = worker[w]
      BY <1>1 DEF AtOutOfTodo
<1>2. CASE \E a \in Actions : SweepNext(w, a)
      <2>1. PICK a \in Actions : SweepNext(w, a)
            BY <1>2
      <2> DEFINE r == [worker[w] EXCEPT !.phase = "stopping", !.at = a, !.todo = @ \ {a}]
      <2>2. worker' = [worker EXCEPT ![w] = r]
            BY <2>1 DEF SweepNext
      <2>3. r.at = a /\ a \notin r.todo
            BY <1>d DEF Worker
      <2> HIDE DEF r
      <2> QED BY <2>2, <2>3, <1>t, <1>d
<1>3. CASE StopCascade(w)
      <2> DEFINE b == worker[w].next
                 stop == [worker[w] EXCEPT !.phase = "stopping", !.at = b]
                 skip == [worker[w] EXCEPT !.phase = "looping"]
      <2>1. b \in Actions /\ w \in Resets
            BY <1>3, <1>t, <1>d DEF StopCascade, PointersSound
      <2>2. stop.at = b /\ stop.todo = worker[w].todo /\ skip.phase = "looping"
            BY <1>d DEF Worker
      <2>3. CASE Stoppable(b)
            <3>1. worker' = [worker EXCEPT ![w] = stop] /\ Running(b)
                  BY <1>3, <2>3 DEF StopCascade, Stoppable
            <3>2. b \notin worker[w].todo
                  BY <2>1, <3>1, <1>d DEF StopHandledOnce, Owes, Running, RunningPhases
            <3> HIDE DEF stop, b
            <3> QED BY <2>2, <3>1, <3>2, <1>t, <1>d
      <2>4. CASE ~Stoppable(b)
            <3>1. worker' = [worker EXCEPT ![w] = skip]
                  BY <1>3, <1>t, <2>4 DEF StopCascade
            <3> HIDE DEF skip
            <3> QED BY <2>2, <3>1, <1>t, <1>d
      <2> QED BY <2>3, <2>4
<1>4. ASSUME NEW v \in Workers, v # w, WorkerStep(v) PROVE worker'[w] = worker[w]
      BY <1>4, <1>t, <1>d
      DEF WorkerStep, PassOver, StopVerdict, SweepNext, HandleStop, HandleAacStop, FindCascade,
          StopCascade, EndTick, EndReset
<1>5. ASSUME WorkerStep(w), ~StopCascade(w), \A a \in Actions : ~SweepNext(w, a) PROVE FALSE
      <2>1. CASE HandleAacStop(w)
            <3> DEFINE r == [worker[w] EXCEPT
                               !.phase = IF "hda" \in on THEN "cascading" ELSE "looping",
                               !.cut = IF "hda" \in on THEN HdaEntries ELSE {}]
            <3>1. worker' = [worker EXCEPT ![w] = r]
                  BY <2>1 DEF HandleAacStop
            <3>2. r.phase # "stopping"
                  BY <1>d DEF Worker
            <3> HIDE DEF r
            <3> QED BY <3>1, <3>2, <1>t, <1>d
      <2>2. CASE FindCascade(w)
            <3> DEFINE b == index[<<SessionOf[worker[w].at], "hda">>]
                       r == [worker[w] EXCEPT !.phase = IF b # None THEN "cascaded" ELSE "looping",
                                              !.next = b]
            <3>1. worker' = [worker EXCEPT ![w] = r]
                  BY <2>2 DEF FindCascade
            <3> HIDE DEF b
            <3>2. r.phase # "stopping"
                  BY <1>d DEF Worker
            <3> HIDE DEF r
            <3> QED BY <3>1, <3>2, <1>t, <1>d
      <2>3. CASE HandleStop(w) \/ EndTick(w) \/ EndReset(w)
            BY <2>3, <1>t, <1>d DEF HandleStop, EndTick, EndReset, Worker
      <2> QED BY <1>5, <2>1, <2>2, <2>3, <1>d DEF WorkerStep, PassOver, StopVerdict
<1>6. ASSUME NEW v \in Workers, NEW s \in Sessions \cup {None}, BeginTick(v, s) \/ BeginReset(v, s)
      PROVE  worker'[w] = worker[w]
      <2>1. CASE v # w
            BY <1>6, <2>1, <1>t, <1>d DEF BeginTick, BeginReset
      <2>2. CASE v = w
            <3> DEFINE S == {a \in Actions : Running(a) /\ InScope(a, s)}
                       r == [worker[w] EXCEPT !.phase = "looping", !.scope = s, !.todo = S]
            <3>1. worker' = [worker EXCEPT ![w] = r]
                  BY <1>6, <2>2, <1>d DEF BeginTick, BeginReset
            <3>2. r.phase = "looping"
                  BY <1>d DEF Worker
            <3> HIDE DEF r
            <3> QED BY <3>1, <3>2, <1>t, <1>d
      <2> QED BY <2>1, <2>2
<1>7. ASSUME NEW a \in Actions, ApplyStart(a) \/ RefuseStart(a) \/ StartStep(a) \/ UpdateProgress(a)
                                \/ CompleteAction(a)
      PROVE  worker' = worker
      BY <1>7
      DEF ApplyStart, RefuseStart, StartStep, RecordStart, RollBackStart, UpdateProgress, CompleteAction
<1>8. SetPower \/ (\E p \in Presets : ApplyPreset(p)) \/ UNCHANGED vars => worker' = worker
      BY DEF SetPower, ApplyPreset, vars
<1> QED BY <1>1, <1>2, <1>3, <1>4, <1>5, <1>6, <1>7, <1>8 DEF Next

Halted(a) == record[a] \in {"STOPPED", "FAILED"}

LEMMA HandledOnceNext ==
    Typed /\ StartsMatch /\ AtOutOfTodo /\ StopHandledOnce /\ [Next]_vars => StopHandledOnce'
<1> SUFFICES ASSUME Typed, StartsMatch, AtOutOfTodo, StopHandledOnce, [Next]_vars
             PROVE  StopHandledOnce'
    OBVIOUS
<1>t. TypeOK /\ handled \in [Actions -> Nat]
      BY DEF Typed, TypeOK
<1>h. \A a \in Actions : Halted(a) => Halted(a)'
      BY EndedStays DEF Halted, Ended, TerminalPhases
<1>o. \A a \in Actions : /\ handled[a] <= 1
                         /\ handled[a] = 1 => Halted(a)
                         /\ \A w \in Workers : Owes(w, a) => handled[a] = 0 /\ Halted(a)
                         /\ \A v, w \in Workers : Owes(v, a) /\ Owes(w, a) => v = w
      BY DEF StopHandledOnce, Halted
<1> USE DEF StopHandledOnce
<1>g. SUFFICES \A a \in Actions :
                 /\ handled'[a] <= 1
                 /\ handled'[a] = 1 => Halted(a)'
                 /\ \A w \in Workers : Owes(w, a)' => handled'[a] = 0 /\ Halted(a)'
                 /\ \A v, w \in Workers : Owes(v, a)' /\ Owes(w, a)' => v = w
      BY DEF Halted
<1>1. CASE handled' = handled /\ \A w \in Workers : NewDebts(w, {})
      BY <1>1, <1>h, <1>o DEF NewDebts
<1>2. ASSUME NEW x \in Workers, NEW S \in SUBSET Actions, NEW phase \in {"STOPPED", "FAILED"},
             \A a \in S : Running(a), Mark(S, phase), NewDebts(x, S), handled' = handled,
             NEW a \in Actions
      PROVE  /\ handled'[a] <= 1
             /\ handled'[a] = 1 => Halted(a)'
             /\ \A w \in Workers : Owes(w, a)' => handled'[a] = 0 /\ Halted(a)'
             /\ \A v, w \in Workers : Owes(v, a)' /\ Owes(w, a)' => v = w
      <2>1. CASE a \in S
            <3>1. Running(a) /\ ~Halted(a)
                  BY <1>2, <2>1 DEF Running, RunningPhases, Halted
            <3>2. handled[a] = 0 /\ \A w \in Workers : ~Owes(w, a)
                  BY <3>1, <1>o, <1>t
            <3>3. record'[a] = phase
                  BY <1>2, <2>1, <1>t, MarkEffect DEF TerminalPhases
            <3> QED BY <1>2, <3>2, <3>3 DEF NewDebts, Halted
      <2>2. CASE a \notin S
            BY <1>2, <2>2, <1>h, <1>o DEF NewDebts
      <2> QED BY <2>1, <2>2
<1>3. ASSUME NEW x \in Workers, NEW b \in Actions, Owes(x, b), ~Owes(x, b)', NewDebts(x, {}),
             handled' = [handled EXCEPT ![b] = @ + 1],
             NEW a \in Actions
      PROVE  /\ handled'[a] <= 1
             /\ handled'[a] = 1 => Halted(a)'
             /\ \A w \in Workers : Owes(w, a)' => handled'[a] = 0 /\ Halted(a)'
             /\ \A v, w \in Workers : Owes(v, a)' /\ Owes(w, a)' => v = w
      <2>1. CASE a = b
            <3>1. handled[a] = 0 /\ Halted(a) /\ handled'[a] = 1
                  BY <1>3, <1>o, <1>t, <2>1
            <3>2. \A w \in Workers : ~Owes(w, a)'
                  <4> SUFFICES ASSUME NEW w \in Workers, Owes(w, a)' PROVE FALSE
                      OBVIOUS
                  <4>1. Owes(w, a)
                        BY <1>3 DEF NewDebts
                  <4>2. w = x
                        BY <4>1, <1>3, <2>1, <1>o
                  <4> QED BY <4>2, <1>3, <2>1
            <3> QED BY <3>1, <3>2, <1>h
      <2>2. CASE a # b
            <3>1. handled'[a] = handled[a]
                  BY <1>3, <1>t, <2>2
            <3> QED BY <1>3, <3>1, <1>h, <1>o DEF NewDebts
      <2> QED BY <2>1, <2>2
<1>4. ASSUME NEW b \in Actions, RecordStart(b), NEW a \in Actions
      PROVE  /\ handled'[a] <= 1
             /\ handled'[a] = 1 => Halted(a)'
             /\ \A w \in Workers : Owes(w, a)' => handled'[a] = 0 /\ Halted(a)'
             /\ \A v, w \in Workers : Owes(v, a)' /\ Owes(w, a)' => v = w
      <2>1. \A w \in Workers : Owes(w, a)' => Owes(w, a)
            BY <1>4 DEF RecordStart, Owes
      <2>2. handled'[a] = IF a \in Superseded(b) THEN handled[a] + 1 ELSE handled[a]
            BY <1>4 DEF RecordStart
      <2>3. CASE a \in Superseded(b)
            <3>1. Running(a) /\ ~Halted(a)
                  BY <2>3 DEF Superseded, Running, RunningPhases, Halted
            <3>2. handled[a] = 0 /\ \A w \in Workers : ~Owes(w, a)
                  BY <3>1, <1>o, <1>t
            <3>3. record[b] = "none" /\ a # b
                  BY <1>4, <3>1 DEF RecordStart, StartsMatch, Running, RunningPhases
            <3>4. record'[a] = "STOPPED"
                  BY <1>4, <2>3, <3>3 DEF RecordStart
            <3> QED BY <2>1, <2>2, <2>3, <3>2, <3>4 DEF Halted
      <2>4. CASE a \notin Superseded(b)
            BY <2>1, <2>2, <2>4, <1>h, <1>o
      <2> QED BY <2>3, <2>4
<1> QED BY <1>1, <1>2, <1>3, <1>4, DebtSteps DEF DebtEffect
-----------------------------------------------------------------------------
\* Between its two writes a start's entry is the only one of its intent, so
\* the record it will supersede is no longer listed.
OwnEntry ==
    \A a \in Actions : start[a] = "applied" =>
        \A b \in listed : IntentOf[b] = IntentOf[a] => b = a

IdleOwesNothing == \A w \in Resets : worker[w].phase = "idle" => worker[w].todo = {}

LEMMA OwnEntryNext == Typed /\ BoundaryHeld /\ OwnEntry /\ [Next]_vars => OwnEntry'
<1> SUFFICES ASSUME Typed, BoundaryHeld, OwnEntry, [Next]_vars PROVE OwnEntry'
    OBVIOUS
<1>t. TypeOK /\ None \notin Actions
      BY ActionsAssumption DEF Typed
<1>1. ASSUME NEW a \in Actions, ApplyStart(a) PROVE OwnEntry'
      <2>1. \A b \in Actions : start'[b] = "applied" => b = a
            BY <1>1, <1>t DEF ApplyStart, BoundaryFree, BoundaryHeld, TypeOK
      <2>2. \A b \in listed' : IntentOf[b] = IntentOf[a] => b = a
            BY <1>1 DEF ApplyStart, StartedListed
      <2> QED BY <2>1, <2>2 DEF OwnEntry
<1>2. CASE listed' \subseteq listed /\ \A a \in Actions : start'[a] = "applied" => start[a] = "applied"
      BY <1>2 DEF OwnEntry
<1>3. ASSUME NEW a \in Actions, RefuseStart(a) \/ StartStep(a) \/ UpdateProgress(a) \/ CompleteAction(a)
      PROVE  OwnEntry'
      BY <1>2, <1>3, <1>t
      DEF RefuseStart, StartStep, RecordStart, RollBackStart, DropOrphan, UpdateProgress,
          CompleteAction, TypeOK
<1>4. ASSUME NEW w \in Workers, WorkerStep(w) PROVE OwnEntry'
      BY <1>2, <1>4
      DEF WorkerStep, PassOver, StopVerdict, SweepNext, HandleStop, HandleAacStop, Delist,
          FindCascade, StopCascade, EndTick, EndReset
<1>5. ASSUME NEW w \in Workers, NEW s \in Sessions \cup {None}, BeginTick(w, s) \/ BeginReset(w, s)
      PROVE  OwnEntry'
      BY <1>2, <1>5 DEF BeginTick, BeginReset
<1>6. CASE SetPower \/ (\E p \in Presets : ApplyPreset(p)) \/ UNCHANGED vars
      BY <1>2, <1>6 DEF SetPower, ApplyPreset, vars
<1> QED BY <1>1, <1>3, <1>4, <1>5, <1>6 DEF Next

LEMMA IdleNext == Typed /\ IdleOwesNothing /\ [Next]_vars => IdleOwesNothing'
<1> SUFFICES ASSUME Typed, IdleOwesNothing, [Next]_vars,
                    NEW w \in Resets, worker'[w].phase = "idle"
             PROVE  worker'[w].todo = {}
    BY DEF IdleOwesNothing
<1>1. WorkerEffect(w) /\ w \in Workers /\ w \notin Ticks
      BY WorkerSteps, ActionsAssumption DEF Workers
<1>2. worker'[w] = worker[w]
      BY <1>1 DEF WorkerEffect, EndTick
<1> QED BY <1>2 DEF IdleOwesNothing

Monitored(a) ==
    \/ Running(a) \/ record[a] = "COMPLETED"
    \/ start[a] = "applied"
    \/ \E w \in Workers : Owes(w, a)

LEMMA ListedNext ==
    Typed /\ IndexAgrees /\ OwnEntry /\ IdleOwesNothing /\ ListedIsMonitored /\ [Next]_vars
      => ListedIsMonitored'
<1> SUFFICES ASSUME Typed, IndexAgrees, OwnEntry, IdleOwesNothing, ListedIsMonitored, [Next]_vars
             PROVE  ListedIsMonitored'
    OBVIOUS
<1>a. listed' \subseteq Actions
      BY TypedNext DEF Typed, TypeOK
<1> SUFFICES ASSUME NEW a \in Actions, a \in listed'
             PROVE  Monitored(a)'
    BY <1>a DEF ListedIsMonitored, Monitored
<1>t. TypeOK /\ worker \in [Workers -> Worker] /\ PointersSound
      BY DEF Typed, TypeOK
<1>w. \A w \in Workers : worker[w] \in Worker
      BY <1>t
<1>d. Ticks \cap Resets = {}
      BY ActionsAssumption
<1>m. a \in listed => Monitored(a)
      BY DEF ListedIsMonitored, Monitored
<1>1. ASSUME a \in listed, record'[a] = record[a], start[a] = "applied" => start'[a] = "applied",
             \A w \in Workers : Owes(w, a) => Owes(w, a)'
      PROVE  Monitored(a)'
      BY <1>1, <1>m DEF Monitored, Running
\* A thread of which one knows what it owes next.
<1>2. ASSUME NEW w \in Workers, NEW r, worker' = [worker EXCEPT ![w] = r],
             Owes(w, a) => (w \in Resets /\ a \in r.todo) \/ (r.phase = "stopping" /\ r.at = a)
      PROVE  \A v \in Workers : Owes(v, a) => Owes(v, a)'
      <2> SUFFICES ASSUME NEW v \in Workers, Owes(v, a) PROVE Owes(v, a)'
          OBVIOUS
      <2>1. CASE v = w
            <3>1. worker'[w] = r
                  BY <1>2, <1>t
            <3> QED BY <1>2, <2>1, <3>1 DEF Owes
      <2>2. CASE v # w
            <3>1. worker'[v] = worker[v]
                  BY <1>2, <1>t, <2>2
            <3> QED BY <3>1 DEF Owes
      <2> QED BY <2>1, <2>2
<1>3. ASSUME NEW w \in Workers, NEW r, worker' = [worker EXCEPT ![w] = r],
             (w \in Resets /\ a \in r.todo) \/ (r.phase = "stopping" /\ r.at = a)
      PROVE  Monitored(a)'
      <2>1. worker'[w] = r
            BY <1>3, <1>t
      <2>2. Owes(w, a)'
            BY <1>3, <2>1 DEF Owes
      <2> QED BY <2>2 DEF Monitored
<1>4. CASE UNCHANGED <<record, start, worker>> /\ listed' \subseteq listed
      BY <1>1, <1>4 DEF Owes
<1>5. ASSUME NEW b \in Actions, ApplyStart(b) \/ RefuseStart(b) \/ RollBackStart(b)
      PROVE  Monitored(a)'
      <2>1. CASE ApplyStart(b) /\ a = b
            BY <2>1, <1>t DEF ApplyStart, Monitored, TypeOK
      <2>2. CASE ~(ApplyStart(b) /\ a = b)
            <3>1. a \in listed /\ record' = record /\ worker' = worker
                  BY <1>5, <2>2 DEF ApplyStart, RefuseStart, RollBackStart, StartedListed, DropOrphan
            <3>2. start[a] = "applied" => start'[a] = "applied"
                  BY <1>5, <2>2, <1>t
                  DEF ApplyStart, RefuseStart, RollBackStart, DropOrphan, TypeOK
            <3> QED BY <1>1, <3>1, <3>2 DEF Owes
      <2> QED BY <2>1, <2>2
<1>6. ASSUME NEW b \in Actions, RecordStart(b) PROVE Monitored(a)'
      <2>1. CASE a = b
            BY <1>6, <2>1 DEF RecordStart, Monitored, Running, RunningPhases
      <2>2. CASE a # b
            <3>1. a \in listed /\ start[b] = "applied" /\ worker' = worker
                  BY <1>6 DEF RecordStart
            <3>2. IntentOf[a] # IntentOf[b]
                  BY <2>2, <3>1 DEF OwnEntry
            <3>3. a \notin Superseded(b)
                  <4>1. SUFFICES ASSUME a \in Superseded(b) PROVE FALSE
                        OBVIOUS
                  <4>2. a = index[Key(b)] /\ a # None
                        BY <4>1 DEF Superseded
                  <4>3. Key(a) = Key(b)
                        BY <4>2, KeyType DEF IndexAgrees
                  <4> QED BY <4>3, <3>2 DEF Key
            <3>4. record'[a] = record[a] /\ start'[a] = start[a]
                  BY <1>6, <2>2, <3>3, <1>t DEF RecordStart, TypeOK
            <3> QED BY <1>1, <3>1, <3>4 DEF Owes
      <2> QED BY <2>1, <2>2
<1>7. ASSUME NEW b \in Actions, UpdateProgress(b) \/ CompleteAction(b) PROVE Monitored(a)'
      <2>1. CASE a = b
            BY <1>7, <2>1, <1>t
            DEF UpdateProgress, CompleteAction, Monitored, Running, RunningPhases, TypeOK
      <2>2. CASE a # b
            BY <1>1, <1>7, <2>2, <1>t DEF UpdateProgress, CompleteAction, Owes, TypeOK
      <2> QED BY <2>1, <2>2
<1>8. ASSUME NEW w \in Workers, NEW s \in Sessions \cup {None}, BeginTick(w, s) PROVE Monitored(a)'
      <2> DEFINE r == [worker[w] EXCEPT !.phase = "looping",
                         !.todo = {b \in Actions : Running(b) /\ InScope(b, s)}]
      <2>1. worker' = [worker EXCEPT ![w] = r] /\ ~Owes(w, a)
            BY <1>8, <1>d DEF BeginTick, Owes
      <2> HIDE DEF r
      <2>2. \A v \in Workers : Owes(v, a) => Owes(v, a)'
            BY <2>1, <1>2
      <2> QED BY <1>1, <1>8, <2>2 DEF BeginTick
<1>9. ASSUME NEW w \in Workers, NEW s \in Sessions \cup {None}, BeginReset(w, s) PROVE Monitored(a)'
      <2> DEFINE S == {b \in Actions : Running(b) /\ InScope(b, s)}
                 r == [worker[w] EXCEPT !.phase = "looping", !.scope = s, !.todo = S]
      <2>1. worker' = [worker EXCEPT ![w] = r] /\ ~Owes(w, a) /\ w \in Resets
            BY <1>9 DEF BeginReset, Owes, IdleOwesNothing
      <2>2. Mark(S, "STOPPED") /\ S \in SUBSET Actions /\ a \in listed /\ start' = start
            BY <1>9 DEF BeginReset
      <2>3. r.todo = S
            BY <1>w DEF Worker
      <2> HIDE DEF r, S
      <2>4. CASE a \in S
            BY <2>1, <2>3, <2>4, <1>3
      <2>5. CASE a \notin S
            <3>1. \A v \in Workers : Owes(v, a) => Owes(v, a)'
                  BY <2>1, <1>2
            <3>2. record'[a] = record[a]
                  BY <2>2, <2>5, <1>t, MarkEffect DEF TerminalPhases
            <3> QED BY <1>1, <2>2, <3>1, <3>2
      <2> QED BY <2>4, <2>5
<1>10. ASSUME NEW w \in Workers, NEW b \in Actions, PassOver(w, b) PROVE Monitored(a)'
      <2> DEFINE r == [worker[w] EXCEPT !.todo = @ \ {b}]
      <2>1. worker' = [worker EXCEPT ![w] = r] /\ ~Owes(w, a)
            BY <1>10, <1>t, <1>d DEF PassOver, Owes
      <2> HIDE DEF r
      <2>2. \A v \in Workers : Owes(v, a) => Owes(v, a)'
            BY <2>1, <1>2
      <2> QED BY <1>1, <1>10, <2>2 DEF PassOver
<1>11. ASSUME NEW w \in Workers, NEW b \in Actions, StopVerdict(w, b) \/ SweepNext(w, b)
       PROVE  Monitored(a)'
      <2> DEFINE r == [worker[w] EXCEPT !.phase = "stopping", !.at = b, !.todo = @ \ {b}]
      <2>1. worker' = [worker EXCEPT ![w] = r] /\ a \in listed /\ start' = start
            BY <1>11 DEF StopVerdict, SweepNext
      <2>2. r.phase = "stopping" /\ r.at = b /\ r.todo = worker[w].todo \ {b}
            BY <1>w DEF Worker
      <2>3. worker[w].phase = "looping"
            BY <1>11 DEF StopVerdict, SweepNext
      <2> HIDE DEF r
      <2>4. CASE a = b
            BY <2>1, <2>2, <2>4, <1>3
      <2>5. CASE a # b
            <3>1. Owes(w, a) => w \in Resets /\ a \in r.todo
                  BY <2>2, <2>3, <2>5 DEF Owes
            <3>2. \A v \in Workers : Owes(v, a) => Owes(v, a)'
                  BY <2>1, <3>1, <1>2
            <3>3. record'[a] = record[a]
                  <4>1. CASE SweepNext(w, b)
                        BY <4>1 DEF SweepNext
                  <4>2. CASE StopVerdict(w, b)
                        <5>1. PICK phase \in TerminalPhases : Mark({b}, phase)
                              BY <4>2 DEF StopVerdict, TerminalPhases
                        <5> QED BY <5>1, <2>5, <1>t DEF Mark
                  <4> QED BY <1>11, <4>1, <4>2
            <3> QED BY <1>1, <2>1, <3>2, <3>3
      <2> QED BY <2>4, <2>5
<1>12. ASSUME NEW w \in Workers, HandleStop(w) \/ HandleAacStop(w) PROVE Monitored(a)'
      <2>1. /\ a \in listed /\ a # worker[w].at
            /\ UNCHANGED <<record, start>>
            BY <1>12 DEF HandleStop, HandleAacStop, Delist
      <2>2. worker' = [worker EXCEPT ![w] = worker'[w]]
            BY <1>12, <1>t DEF HandleStop, HandleAacStop
      <2>3. worker'[w].todo = worker[w].todo
            <3>1. CASE HandleStop(w)
                  BY <3>1, <1>t, <1>w DEF HandleStop, Worker
            <3>2. CASE HandleAacStop(w)
                  <4> DEFINE r == [worker[w] EXCEPT
                                     !.phase = IF "hda" \in on THEN "cascading" ELSE "looping",
                                     !.cut = IF "hda" \in on THEN HdaEntries ELSE {}]
                  <4>1. worker' = [worker EXCEPT ![w] = r]
                        BY <3>2 DEF HandleAacStop
                  <4>2. r.todo = worker[w].todo
                        BY <1>w DEF Worker
                  <4> HIDE DEF r
                  <4> QED BY <4>1, <4>2, <1>t
            <3> QED BY <1>12, <3>1, <3>2
      <2> DEFINE r == worker'[w]
      <2>4. worker' = [worker EXCEPT ![w] = r] /\ r.todo = worker[w].todo
            BY <2>2, <2>3
      <2> HIDE DEF r
      <2>5. Owes(w, a) => w \in Resets /\ a \in r.todo
            BY <2>1, <2>4 DEF Owes
      <2>6. \A v \in Workers : Owes(v, a) => Owes(v, a)'
            BY <2>4, <2>5, <1>2
      <2> QED BY <1>1, <2>1, <2>6
<1>13. ASSUME NEW w \in Workers, FindCascade(w) PROVE Monitored(a)'
      <2> DEFINE b == index[<<SessionOf[worker[w].at], "hda">>]
                 r == [worker[w] EXCEPT !.phase = IF b # None THEN "cascaded" ELSE "looping",
                                        !.next = b]
      <2>1. worker' = [worker EXCEPT ![w] = r] /\ worker[w].phase = "cascading"
            BY <1>13 DEF FindCascade
      <2> HIDE DEF b
      <2>2. r.todo = worker[w].todo
            BY <1>w DEF Worker
      <2> HIDE DEF r
      <2>3. Owes(w, a) => w \in Resets /\ a \in r.todo
            BY <2>1, <2>2 DEF Owes
      <2>4. \A v \in Workers : Owes(v, a) => Owes(v, a)'
            BY <2>1, <2>3, <1>2
      <2> QED BY <1>1, <1>13, <2>4 DEF FindCascade
<1>14. ASSUME NEW w \in Workers, StopCascade(w) PROVE Monitored(a)'
      <2> DEFINE b == worker[w].next
                 stop == [worker[w] EXCEPT !.phase = "stopping", !.at = b]
                 skip == [worker[w] EXCEPT !.phase = "looping"]
      <2>1. worker[w].phase = "cascaded" /\ a \in listed /\ start' = start
            BY <1>14 DEF StopCascade
      <2>2. stop.phase = "stopping" /\ stop.at = b /\ stop.todo = worker[w].todo
            BY <1>w DEF Worker
      <2>3. skip.todo = worker[w].todo
            BY <1>w DEF Worker
      <2>4. Owes(w, a) => w \in Resets /\ a \in worker[w].todo
            BY <2>1 DEF Owes
      <2>5. CASE Stoppable(b)
            <3>1. Mark({b}, "STOPPED") /\ worker' = [worker EXCEPT ![w] = stop]
                  BY <1>14, <2>5 DEF StopCascade
            <3> HIDE DEF stop, b
            <3>2. CASE a = b
                  BY <2>2, <3>1, <3>2, <1>3
            <3>3. CASE a # b
                  <4>1. \A v \in Workers : Owes(v, a) => Owes(v, a)'
                        BY <2>2, <2>4, <3>1, <1>2
                  <4>2. record'[a] = record[a]
                        BY <3>1, <3>3 DEF Mark
                  <4> QED BY <1>1, <2>1, <4>1, <4>2
            <3> QED BY <3>2, <3>3
      <2>6. CASE ~Stoppable(b)
            <3>1. worker' = [worker EXCEPT ![w] = skip] /\ record' = record
                  BY <1>14, <1>t, <2>6 DEF StopCascade
            <3> HIDE DEF skip
            <3>2. \A v \in Workers : Owes(v, a) => Owes(v, a)'
                  BY <2>3, <2>4, <3>1, <1>2
            <3> QED BY <1>1, <2>1, <3>1, <3>2
      <2> QED BY <2>5, <2>6
<1>15. ASSUME NEW w \in Workers, EndTick(w) \/ EndReset(w) PROVE Monitored(a)'
      <2> DEFINE r == [worker[w] EXCEPT !.phase = "done"]
      <2>1. worker' = [worker EXCEPT ![w] = r] /\ worker[w].phase = "looping"
            BY <1>15, <1>t DEF EndTick, EndReset
      <2>2. a \in listed /\ UNCHANGED <<record, start>>
            BY <1>15 DEF EndTick, EndReset
      <2>3. r.todo = worker[w].todo
            BY <1>w DEF Worker
      <2> HIDE DEF r
      <2>4. Owes(w, a) => w \in Resets /\ a \in r.todo
            BY <2>1, <2>3 DEF Owes
      <2>5. \A v \in Workers : Owes(v, a) => Owes(v, a)'
            BY <2>1, <2>4, <1>2
      <2> QED BY <1>1, <2>2, <2>5
<1>16. CASE SetPower \/ (\E p \in Presets : ApplyPreset(p)) \/ UNCHANGED vars
      BY <1>4, <1>16 DEF SetPower, ApplyPreset, vars
<1> QED
    BY <1>5, <1>6, <1>7, <1>8, <1>9, <1>10, <1>11, <1>12, <1>13, <1>14, <1>15, <1>16
    DEF Next, WorkerStep, StartStep
-----------------------------------------------------------------------------
\* The inductive invariant.
Inv ==
    /\ Typed
    /\ StartsMatch
    /\ BoundaryHeld
    /\ IndexAgrees
    /\ SweptStaysStopped
    /\ AtOutOfTodo
    /\ StopHandledOnce
    /\ OwnEntry
    /\ IdleOwesNothing
    /\ ListedIsMonitored

LEMMA InvInit == Init => Inv
<1> SUFFICES ASSUME Init PROVE Inv
    OBVIOUS
<1>1. Typed
      BY TypedInit
<1>2. StartsMatch /\ BoundaryHeld
      BY DEF Init, StartsMatch, BoundaryHeld, Workers
<1>3. IndexAgrees
      BY DEF Init, IndexAgrees, Running, RunningPhases
<1>4. SweptStaysStopped /\ AtOutOfTodo
      BY DEF Init, SweptStaysStopped, AtOutOfTodo, Workers
<1>5. StopHandledOnce
      BY DEF Init, StopHandledOnce, Owes, Workers
<1>6. OwnEntry /\ IdleOwesNothing /\ ListedIsMonitored
      BY DEF Init, OwnEntry, IdleOwesNothing, ListedIsMonitored, Workers
<1> QED BY <1>1, <1>2, <1>3, <1>4, <1>5, <1>6 DEF Inv

LEMMA InvNext == Inv /\ [Next]_vars => Inv'
BY TypedNext, StartsMatchNext, BoundaryHeldNext, IndexAgreesNext, SweptNext, AtOutOfTodoNext,
   HandledOnceNext, OwnEntryNext, IdleNext, ListedNext
DEF Inv

LEMMA Invariant == Spec => []Inv
BY InvInit, InvNext, PTL DEF Spec

\* registry._running_index names exactly the records that run, through
\* restarts, stops, sweeps and completions in any order.
THEOREM IndexIsRight == Spec => []IndexAgrees
BY Invariant, PTL DEF Inv

\* However many evaluations, resets, cascades and restarts race to stop a
\* record, its stop handler is called at most once.
THEOREM HandledOnce == Spec => []StopHandledOnce
BY Invariant, PTL DEF Inv

\* No entry of the vehicle's list escapes the monitor: its record runs or was
\* completed, its start is between its two writes, or a stop handler that will
\* remove it is owed.
THEOREM NothingOrphaned == Spec => []ListedIsMonitored
BY Invariant, PTL DEF Inv

\* While a reset is under way nothing in its scope runs, and nothing is
\* registered behind its back: the lifecycle boundary keeps starts out.
THEOREM SweptStays == Spec => []SweptStaysStopped
BY Invariant, PTL DEF Inv

\* A record that has stopped, failed or completed never runs again.
THEOREM EndedForGood == Spec => EndedIsFinal
<1>1. Inv /\ [Next]_vars => [\A a \in Actions : record[a] \in TerminalPhases => record'[a] = record[a]]_vars
      BY EndedStays DEF Inv, Ended
<1> QED BY <1>1, Invariant, PTL DEF Spec, EndedIsFinal
=============================================================================
