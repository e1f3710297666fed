--------------------------- MODULE EventStream_proofs ---------------------------
(***************************************************************************)
(* The order of a stream, its delivery and its reading across a reset, for *)
(* any sessions, emitters, subscriptions, connections, resets and limits.  *)
(***************************************************************************)
EXTENDS EventStream, FiniteSetTheorems, TLAPS

Subscription ==
    [phase : {"new", "open", "dropped", "closed"}, pending : Seq(Nat),
     watermark : Nat, delivering : BOOLEAN]
Stored == [session : Sessions, sequence : Nat]

Types ==
    /\ events \in [Sessions -> Seq(Events)]
    /\ emitted \in [Emitters -> Stored \cup {None}]
    /\ sub \in [Subscribers -> Subscription]
    /\ drain \in [Threads -> Seq(Subscribers)]
    /\ calling \subseteq Threads
    /\ got \in [Subscribers -> Seq(Nat)]

\* A thread in a callback has something to drain, one that has yet to notify or
\* to subscribe has nothing.
BusyInv ==
    /\ \A th \in calling : drain[th] # <<>>
    /\ \A e \in Emitters : emitted[e] # None => drain[e] = <<>>
    /\ \A k \in Subscribers : sub[k].phase = "new" => drain[k] = <<>>

Increasing(q) == \A i, j \in DOMAIN q : i < j => q[i] < q[j]

\* What was delivered and what is queued continue each other, below the
\* watermark that the next event must exceed.
InLine(k) ==
    /\ Increasing(got[k]) /\ Increasing(sub[k].pending)
    /\ \A i \in DOMAIN got[k], j \in DOMAIN sub[k].pending :
           got[k][i] < sub[k].pending[j]
    /\ sub[k].phase # "open" => sub[k].pending = <<>>
    /\ sub[k].phase = "new" => got[k] = <<>>
    /\ sub[k].phase = "open" =>
           /\ \A i \in DOMAIN got[k] : got[k][i] <= sub[k].watermark
           /\ \A i \in DOMAIN sub[k].pending : sub[k].pending[i] <= sub[k].watermark

LineInv == \A k \in Subscribers : InLine(k)

Drains(th, k) == \E i \in DOMAIN drain[th] : drain[th][i] = k

\* Nobody drains twice, and no two threads the same subscription.
Alone ==
    \A x, y \in Threads : \A i \in DOMAIN drain[x], j \in DOMAIN drain[y] :
        drain[x][i] = drain[y][j] => x = y /\ i = j

\* The flag says whether somebody drains.
Flagged(k) ==
    /\ sub[k].phase = "open" =>
          /\ sub[k].delivering <=> \E th \in Threads : Drains(th, k)
          /\ sub[k].pending # <<>> => sub[k].delivering
    /\ sub[k].phase = "new" => \A th \in Threads : ~Drains(th, k)

DrainInv == Alone /\ \A k \in Subscribers : Flagged(k)

\* A proposal is unique, and a decision follows its proposal.
Answers(q) ==
    /\ \A i, j \in OfType(q, "proposal") : q[i].proposal = q[j].proposal => i = j
    /\ \A d \in OfType(q, "decision") :
          \E a \in OfType(q, "proposal") :
             a < d /\ q[a].proposal = q[d].proposal

\* The chunks of a turn's answer are numbered as they come and end with the
\* final one.
Whole(q) ==
    \A t \in Turns : \A i \in InTurn(q, "chunk", t) :
        /\ q[i].index = Cardinality({j \in InTurn(q, "chunk", t) : j < i})
        /\ q[i].final => \A j \in InTurn(q, "chunk", t) : j <= i

CausalInv == (\A s \in Sessions : Answers(events[s])) /\ ExecutionFollowsAllow

\* What is acknowledged is of the present numbering, or of no account, or a
\* reset has still to take it back, or it came too late for that.
Reads(c) ==
    /\ \/ acked[c].sequence = 0
       \/ acked[c].epoch = epoch[Follows[c]]
       \/ acked[c].late
       \/ Resetting(Follows[c])
    /\ conn[c].phase = "asking" =>
          \/ conn[c].crossed \/ conn[c].late
          \/ conn[c].cursor = 0 \/ conn[c].of = conn[c].epoch

Ack == [sequence : Nat, epoch : Nat, late : BOOLEAN]
Asking ==
    [phase : {"idle", "asking", "answered", "absent"}, cursor : Nat, of : Nat,
     late : BOOLEAN, epoch : Nat, crossed : BOOLEAN, next : Nat]

ReadInv ==
    /\ events \in [Sessions -> Seq(Events)]
    /\ epoch \in [Sessions -> Nat]
    /\ reset \in [Resets -> {"idle", "cleared", "done"}]
    /\ acked \in [Connections -> Ack] /\ conn \in [Connections -> Asking]
    /\ \A c \in Connections : Reads(c)

(***************************************************************************)
(* Sequences.                                                              *)
(***************************************************************************)

\* SetToSeq lists a finite set, each element once.
LEMMA Listed ==
    ASSUME NEW S, IsFiniteSet(S)
    PROVE  LET q == SetToSeq(S) IN
           /\ q \in Seq(S)
           /\ \A i, j \in DOMAIN q : q[i] = q[j] => i = j
           /\ \A x \in S : \E i \in DOMAIN q : q[i] = x
<1>1. PICK f \in Bijection(1..Cardinality(S), S) : TRUE
      BY FS_CardinalityType DEF ExistsBijection
<1>2. f \in [1..Cardinality(S) -> S] /\ IsInjective(f)
      BY <1>1 DEF Bijection, Injection, IsInjective
<1> DEFINE q == SetToSeq(S)
<1>3. q \in [1..Cardinality(S) -> S] /\ IsInjective(q)
      BY <1>2 DEF SetToSeq
<1>4. Cardinality(S) \in Nat
      BY FS_CardinalityType
<1>5. q \in Seq(S)
      BY <1>3, <1>4
<1>6. q \in Injection(1..Cardinality(S), S)
      BY <1>3 DEF Injection, IsInjective
<1>7. /\ IsFiniteSet(1..Cardinality(S))
      /\ Cardinality(1..Cardinality(S)) = Cardinality(S)
      BY <1>4, FS_Interval
<1>8. q \in Surjection(1..Cardinality(S), S)
      BY <1>6, <1>7, FS_Injection
<1> QED BY <1>3, <1>5, <1>8 DEF Surjection, IsInjective

\* Entering a set of subscriptions at the end of a queue, or taking its head.
LEMMA Longer ==
    ASSUME NEW S, NEW q \in Seq(S), NEW x \in S
    PROVE  /\ Append(q, x) \in Seq(S)
           /\ DOMAIN Append(q, x) = DOMAIN q \cup {Len(q) + 1}
           /\ Len(q) + 1 \notin DOMAIN q
           /\ \A i \in DOMAIN q : i \in Nat /\ i <= Len(q) /\ Append(q, x)[i] = q[i]
           /\ Append(q, x)[Len(q) + 1] = x
OBVIOUS

LEMMA Shorter ==
    ASSUME NEW S, NEW q \in Seq(S), q # <<>>
    PROVE  /\ Tail(q) \in Seq(S) /\ Head(q) \in S /\ Head(q) = q[1]
           /\ 1 \in DOMAIN q
           /\ \A i \in DOMAIN Tail(q) : i \in Nat /\ i + 1 \in DOMAIN q /\ Tail(q)[i] = q[i + 1]
           /\ \A i \in DOMAIN q : i = 1 \/ (i - 1 \in DOMAIN Tail(q) /\ Tail(q)[i - 1] = q[i])
OBVIOUS

LEMMA EventTurns == \A ev \in Events : ev.turn \in Turns
BY DEF Events, TurnProgressEvents, ResponseChunkEvents, ProposalEvents, DecisionEvents,
       ExecutionEvents, EffectEvents, StateChangedEvents

LEMMA HistoryType ==
    ASSUME Types, NEW k \in Subscribers, Follows[k] \in Sessions, Since[k] \in Nat
    PROVE  /\ HistoryOf(k) \in Seq(Nat)
           /\ \A i \in DOMAIN HistoryOf(k) : i \in Nat /\ HistoryOf(k)[i] = Since[k] + i
<1>1. Len(events[Follows[k]]) \in Nat
      BY DEF Types
<1>2. CASE Since[k] < Len(events[Follows[k]])
  <2> DEFINE n == Len(events[Follows[k]]) - Since[k]
  <2>1. n \in Nat
        BY <1>1, <1>2
  <2>2. HistoryOf(k) = [i \in 1..n |-> Since[k] + i]
        BY <1>2 DEF HistoryOf
  <2> QED BY <2>1, <2>2
<1>3. CASE ~(Since[k] < Len(events[Follows[k]]))
      BY <1>3 DEF HistoryOf
<1> QED BY <1>2, <1>3

LEMMA Subscriptions ==
    ASSUME NEW r \in Subscription
    PROVE  /\ r.pending \in Seq(Nat) /\ r.watermark \in Nat
           /\ Dropped(r) \in Subscription
           /\ Dropped(r).phase = "dropped" /\ Dropped(r).pending = <<>>
           /\ [Dropped(r) EXCEPT !.phase = "closed"] \in Subscription
           /\ [Dropped(r) EXCEPT !.phase = "closed"].phase = "closed"
           /\ [Dropped(r) EXCEPT !.phase = "closed"].pending = <<>>
           /\ [r EXCEPT !.delivering = FALSE] \in Subscription
           /\ \A q \in Seq(Nat) : [r EXCEPT !.pending = q] \in Subscription
<1>2. <<>> \in Seq(Nat)
      OBVIOUS
<1> DEFINE d == Dropped(r)
<1>3. d.phase = "dropped" /\ d.pending = <<>> /\ d.watermark = r.watermark
      /\ d.delivering = r.delivering
      BY DEF Dropped, Subscription
<1>4. d \in Subscription
      BY <1>2 DEF Dropped, Subscription
<1>7. [d EXCEPT !.phase = "closed"] \in Subscription
      BY <1>4 DEF Subscription
<1>8. [d EXCEPT !.phase = "closed"].phase = "closed" /\ [d EXCEPT !.phase = "closed"].pending = <<>>
      BY <1>3, <1>4 DEF Subscription
<1>5. \A q \in Seq(Nat) : [r EXCEPT !.pending = q] \in Subscription
      BY DEF Subscription
<1>6. [r EXCEPT !.delivering = FALSE] \in Subscription
      BY DEF Subscription
<1> QED BY <1>3, <1>4, <1>5, <1>6, <1>7, <1>8 DEF Subscription

LEMMA Queueing ==
    ASSUME NEW r \in Subscription, NEW ev \in Stored
    PROVE  /\ Queued(r, ev) \in Subscription
           /\ Queued(r, ev).phase = r.phase
           /\ Queued(r, ev).pending = Append(r.pending, ev.sequence)
           /\ Queued(r, ev).watermark = ev.sequence
           /\ Queued(r, ev).delivering = TRUE
<1>1. r.pending \in Seq(Nat) /\ ev.sequence \in Nat
      BY DEF Subscription, Stored
<1>2. Append(r.pending, ev.sequence) \in Seq(Nat)
      BY <1>1
<1> QED BY <1>2 DEF Queued, Subscription, Stored

LEMMA Fresh == Unopened \in Subscription /\ Unopened.phase = "new" /\ Unopened.pending = <<>>
<1>1. <<>> \in Seq(Nat)
      OBVIOUS
<1> QED BY <1>1 DEF Unopened, Subscription

LEMMA InitTypes == Init => Types
<1> SUFFICES ASSUME Init PROVE Types
    OBVIOUS
<1>1. sub \in [Subscribers -> Subscription]
      BY Fresh, Subscriptions DEF Init
<1>2. events \in [Sessions -> Seq(Events)]
  <2>1. <<>> \in Seq(Events)
        OBVIOUS
  <2> QED BY <2>1 DEF Init
<1>3. drain \in [Threads -> Seq(Subscribers)] /\ got \in [Subscribers -> Seq(Nat)]
  <2>1. <<>> \in Seq(Subscribers) /\ <<>> \in Seq(Nat)
        OBVIOUS
  <2> QED BY <2>1 DEF Init
<1> QED BY <1>1, <1>2, <1>3 DEF Init, Types

LEMMA TypeStep == Types /\ BusyInv /\ [Next]_vars => Types'
<1> SUFFICES ASSUME Types, BusyInv, [Next]_vars PROVE Types'
    OBVIOUS
<1> USE DEF Types
<1>1. ASSUME NEW e \in Emitters, NEW ev \in Emits[e], Store(e, ev) PROVE Types'
  <2>1. ev \in Events
        BY StreamAssumption
  <2>2. SessionOf[ev.turn] \in Sessions
        BY <2>1, EventTurns, StreamAssumption
  <2>3. events' \in [Sessions -> Seq(Events)]
        BY <1>1, <2>1, <2>2 DEF Store
  <2>4. emitted' \in [Emitters -> Stored \cup {None}]
        BY <1>1, <2>2 DEF Store, Stored
  <2> QED BY <1>1, <2>3, <2>4 DEF Store
<1>2. ASSUME NEW e \in Emitters, Notify(e) PROVE Types'
  <2> DEFINE ev == emitted[e]
             heard == {k \in Subscribers : Listens(k, ev)}
             ready == {k \in heard : ~Overflows(k) /\ ~sub[k].delivering}
  <2>1. ev \in Stored
        BY <1>2 DEF Notify
  <2>2. \A k \in Subscribers :
           Queued(sub[k], ev) \in Subscription /\ Dropped(sub[k]) \in Subscription
        BY <2>1, Queueing, Subscriptions
  <2>3. sub' \in [Subscribers -> Subscription]
        BY <1>2, <2>2 DEF Notify
  <2>4. IsFiniteSet(ready)
        BY StreamAssumption, FS_Subset
  <2>5. SetToSeq(ready) \in Seq(Subscribers)
        BY <2>4, Listed
  <2>6. drain' \in [Threads -> Seq(Subscribers)]
        BY <1>2, <2>5 DEF Notify
  <2> QED BY <1>2, <2>3, <2>6 DEF Notify
<1>3. ASSUME NEW th \in Threads, Deliver(th) PROVE Types'
  <2>1. drain[th] # <<>>
        BY <1>3 DEF Deliver, DrainEnds, CallBack, CallBackReturns, CallBackRaises, BusyInv
  <2>2. Head(drain[th]) \in Subscribers /\ Tail(drain[th]) \in Seq(Subscribers)
        BY <2>1, Shorter
  <2>3. CASE DrainEnds(th)
    <3>1. sub' \in [Subscribers -> Subscription]
          BY <2>2, <2>3, Subscriptions DEF DrainEnds
    <3>2. drain' \in [Threads -> Seq(Subscribers)]
          BY <2>2, <2>3 DEF DrainEnds
    <3> QED BY <2>3, <3>1, <3>2 DEF DrainEnds
  <2>4. CASE CallBack(th)
    <3> DEFINE k == Head(drain[th])
    <3>1. sub[k].pending \in Seq(Nat) /\ sub[k].pending # <<>>
          BY <2>2, <2>4, Subscriptions DEF CallBack
    <3>2. Head(sub[k].pending) \in Nat /\ Tail(sub[k].pending) \in Seq(Nat)
          BY <3>1, Shorter
    <3>3. [sub[k] EXCEPT !.pending = Tail(sub[k].pending)] \in Subscription
          BY <2>2, <3>2, Subscriptions
    <3>4. sub' = [sub EXCEPT ![k] = [sub[k] EXCEPT !.pending = Tail(sub[k].pending)]]
          BY <2>4 DEF CallBack
    <3>5. sub' \in [Subscribers -> Subscription]
          BY <3>3, <3>4
    <3>6. got' \in [Subscribers -> Seq(Nat)]
          BY <2>2, <2>4, <3>2 DEF CallBack
    <3> QED BY <2>4, <3>5, <3>6 DEF CallBack
  <2>5. CASE CallBackReturns(th)
        BY <2>5 DEF CallBackReturns
  <2>6. CASE CallBackRaises(th)
    <3>1. sub' \in [Subscribers -> Subscription]
          BY <2>2, <2>6, Subscriptions DEF CallBackRaises
    <3>2. drain' \in [Threads -> Seq(Subscribers)]
          BY <2>2, <2>6 DEF CallBackRaises
    <3> QED BY <2>6, <3>1, <3>2 DEF CallBackRaises
  <2> QED BY <1>3, <2>3, <2>4, <2>5, <2>6 DEF Deliver
<1>4. ASSUME NEW k \in Subscribers, Subscribe(k) PROVE Types'
  <2>1. Follows[k] \in Sessions /\ Since[k] \in Nat
        BY StreamAssumption
  <2>2. HistoryOf(k) \in Seq(Nat)
        BY <2>1, HistoryType
  <2>3. HistoryOf(k) # <<>> => Last(HistoryOf(k)) \in Nat
        BY <2>2 DEF Last
  <2>4. sub' \in [Subscribers -> Subscription]
    <3>1. CASE Len(HistoryOf(k)) > MaxPending
      <4>1. sub' = [sub EXCEPT ![k] = [sub[k] EXCEPT !.phase = "dropped"]]
            BY <1>4, <3>1 DEF Subscribe
      <4>2. sub[k] \in Subscription
            BY DEF Types
      <4>3. [sub[k] EXCEPT !.phase = "dropped"] \in Subscription
            BY <4>2 DEF Subscription
      <4> QED BY <4>1, <4>3 DEF Types
    <3>2. CASE ~(Len(HistoryOf(k)) > MaxPending)
      <4> DEFINE r == [phase |-> "open", pending |-> HistoryOf(k),
                       delivering |-> HistoryOf(k) # <<>>,
                       watermark |-> IF HistoryOf(k) = <<>> THEN Since[k]
                                                           ELSE Last(HistoryOf(k))]
      <4>1. r.delivering \in BOOLEAN /\ r.watermark \in Nat
            BY <2>1, <2>3
      <4>2. r \in Subscription
            BY <2>2, <4>1 DEF Subscription
      <4>3. sub' = [sub EXCEPT ![k] = r]
            BY <1>4, <3>2 DEF Subscribe
      <4> QED BY <4>2, <4>3
    <3> QED BY <3>1, <3>2
  <2>5. drain' \in [Threads -> Seq(Subscribers)]
    <3>1. <<>> \in Seq(Subscribers) /\ <<k>> \in Seq(Subscribers)
          OBVIOUS
    <3> QED BY <1>4, <3>1 DEF Subscribe
  <2> QED BY <1>4, <2>4, <2>5 DEF Subscribe
<1>5. ASSUME NEW k \in Subscribers, Unsubscribe(k) PROVE Types'
  <2>1. sub' \in [Subscribers -> Subscription]
        BY <1>5, Subscriptions DEF Unsubscribe
  <2> QED BY <1>5, <2>1 DEF Unsubscribe
<1>6. ASSUME NEW c \in Connections, Reconnect(c) PROVE Types'
      BY <1>6 DEF Reconnect, ReadCursor, GetEvents, Acknowledge
<1>7. ASSUME NEW r \in Resets, Reset(r) PROVE Types'
  <2>1. <<>> \in Seq(Events)
        OBVIOUS
  <2>2. events' \in [Sessions -> Seq(Events)]
        BY <1>7, <2>1 DEF Reset, ClearEvents, ResetConnections
  <2> QED BY <1>7, <2>2 DEF Reset, ClearEvents, ResetConnections
<1>8. CASE UNCHANGED vars
      BY <1>8 DEF vars
<1> QED BY <1>1, <1>2, <1>3, <1>4, <1>5, <1>6, <1>7, <1>8 DEF Next, Emit

LEMMA BusyStep == Types /\ BusyInv /\ [Next]_vars => BusyInv'
<1> SUFFICES ASSUME Types, BusyInv, [Next]_vars PROVE BusyInv'
    OBVIOUS
<1> USE DEF Types, BusyInv, Threads
<1>1. ASSUME NEW e \in Emitters, NEW ev \in Emits[e], Store(e, ev) PROVE BusyInv'
      BY <1>1 DEF Store, Idle
<1>2. ASSUME NEW e \in Emitters, Notify(e) PROVE BusyInv'
  <2>1. e \notin calling /\ e \notin Subscribers
        BY <1>2, StreamAssumption DEF Notify
  <2>2. \A x \in Threads \ {e} : drain'[x] = drain[x]
        BY <1>2 DEF Notify
  <2>3. \A k \in Subscribers : sub'[k].phase = "new" => sub[k].phase = "new"
    <3>1. emitted[e] \in Stored
          BY <1>2 DEF Notify
    <3> QED BY <1>2, <3>1, Queueing, Subscriptions DEF Notify
  <2>4. emitted' = [emitted EXCEPT ![e] = None] /\ calling' = calling
        BY <1>2 DEF Notify
  <2> QED BY <2>1, <2>2, <2>3, <2>4
<1>3. ASSUME NEW th \in Threads, Deliver(th) PROVE BusyInv'
  <2>1. PICK h \in Subscribers : h = Head(drain[th]) /\ drain[th] # <<>>
    <3>1. drain[th] # <<>>
          BY <1>3 DEF Deliver, DrainEnds, CallBack, CallBackReturns, CallBackRaises
    <3> QED BY <3>1, Shorter
  <2>2. \A k \in Subscribers : sub'[k].phase = "new" => sub[k].phase = "new"
    <3>1. \A k \in Subscribers : k # h => sub'[k] = sub[k]
          BY <1>3, <2>1 DEF Deliver, DrainEnds, CallBack, CallBackReturns, CallBackRaises
    <3>2. sub[h] \in Subscription
          OBVIOUS
    <3>3. sub'[h] \in {sub[h], [sub[h] EXCEPT !.delivering = FALSE], Dropped(sub[h]),
                     [sub[h] EXCEPT !.pending = Tail(@)]}
          BY <1>3, <2>1 DEF Deliver, DrainEnds, CallBack, CallBackReturns, CallBackRaises
    <3>4. \A r \in Subscription :
             /\ [r EXCEPT !.delivering = FALSE].phase = r.phase
             /\ [r EXCEPT !.pending = Tail(@)].phase = r.phase
          BY DEF Subscription
    <3>5. sub'[h].phase = "new" => sub[h].phase = "new"
          BY <3>2, <3>3, <3>4, Subscriptions
    <3> QED BY <3>1, <3>5
  <2>3. emitted' = emitted
        BY <1>3 DEF Deliver, DrainEnds, CallBack, CallBackReturns, CallBackRaises
  <2>4. \A x \in Threads : x # th => drain'[x] = drain[x]
        BY <1>3 DEF Deliver, DrainEnds, CallBack, CallBackReturns, CallBackRaises
  <2>5. drain'[th] = drain[th] \/ (drain'[th] = Tail(drain[th]) /\ th \notin calling')
        BY <1>3 DEF Deliver, DrainEnds, CallBack, CallBackReturns, CallBackRaises
  <2>6. calling' \subseteq calling \cup {th}
        BY <1>3 DEF Deliver, DrainEnds, CallBack, CallBackReturns, CallBackRaises
  <2>7. \A x \in calling' : drain'[x] # <<>>
        BY <2>1, <2>4, <2>5, <2>6
  <2>8. \A e \in Emitters : emitted[e] # None => e # th
        BY <2>1
  <2>9. \A k \in Subscribers : sub[k].phase = "new" => k # th
        BY <2>1
  <2> QED BY <2>2, <2>3, <2>4, <2>7, <2>8, <2>9
<1>4. ASSUME NEW j \in Subscribers, Subscribe(j) PROVE BusyInv'
  <2>1. /\ j \notin calling /\ j \notin Emitters
        BY <1>4, StreamAssumption DEF Subscribe
  <2>2. \A x \in Threads : x # j => drain'[x] = drain[x]
        BY <1>4 DEF Subscribe
  <2>3. \A k \in Subscribers : k # j => sub'[k] = sub[k]
        BY <1>4 DEF Subscribe
  <2>4. sub'[j].phase # "new"
        BY <1>4 DEF Subscribe, Subscription
  <2>5. emitted' = emitted /\ calling' = calling
        BY <1>4 DEF Subscribe
  <2> QED BY <2>1, <2>2, <2>3, <2>4, <2>5
<1>5. ASSUME NEW j \in Subscribers, Unsubscribe(j) PROVE BusyInv'
  <2>1. \A k \in Subscribers : k # j => sub'[k] = sub[k]
        BY <1>5 DEF Unsubscribe
  <2>2. sub'[j].phase = "closed"
        BY <1>5, Subscriptions DEF Unsubscribe
  <2> QED BY <1>5, <2>1, <2>2 DEF Unsubscribe
<1>6. ASSUME NEW c \in Connections, Reconnect(c) PROVE BusyInv'
      BY <1>6 DEF Reconnect, ReadCursor, GetEvents, Acknowledge
<1>7. ASSUME NEW r \in Resets, Reset(r) PROVE BusyInv'
      BY <1>7 DEF Reset, ClearEvents, ResetConnections
<1>8. CASE UNCHANGED vars
      BY <1>8 DEF vars
<1> QED BY <1>1, <1>2, <1>3, <1>4, <1>5, <1>6, <1>7, <1>8 DEF Next, Emit

(***************************************************************************)
(* Delivery in order.                                                      *)
(***************************************************************************)

\* The number of a new event at the end of what is queued.
LEMMA Joins ==
    ASSUME NEW g \in Seq(Nat), NEW p \in Seq(Nat), NEW n \in Nat,
           Increasing(p),
           \A i \in DOMAIN g, j \in DOMAIN p : g[i] < p[j],
           \A i \in DOMAIN g : g[i] < n,
           \A i \in DOMAIN p : p[i] < n
    PROVE  /\ Increasing(Append(p, n))
           /\ \A i \in DOMAIN g, j \in DOMAIN Append(p, n) : g[i] < Append(p, n)[j]
           /\ \A i \in DOMAIN Append(p, n) : Append(p, n)[i] <= n
<1> DEFINE w == Append(p, n)
           m == Len(p) + 1
<1>1. /\ DOMAIN w = DOMAIN p \cup {m} /\ m \notin DOMAIN p /\ m \in Nat
      /\ \A i \in DOMAIN p : i \in Nat /\ i < m /\ w[i] = p[i]
      /\ w[m] = n
      BY Longer
<1>2. \A i \in DOMAIN p : p[i] \in Nat
      OBVIOUS
<1> HIDE DEF w, m
<1>3. Increasing(w)
      BY <1>1 DEF Increasing
<1>4. \A i \in DOMAIN g, j \in DOMAIN w : g[i] < w[j]
      BY <1>1
<1>5. \A i \in DOMAIN w : w[i] <= n
      BY <1>1, <1>2
<1> QED BY <1>3, <1>4, <1>5 DEF w

\* The head of what is queued at the end of what was delivered.
LEMMA Passes ==
    ASSUME NEW g \in Seq(Nat), NEW p \in Seq(Nat), p # <<>>, Increasing(g), Increasing(p),
           \A i \in DOMAIN g, j \in DOMAIN p : g[i] < p[j]
    PROVE  /\ Increasing(Append(g, Head(p))) /\ Increasing(Tail(p))
           /\ \A i \in DOMAIN Append(g, Head(p)), j \in DOMAIN Tail(p) :
                 Append(g, Head(p))[i] < Tail(p)[j]
           /\ \A w \in Nat :
                 /\ \A i \in DOMAIN g : g[i] <= w
                 /\ \A i \in DOMAIN p : p[i] <= w
                 => /\ \A i \in DOMAIN Append(g, Head(p)) : Append(g, Head(p))[i] <= w
                    /\ \A i \in DOMAIN Tail(p) : Tail(p)[i] <= w
<1> DEFINE h == Head(p)
           t == Tail(p)
           a == Append(g, h)
           m == Len(g) + 1
<1>1. /\ t \in Seq(Nat) /\ h \in Nat /\ h = p[1] /\ 1 \in DOMAIN p
      /\ \A i \in DOMAIN t : i \in Nat /\ i + 1 \in DOMAIN p /\ t[i] = p[i + 1]
      BY Shorter
<1>2. /\ DOMAIN a = DOMAIN g \cup {m} /\ m \notin DOMAIN g /\ m \in Nat
      /\ \A i \in DOMAIN g : i \in Nat /\ i < m /\ a[i] = g[i]
      /\ a[m] = h
      BY <1>1, Longer
<1>3. \A i \in DOMAIN t : i >= 1
      BY <1>1
<1> HIDE DEF h, t, a, m
<1>4. Increasing(a)
      BY <1>1, <1>2 DEF Increasing
<1>5. Increasing(t)
  <2>1. \A i, j \in DOMAIN p : i < j => p[i] < p[j]
        BY DEF Increasing
  <2> SUFFICES ASSUME NEW i \in DOMAIN t, NEW j \in DOMAIN t, i < j PROVE t[i] < t[j]
      BY DEF Increasing
  <2>2. /\ i + 1 \in DOMAIN p /\ j + 1 \in DOMAIN p /\ i + 1 < j + 1
        /\ t[i] = p[i + 1] /\ t[j] = p[j + 1]
        BY <1>1
  <2> QED BY <2>1, <2>2
<1>6. \A i \in DOMAIN t : h < t[i]
      BY <1>1, <1>3 DEF Increasing
<1>7. \A i \in DOMAIN a, j \in DOMAIN t : a[i] < t[j]
      BY <1>1, <1>2, <1>6
<1>8. \A w \in Nat :
         (\A i \in DOMAIN g : g[i] <= w) /\ (\A i \in DOMAIN p : p[i] <= w)
           => (\A i \in DOMAIN a : a[i] <= w) /\ (\A i \in DOMAIN t : t[i] <= w)
      BY <1>1, <1>2
<1> QED BY <1>4, <1>5, <1>7, <1>8 DEF h, t, a

LEMMA LineStep == Types /\ BusyInv /\ LineInv /\ [Next]_vars => LineInv'
<1> SUFFICES ASSUME Types, BusyInv, LineInv, [Next]_vars, NEW k \in Subscribers
             PROVE  InLine(k)'
    BY DEF LineInv
<1>a. InLine(k)
      BY DEF LineInv
<1>k. sub[k] \in Subscription /\ got[k] \in Seq(Nat)
      BY DEF Types
<1>p. sub[k].pending \in Seq(Nat) /\ sub[k].watermark \in Nat
      BY <1>k, Subscriptions
<1>u. sub'[k] = sub[k] /\ got'[k] = got[k] => InLine(k)'
      BY <1>a DEF InLine, Increasing
\* Whoever is dropped or leaves, queues nothing.
<1>e. sub'[k].pending = <<>> /\ sub'[k].phase \in {"dropped", "closed"} /\ got'[k] = got[k]
        => InLine(k)'
      BY <1>a DEF InLine, Increasing
<1>1. ASSUME NEW e \in Emitters, NEW ev \in Emits[e], Store(e, ev) PROVE InLine(k)'
      BY <1>1, <1>u DEF Store
<1>2. ASSUME NEW e \in Emitters, Notify(e) PROVE InLine(k)'
  <2> DEFINE ev == emitted[e]
  <2>1. ev \in Stored /\ ev.sequence \in Nat
        BY <1>2 DEF Notify, Types, Stored
  <2>2. got' = got
        BY <1>2 DEF Notify
  <2>3. CASE ~Listens(k, ev)
    <3>1. sub'[k] = sub[k]
          BY <1>2, <2>3 DEF Notify, Types
    <3> QED BY <1>u, <2>2, <3>1
  <2>4. CASE Listens(k, ev) /\ Overflows(k)
    <3>1. sub'[k] = Dropped(sub[k])
          BY <1>2, <2>4 DEF Notify, Types
    <3>2. Dropped(sub[k]).pending = <<>> /\ Dropped(sub[k]).phase = "dropped"
          BY <1>k, Subscriptions
    <3> QED BY <1>e, <2>2, <3>1, <3>2
  <2>5. CASE Listens(k, ev) /\ ~Overflows(k)
    <3>1. sub'[k] = Queued(sub[k], ev)
          BY <1>2, <2>5 DEF Notify, Types
    <3>2. /\ sub'[k].phase = "open" /\ sub[k].phase = "open"
          /\ sub'[k].pending = Append(sub[k].pending, ev.sequence)
          /\ sub'[k].watermark = ev.sequence
          /\ ev.sequence > sub[k].watermark
      <4>1. /\ Queued(sub[k], ev).phase = sub[k].phase
            /\ Queued(sub[k], ev).pending = Append(sub[k].pending, ev.sequence)
            /\ Queued(sub[k], ev).watermark = ev.sequence
            BY <1>k, <2>1, Queueing
      <4>2. sub[k].phase = "open" /\ ev.sequence > sub[k].watermark
            BY <2>5 DEF Listens
      <4> QED BY <3>1, <4>1, <4>2
    <3>3. /\ \A i \in DOMAIN got[k] : got[k][i] < ev.sequence
          /\ \A i \in DOMAIN sub[k].pending : sub[k].pending[i] < ev.sequence
      <4>1. /\ \A i \in DOMAIN got[k] : got[k][i] \in Nat
            /\ \A i \in DOMAIN sub[k].pending : sub[k].pending[i] \in Nat
            BY <1>k, <1>p
      <4> QED BY <1>a, <1>p, <2>1, <3>2, <4>1 DEF InLine
    <3> DEFINE w == Append(sub[k].pending, ev.sequence)
    <3>4. /\ Increasing(w)
          /\ \A i \in DOMAIN got[k], j \in DOMAIN w : got[k][i] < w[j]
          /\ \A i \in DOMAIN w : w[i] <= ev.sequence
          BY <1>a, <1>k, <1>p, <2>1, <3>3, Joins DEF InLine
    <3>5. \A i \in DOMAIN got[k] : got[k][i] <= ev.sequence
          BY <1>k, <2>1, <3>3
    <3> HIDE DEF w
    <3>6. sub'[k].pending = w
          BY <3>2 DEF w
    <3> QED BY <1>a, <2>2, <3>2, <3>4, <3>5, <3>6 DEF InLine, Increasing
  <2> QED BY <2>3, <2>4, <2>5
<1>3. ASSUME NEW th \in Threads, Deliver(th) PROVE InLine(k)'
  <2>0. drain[th] # <<>>
        BY <1>3 DEF BusyInv, Deliver, DrainEnds, CallBack, CallBackReturns, CallBackRaises
  <2>1. PICK h \in Subscribers : h = Head(drain[th])
        BY <2>0, Shorter DEF Types
  <2>2. CASE k # h
    <3>1. sub'[k] = sub[k] /\ got'[k] = got[k]
          BY <1>3, <2>1, <2>2
             DEF Deliver, DrainEnds, CallBack, CallBackReturns, CallBackRaises, Types
    <3> QED BY <1>u, <3>1
  <2>3. CASE k = h /\ DrainEnds(th)
    <3>1. sub'[k] = sub[k] \/ sub'[k] = [sub[k] EXCEPT !.delivering = FALSE]
          BY <2>1, <2>3 DEF DrainEnds, Types
    <3>2. /\ sub'[k].phase = sub[k].phase /\ sub'[k].pending = sub[k].pending
          /\ sub'[k].watermark = sub[k].watermark /\ got'[k] = got[k]
          BY <1>k, <2>3, <3>1 DEF DrainEnds, Subscription
    <3> QED BY <1>a, <3>2 DEF InLine, Increasing
  <2>4. CASE k = h /\ CallBack(th)
    <3> DEFINE p == sub[k].pending
               g == got[k]
    <3>1. sub[k].phase = "open" /\ p # <<>>
          BY <2>1, <2>4 DEF CallBack
    <3>2. sub'[k] = [sub[k] EXCEPT !.pending = Tail(@)]
          BY <2>1, <2>4 DEF CallBack, Types
    <3>3. /\ sub'[k].phase = "open" /\ sub'[k].pending = Tail(p)
          /\ sub'[k].watermark = sub[k].watermark
          BY <1>k, <3>1, <3>2 DEF Subscription
    <3>4. got'[k] = Append(g, Head(p))
          BY <2>1, <2>4 DEF CallBack, Types
    <3>5. /\ Increasing(Append(g, Head(p))) /\ Increasing(Tail(p))
          /\ \A i \in DOMAIN Append(g, Head(p)), j \in DOMAIN Tail(p) :
                Append(g, Head(p))[i] < Tail(p)[j]
          /\ \A i \in DOMAIN Append(g, Head(p)) : Append(g, Head(p))[i] <= sub[k].watermark
          /\ \A i \in DOMAIN Tail(p) : Tail(p)[i] <= sub[k].watermark
      <4>1. /\ Increasing(g) /\ Increasing(p)
            /\ \A i \in DOMAIN g, j \in DOMAIN p : g[i] < p[j]
            /\ \A i \in DOMAIN g : g[i] <= sub[k].watermark
            /\ \A i \in DOMAIN p : p[i] <= sub[k].watermark
            BY <1>a, <3>1 DEF InLine
      <4> HIDE DEF p, g
      <4>2. g \in Seq(Nat) /\ p \in Seq(Nat)
            BY <1>k, <1>p DEF g, p
      <4> QED BY <1>p, <3>1, <4>1, <4>2, Passes
    <3> HIDE DEF p, g
    <3> DEFINE a == Append(g, Head(p))
               t == Tail(p)
    <3>6. got'[k] = a /\ sub'[k].pending = t
          BY <3>3, <3>4
    <3>7. /\ Increasing(a) /\ Increasing(t)
          /\ \A i \in DOMAIN a, j \in DOMAIN t : a[i] < t[j]
          /\ \A i \in DOMAIN a : a[i] <= sub[k].watermark
          /\ \A i \in DOMAIN t : t[i] <= sub[k].watermark
          BY <3>5
    <3> HIDE DEF a, t
    <3> QED BY <3>3, <3>6, <3>7 DEF InLine, Increasing
  <2>5. CASE CallBackReturns(th)
        BY <1>u, <2>5 DEF CallBackReturns
  <2>6. CASE k = h /\ CallBackRaises(th)
    <3>1. got'[k] = got[k]
          BY <2>6 DEF CallBackRaises
    <3>2. CASE sub[k].phase = "open"
      <4>1. sub'[k] = Dropped(sub[k])
            BY <2>1, <2>6, <3>2 DEF CallBackRaises, Types
      <4>2. Dropped(sub[k]).pending = <<>> /\ Dropped(sub[k]).phase = "dropped"
            BY <1>k, Subscriptions
      <4> QED BY <1>e, <3>1, <4>1, <4>2
    <3>3. CASE sub[k].phase # "open"
          BY <1>u, <2>1, <2>6, <3>1, <3>3 DEF CallBackRaises
    <3> QED BY <3>2, <3>3
  <2> QED BY <1>3, <2>2, <2>3, <2>4, <2>5, <2>6 DEF Deliver
<1>4. ASSUME NEW j \in Subscribers, Subscribe(j) PROVE InLine(k)'
  <2> DEFINE q == HistoryOf(k)
  <2>1. got' = got
        BY <1>4 DEF Subscribe
  <2>2. CASE k # j
    <3>1. sub'[k] = sub[k]
          BY <1>4, <2>2 DEF Subscribe, Types
    <3> QED BY <1>u, <2>1, <3>1
  <2>3. CASE k = j
    <3>1. sub[k].phase = "new" /\ got[k] = <<>> /\ sub[k].pending = <<>>
          BY <1>4, <1>a, <2>3 DEF Subscribe, InLine
    <3>2. CASE Len(q) > MaxPending
      <4>1. sub'[k] = [sub[k] EXCEPT !.phase = "dropped"]
            BY <1>4, <2>3, <3>2 DEF Subscribe, Types
      <4>2. sub'[k].pending = <<>> /\ sub'[k].phase = "dropped"
            BY <1>k, <3>1, <4>1 DEF Subscription
      <4> QED BY <1>e, <2>1, <4>2
    <3>3. CASE ~(Len(q) > MaxPending)
      <4>1. /\ sub'[k].phase = "open" /\ sub'[k].pending = q
            /\ q # <<>> => sub'[k].watermark = Last(q)
            BY <1>4, <2>3, <3>3 DEF Subscribe, Types
      <4>2. Follows[k] \in Sessions /\ Since[k] \in Nat
            BY StreamAssumption
      <4>3. q \in Seq(Nat) /\ \A i \in DOMAIN q : i \in Nat /\ q[i] = Since[k] + i
            BY <4>2, HistoryType
      <4>4. \A i \in DOMAIN q : q # <<>> /\ Len(q) \in DOMAIN q /\ i <= Len(q)
            BY <4>3
      <4>5. \A i \in DOMAIN q : q[i] <= Last(q)
            BY <4>2, <4>3, <4>4 DEF Last
      <4>6. Increasing(q)
            BY <4>2, <4>3 DEF Increasing
      <4>7. DOMAIN got[k] = {}
            BY <3>1
      <4> HIDE DEF q
      <4>8. \A i \in DOMAIN q : q[i] <= sub'[k].watermark
            BY <4>1, <4>4, <4>5
      <4> QED BY <2>1, <4>1, <4>6, <4>7, <4>8 DEF InLine, Increasing
    <3> QED BY <3>2, <3>3
  <2> QED BY <2>2, <2>3
<1>5. ASSUME NEW j \in Subscribers, Unsubscribe(j) PROVE InLine(k)'
  <2>1. got' = got
        BY <1>5 DEF Unsubscribe
  <2>2. k # j => sub'[k] = sub[k]
        BY <1>5 DEF Unsubscribe, Types
  <2>3. k = j => sub'[k].pending = <<>> /\ sub'[k].phase = "closed"
        BY <1>5, <1>k, Subscriptions DEF Unsubscribe, Types
  <2> QED BY <1>u, <1>e, <2>1, <2>2, <2>3
<1>6. ASSUME NEW c \in Connections, Reconnect(c) PROVE InLine(k)'
      BY <1>6, <1>u DEF Reconnect, ReadCursor, GetEvents, Acknowledge
<1>7. ASSUME NEW r \in Resets, Reset(r) PROVE InLine(k)'
      BY <1>7, <1>u DEF Reset, ClearEvents, ResetConnections
<1>8. CASE UNCHANGED vars
      BY <1>8, <1>u DEF vars
<1> QED BY <1>1, <1>2, <1>3, <1>4, <1>5, <1>6, <1>7, <1>8 DEF Next, Emit


(***************************************************************************)
(* One thread drains.                                                      *)
(***************************************************************************)

\* q is a list of S, each element once.
Lists(q, S) ==
    /\ q \in Seq(S)
    /\ \A i, j \in DOMAIN q : q[i] = q[j] => i = j
    /\ \A x \in S : \E i \in DOMAIN q : q[i] = x

Free(S) == \A x \in Threads, k \in S : ~Drains(x, k)

\* A thread that is done with the subscription at its head leaves it free.
LEMMA HeadLeaves ==
    ASSUME Types, Alone, NEW th \in Threads, drain[th] # <<>>,
           NEW h, h = Head(drain[th]),
           drain' = [drain EXCEPT ![th] = Tail(@)]
    PROVE  /\ Alone'
           /\ \A x \in Threads, k \in Subscribers : Drains(x, k)' <=> Drains(x, k) /\ k # h
<1> DEFINE d == drain[th]
           t == Tail(d)
<1>1. /\ h = d[1] /\ 1 \in DOMAIN d
      /\ \A i \in DOMAIN t : i \in Nat /\ i >= 1 /\ i + 1 \in DOMAIN d /\ t[i] = d[i + 1]
      /\ \A i \in DOMAIN d : i = 1 \/ (i - 1 \in DOMAIN t /\ t[i - 1] = d[i])
      BY Shorter DEF Types
<1>2. drain'[th] = t /\ \A x \in Threads : x # th => drain'[x] = drain[x]
      BY DEF Types
<1>3. \A x \in Threads : \A i \in DOMAIN drain'[x] :
         \E j \in DOMAIN drain[x] :
            drain[x][j] = drain'[x][i] /\ (x = th => j = i + 1) /\ (x # th => j = i)
  <2> HIDE DEF t
  <2> QED BY <1>1, <1>2
<1>4. Alone'
  <2> SUFFICES ASSUME NEW x \in Threads, NEW y \in Threads,
                      NEW i \in DOMAIN drain'[x], NEW j \in DOMAIN drain'[y],
                      drain'[x][i] = drain'[y][j]
               PROVE  x = y /\ i = j
      BY DEF Alone
  <2>1. PICK m \in DOMAIN drain[x] :
           drain[x][m] = drain'[x][i] /\ (x = th => m = i + 1) /\ (x # th => m = i)
        BY <1>3
  <2>2. PICK n \in DOMAIN drain[y] :
           drain[y][n] = drain'[y][j] /\ (y = th => n = j + 1) /\ (y # th => n = j)
        BY <1>3
  <2>3. x = y /\ m = n
        BY <2>1, <2>2 DEF Alone
  <2>4. x = th => i \in Nat /\ j \in Nat
    <3> HIDE DEF t
    <3> QED BY <1>1, <1>2, <2>3
  <2> QED BY <2>1, <2>2, <2>3, <2>4
<1>5. ASSUME NEW x \in Threads, NEW k \in Subscribers
      PROVE  Drains(x, k)' <=> Drains(x, k) /\ k # h
  <2>1. CASE x # th
    <3>1. k = h => ~Drains(x, k)
          BY <1>1, <2>1 DEF Alone, Drains
    <3> QED BY <1>2, <2>1, <3>1 DEF Drains
  <2>2. CASE x = th
    <3>1. ASSUME Drains(x, k)' PROVE Drains(x, k) /\ k # h
      <4>1. PICK i \in DOMAIN t : t[i] = k
            BY <1>2, <2>2, <3>1 DEF Drains
      <4>2. i + 1 \in DOMAIN d /\ d[i + 1] = k /\ i + 1 # 1
            BY <1>1, <4>1
      <4>3. k # h
        <5> HIDE DEF t
        <5> QED BY <1>1, <4>2 DEF Alone
      <4> QED BY <2>2, <4>2, <4>3 DEF Drains
    <3>2. ASSUME Drains(x, k), k # h PROVE Drains(x, k)'
      <4>1. PICK i \in DOMAIN d : d[i] = k
            BY <2>2, <3>2 DEF Drains
      <4>2. i - 1 \in DOMAIN t /\ t[i - 1] = k
            BY <1>1, <3>2, <4>1
      <4> HIDE DEF t
      <4> QED BY <1>2, <2>2, <4>2 DEF Drains
    <3> QED BY <3>1, <3>2
  <2> QED BY <2>1, <2>2
<1> QED BY <1>4, <1>5

\* A thread that had nothing to drain takes on subscriptions nobody drains.
LEMMA ListTaken ==
    ASSUME Types, Alone, NEW th \in Threads, drain[th] = <<>>,
           NEW S, S \subseteq Subscribers, NEW q, Lists(q, S), Free(S),
           drain' = [drain EXCEPT ![th] = q]
    PROVE  /\ Alone'
           /\ \A x \in Threads, k \in Subscribers :
                 Drains(x, k)' <=> Drains(x, k) \/ (x = th /\ k \in S)
<1>1. drain'[th] = q /\ \A x \in Threads : x # th => drain'[x] = drain[x]
      BY DEF Types
<1>2. DOMAIN drain[th] = {}
      OBVIOUS
<1>3. /\ \A i \in DOMAIN q : q[i] \in S
      /\ \A i, j \in DOMAIN q : q[i] = q[j] => i = j
      /\ \A x \in S : \E i \in DOMAIN q : q[i] = x
      BY DEF Lists
<1>4. \A x \in Threads : \A i \in DOMAIN drain[x] : drain[x][i] \notin S
      BY DEF Free, Drains
<1>5. Alone'
  <2> SUFFICES ASSUME NEW x \in Threads, NEW y \in Threads,
                      NEW i \in DOMAIN drain'[x], NEW j \in DOMAIN drain'[y],
                      drain'[x][i] = drain'[y][j]
               PROVE  x = y /\ i = j
      BY DEF Alone
  <2>1. CASE x = th /\ y = th
        BY <1>1, <1>3, <2>1
  <2>2. CASE x # th /\ y # th
        BY <1>1, <2>2 DEF Alone
  <2>3. CASE (x = th /\ y # th) \/ (x # th /\ y = th)
        BY <1>1, <1>3, <1>4, <2>3
  <2> QED BY <2>1, <2>2, <2>3
<1>6. \A x \in Threads, k \in Subscribers :
         Drains(x, k)' <=> Drains(x, k) \/ (x = th /\ k \in S)
      BY <1>1, <1>2, <1>3 DEF Drains
<1> QED BY <1>5, <1>6

LEMMA DrainStep == Types /\ BusyInv /\ DrainInv /\ [Next]_vars => DrainInv'
<1> SUFFICES ASSUME Types, BusyInv, DrainInv, [Next]_vars PROVE DrainInv'
    OBVIOUS
<1>a. Alone /\ \A k \in Subscribers : Flagged(k)
      BY DEF DrainInv
<1>k. \A k \in Subscribers : sub[k] \in Subscription
      BY DEF Types
<1>s. drain' = drain => Alone' /\ \A th \in Threads, k \in Subscribers : Drains(th, k)' <=> Drains(th, k)
      BY <1>a DEF Alone, Drains
<1>u. UNCHANGED <<sub, drain>> => DrainInv'
      BY <1>a DEF DrainInv, Alone, Flagged, Drains
<1>1. ASSUME NEW e \in Emitters, NEW ev \in Emits[e], Store(e, ev) PROVE DrainInv'
      BY <1>1, <1>u DEF Store
<1>2. ASSUME NEW e \in Emitters, Notify(e) PROVE DrainInv'
  <2> DEFINE ev == emitted[e]
             heard == {k \in Subscribers : Listens(k, ev)}
             ready == {k \in heard : ~Overflows(k) /\ ~sub[k].delivering}
  <2>1. ev \in Stored /\ e \in Threads /\ drain[e] = <<>>
        BY <1>2 DEF Notify, Types, Threads, BusyInv
  <2>2. IsFiniteSet(ready)
        BY StreamAssumption, FS_Subset
  <2>3. ready \subseteq Subscribers
        OBVIOUS
  <2>4. Lists(SetToSeq(ready), ready)
    <3> HIDE DEF ready
    <3> QED BY <2>2, Listed DEF Lists
  <2>5. Free(ready)
    <3>1. ASSUME NEW k \in ready PROVE \A x \in Threads : ~Drains(x, k)
      <4>1. k \in Subscribers /\ sub[k].phase = "open" /\ ~sub[k].delivering
            BY <3>1 DEF Listens
      <4> QED BY <1>a, <4>1 DEF Flagged
    <3> QED BY <3>1 DEF Free
  <2>6. drain' = [drain EXCEPT ![e] = SetToSeq(ready)]
        BY <1>2 DEF Notify
  <2>7. /\ Alone'
        /\ \A x \in Threads, k \in Subscribers :
              Drains(x, k)' <=> Drains(x, k) \/ (x = e /\ k \in ready)
    <3> DEFINE q == SetToSeq(ready)
    <3>1. Lists(q, ready) /\ drain' = [drain EXCEPT ![e] = q]
          BY <2>4, <2>6
    <3> HIDE DEF ready, q
    <3> QED BY <1>a, <2>1, <2>3, <2>5, <3>1, ListTaken
  <2>8. ASSUME NEW k \in Subscribers PROVE Flagged(k)'
    <3>1. CASE ~Listens(k, ev)
      <4>1. sub'[k] = sub[k]
            BY <1>2, <3>1 DEF Notify
      <4>2. k \notin ready
            BY <3>1
      <4> HIDE DEF ready
      <4> QED BY <1>a, <2>7, <4>1, <4>2 DEF Flagged
    <3>2. CASE Listens(k, ev) /\ Overflows(k)
      <4>1. sub'[k] = Dropped(sub[k])
            BY <1>2, <3>2 DEF Notify
      <4>2. Dropped(sub[k]).phase = "dropped"
            BY <1>k, Subscriptions
      <4> QED BY <4>1, <4>2 DEF Flagged
    <3>3. CASE Listens(k, ev) /\ ~Overflows(k)
      <4>1. sub'[k] = Queued(sub[k], ev)
            BY <1>2, <3>3 DEF Notify
      <4>2. sub'[k].delivering = TRUE /\ sub'[k].phase = sub[k].phase
        <5>1. Queued(sub[k], ev).delivering = TRUE /\ Queued(sub[k], ev).phase = sub[k].phase
              BY <1>k, <2>1, Queueing
        <5> QED BY <4>1, <5>1
      <4>3. sub[k].phase = "open"
            BY <3>3 DEF Listens
      <4>4. \E th \in Threads : Drains(th, k)'
        <5>1. CASE sub[k].delivering
          <6>1. PICK th \in Threads : Drains(th, k)
                BY <1>a, <4>3, <5>1 DEF Flagged
          <6> HIDE DEF ready
          <6> QED BY <2>7, <6>1
        <5>2. CASE ~sub[k].delivering
          <6>1. k \in ready
                BY <3>3, <5>2
          <6> HIDE DEF ready
          <6> QED BY <2>1, <2>7, <6>1
        <5> QED BY <5>1, <5>2
      <4> QED BY <4>2, <4>3, <4>4 DEF Flagged
    <3> QED BY <3>1, <3>2, <3>3
  <2> QED BY <2>7, <2>8 DEF DrainInv
<1>3. ASSUME NEW th \in Threads, Deliver(th) PROVE DrainInv'
  <2>0. drain[th] # <<>>
        BY <1>3 DEF BusyInv, Deliver, DrainEnds, CallBack, CallBackReturns, CallBackRaises
  <2>1. PICK h \in Subscribers : h = Head(drain[th])
        BY <2>0, Shorter DEF Types
  <2>2. \A k \in Subscribers : k # h => sub'[k] = sub[k]
        BY <1>3, <2>1 DEF Deliver, DrainEnds, CallBack, CallBackReturns, CallBackRaises, Types
  <2>3. CASE DrainEnds(th) \/ CallBackRaises(th)
    <3>1. drain' = [drain EXCEPT ![th] = Tail(@)]
          BY <2>3 DEF DrainEnds, CallBackRaises
    <3>2. /\ Alone'
          /\ \A x \in Threads, k \in Subscribers : Drains(x, k)' <=> Drains(x, k) /\ k # h
          BY <1>a, <2>0, <2>1, <3>1, HeadLeaves
    <3>3. \A k \in Subscribers : k # h => Flagged(k)'
          BY <1>a, <2>2, <3>2 DEF Flagged
    <3>4. Drains(th, h)
      <4>1. 1 \in DOMAIN drain[th] /\ drain[th][1] = h
            BY <2>0, <2>1, Shorter DEF Types
      <4> QED BY <4>1 DEF Drains
    <3>5. sub[h].phase # "new"
          BY <1>a, <3>4 DEF Flagged
    <3>6. Flagged(h)'
      <4>1. CASE sub[h].phase # "open"
        <5>1. sub'[h] = sub[h]
              BY <2>1, <2>3, <4>1 DEF DrainEnds, CallBackRaises
        <5> QED BY <3>5, <4>1, <5>1 DEF Flagged
      <4>2. CASE sub[h].phase = "open" /\ DrainEnds(th)
        <5>1. sub'[h] = [sub[h] EXCEPT !.delivering = FALSE] /\ sub[h].pending = <<>>
              BY <2>1, <4>2 DEF DrainEnds, Types
        <5>2. sub'[h].phase = "open" /\ sub'[h].pending = <<>> /\ sub'[h].delivering = FALSE
              BY <1>k, <4>2, <5>1 DEF Subscription
        <5> QED BY <3>2, <5>2 DEF Flagged
      <4>3. CASE sub[h].phase = "open" /\ CallBackRaises(th)
        <5>1. sub'[h] = Dropped(sub[h])
              BY <2>1, <4>3 DEF CallBackRaises, Types
        <5>2. Dropped(sub[h]).phase = "dropped"
              BY <1>k, Subscriptions
        <5> QED BY <5>1, <5>2 DEF Flagged
      <4> QED BY <2>3, <4>1, <4>2, <4>3
    <3> QED BY <3>2, <3>3, <3>6 DEF DrainInv
  <2>4. CASE CallBack(th)
    <3>1. drain' = drain
          BY <2>4 DEF CallBack
    <3>2. sub'[h] = [sub[h] EXCEPT !.pending = Tail(@)]
          BY <2>1, <2>4 DEF CallBack, Types
    <3>3. sub[h].phase = "open" /\ sub[h].pending # <<>>
          BY <2>1, <2>4 DEF CallBack
    <3>4. sub'[h].phase = "open" /\ sub'[h].delivering = sub[h].delivering
          BY <1>k, <3>2, <3>3 DEF Subscription
    <3>5. Flagged(h)'
          BY <1>a, <1>s, <3>1, <3>3, <3>4 DEF Flagged
    <3>6. \A k \in Subscribers : k # h => Flagged(k)'
          BY <1>a, <1>s, <2>2, <3>1 DEF Flagged
    <3> QED BY <1>s, <3>1, <3>5, <3>6 DEF DrainInv
  <2>5. CASE CallBackReturns(th)
        BY <1>u, <2>5 DEF CallBackReturns
  <2> QED BY <1>3, <2>3, <2>4, <2>5 DEF Deliver
<1>4. ASSUME NEW j \in Subscribers, Subscribe(j) PROVE DrainInv'
  <2> DEFINE q == HistoryOf(j)
  <2>1. sub[j].phase = "new" /\ drain[j] = <<>> /\ j \in Threads
        BY <1>4 DEF Subscribe, BusyInv, Threads
  <2>2. \A x \in Threads : ~Drains(x, j)
        BY <1>a, <2>1 DEF Flagged
  <2>3. \A k \in Subscribers : k # j => sub'[k] = sub[k]
        BY <1>4 DEF Subscribe, Types
  <2> DEFINE r(b, w) == [phase |-> "open", pending |-> q, delivering |-> b, watermark |-> w]
  <2>a. PICK b \in BOOLEAN : b = (q # <<>>)
        OBVIOUS
  <2>b. ~(Len(q) > MaxPending) =>
           sub'[j] = r(q # <<>>, IF q = <<>> THEN Since[j] ELSE Last(q))
        BY <1>4 DEF Subscribe, Types
  <2>c. ~(Len(q) > MaxPending) =>
           /\ sub'[j].phase = "open" /\ sub'[j].pending = q
           /\ sub'[j].delivering = b
        BY <2>a, <2>b
  <2>4. CASE Len(q) > MaxPending
    <3>1. drain' = drain /\ sub'[j] = [sub[j] EXCEPT !.phase = "dropped"]
          BY <1>4, <2>4 DEF Subscribe, Types
    <3>2. sub'[j].phase = "dropped"
          BY <1>k, <3>1 DEF Subscription
    <3>3. Flagged(j)'
          BY <3>2 DEF Flagged
    <3>4. \A k \in Subscribers : k # j => Flagged(k)'
          BY <1>a, <1>s, <2>3, <3>1 DEF Flagged
    <3> QED BY <1>s, <3>1, <3>3, <3>4 DEF DrainInv
  <2>5. CASE ~(Len(q) > MaxPending) /\ q = <<>>
    <3>1. drain' = [drain EXCEPT ![j] = <<>>]
          BY <1>4, <2>5 DEF Subscribe
    <3>2. drain' = drain
          BY <2>1, <3>1 DEF Types
    <3>3. /\ sub'[j].phase = "open" /\ sub'[j].pending = <<>>
          /\ ~sub'[j].delivering
          BY <2>5, <2>a, <2>c
    <3>4. Flagged(j)'
          BY <1>s, <2>2, <3>2, <3>3 DEF Flagged
    <3>5. \A k \in Subscribers : k # j => Flagged(k)'
          BY <1>a, <1>s, <2>3, <3>2 DEF Flagged
    <3> QED BY <1>s, <3>2, <3>4, <3>5 DEF DrainInv
  <2>6. CASE ~(Len(q) > MaxPending) /\ q # <<>>
    <3>1. drain' = [drain EXCEPT ![j] = <<j>>]
          BY <1>4, <2>6 DEF Subscribe
    <3>2. Lists(<<j>>, {j}) /\ Free({j})
          BY <2>2 DEF Lists, Free
    <3>3. /\ Alone'
          /\ \A x \in Threads, k \in Subscribers :
                Drains(x, k)' <=> Drains(x, k) \/ (x = j /\ k \in {j})
      <4> DEFINE S == {j}
                 l == <<j>>
      <4>1. Lists(l, S) /\ Free(S) /\ S \subseteq Subscribers /\ drain' = [drain EXCEPT ![j] = l]
            BY <3>1, <3>2
      <4> HIDE DEF l, S
      <4>2. /\ Alone'
            /\ \A x \in Threads, k \in Subscribers :
                  Drains(x, k)' <=> Drains(x, k) \/ (x = j /\ k \in S)
            BY <1>a, <2>1, <4>1, ListTaken
      <4> QED BY <4>2 DEF S
    <3>4. sub'[j].phase = "open" /\ sub'[j].delivering
          BY <2>6, <2>a, <2>c
    <3>5. Flagged(j)'
          BY <2>1, <3>3, <3>4 DEF Flagged
    <3>6. \A k \in Subscribers : k # j => Flagged(k)'
          BY <1>a, <2>3, <3>3 DEF Flagged
    <3> QED BY <3>3, <3>5, <3>6 DEF DrainInv
  <2> QED BY <2>4, <2>5, <2>6
<1>5. ASSUME NEW j \in Subscribers, Unsubscribe(j) PROVE DrainInv'
  <2>1. drain' = drain
        BY <1>5 DEF Unsubscribe
  <2>2. \A k \in Subscribers : k # j => sub'[k] = sub[k]
        BY <1>5 DEF Unsubscribe, Types
  <2>3. sub'[j].phase = "closed"
        BY <1>5, <1>k, Subscriptions DEF Unsubscribe, Types
  <2>4. Flagged(j)'
        BY <2>3 DEF Flagged
  <2>5. \A k \in Subscribers : k # j => Flagged(k)'
        BY <1>a, <1>s, <2>1, <2>2 DEF Flagged
  <2> QED BY <1>s, <2>1, <2>4, <2>5 DEF DrainInv
<1>6. ASSUME NEW c \in Connections, Reconnect(c) PROVE DrainInv'
      BY <1>6, <1>u DEF Reconnect, ReadCursor, GetEvents, Acknowledge
<1>7. ASSUME NEW r \in Resets, Reset(r) PROVE DrainInv'
      BY <1>7, <1>u DEF Reset, ClearEvents, ResetConnections
<1>8. CASE UNCHANGED vars
      BY <1>8, <1>u DEF vars
<1> QED BY <1>1, <1>2, <1>3, <1>4, <1>5, <1>6, <1>7, <1>8 DEF Next, Emit

(***************************************************************************)
(* The causal order.                                                       *)
(***************************************************************************)

\* What must come before the place i of a stream.
Past(q, i) ==
    \E a, d, b \in DOMAIN q :
        /\ a < d /\ d < b /\ b <= i
        /\ {j \in Steps(q, q[i].execution) : q[j].phase = "started"} = {b}
        /\ q[a].type = "proposal" /\ q[a].proposal = q[b].proposal /\ q[a].turn = q[b].turn
        /\ q[d].type = "decision" /\ q[d].proposal = q[b].proposal /\ q[d].outcome = "ALLOW"
        /\ \A j \in Steps(q, q[i].execution) : q[j].phase # "started" => j >= i
        /\ q[i].type # "changed" => q[i].proposal = q[b].proposal /\ q[i].turn = q[b].turn

Caused(q) == \A i \in DOMAIN q : OfExecution(q[i]) => Past(q, i)

\* What the store accepts continues the order.
LEMMA AppendKeepsCauses ==
    ASSUME NEW q \in Seq(Events), Answers(q), Caused(q), NEW ev \in Events, Accepts(ev, q)
    PROVE  Answers(Append(q, ev)) /\ Caused(Append(q, ev))
<1> DEFINE w == Append(q, ev)
           n == Len(q) + 1
<1>1. /\ DOMAIN w = DOMAIN q \cup {n} /\ n \notin DOMAIN q /\ n \in Nat
      /\ \A i \in DOMAIN q : i \in Nat /\ i < n /\ w[i] = q[i]
      /\ w[n] = ev
      BY Longer
<1> HIDE DEF w, n
<1>2. ASSUME NEW type
      PROVE  OfType(w, type) = OfType(q, type) \cup (IF ev.type = type THEN {n} ELSE {})
      BY <1>1 DEF OfType
<1>3. ASSUME NEW x
      PROVE  Steps(w, x) = Steps(q, x) \cup
                (IF ev.type = "execution" /\ ev.execution = x THEN {n} ELSE {})
      BY <1>1 DEF OfType, Steps
<1>4. Answers(w)
  <2>1. ASSUME NEW i \in OfType(w, "proposal"), NEW j \in OfType(w, "proposal"),
               w[i].proposal = w[j].proposal
        PROVE  i = j
    <3>1. ev.type = "proposal" => About(q, "proposal", ev.proposal) = {}
          BY DEF Accepts
    <3>2. ev.type = "proposal" => \A m \in OfType(q, "proposal") : q[m].proposal # ev.proposal
          BY <3>1 DEF About
    <3> QED BY <1>1, <1>2, <2>1, <3>2 DEF Answers, OfType
  <2>2. ASSUME NEW d \in OfType(w, "decision")
        PROVE  \E a \in OfType(w, "proposal") : a < d /\ w[a].proposal = w[d].proposal
    <3>1. CASE d \in OfType(q, "decision")
      <4>1. PICK a \in OfType(q, "proposal") : a < d /\ q[a].proposal = q[d].proposal
            BY <3>1 DEF Answers
      <4> QED BY <1>1, <1>2, <3>1, <4>1 DEF OfType
    <3>2. CASE d = n /\ ev.type = "decision"
      <4>1. \E a \in OfType(q, "proposal") : q[a].proposal = ev.proposal
            BY <3>2 DEF Accepts, AnswersProposal, Proposed, About
      <4> QED BY <1>1, <1>2, <3>2, <4>1 DEF OfType
    <3> QED BY <1>1, <1>2, <3>1, <3>2
  <2> QED BY <2>1, <2>2 DEF Answers
<1>5. ASSUME NEW i \in DOMAIN q, OfExecution(q[i]) PROVE Past(w, i)
  <2>1. PICK a \in DOMAIN q, d \in DOMAIN q, b \in DOMAIN q :
           /\ a < d /\ d < b /\ b <= i
           /\ {j \in Steps(q, q[i].execution) : q[j].phase = "started"} = {b}
           /\ q[a].type = "proposal" /\ q[a].proposal = q[b].proposal /\ q[a].turn = q[b].turn
           /\ q[d].type = "decision" /\ q[d].proposal = q[b].proposal /\ q[d].outcome = "ALLOW"
           /\ \A j \in Steps(q, q[i].execution) : q[j].phase # "started" => j >= i
           /\ q[i].type # "changed" => q[i].proposal = q[b].proposal /\ q[i].turn = q[b].turn
        BY <1>5 DEF Caused, Past
  <2>2. b \in Steps(q, q[i].execution)
        BY <2>1
  <2>3. ev.type = "execution" /\ ev.execution = q[i].execution => ev.phase # "started"
        BY <2>2 DEF Accepts, ContinuesExecution
  <2>4. w[a] = q[a] /\ w[d] = q[d] /\ w[b] = q[b] /\ w[i] = q[i] /\ i < n /\ i \in Nat
        BY <1>1
  <2>5. {j \in Steps(w, w[i].execution) : w[j].phase = "started"} = {b}
        BY <1>1, <1>3, <2>1, <2>3, <2>4 DEF Steps, OfType
  <2>6. \A j \in Steps(w, w[i].execution) : w[j].phase # "started" => j >= i
        BY <1>1, <1>3, <2>1, <2>4 DEF Steps, OfType
  <2>7. a \in DOMAIN w /\ d \in DOMAIN w /\ b \in DOMAIN w
        BY <1>1
  <2> QED BY <2>1, <2>4, <2>5, <2>6, <2>7 DEF Past
<1>6. ASSUME OfExecution(ev) PROVE Past(w, n)
  <2> DEFINE X == ev.execution
  <2>1. CASE ev.type = "execution" /\ ev.phase = "started"
    <3>1. /\ \E d \in About(q, "decision", ev.proposal) : q[d].outcome = "ALLOW"
          /\ Proposed(ev, q) /\ Steps(q, X) = {}
          BY <2>1 DEF Accepts, ContinuesExecution
    <3>2. PICK d \in OfType(q, "decision") : q[d].proposal = ev.proposal /\ q[d].outcome = "ALLOW"
          BY <3>1 DEF About
    <3>3. PICK a \in OfType(q, "proposal") : q[a].proposal = ev.proposal /\ q[a].turn = ev.turn
          BY <3>1 DEF Proposed, About
    <3>4. PICK c \in OfType(q, "proposal") : c < d /\ q[c].proposal = q[d].proposal
          BY <3>2 DEF Answers
    <3>5. a = c
          BY <3>2, <3>3, <3>4 DEF Answers
    <3>6. Steps(w, X) = {n}
          BY <1>3, <2>1, <3>1
    <3>7. a \in DOMAIN q /\ d \in DOMAIN q /\ q[a].type = "proposal" /\ q[d].type = "decision"
          BY <3>2, <3>3 DEF OfType
    <3>8. {j \in Steps(w, w[n].execution) : w[j].phase = "started"} = {n}
          BY <1>1, <2>1, <3>6
    <3>9. \A j \in Steps(w, w[n].execution) : w[j].phase # "started" => j >= n
          BY <1>1, <2>1, <3>6
    <3> QED BY <1>1, <3>2, <3>3, <3>4, <3>5, <3>7, <3>8, <3>9 DEF Past
  <2>2. ASSUME ~(ev.type = "execution" /\ ev.phase = "started")
        PROVE  /\ \A j \in Steps(q, X) : q[j].phase = "started"
               /\ \E s \in Steps(q, X) : ev.type # "changed" =>
                     q[s].proposal = ev.proposal /\ q[s].turn = ev.turn
    <3>1. CASE ev.type = "changed"
      <4>1. Underway(X, q)
            BY <1>6, <3>1 DEF OfExecution, Accepts
      <4>2. \E s \in Steps(q, X) : ev.type # "changed" =>
               q[s].proposal = ev.proposal /\ q[s].turn = ev.turn
            BY <3>1, <4>1 DEF Underway
      <4> QED BY <4>1, <4>2 DEF Underway
    <3>2. CASE ev.type # "changed"
      <4>1. Running(ev, q)
            BY <1>6, <2>2, <3>2 DEF OfExecution, Accepts, ContinuesExecution
      <4> QED BY <3>2, <4>1 DEF Running
    <3> QED BY <3>1, <3>2
  <2>3. CASE ~(ev.type = "execution" /\ ev.phase = "started")
    <3>2. PICK s \in Steps(q, X) :
             ev.type # "changed" => q[s].proposal = ev.proposal /\ q[s].turn = ev.turn
          BY <2>2, <2>3
    <3>3. \A j \in Steps(q, X) : q[j].phase = "started"
          BY <2>2, <2>3
    <3>4. s \in DOMAIN q /\ q[s].type = "execution" /\ q[s].execution = X
          BY <3>2 DEF Steps, OfType
    <3>5. PICK a \in DOMAIN q, d \in DOMAIN q, b \in DOMAIN q :
             /\ a < d /\ d < b /\ b <= s
             /\ {j \in Steps(q, q[s].execution) : q[j].phase = "started"} = {b}
             /\ q[a].type = "proposal" /\ q[a].proposal = q[b].proposal /\ q[a].turn = q[b].turn
             /\ q[d].type = "decision" /\ q[d].proposal = q[b].proposal /\ q[d].outcome = "ALLOW"
          BY <3>4 DEF Caused, Past, OfExecution
    <3>6. {j \in Steps(q, X) : q[j].phase = "started"} = {b}
          BY <3>4, <3>5
    <3>10. b = s
          BY <3>2, <3>3, <3>6
    <3>7. {j \in Steps(w, w[n].execution) : w[j].phase = "started"} = {b}
      <4>1. \A j \in Steps(q, X) : w[j].phase = q[j].phase
            BY <1>1 DEF Steps, OfType
      <4>2. ev.type = "execution" => ev.phase # "started"
            BY <2>3
      <4> QED BY <1>1, <1>3, <3>6, <4>1, <4>2
    <3>8. \A j \in Steps(w, w[n].execution) : w[j].phase # "started" => j >= n
      <4>1. \A j \in Steps(q, X) : w[j].phase = "started"
            BY <1>1, <3>3 DEF Steps, OfType
      <4> QED BY <1>1, <1>3, <4>1
    <3>9. w[a] = q[a] /\ w[d] = q[d] /\ w[b] = q[b] /\ b <= n /\ a \in DOMAIN w /\ d \in DOMAIN w /\ b \in DOMAIN w
          BY <1>1, <3>4, <3>5
    <3> QED BY <1>1, <3>2, <3>5, <3>7, <3>8, <3>9, <3>10 DEF Past
  <2> QED BY <2>1, <2>3
<1>7. Caused(w)
      BY <1>1, <1>5, <1>6 DEF Caused
<1> QED BY <1>4, <1>7 DEF w

\* Only Store and Reset touch the events.
LEMMA OnlyStoredAndCleared ==
    [Next]_vars =>
        \/ \E e \in Emitters : \E ev \in Emits[e] : Store(e, ev)
        \/ \E r \in Resets : Reset(r)
        \/ events' = events
<1>1. \A e \in Emitters : Notify(e) => events' = events
      BY DEF Notify
<1>2. \A th \in Threads : Deliver(th) => events' = events
      BY DEF Deliver, DrainEnds, CallBack, CallBackReturns, CallBackRaises
<1>3. \A k \in Subscribers : Subscribe(k) \/ Unsubscribe(k) => events' = events
      BY DEF Subscribe, Unsubscribe
<1>4. \A c \in Connections : Reconnect(c) => events' = events
      BY DEF Reconnect, ReadCursor, GetEvents, Acknowledge
<1>5. UNCHANGED vars => events' = events
      BY DEF vars
<1> QED BY <1>1, <1>2, <1>3, <1>4, <1>5 DEF Next, Emit

LEMMA CauseStep == Types /\ CausalInv /\ [Next]_vars => CausalInv'
<1> SUFFICES ASSUME Types, CausalInv, [Next]_vars PROVE CausalInv'
    OBVIOUS
<1>1. \A s \in Sessions : Answers(events[s]) /\ Caused(events[s])
      BY DEF CausalInv, ExecutionFollowsAllow, Caused, Past
<1>2. (\A s \in Sessions : Answers(events'[s]) /\ Caused(events'[s])) => CausalInv'
      BY DEF CausalInv, ExecutionFollowsAllow, Caused, Past, Answers, OfType, Steps
<1>3. ASSUME NEW e \in Emitters, NEW ev \in Emits[e], Store(e, ev) PROVE CausalInv'
  <2>1. ev \in Events
        BY StreamAssumption
  <2>2. PICK z \in Sessions : z = SessionOf[ev.turn]
        BY <2>1, EventTurns, StreamAssumption
  <2>3. Accepts(ev, events[z]) /\ events' = [events EXCEPT ![z] = Append(@, ev)]
        BY <1>3, <2>2 DEF Store
  <2>4. events[z] \in Seq(Events)
        BY DEF Types
  <2>5. events'[z] = Append(events[z], ev) /\ \A s \in Sessions : s # z => events'[s] = events[s]
        BY <2>3 DEF Types
  <2>6. Answers(events'[z]) /\ Caused(events'[z])
        BY <1>1, <2>1, <2>3, <2>4, <2>5, AppendKeepsCauses
  <2> QED BY <1>1, <1>2, <2>5, <2>6
<1>4. ASSUME NEW r \in Resets, Reset(r) PROVE CausalInv'
  <2>1. \A s \in Sessions : events'[s] = <<>> \/ events'[s] = events[s]
        BY <1>4 DEF Reset, ClearEvents, ResetConnections
  <2>2. Answers(<<>>) /\ Caused(<<>>)
        BY DEF Answers, Caused, OfType
  <2> QED BY <1>1, <1>2, <2>1, <2>2
<1>5. CASE events' = events
      BY <1>1, <1>2, <1>5
<1> QED BY <1>3, <1>4, <1>5, OnlyStoredAndCleared DEF Next, Emit

\* The store takes a chunk only as the next of its turn, and none after the
\* final one.
LEMMA AppendKeepsWhole ==
    ASSUME NEW q \in Seq(Events), Whole(q), NEW ev \in Events, Accepts(ev, q)
    PROVE  Whole(Append(q, ev))
<1> DEFINE w == Append(q, ev)
           n == Len(q) + 1
<1>1. /\ DOMAIN q = 1..Len(q) /\ DOMAIN w = 1..n /\ n \in Nat /\ n \notin DOMAIN q
      /\ \A i \in DOMAIN q : w[i] = q[i] /\ i < n /\ i \in Nat
      /\ w[n] = ev /\ DOMAIN w = DOMAIN q \cup {n}
      BY Longer DEF w, n
<1> HIDE DEF w, n
<1> SUFFICES ASSUME NEW t \in Turns, NEW i \in InTurn(w, "chunk", t)
             PROVE  /\ w[i].index = Cardinality({j \in InTurn(w, "chunk", t) : j < i})
                    /\ w[i].final => \A j \in InTurn(w, "chunk", t) : j <= i
    BY DEF Whole, w
<1>2. InTurn(w, "chunk", t) = InTurn(q, "chunk", t) \cup
         (IF ev.type = "chunk" /\ ev.turn = t THEN {n} ELSE {})
      BY <1>1 DEF InTurn, OfType
<1>3. \A j \in InTurn(q, "chunk", t) : j < n /\ j \in Nat /\ j \in DOMAIN q
      BY <1>1 DEF InTurn, OfType
<1>4. CASE i \in InTurn(q, "chunk", t)
  <2>1. {j \in InTurn(w, "chunk", t) : j < i} = {j \in InTurn(q, "chunk", t) : j < i}
        BY <1>1, <1>2, <1>3, <1>4
  <2>2. w[i] = q[i]
        BY <1>1, <1>3, <1>4
  <2>3. w[i].final => InTurn(w, "chunk", t) = InTurn(q, "chunk", t)
    <3>1. ev.type = "chunk" /\ ev.turn = t => ~q[i].final
          BY <1>4 DEF Accepts, ContinuesChunks
    <3> QED BY <1>2, <2>2, <3>1
  <2> QED BY <1>4, <2>1, <2>2, <2>3 DEF Whole
<1>5. CASE i = n /\ ev.type = "chunk" /\ ev.turn = t
  <2>1. {j \in InTurn(w, "chunk", t) : j < n} = InTurn(q, "chunk", t)
    <3>1. InTurn(w, "chunk", t) = InTurn(q, "chunk", t) \cup {n} /\ ~(n < n)
          BY <1>1, <1>2, <1>5
    <3> QED BY <1>3, <3>1
  <2>2. ev.index = Cardinality(InTurn(q, "chunk", t))
        BY <1>5 DEF Accepts, ContinuesChunks
  <2>3. \A j \in InTurn(w, "chunk", t) : j <= n
        BY <1>1, <1>2, <1>3, <1>5
  <2> QED BY <1>1, <1>5, <2>1, <2>2, <2>3
<1> QED BY <1>2, <1>4, <1>5

LEMMA WholeStep == Types /\ AnswersAreWhole /\ [Next]_vars => AnswersAreWhole'
<1> SUFFICES ASSUME Types, AnswersAreWhole, [Next]_vars PROVE AnswersAreWhole'
    OBVIOUS
<1>1. \A s \in Sessions : Whole(events[s])
      BY DEF AnswersAreWhole, Whole
<1>2. (\A s \in Sessions : Whole(events'[s])) => AnswersAreWhole'
      BY DEF AnswersAreWhole, Whole, InTurn, OfType
<1>3. ASSUME NEW e \in Emitters, NEW ev \in Emits[e], Store(e, ev) PROVE AnswersAreWhole'
  <2>1. ev \in Events
        BY StreamAssumption
  <2>2. PICK z \in Sessions : z = SessionOf[ev.turn]
        BY <2>1, EventTurns, StreamAssumption
  <2>3. Accepts(ev, events[z]) /\ events' = [events EXCEPT ![z] = Append(@, ev)]
        BY <1>3, <2>2 DEF Store
  <2>4. events[z] \in Seq(Events)
        BY DEF Types
  <2>5. events'[z] = Append(events[z], ev) /\ \A s \in Sessions : s # z => events'[s] = events[s]
        BY <2>3 DEF Types
  <2>6. Whole(events'[z])
        BY <1>1, <2>1, <2>3, <2>4, <2>5, AppendKeepsWhole
  <2> QED BY <1>1, <1>2, <2>5, <2>6
<1>4. ASSUME NEW r \in Resets, Reset(r) PROVE AnswersAreWhole'
  <2>1. \A s \in Sessions : events'[s] = <<>> \/ events'[s] = events[s]
        BY <1>4 DEF Reset, ClearEvents, ResetConnections
  <2>2. Whole(<<>>)
        BY DEF Whole, InTurn, OfType
  <2> QED BY <1>1, <1>2, <2>1, <2>2
<1>5. CASE events' = events
      BY <1>1, <1>2, <1>5
<1> QED BY <1>3, <1>4, <1>5, OnlyStoredAndCleared DEF Next, Emit

(***************************************************************************)
(* Reading on across a reset.                                              *)
(***************************************************************************)

LEMMA InitReads == Init => ReadInv
<1> SUFFICES ASSUME Init PROVE ReadInv
    OBVIOUS
<1>1. events \in [Sessions -> Seq(Events)]
  <2>1. <<>> \in Seq(Events)
        OBVIOUS
  <2> QED BY <2>1 DEF Init
<1>2. acked \in [Connections -> Ack] /\ \A c \in Connections : acked[c].sequence = 0
      BY DEF Init, NeverAcked, Ack
<1>3. /\ conn \in [Connections -> Asking]
      /\ \A c \in Connections : conn[c].phase \in {"idle", "absent"}
  <2>1. /\ NotAsked \in Asking /\ [NotAsked EXCEPT !.phase = "absent"] \in Asking
        /\ NotAsked.phase = "idle" /\ [NotAsked EXCEPT !.phase = "absent"].phase = "absent"
        BY DEF NotAsked, Asking
  <2> QED BY <2>1 DEF Init
<1>4. epoch \in [Sessions -> Nat] /\ reset \in [Resets -> {"idle", "cleared", "done"}]
      BY DEF Init
<1>5. \A c \in Connections : Reads(c)
      BY <1>2, <1>3 DEF Reads
<1> QED BY <1>1, <1>2, <1>3, <1>4, <1>5 DEF ReadInv

\* What the answer of the store makes of a connection.
LEMMA Answered ==
    ASSUME ReadInv, NEW c \in Connections, GetEvents(c)
    PROVE  /\ conn[c].phase = "asking" /\ Follows[c] \in Sessions
           /\ conn' \in [Connections -> Asking]
           /\ conn'[c].phase = "answered"
           /\ conn'[c].crossed <=> conn[c].crossed \/ conn[c].epoch # epoch[Follows[c]]
           /\ \A x \in Connections : x # c => conn'[x] = conn[x]
<1>1. PICK s \in Sessions : s = Follows[c]
      BY StreamAssumption
<1>2. PICK late \in BOOLEAN : late = (conn[c].crossed \/ conn[c].epoch # epoch[s])
      OBVIOUS
<1>3. conn[c] \in Asking /\ conn[c].cursor \in Nat /\ conn[c].of \in Nat
      BY DEF ReadInv, Asking
<1>4. Len(events[s]) \in Nat /\ epoch[s] \in Nat
      BY DEF ReadInv
<1>5. PICK m \in Nat : m = IF BringsEvents(c) THEN Len(events[s]) ELSE conn[c].cursor
      BY <1>3, <1>4
<1>11. PICK of \in Nat : of = IF BringsEvents(c) THEN epoch[s] ELSE conn[c].of
      BY <1>3, <1>4
<1> DEFINE r == [conn[c] EXCEPT !.phase = "answered", !.cursor = 0, !.next = m,
                                !.of = of, !.crossed = late]
<1>6. r \in Asking /\ r.phase = "answered" /\ r.crossed = late
      BY <1>3, <1>5, <1>11 DEF Asking
<1>7. conn' = [conn EXCEPT ![c] = r]
      BY <1>1, <1>2, <1>5, <1>11 DEF GetEvents, ReadInv
<1>8. conn[c].phase = "asking"
      BY DEF GetEvents
<1> HIDE DEF r
<1>9. conn \in [Connections -> Asking]
      BY DEF ReadInv
<1>10. conn'[c] = r /\ conn' \in [Connections -> Asking]
       /\ \A x \in Connections : x # c => conn'[x] = conn[x]
      BY <1>6, <1>7, <1>9
<1> QED BY <1>1, <1>2, <1>6, <1>8, <1>10

LEMMA ReadStep == ReadInv /\ Types' /\ [Next]_vars => ReadInv'
<1> SUFFICES ASSUME ReadInv, Types', [Next]_vars PROVE ReadInv'
    OBVIOUS
<1>1. events' \in [Sessions -> Seq(Events)]
      BY DEF Types
<1>2. \A c \in Connections : Reads(c) /\ Follows[c] \in Sessions
      BY StreamAssumption DEF ReadInv
<1>3. /\ epoch \in [Sessions -> Nat] /\ reset \in [Resets -> {"idle", "cleared", "done"}]
      /\ acked \in [Connections -> Ack] /\ conn \in [Connections -> Asking]
      BY DEF ReadInv
<1>4. CASE UNCHANGED <<epoch, reset, acked, conn>>
      BY <1>1, <1>4 DEF ReadInv, Reads, Resetting
<1>5. ASSUME NEW c \in Connections, ReadCursor(c) PROVE ReadInv'
  <2>1. PICK s \in Sessions : s = Follows[c]
        BY StreamAssumption
  <2>2. acked[c] \in Ack /\ acked[c].late \in BOOLEAN /\ epoch[s] \in Nat
        BY <1>3 DEF Ack
  <2>3. PICK crossed \in BOOLEAN : crossed = Resetting(s)
        BY DEF Resetting
  <2> DEFINE r == [phase |-> "asking", cursor |-> acked[c].sequence, of |-> acked[c].epoch,
                   late |-> acked[c].late, epoch |-> epoch[s], crossed |-> crossed,
                   next |-> 0]
  <2>4. r \in Asking
        BY <2>2, <2>3 DEF Ack, Asking
  <2>5. /\ r.phase = "asking" /\ r.cursor = acked[c].sequence /\ r.of = acked[c].epoch
        /\ r.late = acked[c].late /\ r.epoch = epoch[s] /\ r.crossed = crossed
        OBVIOUS
  <2>6. conn' = [conn EXCEPT ![c] = r]
        BY <1>5, <2>1, <2>3 DEF ReadCursor
  <2>7. UNCHANGED <<epoch, reset, acked>>
        BY <1>5 DEF ReadCursor
  <2> HIDE DEF r
  <2>8. conn'[c] = r /\ conn' \in [Connections -> Asking]
        /\ \A x \in Connections : x # c => conn'[x] = conn[x]
        BY <1>3, <2>4, <2>6
  <2>9. r.crossed \/ r.late \/ r.cursor = 0 \/ r.of = r.epoch
        BY <1>2, <2>1, <2>3, <2>5 DEF Reads
  <2>10. Reads(c)'
        BY <1>2, <2>7, <2>8, <2>9 DEF Reads, Resetting
  <2>11. \A x \in Connections : x # c => Reads(x)'
        BY <1>2, <2>7, <2>8 DEF Reads, Resetting
  <2> QED BY <1>1, <1>3, <2>7, <2>8, <2>10, <2>11 DEF ReadInv
<1>6. ASSUME NEW c \in Connections, GetEvents(c) PROVE ReadInv'
  <2>1. UNCHANGED <<epoch, reset, acked>>
        BY <1>6 DEF GetEvents
  <2>2. /\ conn' \in [Connections -> Asking] /\ conn'[c].phase = "answered"
        /\ \A x \in Connections : x # c => conn'[x] = conn[x]
        BY <1>6, Answered
  <2>3. \A x \in Connections : Reads(x)'
        BY <1>2, <2>1, <2>2 DEF Reads, Resetting
  <2> QED BY <1>1, <1>3, <2>1, <2>2, <2>3 DEF ReadInv
<1>7. ASSUME NEW c \in Connections, Acknowledge(c) PROVE ReadInv'
  <2>1. UNCHANGED <<epoch, reset>>
        BY <1>7 DEF Acknowledge
  <2>2. PICK s \in Sessions : s = Follows[c]
        BY StreamAssumption
  <2>3. PICK late \in BOOLEAN : late = (conn[c].of # epoch[s])
        OBVIOUS
  <2> DEFINE r == [sequence |-> conn[c].next, epoch |-> conn[c].of, late |-> late]
  <2>4. r \in Ack /\ r.late = late /\ r.epoch = conn[c].of
        BY <1>3, <2>3 DEF Ack, Asking
  <2>5. acked' = [acked EXCEPT ![c] = r] \/ acked' = acked
    <3>1. CASE conn[c].next <= acked[c].sequence
          BY <1>3, <1>7, <3>1 DEF Acknowledge
    <3>2. CASE ~(conn[c].next <= acked[c].sequence)
          BY <1>7, <2>2, <2>3, <3>2 DEF Acknowledge
    <3> QED BY <3>1, <3>2
  <2>6. late \/ conn[c].of = epoch[s]
        BY <2>3
  <2> HIDE DEF r
  <2>7. acked' \in [Connections -> Ack]
        BY <1>3, <2>4, <2>5
  <2>8. conn' = [conn EXCEPT ![c] = NotAsked]
        BY <1>7 DEF Acknowledge
  <2>9. NotAsked \in Asking /\ NotAsked.phase = "idle"
        BY DEF NotAsked, Asking
  <2>10. conn' \in [Connections -> Asking] /\ conn'[c].phase = "idle"
         /\ \A x \in Connections : x # c => conn'[x] = conn[x] /\ acked'[x] = acked[x]
        BY <1>3, <2>5, <2>8, <2>9
  <2>11. Reads(c)'
    <3>1. CASE acked' = acked
          BY <1>2, <2>1, <2>10, <3>1 DEF Reads, Resetting
    <3>2. CASE acked' = [acked EXCEPT ![c] = r]
      <4>1. acked'[c] = r
            BY <1>3, <3>2
      <4> QED BY <2>1, <2>2, <2>4, <2>6, <2>10, <4>1 DEF Reads
    <3> QED BY <2>5, <3>1, <3>2
  <2>12. \A x \in Connections : x # c => Reads(x)'
        BY <1>2, <2>1, <2>10 DEF Reads, Resetting
  <2> QED BY <1>1, <1>3, <2>1, <2>7, <2>10, <2>11, <2>12 DEF ReadInv
<1>8. ASSUME NEW r \in Resets, ClearEvents(r) PROVE ReadInv'
  <2>1. UNCHANGED <<acked, conn>>
        BY <1>8 DEF ClearEvents
  <2>2. /\ epoch' = [s \in Sessions |-> IF InScope(r, s) THEN epoch[s] + 1 ELSE epoch[s]]
        /\ reset' = [reset EXCEPT ![r] = "cleared"]
        BY <1>8 DEF ClearEvents
  <2>3. epoch' \in [Sessions -> Nat] /\ reset' \in [Resets -> {"idle", "cleared", "done"}]
        BY <1>3, <2>2
  <2>4. \A x \in Resets : reset[x] # "cleared"
        BY <1>8 DEF ClearEvents
  <2>5. ASSUME NEW c \in Connections PROVE Reads(c)'
    <3>1. PICK s \in Sessions : s = Follows[c]
          BY StreamAssumption
    <3>2. CASE InScope(r, s)
      <4>1. Resetting(s)'
            BY <1>3, <2>2, <3>2 DEF Resetting, InScope
      <4> QED BY <1>2, <2>1, <3>1, <4>1 DEF Reads
    <3>3. CASE ~InScope(r, s)
      <4>1. epoch'[s] = epoch[s]
            BY <2>2, <3>3
      <4>2. ~Resetting(s)
            BY <2>4 DEF Resetting
      <4> QED BY <1>2, <2>1, <3>1, <4>1, <4>2 DEF Reads
    <3> QED BY <3>2, <3>3
  <2> QED BY <1>1, <1>3, <2>1, <2>3, <2>5 DEF ReadInv
<1>9. ASSUME NEW r \in Resets, ResetConnections(r) PROVE ReadInv'
  <2>1. UNCHANGED <<epoch, conn>>
        BY <1>9 DEF ResetConnections
  <2>2. /\ acked' = [c \in Connections |-> IF InScope(r, Follows[c]) THEN NeverAcked ELSE acked[c]]
        /\ reset' = [reset EXCEPT ![r] = "done"]
        BY <1>9 DEF ResetConnections
  <2>3. NeverAcked \in Ack /\ NeverAcked.sequence = 0
        BY DEF NeverAcked, Ack
  <2>4. acked' \in [Connections -> Ack] /\ reset' \in [Resets -> {"idle", "cleared", "done"}]
        BY <1>3, <2>2, <2>3
  <2>5. ASSUME NEW c \in Connections PROVE Reads(c)'
    <3>1. CASE InScope(r, Follows[c])
      <4>1. acked'[c].sequence = 0
            BY <2>2, <2>3, <3>1
      <4> QED BY <1>2, <2>1, <4>1 DEF Reads
    <3>2. CASE ~InScope(r, Follows[c])
      <4>1. acked'[c] = acked[c]
            BY <2>2, <3>2
      <4>2. Resetting(Follows[c]) => Resetting(Follows[c])'
            BY <1>3, <2>2, <3>2 DEF Resetting, InScope
      <4> QED BY <1>2, <2>1, <4>1, <4>2 DEF Reads
    <3> QED BY <3>1, <3>2
  <2> QED BY <1>1, <1>3, <2>1, <2>4, <2>5 DEF ReadInv
<1>10. \A e \in Emitters : Emit(e) => UNCHANGED <<epoch, reset, acked, conn>>
      BY DEF Emit, Store, Notify
<1>11. \A th \in Threads : Deliver(th) => UNCHANGED <<epoch, reset, acked, conn>>
      BY DEF Deliver, DrainEnds, CallBack, CallBackReturns, CallBackRaises
<1>12. \A k \in Subscribers :
          Subscribe(k) \/ Unsubscribe(k) => UNCHANGED <<epoch, reset, acked, conn>>
      BY DEF Subscribe, Unsubscribe
<1>13. UNCHANGED vars => UNCHANGED <<epoch, reset, acked, conn>>
      BY DEF vars
<1> QED BY <1>4, <1>5, <1>6, <1>7, <1>8, <1>9, <1>10, <1>11, <1>12, <1>13
       DEF Next, Reconnect, Reset

(***************************************************************************)
(* The theorems.                                                           *)
(***************************************************************************)

IInv == Types /\ BusyInv /\ LineInv /\ DrainInv /\ CausalInv /\ AnswersAreWhole
          /\ ReadInv

LEMMA InitIInv == Init => IInv
<1> SUFFICES ASSUME Init PROVE IInv
    OBVIOUS
<1>1. /\ \A th \in Threads : drain[th] = <<>>
      /\ calling = {} /\ \A e \in Emitters : emitted[e] = None
      /\ \A k \in Subscribers : k \in Threads /\ got[k] = <<>>
      /\ \A s \in Sessions : events[s] = <<>>
      BY DEF Init, Threads
<1>2. \A k \in Subscribers : sub[k].phase \in {"new", "dropped"} /\ sub[k].pending = <<>>
  <2>1. Dropped(Unopened).phase = "dropped" /\ Dropped(Unopened).pending = <<>>
        BY Fresh, Subscriptions
  <2>2. Unopened.phase = "new" /\ Unopened.pending = <<>>
        BY Fresh
  <2> QED BY <2>1, <2>2 DEF Init
<1>3. BusyInv
      BY <1>1 DEF BusyInv
<1>4. LineInv
      BY <1>1, <1>2 DEF LineInv, InLine, Increasing
<1>5. DrainInv
      BY <1>1, <1>2 DEF DrainInv, Alone, Flagged, Drains
<1>6. CausalInv
      BY <1>1 DEF CausalInv, Answers, OfType, ExecutionFollowsAllow
<1>7. AnswersAreWhole
      BY <1>1 DEF AnswersAreWhole, InTurn, OfType
<1> QED BY <1>3, <1>4, <1>5, <1>6, <1>7, InitTypes, InitReads DEF IInv

LEMMA Invariant == Spec => []IInv
<1>1. IInv /\ [Next]_vars => IInv'
      BY TypeStep, BusyStep, LineStep, DrainStep, CauseStep, WholeStep, ReadStep
         DEF IInv
<1> QED BY <1>1, InitIInv, PTL DEF Spec

\* The types, with which the store holds only events it was asked to append.
THEOREM StreamTypes == Spec => []Types
<1>1. IInv => Types
      BY DEF IInv
<1> QED BY <1>1, Invariant, PTL

\* EventStreamAdapter hands every callback strictly increasing sequence
\* numbers, though history and new events come to it by different threads.
THEOREM DeliveryOrder == Spec => []DeliveredInOrder
<1>1. IInv => DeliveredInOrder
      BY DEF IInv, LineInv, InLine, Increasing, DeliveredInOrder
<1> QED BY <1>1, Invariant, PTL

\* A queued event of an open subscription has exactly one thread on its way to
\* deliver it, and no callback is entered by two threads at once.
THEOREM OneDrainer == Spec => []NoStrandedEvent
<1>1. IInv => NoStrandedEvent
  <2> SUFFICES ASSUME IInv PROVE NoStrandedEvent
      OBVIOUS
  <2>1. Alone /\ Types /\ BusyInv /\ \A k \in Subscribers : Flagged(k)
        BY DEF IInv, DrainInv
  <2>2. ASSUME NEW x \in calling, NEW y \in calling, x # y
        PROVE  Head(drain[x]) # Head(drain[y])
    <3>1. ASSUME NEW z \in calling
          PROVE  1 \in DOMAIN drain[z] /\ Head(drain[z]) = drain[z][1] /\ z \in Threads
          BY <2>1, Shorter DEF Types, BusyInv
    <3> QED BY <2>1, <2>2, <3>1 DEF Alone
  <2>3. ASSUME NEW k \in Subscribers, sub[k].phase = "open",
               NEW D, D = {th \in Threads : k \in ToSet(drain[th])}
        PROVE  /\ Cardinality(D) = (IF sub[k].delivering THEN 1 ELSE 0)
               /\ (sub[k].pending # <<>> => sub[k].delivering)
    <3>1. \A th \in Threads : th \in D <=> Drains(th, k)
          BY <2>3 DEF ToSet, Drains
    <3>2. D \subseteq Threads
          BY <2>3
    <3>3. \A x, y \in D : x = y
          BY <2>1, <3>1, <3>2 DEF Alone, Drains
    <3>4. sub[k].delivering <=> D # {}
          BY <2>1, <2>3, <3>1, <3>2 DEF Flagged
    <3>5. CASE D = {}
          BY <2>1, <2>3, <3>4, <3>5, FS_EmptySet DEF Flagged
    <3>6. CASE D # {}
      <4>1. PICK x : D = {x}
            BY <3>3, <3>6
      <4>2. Cardinality(D) = 1
            BY <4>1, FS_Singleton
      <4> QED BY <3>4, <3>6, <4>2
    <3> QED BY <3>5, <3>6
  <2> QED BY <2>2, <2>3 DEF NoStrandedEvent
<1> QED BY <1>1, Invariant, PTL

\* Whatever AgentEventStore.append has accepted, what an execution id did, and
\* every change of state by it, follows the one start of that id, which follows
\* a proposal and its ALLOW; and nothing follows its one end.
THEOREM CausalOrder == Spec => []ExecutionFollowsAllow
<1>1. IInv => ExecutionFollowsAllow
      BY DEF IInv, CausalInv
<1> QED BY <1>1, Invariant, PTL

\* That is all there is: after an ALLOW a second execution of the same proposal
\* may start under another id.  The contract's "exactly one execution(started)"
\* of an Agent action is its emitter's to keep, not validate_next_event's.
THEOREM SecondStartAccepted ==
    ASSUME NEW t, NEW p, NEW x, NEW y, x # y
    PROVE  /\ Accepts(Decision(t, p, "ALLOW"), <<Proposal(t, p)>>)
           /\ Accepts(Execution(t, p, x, "started"),
                      <<Proposal(t, p), Decision(t, p, "ALLOW")>>)
           /\ Accepts(Execution(t, p, y, "started"),
                      <<Proposal(t, p), Decision(t, p, "ALLOW"), Execution(t, p, x, "started")>>)
<1> DEFINE a == Proposal(t, p)
           d == Decision(t, p, "ALLOW")
           b == Execution(t, p, x, "started")
<1>1. /\ a.type = "proposal" /\ a.proposal = p /\ a.turn = t
      /\ d.type = "decision" /\ d.proposal = p /\ d.turn = t /\ d.outcome = "ALLOW"
      /\ b.type = "execution" /\ b.execution = x
      BY DEF Proposal, Decision, Execution
<1>2. ASSUME NEW z
      PROVE  LET ev == Execution(t, p, z, "started")
             IN  ev.type = "execution" /\ ev.turn = t /\ ev.proposal = p
                 /\ ev.execution = z /\ ev.phase = "started"
      BY DEF Execution
<1> HIDE DEF a, d, b
<1>3. Accepts(d, <<a>>)
      BY <1>1 DEF Accepts, AnswersProposal, Proposed, About, OfType
<1>4. ASSUME NEW q, NEW z, {1, 2} \subseteq DOMAIN q, q[1] = a, q[2] = d, Steps(q, z) = {}
      PROVE  Accepts(Execution(t, p, z, "started"), q)
  <2>1. Proposed(Execution(t, p, z, "started"), q)
        BY <1>1, <1>2, <1>4 DEF Proposed, About, OfType
  <2>2. \E i \in About(q, "decision", p) : q[i].outcome = "ALLOW"
        BY <1>1, <1>4 DEF About, OfType
  <2> QED BY <1>2, <1>4, <2>1, <2>2 DEF Accepts, ContinuesExecution
<1>5. /\ DOMAIN <<a, d>> = {1, 2} /\ DOMAIN <<a, d, b>> = {1, 2, 3}
      /\ <<a, d>>[1] = a /\ <<a, d>>[2] = d
      /\ <<a, d, b>>[1] = a /\ <<a, d, b>>[2] = d /\ <<a, d, b>>[3] = b
      OBVIOUS
<1>6. Steps(<<a, d>>, x) = {} /\ Steps(<<a, d, b>>, y) = {}
      BY <1>1, <1>5 DEF Steps, OfType
<1>7. Accepts(Execution(t, p, x, "started"), <<a, d>>)
      BY <1>4, <1>5, <1>6
<1>8. Accepts(Execution(t, p, y, "started"), <<a, d, b>>)
      BY <1>4, <1>5, <1>6
<1> QED BY <1>3, <1>7, <1>8 DEF a, d, b

\* Whatever AgentEventStore.append has accepted, the chunks of a turn put
\* together in the order of the stream are its answer, whole and once.
THEOREM AnswersWhole == Spec => []AnswersAreWhole
<1>1. IInv => AnswersAreWhole
      BY DEF IInv
<1> QED BY <1>1, Invariant, PTL

\* UIConnectionRegistry.reconnect leaves events out only when a reset overlaps
\* it or the last acknowledgement came after its events had been cleared: what
\* was acknowledged before, the reset has taken back.
THEOREM SkipsExplained == Spec => OnlyLateAcksSkip
<1> DEFINE Explained(c) == GetEvents(c) /\ Skips(c) => conn[c].late \/ conn'[c].crossed
<1>1. ASSUME ReadInv, NEW c \in Connections PROVE Explained(c)
  <2> SUFFICES ASSUME GetEvents(c), Skips(c), ~conn'[c].crossed PROVE conn[c].late
      OBVIOUS
  <2>1. /\ conn[c].phase = "asking"
        /\ conn'[c].crossed <=> conn[c].crossed \/ conn[c].epoch # epoch[Follows[c]]
        BY <1>1, Answered
  <2>2. Reads(c)
        BY <1>1 DEF ReadInv
  <2>3. conn[c].cursor # 0 /\ conn[c].of # epoch[Follows[c]]
        BY <1>1 DEF Skips, ReadInv, Asking
  <2> QED BY <2>1, <2>2, <2>3 DEF Reads
<1>2. IInv => [\A c \in Connections : Explained(c)]_vars
      BY <1>1 DEF IInv
<1> QED BY <1>2, Invariant, PTL DEF OnlyLateAcksSkip

================================================================================
