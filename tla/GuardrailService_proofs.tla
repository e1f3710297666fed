-------------------------- MODULE GuardrailService_proofs --------------------------
(***************************************************************************)
(* Proofs about GuardrailService for any number of calls, sessions and     *)
(* vehicle states, and for any policy: its types, that a proposal is       *)
(* issued at most one permit, that a confirmed permit rests on a fresh     *)
(* snapshot, and that a token is taken by its own session only.            *)
(***************************************************************************)
EXTENDS GuardrailService, TLAPS

grVars == <<now, permit, gvars>>

\* A call that has not been answered has created nothing.
NothingBeforeAnswer ==
    \A c \in Calls : req[c].phase # "answered" => c \notin pending /\ permit[c] = None

\* A pending token belongs to the session of its proposal, and its call was
\* not given a permit as well.
PendingKnown ==
    \A k \in pending :
        /\ permit[k] = None
        /\ token[k] \in Token
        /\ token[k].session = SessionOf[token[k].proposal]

\* An attempt past the store took a token whose call is over: the record can
\* no longer change.
Past(a) == req[a].phase \in {"consumed", "evaluated"} \/ permit[a] # None

TakenKnown ==
    \A a \in Attempts : Past(a) =>
        /\ req[a].token \in Calls
        /\ token[req[a].token] \in Token
        /\ req[req[a].token].phase = "answered"

VerdictKnown == \A c \in Calls : req[c].phase = "evaluated" => req[c].verdict \in Verdict

\* The steps of a confirmation before its permit keep it fresh.
AttemptFresh ==
    \A a \in Attempts : req[a].phase \in {"consumed", "evaluated"} =>
        /\ req[a].moment <= token[req[a].token].expires
        /\ req[a].since <= version
        /\ req[a].phase = "evaluated" => req[a].since <= req[a].version

RequestsSound ==
    /\ NothingBeforeAnswer
    /\ PendingKnown
    /\ TakenKnown
    /\ VerdictKnown

FreshInv == AttemptFresh /\ ConfirmedPermitIsFresh

GuardrailInv == GuardrailTypeOK /\ RequestsSound /\ LinearAuthority /\ FreshInv

LEMMA GuardrailInvInit == GuardrailInit => GuardrailInv
<1> SUFFICES ASSUME GuardrailInit PROVE GuardrailInv
    OBVIOUS
<1>1. GuardrailTypeOK
      BY AuthorityAssumption, GuardrailAssumption
      DEF GuardrailInit, GuardrailTypeOK, PermitTypeOK, Request, NoRequest
<1>2. RequestsSound /\ FreshInv
      BY DEF GuardrailInit, RequestsSound, NothingBeforeAnswer, PendingKnown, TakenKnown, Past,
             VerdictKnown, FreshInv, AttemptFresh, ConfirmedPermitIsFresh, NoRequest, Calls
<1>3. LinearAuthority
      BY DEF GuardrailInit, LinearAuthority, HoldsAuthority, NoRequest
<1> QED BY <1>1, <1>2, <1>3 DEF GuardrailInv
-----------------------------------------------------------------------------
\* The actions of GuardrailNext, one case each, as every proof below splits it.
LEMMA GuardrailCases ==
    ASSUME [GuardrailNext]_grVars, NEW Goal,
           UNCHANGED grVars => Goal,
           GuardrailTick => Goal,
           \A v \in VehicleStates : ChangeVehicle(v) => Goal,
           \A t \in Turns : ReceiveProposal(t) => Goal,
           \A a \in Attempts, k \in Calls, s \in Sessions : ReceiveConfirm(a, k, s) => Goal,
           \A a \in Attempts : RejectToken(a) => Goal,
           \A a \in Attempts : ConsumeToken(a) => Goal,
           \A c \in Calls : EvaluateSnapshot(c) => Goal,
           \A c \in Calls : IssuePermit(c) => Goal,
           \A c \in Calls : AskConfirmation(c) => Goal,
           \A c \in Calls : Refuse(c) => Goal,
           \A p \in Monitored, v \in VehicleStates : MonitorStop(p, v) => Goal
    PROVE  Goal
BY Zenon DEF GuardrailNext, HandleRequest

\* A request in its handler is about a known proposal.
LEMMA ProposalKnown ==
    ASSUME GuardrailInv, NEW c \in Calls,
           c \in Turns \/ req[c].phase \in {"consumed", "evaluated"}
    PROVE  ProposalOf(c) \in Turns
<1>1. CASE c \in Turns
      BY <1>1 DEF ProposalOf
<1>2. CASE c \notin Turns
      <2>1. token[req[c].token] \in Token
            BY <1>2 DEF GuardrailInv, RequestsSound, TakenKnown, Past, Calls
      <2> QED BY <1>2, <2>1 DEF ProposalOf, Token
<1> QED BY <1>1, <1>2

\* Setting one field keeps a request a request.
LEMMA RequestField ==
    ASSUME NEW r \in Request
    PROVE  /\ \A x \in {"received", "consumed", "evaluated", "answered"} :
                [r EXCEPT !.phase = x] \in Request
           /\ \A x \in Calls : [r EXCEPT !.token = x] \in Request
           /\ \A x \in Sessions : [r EXCEPT !.session = x] \in Request
           /\ \A x \in Nat : [r EXCEPT !.moment = x] \in Request
           /\ \A x \in Nat : [r EXCEPT !.since = x] \in Request
           /\ \A x \in Verdict : [r EXCEPT !.verdict = x] \in Request
           /\ \A x \in Nat : [r EXCEPT !.version = x] \in Request
           /\ \A x \in {"ALLOW", "CONFIRM", "BLOCK", "ERROR"} :
                [r EXCEPT !.reply = x] \in Request
BY DEF Request

LEMMA GuardrailTypeNext ==
    ASSUME GuardrailInv, [GuardrailNext]_grVars
    PROVE  GuardrailTypeOK'
<1> USE AuthorityAssumption, GuardrailAssumption DEF GuardrailTypeOK, PermitTypeOK
<1>0. GuardrailTypeOK
      BY DEF GuardrailInv
<1>1. UNCHANGED grVars => GuardrailTypeOK'
      BY <1>0 DEF grVars, gvars
<1>2. GuardrailTick => GuardrailTypeOK'
      BY <1>0 DEF GuardrailTick, Tick, gvars
<1>3. ASSUME NEW v \in VehicleStates, ChangeVehicle(v) PROVE GuardrailTypeOK'
      BY <1>0, <1>3 DEF ChangeVehicle
<1>4. ASSUME NEW t \in Turns, ReceiveProposal(t) PROVE GuardrailTypeOK'
      <2>1. [req[t] EXCEPT !.phase = "received", !.session = SessionOf[t]] \in Request
            BY <1>0, RequestField DEF Calls
      <2> QED BY <1>0, <1>4, <2>1 DEF ReceiveProposal
<1>5. ASSUME NEW a \in Attempts, NEW k \in Calls, NEW s \in Sessions, ReceiveConfirm(a, k, s)
      PROVE  GuardrailTypeOK'
      <2>1. [req[a] EXCEPT !.phase = "received", !.token = k, !.session = s] \in Request
            BY <1>0, RequestField DEF Calls
      <2> QED BY <1>0, <1>5, <2>1 DEF ReceiveConfirm
<1>6. ASSUME NEW c \in Calls, NEW reply \in {"ALLOW", "CONFIRM", "BLOCK", "ERROR"},
             Answer(c, reply)
      PROVE  req' \in [Calls -> Request]
      <2>1. [req[c] EXCEPT !.phase = "answered", !.reply = reply] \in Request
            BY <1>0, RequestField
      <2> QED BY <1>0, <1>6, <2>1 DEF Answer
<1>7. ASSUME NEW a \in Attempts, RejectToken(a) PROVE GuardrailTypeOK'
      BY <1>0, <1>6, <1>7 DEF RejectToken, Calls
<1>8. ASSUME NEW a \in Attempts, ConsumeToken(a) PROVE GuardrailTypeOK'
      <2>1. a \in Calls /\ now \in Nat /\ version \in Nat
            BY <1>0 DEF Calls
      <2>2. CASE Answer(a, "ERROR")
            BY <1>0, <1>6, <1>8, <2>1, <2>2 DEF ConsumeToken, TakeToken
      <2>3. CASE req' = [req EXCEPT ![a] = [@ EXCEPT !.phase = "consumed",
                                                     !.moment = now, !.since = version]]
            <3>1. [req[a] EXCEPT !.phase = "consumed", !.moment = now, !.since = version]
                    \in Request
                  BY <1>0, <2>1, RequestField
            <3> QED BY <1>0, <1>8, <2>1, <2>3, <3>1 DEF ConsumeToken, TakeToken
      <2> QED BY <1>8, <2>2, <2>3 DEF ConsumeToken
<1>9. ASSUME NEW c \in Calls, EvaluateSnapshot(c) PROVE GuardrailTypeOK'
      <2>1. Evaluation(c).verdict \in Verdict /\ Evaluation(c).version \in Nat
            BY <1>0, <1>9, ProposalKnown DEF EvaluateSnapshot, Evaluation
      <2>2. [req[c] EXCEPT !.phase = "evaluated", !.verdict = Evaluation(c).verdict,
                           !.version = Evaluation(c).version] \in Request
            BY <1>0, <2>1, RequestField
      <2> QED BY <1>0, <1>9, <2>2 DEF EvaluateSnapshot
<1>10. ASSUME NEW c \in Calls, IssuePermit(c) PROVE GuardrailTypeOK'
      <2>1. ProposalOf(c) \in Turns
            BY <1>10, ProposalKnown DEF IssuePermit
      <2>2. req[c].version \in Nat
            BY <1>0 DEF Request
      <2>3. NewPermit(ProposalOf(c), req[c].version) \in Permit
            BY <1>0, <2>1, <2>2 DEF NewPermit, Permit
      <2>4. req' \in [Calls -> Request]
            BY <1>6, <1>10 DEF IssuePermit
      <2> QED BY <1>0, <1>10, <2>1, <2>3, <2>4 DEF IssuePermit
<1>11. ASSUME NEW c \in Calls, AskConfirmation(c) PROVE GuardrailTypeOK'
      <2>1. ProposalOf(c) \in Turns
            BY <1>11, ProposalKnown DEF AskConfirmation
      <2>2. req[c].verdict.rule \in Rules
            BY <1>11 DEF AskConfirmation, GuardrailInv, RequestsSound, VerdictKnown, Verdict
      <2>3. token' \in [Calls -> Token \cup {None}]
            BY <1>0, <1>11, <2>1, <2>2 DEF AskConfirmation, Token
      <2>4. req' \in [Calls -> Request]
            BY <1>6, <1>11 DEF AskConfirmation
      <2> QED BY <1>0, <1>11, <2>3, <2>4 DEF AskConfirmation
<1>12. ASSUME NEW c \in Calls, Refuse(c) PROVE GuardrailTypeOK'
      <2>1. req' \in [Calls -> Request]
            BY <1>6, <1>12 DEF Refuse
      <2> QED BY <1>0, <1>12, <2>1 DEF Refuse
<1>13. ASSUME NEW p \in Monitored, NEW v \in VehicleStates, MonitorStop(p, v)
       PROVE  GuardrailTypeOK'
      BY <1>0, <1>13 DEF MonitorStop
<1> HIDE DEF GuardrailTypeOK
<1> QED BY <1>1, <1>2, <1>3, <1>4, <1>5, <1>7, <1>8, <1>9, <1>10, <1>11, <1>12, <1>13,
           GuardrailCases
-----------------------------------------------------------------------------
\* A step of the one request c: what every other call has made stays.
StepOf(c) ==
    /\ req[c].phase # "answered"
    /\ \A d \in Calls \ {c} :
         /\ req'[d] = req[d]
         /\ permit'[d] = permit[d]
         /\ token'[d] = token[d]
         /\ d \in pending' => d \in pending
    /\ version' = version

\* What an attempt has taken is over, so no step of another request changes it.
LEMMA TakenStays ==
    ASSUME GuardrailInv, NEW c \in Calls, StepOf(c), NEW a \in Attempts \ {c}, Past(a)
    PROVE  /\ req[a].token \in Calls \ {c}
           /\ req'[a].token = req[a].token
           /\ token'[req[a].token] = token[req[a].token]
           /\ token[req[a].token] \in Token
           /\ req'[req[a].token].phase = "answered"
BY DEF GuardrailInv, RequestsSound, TakenKnown, StepOf, Calls

\* The request keeps sound if it is so in what it has made itself.
LEMMA SoundStep ==
    ASSUME GuardrailInv, NEW c \in Calls, StepOf(c), pending' \subseteq Calls,
           req'[c].phase # "answered" => c \notin pending' /\ permit'[c] = None,
           c \in pending' => /\ permit'[c] = None
                             /\ token'[c] \in Token
                             /\ token'[c].session = SessionOf[token'[c].proposal],
           c \in Attempts /\ Past(c)' => /\ req'[c].token \in Calls \ {c}
                                         /\ token[req'[c].token] \in Token
                                         /\ req[req'[c].token].phase = "answered",
           req'[c].phase = "evaluated" => req'[c].verdict \in Verdict
    PROVE  RequestsSound'
<1> USE DEF GuardrailInv, RequestsSound
<1>1. NothingBeforeAnswer'
      BY DEF NothingBeforeAnswer, StepOf
<1>2. PendingKnown'
      BY DEF PendingKnown, StepOf
<1>3. TakenKnown'
      <2> SUFFICES ASSUME NEW a \in Attempts, Past(a)'
                   PROVE  /\ req'[a].token \in Calls
                          /\ token'[req'[a].token] \in Token
                          /\ req'[req'[a].token].phase = "answered"
          BY DEF TakenKnown
      <2>1. CASE a = c
            BY <2>1 DEF StepOf
      <2>2. CASE a # c
            <3>1. Past(a)
                  BY <2>2 DEF StepOf, Past, Calls
            <3> QED BY <2>2, <3>1, TakenStays
      <2> QED BY <2>1, <2>2
<1>4. VerdictKnown'
      BY DEF VerdictKnown, StepOf
<1> QED BY <1>1, <1>2, <1>3, <1>4

LEMMA OthersHoldNoMore ==
    ASSUME GuardrailInv, NEW c \in Calls, StepOf(c), NEW d \in Calls \ {c}, NEW p \in Turns,
           HoldsAuthority(d, p)'
    PROVE  HoldsAuthority(d, p)
<1>1. CASE d \in Attempts /\ req'[d].phase \in {"consumed", "evaluated"} /\ ProposalOf(d)' = p
      <2>1. Past(d) /\ req'[d] = req[d]
            BY <1>1 DEF StepOf, Past
      <2>2. ProposalOf(d) = p
            BY <1>1, <2>1, TakenStays DEF ProposalOf
      <2> QED BY <1>1, <2>1, <2>2 DEF HoldsAuthority
<1>2. CASE ~(d \in Attempts /\ req'[d].phase \in {"consumed", "evaluated"} /\ ProposalOf(d)' = p)
      BY <1>2 DEF HoldsAuthority, StepOf
<1> QED BY <1>1, <1>2

LEMMA AuthorityStep ==
    ASSUME GuardrailInv, NEW c \in Calls, StepOf(c),
           \A p \in Turns : HoldsAuthority(c, p)' => HoldsAuthority(c, p)
    PROVE  LinearAuthority'
<1>1. \A d \in Calls, p \in Turns : HoldsAuthority(d, p)' => HoldsAuthority(d, p)
      BY OthersHoldNoMore
<1> QED BY <1>1 DEF GuardrailInv, LinearAuthority

LEMMA FreshStep ==
    ASSUME GuardrailInv, NEW c \in Calls, StepOf(c),
           c \in Attempts /\ req'[c].phase \in {"consumed", "evaluated"} =>
             /\ req'[c].moment <= token'[req'[c].token].expires
             /\ req'[c].since <= version
             /\ req'[c].phase = "evaluated" => req'[c].since <= req'[c].version,
           c \in Attempts /\ permit'[c] # None =>
             /\ permit'[c].version >= req'[c].since
             /\ req'[c].moment <= token'[req'[c].token].expires
    PROVE  FreshInv'
<1> USE DEF GuardrailInv, FreshInv
<1>1. \A a \in Attempts \ {c} : req'[a] = req[a] /\ permit'[a] = permit[a]
      BY DEF StepOf, Calls
<1>2. AttemptFresh'
      <2> SUFFICES ASSUME NEW a \in Attempts \ {c}, req[a].phase \in {"consumed", "evaluated"}
                   PROVE  /\ req[a].moment <= token'[req[a].token].expires
                          /\ req[a].since <= version'
                          /\ req[a].phase = "evaluated" => req[a].since <= req[a].version
          BY <1>1 DEF AttemptFresh, StepOf
      <2>1. token'[req[a].token] = token[req[a].token]
            BY TakenStays DEF Past
      <2> QED BY <2>1 DEF AttemptFresh, StepOf
<1>3. ConfirmedPermitIsFresh'
      <2> SUFFICES ASSUME NEW a \in Attempts \ {c}, permit[a] # None
                   PROVE  /\ permit[a].version >= req[a].since
                          /\ req[a].moment <= token'[req[a].token].expires
          BY <1>1 DEF ConfirmedPermitIsFresh
      <2>1. token'[req[a].token] = token[req[a].token]
            BY TakenStays DEF Past
      <2> QED BY <2>1 DEF ConfirmedPermitIsFresh
<1> QED BY <1>2, <1>3
-----------------------------------------------------------------------------
\* Steps that concern no request: the clock, the vehicle, the monitor.
LEMMA ElsewhereInv ==
    ASSUME GuardrailInv, UNCHANGED <<permit, token, pending, req>>, version' \in Nat,
           version' >= version
    PROVE  RequestsSound' /\ LinearAuthority' /\ FreshInv'
<1> USE DEF GuardrailInv
<1>1. RequestsSound'
      BY DEF RequestsSound, NothingBeforeAnswer, PendingKnown, TakenKnown, Past, VerdictKnown
<1>2. LinearAuthority'
      BY DEF LinearAuthority, HoldsAuthority, ProposalOf
<1>3. AttemptFresh'
      <2> SUFFICES ASSUME NEW a \in Attempts, req[a].phase \in {"consumed", "evaluated"}
                   PROVE  req[a].since <= version'
          BY DEF AttemptFresh, FreshInv
      <2>1. req[a].since \in Nat /\ version \in Nat /\ req[a].since <= version
            BY DEF AttemptFresh, FreshInv, GuardrailTypeOK, Request, Calls
      <2> QED BY <2>1
<1>4. ConfirmedPermitIsFresh'
      BY DEF ConfirmedPermitIsFresh, FreshInv
<1> QED BY <1>1, <1>2, <1>3, <1>4 DEF FreshInv

LEMMA ReceiveInv ==
    ASSUME GuardrailInv, NEW c \in Calls, req[c].phase = "idle",
           req'[c].phase = "received",
           \A d \in Calls \ {c} : req'[d] = req[d],
           UNCHANGED <<permit, version, token, pending>>
    PROVE  RequestsSound' /\ LinearAuthority' /\ FreshInv'
<1>0. GuardrailTypeOK /\ StepOf(c) /\ c \notin pending /\ permit[c] = None
      BY DEF GuardrailInv, RequestsSound, NothingBeforeAnswer, StepOf
<1>1. RequestsSound'
      BY <1>0, SoundStep DEF GuardrailTypeOK, Past
<1>2. LinearAuthority'
      BY <1>0, AuthorityStep DEF HoldsAuthority
<1>3. FreshInv'
      BY <1>0, FreshStep
<1> QED BY <1>1, <1>2, <1>3

\* An answer that creates neither a token nor a permit.
LEMMA PlainAnswerInv ==
    ASSUME GuardrailInv, NEW c \in Calls, req[c].phase # "answered",
           NEW reply, Answer(c, reply), pending' \subseteq pending,
           UNCHANGED <<permit, version, token>>
    PROVE  RequestsSound' /\ LinearAuthority' /\ FreshInv'
<1>0. GuardrailTypeOK /\ c \notin pending' /\ permit'[c] = None
      BY DEF GuardrailInv, RequestsSound, NothingBeforeAnswer
<1>1. StepOf(c) /\ req'[c].phase = "answered"
      BY <1>0 DEF StepOf, Answer, GuardrailTypeOK, Request
<1>2. RequestsSound'
      BY <1>0, <1>1, SoundStep DEF GuardrailTypeOK, Past
<1>3. LinearAuthority'
      BY <1>0, <1>1, AuthorityStep DEF HoldsAuthority
<1>4. FreshInv'
      BY <1>0, <1>1, FreshStep
<1> QED BY <1>2, <1>3, <1>4

\* The authority in a pending token passes to the attempt that takes it.
LEMMA ConsumeTokenInv ==
    ASSUME GuardrailInv, NEW a \in Attempts, ConsumeToken(a)
    PROVE  RequestsSound' /\ LinearAuthority' /\ FreshInv'
<1>1. PICK k \in Calls : k = req[a].token /\ k \in pending
      BY DEF ConsumeToken, GuardrailInv, GuardrailTypeOK
<1>2. /\ GuardrailTypeOK /\ a \in Calls /\ a \notin pending /\ permit[a] = None
      /\ req[a].phase = "received"
      BY DEF GuardrailInv, RequestsSound, NothingBeforeAnswer, ConsumeToken, Calls
<1>3. /\ k \in pending /\ k \in Calls /\ k # a
      /\ token[k] \in Token
      /\ permit[k] = None
      /\ req[k].phase = "answered"
      BY <1>1, <1>2 DEF GuardrailInv, RequestsSound, NothingBeforeAnswer, PendingKnown
<1>4. pending' = pending \ {k} /\ UNCHANGED <<permit, version, token>>
      BY <1>1 DEF ConsumeToken, TakeToken
<1>5. CASE now > token[k].expires
      BY <1>1, <1>2, <1>4, <1>5, PlainAnswerInv DEF ConsumeToken
<1>6. CASE ~(now > token[k].expires)
      <2>1. req' = [req EXCEPT ![a] = [@ EXCEPT !.phase = "consumed", !.moment = now,
                                                !.since = version]]
            BY <1>1, <1>6 DEF ConsumeToken
      <2>2. /\ req'[a].phase = "consumed" /\ req'[a].token = k
            /\ req'[a].moment = now /\ req'[a].since = version
            /\ \A d \in Calls \ {a} : req'[d] = req[d]
            BY <1>1, <1>2, <2>1 DEF GuardrailTypeOK, Request
      <2>3. StepOf(a)
            BY <1>2, <1>4, <2>2 DEF StepOf
      <2>4. RequestsSound'
            BY <1>2, <1>3, <1>4, <2>2, <2>3, SoundStep DEF GuardrailTypeOK
      <2>5. FreshInv'
            <3>1. now <= token[k].expires /\ version <= version
                  BY <1>2, <1>3, <1>6 DEF GuardrailTypeOK, PermitTypeOK, Token
            <3> QED BY <1>2, <1>4, <2>2, <2>3, <3>1, FreshStep
      <2>6. \A p \in Turns : HoldsAuthority(a, p)' => HoldsAuthority(k, p)
            <3> SUFFICES ASSUME NEW p \in Turns, HoldsAuthority(a, p)' PROVE HoldsAuthority(k, p)
                OBVIOUS
            <3>1. a \notin Turns
                  BY AuthorityAssumption
            <3>2. ProposalOf(a)' = token[k].proposal
                  BY <1>4, <2>2, <3>1 DEF ProposalOf
            <3>3. token[k].proposal = p
                  BY <1>2, <1>4, <2>2, <3>1, <3>2 DEF HoldsAuthority
            <3> QED BY <1>3, <3>3 DEF HoldsAuthority
      <2>7. \A p \in Turns : ~HoldsAuthority(k, p)'
            <3>1. req'[k].phase = "answered" /\ permit'[k] = None /\ k \notin pending'
                  BY <1>3, <1>4, <2>2
            <3> QED BY <3>1 DEF HoldsAuthority
      <2>8. \A p \in Turns, d \in Calls \ {a} : HoldsAuthority(d, p)' => HoldsAuthority(d, p)
            BY <1>2, <2>3, OthersHoldNoMore
      <2>9. LinearAuthority'
            <3> SUFFICES ASSUME NEW p \in Turns, NEW c \in Calls, NEW d \in Calls,
                                HoldsAuthority(c, p)', HoldsAuthority(d, p)'
                         PROVE  c = d
                BY DEF LinearAuthority
            <3> DEFINE Source(e) == IF e = a THEN k ELSE e
            <3>1. HoldsAuthority(Source(c), p) /\ HoldsAuthority(Source(d), p)
                  BY <2>6, <2>8
            <3>2. Source(c) = Source(d)
                  BY <1>3, <3>1 DEF GuardrailInv, LinearAuthority
            <3>3. c # k
                  BY <2>7
            <3>4. d # k
                  BY <2>7
            <3> QED BY <3>2, <3>3, <3>4
      <2> QED BY <2>4, <2>5, <2>9
<1> QED BY <1>5, <1>6

LEMMA EvaluateInv ==
    ASSUME GuardrailInv, NEW c \in Calls, EvaluateSnapshot(c)
    PROVE  RequestsSound' /\ LinearAuthority' /\ FreshInv'
<1>0. /\ GuardrailTypeOK /\ c \notin pending /\ permit[c] = None
      /\ UNCHANGED <<permit, version, token, pending>>
      BY DEF GuardrailInv, RequestsSound, NothingBeforeAnswer, EvaluateSnapshot
<1>1. /\ req'[c].phase = "evaluated"
      /\ req'[c].token = req[c].token
      /\ req'[c].moment = req[c].moment
      /\ req'[c].since = req[c].since
      /\ req'[c].verdict = Evaluation(c).verdict
      /\ req'[c].version = Evaluation(c).version
      /\ \A d \in Calls \ {c} : req'[d] = req[d]
      BY <1>0 DEF EvaluateSnapshot, GuardrailTypeOK, Request
<1>2. Evaluation(c).verdict \in Verdict /\ Evaluation(c).version = version
      BY <1>0, ProposalKnown, GuardrailAssumption
      DEF EvaluateSnapshot, Evaluation, GuardrailTypeOK
<1>3. StepOf(c)
      BY <1>0, <1>1 DEF StepOf, EvaluateSnapshot
<1>4. ASSUME c \in Attempts
      PROVE  /\ req[c].phase = "consumed" /\ Past(c) /\ c \notin Turns
             /\ req[c].token \in Calls \ {c}
             /\ token[req[c].token] \in Token
             /\ req[req[c].token].phase = "answered"
      <2>1. req[c].phase = "consumed" /\ c \notin Turns
            BY <1>4, AuthorityAssumption DEF EvaluateSnapshot
      <2> QED BY <1>4, <2>1 DEF Past, GuardrailInv, RequestsSound, TakenKnown
<1>5. RequestsSound'
      BY <1>0, <1>1, <1>2, <1>3, <1>4, SoundStep DEF GuardrailTypeOK
<1>6. LinearAuthority'
      <2> SUFFICES ASSUME NEW p \in Turns, HoldsAuthority(c, p)' PROVE HoldsAuthority(c, p)
          BY <1>3, AuthorityStep
      <2>1. CASE c \in Attempts
            <3>1. ProposalOf(c)' = ProposalOf(c)
                  BY <1>0, <1>1 DEF ProposalOf
            <3> QED BY <1>0, <1>4, <2>1, <3>1 DEF HoldsAuthority
      <2>2. CASE c \notin Attempts
            BY <1>0, <2>2 DEF HoldsAuthority, EvaluateSnapshot, Calls
      <2> QED BY <2>1, <2>2
<1>7. FreshInv'
      <2>1. ASSUME c \in Attempts
            PROVE  /\ req'[c].moment <= token'[req'[c].token].expires
                   /\ req'[c].since <= version
                   /\ req'[c].since <= req'[c].version
            BY <1>0, <1>1, <1>2, <1>4, <2>1 DEF GuardrailInv, FreshInv, AttemptFresh
      <2> QED BY <1>0, <1>3, <2>1, FreshStep
<1> QED BY <1>5, <1>6, <1>7

\* The last step of a request that was evaluated: in an attempt, its token is
\* another call's and over.
LEMMA Evaluated ==
    ASSUME GuardrailInv, NEW c \in Calls, req[c].phase = "evaluated"
    PROVE  /\ ProposalOf(c) \in Turns
           /\ HoldsAuthority(c, ProposalOf(c))
           /\ c \in Attempts => /\ req[c].token \in Calls \ {c}
                                /\ token[req[c].token] \in Token
                                /\ req[req[c].token].phase = "answered"
<1>1. ProposalOf(c) \in Turns
      BY ProposalKnown
<1>2. HoldsAuthority(c, ProposalOf(c))
      BY DEF HoldsAuthority, ProposalOf, Calls
<1> QED BY <1>1, <1>2 DEF GuardrailInv, RequestsSound, TakenKnown, Past

LEMMA IssuePermitInv ==
    ASSUME GuardrailInv, NEW c \in Calls, IssuePermit(c)
    PROVE  RequestsSound' /\ LinearAuthority' /\ FreshInv'
<1>0. /\ GuardrailTypeOK /\ c \notin pending /\ permit[c] = None /\ req[c].phase = "evaluated"
      /\ UNCHANGED <<version, token, pending>>
      BY DEF GuardrailInv, RequestsSound, NothingBeforeAnswer, IssuePermit
<1>1. /\ req'[c].phase = "answered"
      /\ req'[c].token = req[c].token
      /\ req'[c].moment = req[c].moment
      /\ req'[c].since = req[c].since
      /\ \A d \in Calls \ {c} : req'[d] = req[d]
      BY <1>0 DEF IssuePermit, Answer, GuardrailTypeOK, Request
<1>2. permit'[c] = NewPermit(ProposalOf(c), req[c].version)
      /\ \A d \in Calls \ {c} : permit'[d] = permit[d]
      BY <1>0 DEF IssuePermit, GuardrailTypeOK, PermitTypeOK
<1>3. StepOf(c)
      BY <1>0, <1>1, <1>2 DEF StepOf
<1>4. RequestsSound'
      BY <1>0, <1>1, <1>2, <1>3, SoundStep, Evaluated DEF GuardrailTypeOK
<1>5. LinearAuthority'
      <2> SUFFICES ASSUME NEW p \in Turns, HoldsAuthority(c, p)' PROVE HoldsAuthority(c, p)
          BY <1>3, AuthorityStep
      <2>1. p = ProposalOf(c)
            BY <1>0, <1>1, <1>2 DEF HoldsAuthority, NewPermit
      <2> QED BY <1>0, <2>1, Evaluated
<1>6. FreshInv'
      <2>1. ASSUME c \in Attempts
            PROVE  /\ permit'[c].version >= req'[c].since
                   /\ req'[c].moment <= token'[req'[c].token].expires
            <3>1. req[c].since <= req[c].version /\ req[c].moment <= token[req[c].token].expires
                  BY <1>0, <2>1 DEF GuardrailInv, FreshInv, AttemptFresh
            <3>2. req[c].since \in Nat /\ req[c].version \in Nat
                  BY <1>0 DEF GuardrailTypeOK, Request
            <3>3. permit'[c].version = req[c].version
                  BY <1>2 DEF NewPermit
            <3> QED BY <1>0, <1>1, <3>1, <3>2, <3>3
      <2> QED BY <1>1, <1>3, <2>1, FreshStep
<1> QED BY <1>4, <1>5, <1>6

LEMMA AskConfirmationInv ==
    ASSUME GuardrailInv, NEW c \in Calls, AskConfirmation(c)
    PROVE  RequestsSound' /\ LinearAuthority' /\ FreshInv'
<1> DEFINE p == ProposalOf(c)
           t == [proposal |-> p, session |-> SessionOf[p], rule |-> req[c].verdict.rule,
                 expires |-> now + ConfirmTTL]
<1>0. /\ GuardrailTypeOK /\ c \notin pending /\ permit[c] = None /\ req[c].phase = "evaluated"
      /\ UNCHANGED <<permit, version>>
      /\ pending' = pending \cup {c}
      BY DEF GuardrailInv, RequestsSound, NothingBeforeAnswer, AskConfirmation
<1>1. /\ req'[c].phase = "answered"
      /\ req'[c].token = req[c].token
      /\ \A d \in Calls \ {c} : req'[d] = req[d]
      BY <1>0 DEF AskConfirmation, Answer, GuardrailTypeOK, Request
<1>2. token'[c] = t /\ \A d \in Calls \ {c} : token'[d] = token[d]
      BY <1>0 DEF AskConfirmation, GuardrailTypeOK
<1>3. t \in Token
      <2>1. p \in Turns
            BY <1>0, ProposalKnown
      <2>2. req[c].verdict.rule \in Rules
            BY <1>0 DEF AskConfirmation, GuardrailInv, RequestsSound, VerdictKnown, Verdict
      <2> QED BY <1>0, <2>1, <2>2, AuthorityAssumption DEF Token, GuardrailTypeOK, PermitTypeOK
<1>4. StepOf(c)
      BY <1>0, <1>1, <1>2 DEF StepOf
<1>5. RequestsSound'
      <2>1. token'[c] \in Token /\ token'[c].session = SessionOf[token'[c].proposal]
            BY <1>2, <1>3
      <2> QED BY <1>0, <1>1, <1>4, <2>1, SoundStep, Evaluated DEF GuardrailTypeOK, Past
<1>6. LinearAuthority'
      <2> SUFFICES ASSUME NEW q \in Turns, HoldsAuthority(c, q)' PROVE HoldsAuthority(c, q)
          BY <1>4, AuthorityStep
      <2>1. q = p
            BY <1>0, <1>1, <1>2 DEF HoldsAuthority
      <2> QED BY <1>0, <2>1, Evaluated
<1>7. FreshInv'
      BY <1>0, <1>1, <1>4, FreshStep
<1> QED BY <1>5, <1>6, <1>7

LEMMA GuardrailInvNext == GuardrailInv /\ [GuardrailNext]_grVars => GuardrailInv'
<1> SUFFICES ASSUME GuardrailInv, [GuardrailNext]_grVars
             PROVE  RequestsSound' /\ LinearAuthority' /\ FreshInv'
    BY GuardrailTypeNext DEF GuardrailInv
<1> DEFINE Goal == RequestsSound' /\ LinearAuthority' /\ FreshInv'
<1>0. GuardrailTypeOK /\ version \in Nat
      BY DEF GuardrailInv, GuardrailTypeOK
<1>1. UNCHANGED grVars => Goal
      BY <1>0, ElsewhereInv DEF grVars, gvars
<1>2. GuardrailTick => Goal
      BY <1>0, ElsewhereInv DEF GuardrailTick, gvars
<1>3. ASSUME NEW v \in VehicleStates, ChangeVehicle(v) PROVE Goal
      BY <1>0, <1>3, ElsewhereInv DEF ChangeVehicle
<1>4. ASSUME NEW t \in Turns, ReceiveProposal(t) PROVE Goal
      <2>1. req'[t].phase = "received" /\ \A d \in Calls \ {t} : req'[d] = req[d]
            BY <1>0, <1>4 DEF ReceiveProposal, GuardrailTypeOK, Request, Calls
      <2> QED BY <1>4, <2>1, ReceiveInv DEF ReceiveProposal, Calls
<1>5. ASSUME NEW a \in Attempts, NEW k \in Calls, NEW s \in Sessions, ReceiveConfirm(a, k, s)
      PROVE  Goal
      <2>1. req'[a].phase = "received" /\ \A d \in Calls \ {a} : req'[d] = req[d]
            BY <1>0, <1>5 DEF ReceiveConfirm, GuardrailTypeOK, Request, Calls
      <2> QED BY <1>5, <2>1, ReceiveInv DEF ReceiveConfirm, Calls
<1>6. ASSUME NEW a \in Attempts, RejectToken(a) PROVE Goal
      BY <1>6, PlainAnswerInv DEF RejectToken, Calls
<1>7. ASSUME NEW a \in Attempts, ConsumeToken(a) PROVE Goal
      BY <1>7, ConsumeTokenInv
<1>8. ASSUME NEW c \in Calls, EvaluateSnapshot(c) PROVE Goal
      BY <1>8, EvaluateInv
<1>9. ASSUME NEW c \in Calls, IssuePermit(c) PROVE Goal
      BY <1>9, IssuePermitInv
<1>10. ASSUME NEW c \in Calls, AskConfirmation(c) PROVE Goal
       BY <1>10, AskConfirmationInv
<1>11. ASSUME NEW c \in Calls, Refuse(c) PROVE Goal
       BY <1>11, PlainAnswerInv DEF Refuse
<1>12. ASSUME NEW p \in Monitored, NEW v \in VehicleStates, MonitorStop(p, v) PROVE Goal
       BY <1>0, <1>12, ElsewhereInv DEF MonitorStop
<1> HIDE DEF Goal
<1>13. Goal
       BY <1>1, <1>2, <1>3, <1>4, <1>5, <1>6, <1>7, <1>8, <1>9, <1>10, <1>11, <1>12,
          GuardrailCases
<1> QED BY <1>13 DEF Goal

LEMMA GuardrailInvariance == GuardrailSpec => []GuardrailInv
BY GuardrailInvInit, GuardrailInvNext, PTL DEF GuardrailSpec, grVars

\* The guardrail's state keeps its types.
THEOREM GuardrailTypes == GuardrailSpec => []GuardrailTypeOK
BY GuardrailInvariance, PTL DEF GuardrailInv

\* Whatever is replayed, re-asked or tried from another session, one call at a
\* time holds the authority to run a proposal.
THEOREM AuthorityIsLinear == GuardrailSpec => []LinearAuthority
BY GuardrailInvariance, PTL DEF GuardrailInv

\* A proposal is issued at most one permit: two permits for it would be two
\* holders of its authority.
THEOREM OnePermit == GuardrailSpec => []OnePermitPerProposal
<1>1. GuardrailInv => OnePermitPerProposal
      <2> SUFFICES ASSUME GuardrailInv, NEW c \in Calls, NEW d \in Calls,
                          permit[c] # None, permit[d] # None,
                          permit[c].proposal = permit[d].proposal
                   PROVE  c = d
          BY DEF OnePermitPerProposal
      <2>1. permit[c].proposal \in Turns
            BY DEF GuardrailInv, GuardrailTypeOK, PermitTypeOK, Permit
      <2> QED BY <2>1 DEF GuardrailInv, LinearAuthority, HoldsAuthority
<1> QED BY <1>1, GuardrailInvariance, PTL

\* A confirmation never unlocks a permit on a snapshot older than itself, nor
\* after its token expired.
THEOREM ConfirmedIsFresh == GuardrailSpec => []ConfirmedPermitIsFresh
BY GuardrailInvariance, PTL DEF GuardrailInv, FreshInv
-----------------------------------------------------------------------------
LEMMA TakeStep ==
    ASSUME GuardrailInv, [GuardrailNext]_grVars, NEW k \in pending \ pending'
    PROVE  \E a \in Attempts : /\ req[a].phase = "received"
                               /\ req'[a].phase # "received"
                               /\ req[a].token = k
                               /\ req[a].session = SessionOf[token[k].proposal]
<1>1. PICK a \in Attempts : ConsumeToken(a)
      BY DEF GuardrailNext, HandleRequest, grVars, gvars, GuardrailTick, ChangeVehicle,
             ReceiveProposal, ReceiveConfirm, RejectToken, EvaluateSnapshot, IssuePermit,
             AskConfirmation, Refuse, MonitorStop
<1>2. req[a].phase = "received" /\ req[a].token = k /\ Owns(a)
      BY <1>1 DEF ConsumeToken, TakeToken
<1>3. req[a].session = SessionOf[token[k].proposal]
      BY <1>2 DEF Owns, GuardrailInv, RequestsSound, PendingKnown
<1>4. req'[a].phase # "received"
      <2>1. a \in Calls /\ req \in [Calls -> Request]
            BY DEF GuardrailInv, GuardrailTypeOK, Calls
      <2>2. CASE Answer(a, "ERROR")
            BY <2>1, <2>2 DEF Answer, Request
      <2>3. CASE req' = [req EXCEPT ![a] = [@ EXCEPT !.phase = "consumed", !.moment = now,
                                                     !.since = version]]
            BY <2>1, <2>3 DEF Request
      <2> QED BY <1>1, <2>2, <2>3 DEF ConsumeToken
<1> QED BY <1>2, <1>3, <1>4

\* A stranger's request never costs the owner its token.
THEOREM OwnerTakesToken == GuardrailSpec => OnlyOwnerTakesToken
<1>1. GuardrailInv /\ [GuardrailNext]_grVars =>
        [\A k \in pending \ pending' :
           \E a \in Attempts : /\ req[a].phase = "received"
                               /\ req'[a].phase # "received"
                               /\ req[a].token = k
                               /\ req[a].session = SessionOf[token[k].proposal]]_grVars
      BY TakeStep
<1> QED BY <1>1, GuardrailInvariance, PTL DEF OnlyOwnerTakesToken, GuardrailSpec, grVars
=============================================================================
