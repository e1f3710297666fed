-------------------------- MODULE VehicleGateway_proofs --------------------------
(***************************************************************************)
(* Proofs about VehicleGateway for any number of calls, resets and         *)
(* sessions: its types, mutual exclusion in the lifecycle boundary, at     *)
(* most one handler run per permit, and no run across a reset.             *)
(***************************************************************************)
EXTENDS VehicleGateway, TLAPS

gwVars == <<now, permit, vvars>>

LEMMA GatewayTypeInit == GatewayInit => GatewayTypeOK
BY AuthorityAssumption
   DEF GatewayInit, GatewayTypeOK, PermitTypeOK, Execution, Reset, Calls, NoCutoff

LEMMA LeaveExecuteType ==
    ASSUME exec \in [Calls -> Execution], NEW c \in Calls, NEW success \in BOOLEAN,
           LeaveExecute(c, success)
    PROVE  exec' \in [Calls -> Execution]
<1>1. [exec[c] EXCEPT !.phase = "done", !.success = success] \in Execution
      BY DEF Execution
<1>2. exec' = [exec EXCEPT ![c] = [exec[c] EXCEPT !.phase = "done", !.success = success]]
      BY DEF LeaveExecute
<1> QED BY <1>1, <1>2

LEMMA GatewayTypeNext == GatewayTypeOK /\ [GatewayNext]_gwVars => GatewayTypeOK'
<1> SUFFICES ASSUME GatewayTypeOK, [GatewayNext]_gwVars PROVE GatewayTypeOK'
    OBVIOUS
<1> USE AuthorityAssumption, GatewayAssumption DEF GatewayTypeOK, PermitTypeOK
<1>1. CASE UNCHANGED gwVars
      BY <1>1 DEF gwVars, vvars
<1>2. CASE GatewayTick
      BY <1>2 DEF GatewayTick, Tick, vvars
<1>3. ASSUME NEW c \in Calls, NEW p \in Turns, NEW v \in Versions, GrantPermit(c, p, v) PROVE GatewayTypeOK'
      <2>1. NewPermit(p, v) \in Permit
            BY DEF NewPermit, Permit
      <2> QED BY <1>3, <2>1 DEF GrantPermit, vvars
<1>4. ASSUME NEW c \in Calls, CancelCall(c) PROVE GatewayTypeOK'
      BY <1>4 DEF CancelCall
<1>5. ASSUME NEW c \in Calls, NEW id \in Calls, NEW p \in Turns, CallExecute(c, id, p)
      PROVE  GatewayTypeOK'
      BY <1>5 DEF CallExecute, Execution
<1>6. ASSUME NEW c \in Calls, ExecuteStep(c) PROVE GatewayTypeOK'
      <2>1. CASE EnterExecute(c)
            BY <2>1 DEF EnterExecute, Execution
      <2>0. ASSUME NEW success \in BOOLEAN, LeaveExecute(c, success), exec[c].phase # "idle"
            PROVE  /\ boundary' = None
                   /\ exec' \in [Calls -> Execution]
                   /\ \A d \in Calls : exec'[d].phase # "idle" => exec'[d].permit \in Calls
            <3>1. exec' \in [Calls -> Execution]
                  BY <2>0, LeaveExecuteType
            <3>2. exec'[c].permit = exec[c].permit /\ \A d \in Calls \ {c} : exec'[d] = exec[d]
                  BY <2>0 DEF LeaveExecute, Execution
            <3> QED BY <2>0, <3>1, <3>2 DEF LeaveExecute
      <2>2. CASE DenyExecute(c)
            <3>1. LeaveExecute(c, FALSE) /\ exec[c].phase # "idle"
                  BY <2>2 DEF DenyExecute
            <3> QED BY <2>2, <2>0, <3>1 DEF DenyExecute
      <2>3. CASE VerifyPermit(c)
            BY <2>3 DEF VerifyPermit, Execution
      <2>4. CASE ConsumePermit(c)
            <3>1. exec[c].phase # "idle" /\ exec[c].permit \in Calls
                  BY <2>4 DEF ConsumePermit
            <3>2. CASE exec[c].permit \in used
                  BY <2>4, <2>0, <3>1, <3>2 DEF ConsumePermit
            <3>3. CASE exec[c].permit \notin used
                  <4>1. used' = used \cup {exec[c].permit}
                        BY <2>4, <3>3 DEF ConsumePermit, MarkUsed
                  <4>2. exec' = [exec EXCEPT ![c].phase = "armed"]
                        BY <2>4, <3>3 DEF ConsumePermit
                  <4>3. /\ exec' \in [Calls -> Execution]
                        /\ \A d \in Calls : exec'[d].phase # "idle" => exec'[d].permit \in Calls
                        BY <3>1, <4>2 DEF Execution
                  <4> QED BY <2>4, <3>1, <3>3, <4>1, <4>3 DEF ConsumePermit
            <3> QED BY <3>2, <3>3
      <2>5. CASE InvokeHandler(c)
            <3>1. exec[c].phase # "idle" /\ exec[c].permit \in Calls
                  BY <2>5 DEF InvokeHandler
            <3>2. \E success \in BOOLEAN : LeaveExecute(c, success)
                  BY <2>5 DEF InvokeHandler
            <3>3. runs' \in [Calls -> Nat]
                  <4>1. \/ runs' = [runs EXCEPT ![exec[c].permit] = @ + 1]
                        \/ runs' = runs
                        BY <2>5 DEF InvokeHandler
                  <4> QED BY <3>1, <4>1
            <3> QED BY <2>5, <2>0, <3>1, <3>2, <3>3 DEF InvokeHandler
      <2> QED BY <1>6, <2>1, <2>2, <2>3, <2>4, <2>5 DEF ExecuteStep
<1>7. ASSUME NEW r \in Resets, NEW s \in Sessions \cup {None}, EnterReset(r, s)
      PROVE  GatewayTypeOK'
      BY <1>7 DEF EnterReset, Reset
<1>8. ASSUME NEW r \in Resets, ResetStep(r) PROVE GatewayTypeOK'
      <2>1. CASE CleanUp(r)
            BY <2>1 DEF CleanUp, Reset
      <2>2. CASE RevokeBefore(r)
            BY <2>2 DEF RevokeBefore, Later, Reset
      <2>3. CASE LeaveReset(r)
            BY <2>3 DEF LeaveReset, Reset
      <2> QED BY <1>8, <2>1, <2>2, <2>3 DEF ResetStep
<1> QED
    BY <1>1, <1>2, <1>3, <1>4, <1>5, <1>6, <1>7, <1>8 DEF GatewayNext

\* The gateway's state keeps its types.
THEOREM GatewayTypes == GatewaySpec => []GatewayTypeOK
BY GatewayTypeInit, GatewayTypeNext, PTL DEF GatewaySpec, gwVars
-----------------------------------------------------------------------------
\* The inductive invariant.  Types alone do not exclude two threads inside, nor
\* a permit revoked or spent between its verification and its run.
GatewayInv == GatewayTypeOK /\ BoundaryInv /\ SingleUsePermit

LEMMA GatewayInvInit == GatewayInit => GatewayInv
<1> SUFFICES ASSUME GatewayInit PROVE BoundaryInv /\ SingleUsePermit
    BY GatewayTypeInit DEF GatewayInv
<1> QED BY AuthorityAssumption, GatewayAssumption
        DEF GatewayInit, BoundaryInv, SingleUsePermit, HolderInside, VerifiedStaysFit,
            ArmedIsConsumed, CutoffsHold, Calls

\* A permit, once issued, stays; so it stays fit while no cutoff moves.
LEMMA FitStays ==
    ASSUME NEW c, Fit(c), exec'[c].permit = exec[c].permit,
           exec'[c].proposal = exec[c].proposal, UNCHANGED cutoff,
           permit'[exec[c].permit] = permit[exec[c].permit]
    PROVE  Fit(c)'
BY DEF Fit, Revoked

\* What a step that touches neither the boundary nor its inside preserves.
LEMMA OutsideStep ==
    ASSUME GatewayInv, UNCHANGED <<boundary, used, cutoff, reset, runs>>,
           \A c \in Calls : permit[c] # None => permit'[c] = permit[c],
           \A c \in Calls : \/ exec'[c] = exec[c]
                            \/ exec[c].phase = "idle" /\ exec'[c].phase = "waiting"
    PROVE  BoundaryInv' /\ SingleUsePermit'
<1> USE DEF GatewayInv, BoundaryInv
<1>1. \A c \in Calls : exec'[c].phase \in {"entered", "verified", "armed"} => exec'[c] = exec[c]
      OBVIOUS
<1>2. HolderInside'
      BY <1>1 DEF HolderInside
<1>3. VerifiedStaysFit'
      <2> SUFFICES ASSUME NEW c \in Calls, exec'[c].phase \in {"verified", "armed"}
                   PROVE  Fit(c)'
          BY DEF VerifiedStaysFit
      <2>1. exec'[c] = exec[c] /\ Fit(c)
            BY <1>1 DEF VerifiedStaysFit
      <2> QED BY <2>1, FitStays DEF Fit
<1>4. ArmedIsConsumed'
      BY <1>1 DEF ArmedIsConsumed
<1>5. CutoffsHold'
      BY DEF CutoffsHold
<1>6. SingleUsePermit'
      BY DEF SingleUsePermit
<1> QED BY <1>2, <1>3, <1>4, <1>5, <1>6

LEMMA InsideAlone ==
    ASSUME GatewayInv, NEW c \in Calls, boundary \in {None, c}
    PROVE  /\ \A d \in Calls \ {c} : exec[d].phase \notin {"entered", "verified", "armed"}
           /\ \A r \in Resets : reset[r].phase \notin {"entered", "cleaned", "revoked"}
BY AuthorityAssumption, GatewayAssumption DEF GatewayInv, BoundaryInv, HolderInside

\* A step of the execution of c, given what it does to c's own permit.
LEMMA InsideStep ==
    ASSUME GatewayInv, NEW c \in Calls, boundary \in {None, c},
           \A d \in Calls \ {c} : exec'[d] = exec[d],
           exec'[c].permit = exec[c].permit, exec'[c].proposal = exec[c].proposal,
           UNCHANGED <<permit, cutoff, reset>>,
           boundary' = (IF exec'[c].phase \in {"entered", "verified", "armed"} THEN c ELSE None),
           exec'[c].phase \in {"verified", "armed"} => Fit(c),
           exec'[c].phase = "armed" => exec[c].permit \in used' /\ runs'[exec[c].permit] = 0
    PROVE  BoundaryInv'
<1>0. /\ \A d \in Calls \ {c} : exec'[d].phase \notin {"entered", "verified", "armed"}
      /\ \A r \in Resets : reset'[r].phase \notin {"entered", "cleaned", "revoked"}
      BY InsideAlone
<1>1. HolderInside'
      BY <1>0, AuthorityAssumption, GatewayAssumption DEF HolderInside
<1>2. VerifiedStaysFit'
      <2> SUFFICES ASSUME exec'[c].phase \in {"verified", "armed"} PROVE Fit(c)'
          BY <1>0 DEF VerifiedStaysFit
      <2> QED BY FitStays
<1>3. ArmedIsConsumed'
      BY <1>0 DEF ArmedIsConsumed
<1>4. CutoffsHold'
      BY DEF GatewayInv, BoundaryInv, CutoffsHold
<1> QED BY <1>1, <1>2, <1>3, <1>4 DEF BoundaryInv

LEMMA ExecuteStepInv ==
    ASSUME GatewayInv, NEW c \in Calls, ExecuteStep(c)
    PROVE  BoundaryInv' /\ SingleUsePermit'
<1>0. GatewayTypeOK /\ BoundaryInv /\ SingleUsePermit
      BY DEF GatewayInv
<1>1. CASE EnterExecute(c)
      <2>1. exec'[c] = [exec[c] EXCEPT !.phase = "entered"] /\ \A d \in Calls \ {c} : exec'[d] = exec[d]
            BY <1>0, <1>1 DEF EnterExecute, GatewayTypeOK
      <2>2. BoundaryInv'
            BY <1>0, <1>1, <2>1, InsideStep DEF EnterExecute, BoundaryFree, GatewayTypeOK, Execution
      <2> QED BY <1>0, <1>1, <2>2 DEF EnterExecute, SingleUsePermit
<1>2. CASE DenyExecute(c)
      <2>1. exec'[c].phase = "done" /\ exec'[c].permit = exec[c].permit
            /\ exec'[c].proposal = exec[c].proposal /\ \A d \in Calls \ {c} : exec'[d] = exec[d]
            BY <1>0, <1>2 DEF DenyExecute, LeaveExecute, GatewayTypeOK, Execution
      <2>2. boundary = c
            BY <1>0, <1>2 DEF DenyExecute, BoundaryInv, HolderInside
      <2>3. BoundaryInv'
            BY <1>2, <2>1, <2>2, InsideStep DEF DenyExecute, LeaveExecute
      <2> QED BY <1>0, <1>2, <2>3 DEF DenyExecute, SingleUsePermit
<1>3. CASE VerifyPermit(c)
      <2>1. exec'[c].phase = "verified" /\ exec'[c].permit = exec[c].permit
            /\ exec'[c].proposal = exec[c].proposal /\ \A d \in Calls \ {c} : exec'[d] = exec[d]
            BY <1>0, <1>3 DEF VerifyPermit, GatewayTypeOK, Execution
      <2>2. boundary = c
            BY <1>0, <1>3 DEF VerifyPermit, BoundaryInv, HolderInside
      <2>3. Fit(c)
            BY <1>0, <1>3 DEF VerifyPermit, Verified, Fit, GatewayTypeOK
      <2>4. BoundaryInv'
            BY <1>3, <2>1, <2>2, <2>3, InsideStep DEF VerifyPermit
      <2> QED BY <1>0, <1>3, <2>4 DEF VerifyPermit, SingleUsePermit
<1>4. CASE ConsumePermit(c)
      <2> DEFINE id == exec[c].permit
      <2>1. boundary = c /\ Fit(c) /\ id \in Calls
            BY <1>0, <1>4 DEF ConsumePermit, BoundaryInv, HolderInside, VerifiedStaysFit, Fit
      <2>2. CASE id \in used
            <3>1. exec'[c].phase = "done" /\ exec'[c].permit = exec[c].permit
                  /\ exec'[c].proposal = exec[c].proposal /\ \A d \in Calls \ {c} : exec'[d] = exec[d]
                  BY <1>0, <1>4, <2>2 DEF ConsumePermit, LeaveExecute, GatewayTypeOK, Execution
            <3>2. boundary' = None /\ UNCHANGED <<permit, used, cutoff, reset, runs>>
                  BY <1>4, <2>2 DEF ConsumePermit, LeaveExecute
            <3>3. BoundaryInv'
                  BY <2>1, <3>1, <3>2, InsideStep
            <3> QED BY <1>0, <3>2, <3>3 DEF SingleUsePermit
      <2>3. CASE id \notin used
            <3>1. exec'[c].phase = "armed" /\ exec'[c].permit = exec[c].permit
                  /\ exec'[c].proposal = exec[c].proposal /\ \A d \in Calls \ {c} : exec'[d] = exec[d]
                  BY <1>0, <1>4, <2>3 DEF ConsumePermit, GatewayTypeOK, Execution
            <3>2. used' = used \cup {id} /\ UNCHANGED <<permit, boundary, cutoff, reset, runs>>
                  BY <1>4, <2>3 DEF ConsumePermit, MarkUsed
            <3>3. runs[id] = 0
                  <4>1. runs[id] \in Nat /\ runs[id] <= 1 /\ runs[id] # 1
                        BY <1>0, <2>1, <2>3 DEF GatewayTypeOK, SingleUsePermit
                  <4> QED BY <4>1
            <3>4. BoundaryInv'
                  BY <2>1, <3>1, <3>2, <3>3, InsideStep
            <3> QED BY <1>0, <3>2, <3>4 DEF SingleUsePermit
      <2> QED BY <2>2, <2>3
<1>5. CASE InvokeHandler(c)
      <2> DEFINE id == exec[c].permit
      <2>1. boundary = c /\ id \in Calls /\ id \in used /\ runs[id] = 0
            BY <1>0, <1>5
            DEF InvokeHandler, BoundaryInv, HolderInside, VerifiedStaysFit, ArmedIsConsumed, Fit
      <2>2. PICK success \in BOOLEAN : LeaveExecute(c, success)
            BY <1>5 DEF InvokeHandler
      <2>3. exec'[c].phase = "done" /\ exec'[c].permit = exec[c].permit
            /\ exec'[c].proposal = exec[c].proposal /\ \A d \in Calls \ {c} : exec'[d] = exec[d]
            BY <1>0, <2>2 DEF LeaveExecute, GatewayTypeOK, Execution
      <2>4. boundary' = None /\ UNCHANGED <<permit, used, cutoff, reset>>
            BY <1>5, <2>2 DEF InvokeHandler, LeaveExecute
      <2>5. BoundaryInv'
            BY <2>1, <2>3, <2>4, InsideStep
      <2>6. runs' = [runs EXCEPT ![id] = @ + 1] \/ runs' = runs
            BY <1>5 DEF InvokeHandler
      <2>7. runs'[id] \in {0, 1} /\ \A j \in Calls \ {id} : runs'[j] = runs[j]
            BY <1>0, <2>1, <2>6 DEF GatewayTypeOK
      <2> HIDE DEF id
      <2>8. SingleUsePermit'
            BY <1>0, <2>1, <2>4, <2>7 DEF SingleUsePermit
      <2> QED BY <2>5, <2>8
<1> QED BY <1>1, <1>2, <1>3, <1>4, <1>5 DEF ExecuteStep

\* A step of the reset r: executions are all outside, and cutoffs only grow.
LEMMA ResetInside ==
    ASSUME GatewayInv, NEW r \in Resets, boundary \in {None, r},
           UNCHANGED <<permit, used, exec, runs>>,
           \A q \in Resets \ {r} : reset'[q] = reset[q],
           boundary' = (IF reset'[r].phase \in {"entered", "cleaned", "revoked"} THEN r ELSE None),
           \A q \in Resets \ {r} : cutoff'[reset[q].scope] >= cutoff[reset[q].scope],
           reset'[r].phase \in {"revoked", "done"} => cutoff'[reset'[r].scope] >= reset'[r].at,
           cutoff' \in [Sessions \cup {None} -> Nat \cup {NoCutoff}]
    PROVE  BoundaryInv' /\ SingleUsePermit'
<1> USE DEF GatewayInv, BoundaryInv
<1>1. \A c \in Calls : exec[c].phase \notin {"entered", "verified", "armed"}
      BY AuthorityAssumption, GatewayAssumption DEF HolderInside
<1>2. \A q \in Resets \ {r} : reset[q].phase \notin {"entered", "cleaned", "revoked"}
      BY GatewayAssumption DEF HolderInside
<1>3. HolderInside'
      BY <1>1, <1>2, AuthorityAssumption, GatewayAssumption DEF HolderInside
<1>4. VerifiedStaysFit' /\ ArmedIsConsumed'
      BY <1>1 DEF VerifiedStaysFit, ArmedIsConsumed
<1>5. CutoffsHold'
      <2> SUFFICES ASSUME NEW q \in Resets \ {r}, reset[q].phase = "done"
                   PROVE  cutoff'[reset[q].scope] >= reset[q].at
          BY <1>2 DEF CutoffsHold
      <2>1. cutoff[reset[q].scope] >= reset[q].at
            BY DEF CutoffsHold
      <2>2. /\ reset[q].at \in Int
            /\ cutoff[reset[q].scope] \in Int
            /\ cutoff'[reset[q].scope] \in Int
            BY DEF GatewayTypeOK, Reset, NoCutoff
      <2>3. cutoff'[reset[q].scope] >= cutoff[reset[q].scope]
            OBVIOUS
      <2> QED BY <2>1, <2>2, <2>3
<1>6. SingleUsePermit'
      BY DEF SingleUsePermit
<1> QED BY <1>3, <1>4, <1>5, <1>6

LEMMA ResetStepInv ==
    ASSUME GatewayInv, NEW r \in Resets,
           ResetStep(r) \/ \E s \in Sessions \cup {None} : EnterReset(r, s)
    PROVE  BoundaryInv' /\ SingleUsePermit'
<1>0. GatewayTypeOK /\ BoundaryInv
      BY DEF GatewayInv
<1>1. /\ \A q \in Resets : cutoff[reset[q].scope] \in Int
      /\ cutoff \in [Sessions \cup {None} -> Nat \cup {NoCutoff}]
      BY <1>0 DEF GatewayTypeOK, Reset, NoCutoff
<1>2. ASSUME NEW s \in Sessions \cup {None}, EnterReset(r, s)
      PROVE  BoundaryInv' /\ SingleUsePermit'
      <2>1. reset'[r].phase = "entered" /\ \A q \in Resets \ {r} : reset'[q] = reset[q]
            BY <1>0, <1>2 DEF EnterReset, GatewayTypeOK, Reset
      <2> QED BY <1>1, <1>2, <2>1, ResetInside DEF EnterReset, BoundaryFree
<1>3. CASE ResetStep(r)
      <2>0. boundary = r
            BY <1>0, <1>3
            DEF ResetStep, CleanUp, RevokeBefore, LeaveReset, BoundaryInv, HolderInside
      <2>1. CASE CleanUp(r)
            <3>1. reset'[r].phase = "cleaned" /\ \A q \in Resets \ {r} : reset'[q] = reset[q]
                  BY <1>0, <2>1 DEF CleanUp, GatewayTypeOK, Reset
            <3> QED BY <1>1, <2>0, <2>1, <3>1, ResetInside DEF CleanUp
      <2>2. CASE RevokeBefore(r)
            <3> DEFINE s == reset[r].scope
            <3>1. reset'[r] = [reset[r] EXCEPT !.phase = "revoked"]
                  /\ \A q \in Resets \ {r} : reset'[q] = reset[q]
                  BY <1>0, <2>2 DEF RevokeBefore, GatewayTypeOK
            <3>2. s \in Sessions \cup {None} /\ reset[r].at \in Nat
                  BY <1>0 DEF GatewayTypeOK, Reset
            <3>3. reset'[r].phase = "revoked" /\ reset'[r].scope = s /\ reset'[r].at = reset[r].at
                  BY <1>0, <3>1 DEF GatewayTypeOK, Reset
            <3>4. cutoff' = [cutoff EXCEPT ![s] = Later(cutoff[s], reset[r].at)]
                  BY <2>2 DEF RevokeBefore
            <3> HIDE DEF s
            <3>5. /\ cutoff'[s] = Later(cutoff[s], reset[r].at)
                  /\ \A t \in Sessions \cup {None} : t # s => cutoff'[t] = cutoff[t]
                  /\ cutoff' \in [Sessions \cup {None} -> Nat \cup {NoCutoff}]
                  BY <1>1, <3>2, <3>4 DEF Later
            <3>6. cutoff[s] \in Int
                  BY <1>1, <3>2 DEF NoCutoff
            <3>7. cutoff'[s] >= reset[r].at /\ cutoff'[s] >= cutoff[s]
                  BY <3>2, <3>5, <3>6 DEF Later
            <3>8. \A q \in Resets : reset[q].scope \in Sessions \cup {None}
                  BY <1>0 DEF GatewayTypeOK, Reset
            <3>9. ASSUME NEW q \in Resets
                  PROVE  cutoff'[reset[q].scope] >= cutoff[reset[q].scope]
                  <4>1. CASE reset[q].scope = s
                        BY <3>7, <4>1
                  <4>2. CASE reset[q].scope # s
                        <5>1. cutoff'[reset[q].scope] = cutoff[reset[q].scope]
                              BY <3>5, <3>8, <4>2
                        <5>2. cutoff[reset[q].scope] \in Int
                              BY <1>1
                        <5> QED BY <5>1, <5>2
                  <4> QED BY <4>1, <4>2
            <3> QED BY <2>0, <2>2, <3>1, <3>3, <3>5, <3>7, <3>9, ResetInside DEF RevokeBefore
      <2>3. CASE LeaveReset(r)
            <3>1. reset'[r] = [reset[r] EXCEPT !.phase = "done"]
                  /\ \A q \in Resets \ {r} : reset'[q] = reset[q]
                  BY <1>0, <2>3 DEF LeaveReset, GatewayTypeOK
            <3>2. reset'[r].phase = "done" /\ reset'[r].scope = reset[r].scope
                  /\ reset'[r].at = reset[r].at
                  BY <1>0, <3>1 DEF GatewayTypeOK, Reset
            <3>3. cutoff[reset[r].scope] >= reset[r].at
                  BY <1>0, <2>3 DEF LeaveReset, BoundaryInv, CutoffsHold
            <3> QED BY <1>1, <2>0, <2>3, <3>1, <3>2, <3>3, ResetInside DEF LeaveReset
      <2> QED BY <1>3, <2>1, <2>2, <2>3 DEF ResetStep
<1> QED BY <1>2, <1>3

LEMMA GatewayInvNext == GatewayInv /\ [GatewayNext]_gwVars => GatewayInv'
<1> SUFFICES ASSUME GatewayInv, [GatewayNext]_gwVars
             PROVE  BoundaryInv' /\ SingleUsePermit'
    BY GatewayTypeNext DEF GatewayInv
<1>0. GatewayTypeOK
      BY DEF GatewayInv
<1>1. CASE UNCHANGED gwVars
      BY <1>1, OutsideStep DEF gwVars, vvars
<1>2. CASE GatewayTick
      BY <1>2, OutsideStep DEF GatewayTick, vvars
<1>3. ASSUME NEW c \in Calls, NEW p \in Turns, NEW v \in Versions, GrantPermit(c, p, v)
      PROVE  BoundaryInv' /\ SingleUsePermit'
      <2>1. \A d \in Calls : permit[d] # None => permit'[d] = permit[d]
            BY <1>0, <1>3 DEF GrantPermit, GatewayTypeOK, PermitTypeOK
      <2> QED BY <1>3, <2>1, OutsideStep DEF GrantPermit, vvars
<1>4. ASSUME NEW c \in Calls, CancelCall(c) PROVE BoundaryInv' /\ SingleUsePermit'
      BY <1>4, OutsideStep DEF CancelCall
<1>5. ASSUME NEW c \in Calls, NEW id \in Calls, NEW p \in Turns, CallExecute(c, id, p)
      PROVE  BoundaryInv' /\ SingleUsePermit'
      <2>1. exec'[c].phase = "waiting" /\ \A d \in Calls \ {c} : exec'[d] = exec[d]
            BY <1>0, <1>5 DEF CallExecute, GatewayTypeOK
      <2> QED BY <1>5, <2>1, OutsideStep DEF CallExecute
<1>6. ASSUME NEW c \in Calls, ExecuteStep(c) PROVE BoundaryInv' /\ SingleUsePermit'
      BY <1>6, ExecuteStepInv
<1>7. ASSUME NEW r \in Resets,
             ResetStep(r) \/ \E s \in Sessions \cup {None} : EnterReset(r, s)
      PROVE  BoundaryInv' /\ SingleUsePermit'
      BY <1>7, ResetStepInv
<1> QED BY <1>1, <1>2, <1>3, <1>4, <1>5, <1>6, <1>7 DEF GatewayNext

LEMMA GatewayInvariance == GatewaySpec => []GatewayInv
BY GatewayInvInit, GatewayInvNext, PTL DEF GatewaySpec, gwVars

\* The boundary admits one thread at a time, and what was verified inside it
\* is still true when the handler runs.
THEOREM BoundaryHolds == GatewaySpec => []BoundaryInv
BY GatewayInvariance, PTL DEF GatewayInv

\* However often and by whomever a permit is presented, it runs one handler.
THEOREM PermitUsedOnce == GatewaySpec => []SingleUsePermit
BY GatewayInvariance, PTL DEF GatewayInv
-----------------------------------------------------------------------------
LEMMA RunStep ==
    ASSUME GatewayInv, [GatewayNext]_gwVars, NEW id \in Calls, runs'[id] # runs[id],
           NEW r \in Resets
    PROVE  \/ reset[r].phase = "idle"
           \/ reset[r].phase = "done" /\ (Covers(r, id) => permit[id].issued > reset[r].at)
<1>0. GatewayTypeOK /\ BoundaryInv
      BY DEF GatewayInv
<1>1. PICK c \in Calls : InvokeHandler(c)
      BY DEF gwVars, vvars, GatewayNext, GatewayTick, GrantPermit, CancelCall, CallExecute,
             ExecuteStep, EnterExecute, DenyExecute, VerifyPermit, ConsumePermit,
             EnterReset, ResetStep, CleanUp, RevokeBefore, LeaveReset
<1>2. id = exec[c].permit
      BY <1>0, <1>1 DEF InvokeHandler, GatewayTypeOK
<1>3. boundary = c /\ Fit(c)
      BY <1>0, <1>1 DEF InvokeHandler, BoundaryInv, HolderInside, VerifiedStaysFit
<1>4. reset[r].phase \in {"idle", "done"}
      <2>1. reset[r].phase \notin {"entered", "cleaned", "revoked"}
            BY <1>3, InsideAlone
      <2> QED BY <1>0, <2>1 DEF GatewayTypeOK, Reset
<1>5. ASSUME reset[r].phase = "done", Covers(r, id) PROVE permit[id].issued > reset[r].at
      <2> DEFINE s == reset[r].scope
      <2>1. cutoff[s] >= reset[r].at
            BY <1>0, <1>5 DEF BoundaryInv, CutoffsHold
      <2>2. permit[id] # None /\ permit[id].proposal \in Turns
            /\ permit[id].issued \in Nat /\ ~Revoked(id)
            BY <1>0, <1>2, <1>3 DEF Fit, GatewayTypeOK, PermitTypeOK, Permit
      <2>3. ~(permit[id].issued <= cutoff[s])
            BY <1>5, <2>2 DEF Revoked, Covers
      <2>4. s \in Sessions \cup {None} /\ reset[r].at \in Nat /\ cutoff[s] \in Int
            BY <1>0 DEF GatewayTypeOK, Reset, NoCutoff
      <2> QED BY <2>1, <2>2, <2>3, <2>4
<1> QED BY <1>4, <1>5

\* Neither operation crosses the other.
THEOREM ResetsAreNotCrossed == GatewaySpec => NoRunCrossesReset
<1>1. GatewayInv /\ [GatewayNext]_gwVars =>
        [\A id \in Calls : runs'[id] # runs[id] =>
           \A r \in Resets :
              \/ reset[r].phase = "idle"
              \/ reset[r].phase = "done" /\ (Covers(r, id) => permit[id].issued > reset[r].at)
        ]_gwVars
      BY RunStep
<1> QED BY <1>1, GatewayInvariance, PTL DEF NoRunCrossesReset, GatewaySpec, gwVars
=============================================================================
