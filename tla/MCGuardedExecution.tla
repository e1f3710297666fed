--------------------------- MODULE MCGuardedExecution ---------------------------
(***************************************************************************)
(* Small instances of GuardedExecution.  In each snapshot the policy asks  *)
(* for a confirmation by one of two rules, allows, or blocks.              *)
(***************************************************************************)
EXTENDS GuardedExecution, TLC

CONSTANTS t1, t2, s1, s2, r1, r2, act1, a1, a2


MCVehicleStates == {"parked", "driving", "rainy", "broken"}
MCSessionOf == [t \in Turns |-> IF t = t1 THEN s1 ELSE s2]

Says(outcome) == [outcome |-> outcome, rule |-> None]
Asks(rule) == [outcome |-> "CONFIRM", rule |-> rule]

MCPolicy ==
    [v \in VehicleStates |->
       [t \in Turns |->
         CASE v = "parked"  -> Asks(r1)
           [] v = "driving" -> Asks(r2)
           [] v = "rainy"   -> Says("ALLOW")
           [] v = "broken"  -> Says("FAIL_CLOSED")]]

MCStopsIn == [v \in VehicleStates |-> IF v = "driving" THEN Monitored ELSE {}]
MCActionId == [p \in Monitored |-> act1]

MCSymmetry == Permutations({a1, a2})
=============================================================================
