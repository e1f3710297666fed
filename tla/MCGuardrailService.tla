--------------------------- MODULE MCGuardrailService ---------------------------
(***************************************************************************)
(* A small instance of GuardrailService: the presets of state_store.py as  *)
(* snapshots, one proposal that two different rules can ask to confirm,    *)
(* and one monitored proposal.                                             *)
(***************************************************************************)
EXTENDS GuardrailService, TLC

CONSTANTS t1, t2, s1, s2, r1, r2, act1

MCSessionOf == (t1 :> s1) @@ (t2 :> s2)
MCVehicleStates == {"parked", "driving", "rainy", "broken"}

Says(outcome) == [outcome |-> outcome, rule |-> None]
Asks(rule) == [outcome |-> "CONFIRM", rule |-> rule]

MCPolicy ==
    [v \in MCVehicleStates |->
       CASE v = "parked"  -> (t1 :> Asks(r1)) @@ (t2 :> Says("ALLOW"))
         [] v = "driving" -> (t1 :> Asks(r2)) @@ (t2 :> Says("BLOCK"))
         [] v = "rainy"   -> (t1 :> Says("ALLOW")) @@ (t2 :> Asks(r1))
         [] v = "broken"  -> (t1 :> Says("BLOCK")) @@ (t2 :> Says("FAIL_CLOSED"))]
MCStopsIn == [v \in MCVehicleStates |-> IF v = "driving" THEN {t2} ELSE {}]
MCActionId == t2 :> act1
=============================================================================
