------------------------------- MODULE Authority -------------------------------
(***************************************************************************)
(* The vocabulary the guardrail service, the confirmation manager and the  *)
(* vehicle gateway share: the calls the agent makes, the permits they      *)
(* exchange on the wire, and the wall clock both processes read.           *)
(*                                                                         *)
(* A call is one agent thread and the one HTTP request it sends.  A turn   *)
(* proposes an action (POST /v1/evaluate/action); its proposal is named by *)
(* the turn.  An attempt resolves a confirmation token (POST               *)
(* /v1/confirmations/confirm).  The code draws permit and token ids from   *)
(* uuid4, so each is fresh; here an id is the call that caused it.         *)
(***************************************************************************)
EXTENDS Integers

CONSTANTS
    Turns,       \* proposals, and the turns that make them
    Attempts,    \* calls that confirm a token
    Sessions,
    SessionOf,   \* the session of each turn
    PermitTTL,   \* envelope.PERMIT_TTL, in ticks
    ConfirmTTL,  \* envelope.CONFIRM_TTL, in ticks
    MaxTime,     \* bound: the clock stops here
    None

VARIABLES
    now,     \* the wall clock
    permit   \* the permit each call was issued, or None

Calls == Turns \cup Attempts

ASSUME AuthorityAssumption ==
    /\ Turns \cap Attempts = {}
    /\ SessionOf \in [Turns -> Sessions]
    /\ PermitTTL \in Nat \ {0}
    /\ ConfirmTTL \in Nat
    /\ MaxTime \in Nat
    /\ None \notin Calls \cup Sessions

\* "proposal" stands for the digest that binds a permit to one proposal;
\* "version" is the state_version of the snapshot the decision was made on.
Permit == [proposal : Turns, version : Nat, issued : Nat, expires : Nat]

PermitTypeOK ==
    /\ now \in Nat
    /\ permit \in [Calls -> Permit \cup {None}]

NewPermit(p, v) ==
    [proposal |-> p, version |-> v, issued |-> now, expires |-> now + PermitTTL]

Tick ==
    /\ now < MaxTime
    /\ now' = now + 1
=============================================================================
