--------------------------- MODULE ActuationLifecycle ---------------------------
(***************************************************************************)
(* What the driver is promised about each proposed action: its actuator is *)
(* invoked at most once, and never once the proposal was withdrawn, by a   *)
(* cancellation, an expiry or a reset of the confirmation it waited for.   *)
(***************************************************************************)
CONSTANTS Proposals, Invocations

VARIABLES
    withdrawn,    \* proposals that may no longer run
    invocations   \* the actuator invocations made for each proposal

LifecycleInit ==
    /\ withdrawn = {}
    /\ invocations = [p \in Proposals |-> {}]

Invoke(p) ==
    /\ p \notin withdrawn
    /\ invocations[p] = {}
    /\ \E i \in Invocations : invocations' = [invocations EXCEPT ![p] = {i}]
    /\ UNCHANGED withdrawn

Withdraw(P) ==
    /\ \A p \in P : invocations[p] = {}
    /\ withdrawn' = withdrawn \cup P
    /\ UNCHANGED invocations

LifecycleNext ==
    \/ \E p \in Proposals : Invoke(p)
    \/ \E P \in SUBSET Proposals : Withdraw(P)

Lifecycle == LifecycleInit /\ [][LifecycleNext]_<<withdrawn, invocations>>
=============================================================================
