------------------------------ MODULE MCEventStream ------------------------------
(* A small instance of EventStream for TLC. *)
EXTENDS EventStream

CONSTANTS t1, t2, p1, x1, x2, e1, e2, k1, k2, c1, r1

MCSessions == {"a"}
MCSessionOf == [t \in {t1, t2} |-> "a"]

\* The message endpoint's chunks, and the events of a guarded action.
Answering == {Chunk(t1, 0, FALSE), Chunk(t1, 0, TRUE), Chunk(t1, 1, TRUE)}
Acting == {Proposal(t2, p1), Decision(t2, p1, "ALLOW"), Decision(t2, p1, "BLOCK"),
           Execution(t2, p1, x1, "started"), Execution(t2, p1, x2, "started"),
           Execution(t2, p1, x1, "succeeded"), Effect(t2, p1, x1),
           StateChanged(t2, "AGENT", x1)}
MCEmits == e1 :> Answering @@ e2 :> Acting
MCSince == [k \in Subscribers |-> IF k = k1 THEN 0 ELSE 1]
MCFollows == [x \in Subscribers \cup Connections |-> "a"]
MCCompanies == {{k1}, {k2, r1}, {c1, r1}}
MCWatched == {{k1}}
MCPolled == {{c1, r1}}
MCResetScope == [r \in Resets |-> None]

==================================================================================
