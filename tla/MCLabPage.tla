------------------------------ MODULE MCLabPage ------------------------------
(* The pages TLC checks LabPage for.                                       *)
EXTENDS LabPage

Page(f, e, m, n) == [federated |-> f, expectsPost |-> e, remote |-> m, reliable |-> n]

(* Pages of each sort whose network loses nothing (a federated page is not *)
(* sent on to a third server), and pages whose network does: one of this   *)
(* server, and one whose reservation is forwarded.                         *)
AllSetups == {s \in SetupType : s.reliable /\ ~(s.federated /\ s.remote)}
             \cup {Page(FALSE, FALSE, m, FALSE) : m \in BOOLEAN}
=============================================================================
