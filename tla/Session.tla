------------------------------- MODULE Session -------------------------------
(***************************************************************************)
(* What a client's application is promised of its session: the values of   *)
(* Transport::status_ follow each other in one order, none comes back, and *)
(* a session that is lost stays lost.  Nothing is promised of a session    *)
(* that a callback has overtaken before Transport::Start had set it up.    *)
(***************************************************************************)
CONSTANT Clients

VARIABLE status

Steps ==
    [kNotReady           |-> {"kConnecting", "kFailedToConnect", "kOvertaken"},
     kConnecting         |-> {"kPendingServerSetup", "kNotConnected"},
     kPendingServerSetup |-> {"kReady", "kNotConnected"},
     kReady              |-> {"kNotConnected"},
     kNotConnected       |-> {},
     kFailedToConnect    |-> {"kOvertaken"},
     kOvertaken          |-> {}]

Init == status = [c \in Clients |-> "kNotReady"]

Next == \E c \in Clients : \E new \in Steps[status[c]] : status' = [status EXCEPT ![c] = new]

Spec == Init /\ [][Next]_status
=============================================================================
