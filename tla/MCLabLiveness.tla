---------------------------- MODULE MCLabLiveness ----------------------------
(***************************************************************************)
(* LabControl for the liveness properties: one process, one lab and two    *)
(* requests, one of which may use the operation identifier of the lab's    *)
(* expiration.                                                             *)
(***************************************************************************)
EXTENDS LabControl

CONSTANTS r1, r2

MCRequestIds == {r1, r2} \cup {ExpirationOperationID(l) : l \in Labs}

TwoRequests ==
  /\ op[r1].status = "absent" => op[r2].status = "absent"
  /\ \A l \in Labs :
       op[ExpirationOperationID(l)].action \in {"none", "DESTROY_LAB"} \/ op[r2].status = "absent"

MCSpec == Init /\ [][TimelyNext /\ TwoRequests']_vars /\ Fairness
=============================================================================
