---------------------------- MODULE MCLabResources ----------------------------
(***************************************************************************)
(* LabResources for TLC.                                                   *)
(***************************************************************************)
EXTENDS LabResources

MCContainers == <<Redis, "app-1">>

\* What fails, and the handlers that meet, apart from each other.
MCEnvironments ==
  {[faults |-> (Calls \ {"gateway"}) \cup {"orchestrator"}, meet |-> FALSE, ops |-> MaxOps],
   [faults |-> {"timeout", "worker"}, meet |-> FALSE, ops |-> 2],
   [faults |-> {"gateway", "gateway_container"}, meet |-> FALSE, ops |-> MaxOps],
   [faults |-> {}, meet |-> TRUE, ops |-> 2],
   [faults |-> {"worker"}, meet |-> TRUE, ops |-> 1]}

MCOneContainer == <<"app-1">>

MCGatewayFault == {[faults |-> {"gateway"}, meet |-> FALSE, ops |-> MaxOps]}
MCMeeting == {[faults |-> {}, meet |-> TRUE, ops |-> MaxOps]}
=============================================================================
