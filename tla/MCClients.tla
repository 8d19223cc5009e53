------------------------------ MODULE MCClients ------------------------------
(***************************************************************************)
(* The components with liveness properties, in one run: the adaptive       *)
(* balancer, the admission of requests and the page of the web client.     *)
(* They share no state; "focus" is the one that moves in a behaviour.  In  *)
(* one with a lost request the user of the page does one thing less.       *)
(***************************************************************************)
EXTENDS Balancer, Admission, WebPage

VARIABLE focus

MCFailureBackoff == <<1, 2>>

MCInit ==
  /\ focus \in {"balancer", "admission", "page"}
  /\ BalancerInit /\ AdmissionInit /\ WebPageInit
  /\ focus # "balancer" => balancing = "fixed"
  /\ focus # "page" => ~cookie /\ labVersion = 0

MCNext ==
  /\ UNCHANGED focus
  /\ \/ focus = "balancer" /\ BalancerNext /\ UNCHANGED <<admissionVars, pageVars>>
     \/ focus = "admission" /\ AdmissionNext /\ UNCHANGED <<balancerVars, pageVars>>
     \/ /\ focus = "page" /\ WebPageNext
        /\ pageFaults' = 0 \/ pageActs' < MaxPageActs
        /\ UNCHANGED <<balancerVars, admissionVars>>

\* The fairness of the three specifications, of the one that moves.
MCFairness ==
  /\ WF_balancerVars(focus = "balancer" /\ ListAdaptiveLabs)
  /\ WF_sample(focus = "balancer" /\ SampleEnds)
  /\ WF_balancerVars(focus = "balancer" /\ AdjustmentEnds)
  /\ WF_balancerVars(focus = "balancer" /\ UserOperationEnds)
  /\ WF_balancerVars(focus = "balancer" /\ SampleInterval)
  /\ \A r \in Requests : WF_request(focus = "admission" /\ RequestStep(r))
  /\ \A p \in Places : /\ WF_inFlight(focus = "page" /\ Serve(p))
                       /\ WF_inFlight(focus = "page" /\ ArriveAnswer(p))
  /\ WF_page(focus = "page" /\ TimerFires)

MCSpec == MCInit /\ [][MCNext]_<<focus, balancerVars, admissionVars, pageVars>> /\ MCFairness

\* Types of all components, with the limits on backoff and on instances, and the
\* conditions of schedulePoll under which a timer runs.
ClientsTypeOK == BalancerTypeOK /\ AdmissionTypeOK /\ WebPageTypeOK
=============================================================================
