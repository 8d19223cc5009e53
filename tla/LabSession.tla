----------------------------- MODULE LabSession -----------------------------
(***************************************************************************)
(* What the control plane promises for one lab, without queue, leases,     *)
(* workers, retries, crashes or clocks: a lab has a status and at most one *)
(* job; a job starts only in a status that allows it, takes effect on the  *)
(* status exactly once, when it ends, and no other step but the reminder   *)
(* moves the status.                                                       *)
(***************************************************************************)
EXTENDS LabStatus

CONSTANTS Labs, Jobs

VARIABLES status, job

Init ==
  /\ status = [l \in Labs |-> "None"]
  /\ job = [l \in Labs |-> "none"]

\* The statuses in which a job may be started, and may still be unfinished.
StartableIn(j) ==
  CASE j = "DESTROY_LAB" -> {"Running", "Expiring", "Failed"}
    [] j = "CREATE_LAB"  -> {}
    [] j = "CACHE"       -> {"Running"}
    [] OTHER             -> Serving

Open(l) ==
  /\ status[l] = "None"
  /\ status' = [status EXCEPT ![l] = "Preparing"]
  /\ job' = [job EXCEPT ![l] = "CREATE_LAB"]

Start(l, j) ==
  /\ job[l] = "none"
  /\ status[l] \in StartableIn(j)
  /\ job' = [job EXCEPT ![l] = j]
  /\ status' = [status EXCEPT ![l] = IF j = "DESTROY_LAB" THEN "Terminating" ELSE @]

\* The status after job j has ended well in status s, or has failed.
Succeeded(j, s) ==
  CASE j = "DESTROY_LAB" -> "Terminated"
    [] j = "ADAPTIVE"    -> s
    [] OTHER             -> "Running"

FailedTo(j, s) ==
  IF j \in {"CREATE_LAB", "RESET_LAB", "DESTROY_LAB"} THEN "Failed" ELSE s

\* A cache action cannot end well in the reminder window.
Finish(l) ==
  /\ job[l] # "none"
  /\ job' = [job EXCEPT ![l] = "none"]
  /\ \/ /\ ~(job[l] = "CACHE" /\ status[l] = "Expiring")
        /\ status' = [status EXCEPT ![l] = Succeeded(job[l], @)]
     \/ status' = [status EXCEPT ![l] = FailedTo(job[l], @)]

Remind(l) ==
  /\ \/ status[l] = "Running"  /\ status' = [status EXCEPT ![l] = "Expiring"]
     \/ status[l] = "Expiring" /\ status' = [status EXCEPT ![l] = "Running"]
  /\ UNCHANGED job

Next ==
  \E l \in Labs :
    \/ Open(l)
    \/ \E j \in Jobs : Start(l, j)
    \/ Finish(l)
    \/ Remind(l)

Spec == Init /\ [][Next]_<<status, job>>
=============================================================================
