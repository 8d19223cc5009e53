---------------------------- MODULE MCLabControl ----------------------------
(***************************************************************************)
(* Instances of LabControl for TLC.  Spec is explored in four settings,    *)
(* of which a behaviour has one.                                           *)
(***************************************************************************)
EXTENDS LabControl, TLC

CONSTANTS r1, r2, r3   \* request identifiers, in the order of their use

\* A client may also send what is the scheduler's identifier for the first lab.
MCRequestIds == {r1, r2, r3, ExpirationOperationID(1)}

VARIABLE setting

MCVars == <<vars, setting>>

Created == {l \in Labs : session[l].status # "None"}
Used == {o \in {r1, r2, r3} : op[o].status # "absent"}

\* A request, and no scheduler, uses the scheduler's identifier.
TakesIdentifier ==
  LET o == ExpirationOperationID(1)
  IN  op[o].status = "absent" /\ op'[o].status # "absent" /\ sched' = sched

\* Identifiers are interchangeable: requests and labs are used in order, and a
\* user who has no lab yet is the next one.
InOrder ==
  /\ Used \in {{}, {r1}, {r1, r2}, {r1, r2, r3}}
  /\ Created = 1..Cardinality(Created)
  /\ \A l \in Created :
       \A u \in 1..(session[l].user - 1) : \E m \in 1..(l - 1) : session[m].user = u

Quiet(P) == \A p \in P : worker[p] = IdleWorker /\ sched[p] = IdleScheduler

Settings == {"one_lab", "admission", "timely", "identifier"}

(***************************************************************************)
(* one_lab: two processes and two requests race for one lab, any lease may *)
(* run out at any moment, and a process may crash.  Scans that grow old,   *)
(* and scans of both processes, are without a crash.                       *)
(* admission: several users and labs, one process that does not crash and  *)
(* scans between its operations, and the scenario without topology and     *)
(* cache actions.                                                          *)
(* timely: the delays of two processes stay within the timeouts.           *)
(* identifier: one process and one lab; a request may use the identifier   *)
(* of the lab's expiration.                                                *)
(***************************************************************************)
Within ==
  CASE setting = "one_lab" ->
         /\ Cardinality(Created) <= 1 /\ Cardinality(Used) <= 2
         /\ \A l \in Created : session[l].scenario # "application_data_separation"
         /\ \A p \in Procs : sched[p].lag > 0 =>
              crashes = 0 /\ \A q \in Procs \ {p} : sched[q] = IdleScheduler
         /\ (\A p \in Procs : sched[p].todo # {}) => crashes = 0
    [] setting = "admission" ->
         /\ crashes = 0
         /\ \A l \in Created : session[l].scenario = "application_data_separation"
         /\ \A p \in Procs : sched[p] # IdleScheduler =>
              sched[p].lag = 0 /\ worker[p] = IdleWorker
         /\ \E p \in Procs : Quiet(Procs \ {p})
    [] setting = "timely" ->
         /\ Cardinality(Created) <= 1 /\ Cardinality(Used) <= 2
         /\ \A p \in Procs : sched[p].lag = 0
    [] setting = "identifier" ->
         /\ Cardinality(Created) <= 1 /\ Cardinality(Used) <= 2 /\ crashes = 0
         /\ \A p \in Procs : sched[p].lag = 0
         /\ \E p \in Procs : Quiet(Procs \ {p})

MCInit == Init /\ setting \in Settings

MCNext ==
  /\ UNCHANGED setting
  /\ IF setting = "timely" THEN TimelyNext ELSE Next
  /\ Within' /\ InOrder'
  /\ TakesIdentifier => setting = "identifier"

MCSpec == MCInit /\ [][MCNext]_MCVars

\* Two workers are never at work on the same operation that sends a single
\* command, in the setting whose delays justify it: a lease longer than the
\* command timeout.
TimelyWorkersApart == setting = "timely" => SingleCommandsApart

Symmetry == Permutations(Procs)
=============================================================================
