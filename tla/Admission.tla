------------------------------ MODULE Admission ------------------------------
(***************************************************************************)
(* The transactions behind POST /labs, DELETE /labs/{id} and ADD_INSTANCE: *)
(* the lookup of the operation id, the row locks, MySQL's named lock for   *)
(* the global admission, the checks, the insert, the commit and the        *)
(* release, step by step, for requests that run at the same time.  Every   *)
(* lab is a cluster lab: it is created with one container and may grow.    *)
(*                                                                         *)
(* Which locks a request holds follows from how far it is.  The insert     *)
(* into lab_operations needs a shared lock on the row of its user, because *)
(* of the foreign key; it waits while another request has that row locked. *)
(***************************************************************************)
EXTENDS Integers, FiniteSets

CONSTANTS
  RequestCount,     \* requests that are made
  RequestUsers,     \* users, 1 among them
  MaxActiveLabs, MaxTemporaryContainers, MaxInstancesPerLab   \* the Quota

ASSUME AdmissionAssumption ==
  /\ RequestCount \in Nat /\ 1 \in RequestUsers
  /\ {MaxActiveLabs, MaxTemporaryContainers, MaxInstancesPerLab} \subseteq Nat \ {0}

VARIABLES
  request,      \* the requests
  labs,         \* the labs, by id, with the operation that is under way
  operations,   \* ids of the committed operations
  exact         \* whether all admissions so far have counted every container

admissionVars == <<request, labs, operations, exact>>

-----------------------------------------------------------------------------
Requests == 1..RequestCount
NewRequest == [pc |-> "new", id |-> 0, user |-> 0, kind |-> "none", lab |-> 0,
               answer |-> "none", stored |-> FALSE]
NewLab(u) == [user |-> u, status |-> "Preparing", rows |-> 0, pending |-> "create"]

\* Lab 0, of user 1, is running; a new lab has the number of its request.
AdmissionInit ==
  /\ request = [r \in Requests |-> NewRequest]
  /\ labs = [l \in {0} |-> [user |-> 1, status |-> "Running", rows |-> 1, pending |-> "none"]]
  /\ operations = {}
  /\ exact = TRUE

\* Types; a lab has at most as many instances as its quota allows.
AdmissionTypeOK ==
  /\ \A r \in Requests : request[r].pc \in
       {"new", "locking", "global", "insert", "commit", "release", "over"}
  /\ \A l \in DOMAIN labs :
       /\ labs[l].status \in {"Preparing", "Running", "Failed", "Terminating", "Terminated"}
       /\ labs[l].rows \in 0..MaxInstancesPerLab
  /\ operations \subseteq Requests
  /\ exact \in BOOLEAN

-----------------------------------------------------------------------------
(***************************************************************************)
(* Locks.                                                                  *)
(***************************************************************************)
Others(r) == Requests \ {r}
InTransaction(r) == request[r].pc \in {"global", "insert", "commit"}
LocksUser(r, u) == request[r].kind = "create" /\ request[r].user = u /\ InTransaction(r)
SharesUser(r, u) == request[r].kind # "create" /\ request[r].user = u /\ request[r].pc = "commit"

\* Mutant: the lab is read without FOR UPDATE.
LocksLabNever(r, l) == FALSE

LocksLab(r, l) == request[r].kind # "create" /\ request[r].lab = l /\ InTransaction(r)

\* Mutant: the admission lock is released before the commit.
LocksAdmissionBriefly(r) ==
  request[r].kind \in {"create", "add"} /\ request[r].pc \in {"insert", "release"}

LocksAdmission(r) ==
  request[r].kind \in {"create", "add"} /\ request[r].pc \in {"insert", "commit", "release"}

-----------------------------------------------------------------------------
(***************************************************************************)
(* Counting.                                                               *)
(***************************************************************************)
Active(l) == labs[l].status \in {"Preparing", "Running", "Terminating"}
ActiveLabs == {l \in DOMAIN labs : Active(l)}
Rows == Cardinality(UNION {{l} \X (1..labs[l].rows) : l \in DOMAIN labs})

\* loadUsage: a lab counts as the containers it was created with.
Usage == Cardinality(ActiveLabs)

\* The containers there are, and those that operations under way will add.
Size(l) == labs[l].rows + (IF labs[l].pending \in {"create", "add"} THEN 1 ELSE 0)
Containers == Cardinality(UNION {{l} \X (1..Size(l)) : l \in DOMAIN labs})

AdmitCreate == Usage + 1 <= MaxActiveLabs /\ Usage + 1 <= MaxTemporaryContainers

\* Mutant: the present counts are compared, not the resulting ones.
AdmitInstanceLate(l) ==
  /\ labs[l].rows <= MaxInstancesPerLab
  /\ Rows <= MaxTemporaryContainers

\* admitGlobalTemporaryContainer counts the rows of all labs.
AdmitInstance(l) ==
  /\ labs[l].rows < MaxInstancesPerLab
  /\ Rows + 1 <= MaxTemporaryContainers

-----------------------------------------------------------------------------
(***************************************************************************)
(* The steps of a request.                                                 *)
(***************************************************************************)
Advance(r, pc) == request' = [request EXCEPT ![r].pc = pc]
Known(r) == request[r].id \in operations

\* The request is answered and its transaction rolled back; "stored" records
\* whether it was refused although the operation it asks for is stored.
Answer(r, a) ==
  request' = [request EXCEPT ![r].pc = "over", ![r].answer = a,
                             ![r].stored = (a = "refused" /\ Known(r))]

\* A request begins by looking its operation id up.
BeginRequest(r, id, u, k, l) ==
  LET new == [pc |-> IF id \in operations THEN "over" ELSE "locking", id |-> id, user |-> u,
              kind |-> k, lab |-> IF k = "create" THEN r ELSE l,
              answer |-> IF id \in operations THEN "accepted" ELSE "none", stored |-> FALSE]
  IN  /\ k # "create" => labs[l].user = u
      /\ request' = [request EXCEPT ![r] = new]

\* A new request, with an operation id of its own, or the repetition of one whose
\* answer was not seen.
LookUp(r) ==
  /\ request[r].pc = "new" /\ \A i \in 1..(r - 1) : request[i].pc # "new"
  /\ \/ \E u \in RequestUsers, k \in {"create", "add", "destroy"}, l \in DOMAIN labs :
          BeginRequest(r, r, u, k, l)
     \/ \E i \in 1..(r - 1) :
          BeginRequest(r, request[i].id, request[i].user, request[i].kind, request[i].lab)
  /\ UNCHANGED <<labs, operations, exact>>

\* Create locks its user, the others their lab, whose status they check.
Lock(r) ==
  LET q == request[r]
  IN  /\ q.pc = "locking"
      /\ \/ /\ q.kind = "create"
            /\ \A i \in Others(r) : ~LocksUser(i, q.user) /\ ~SharesUser(i, q.user)
            /\ Advance(r, "global")
         \/ /\ q.kind = "add"
            /\ \A i \in Others(r) : ~LocksLab(i, q.lab)
            /\ IF labs[q.lab].status # "Running" THEN Answer(r, "refused")
               ELSE Advance(r, "global")
         \/ /\ q.kind = "destroy"
            /\ \A i \in Others(r) : ~LocksLab(i, q.lab)
            /\ Advance(r, "insert")
      /\ UNCHANGED <<labs, operations, exact>>

\* GET_LOCK.
LockAdmission(r) ==
  /\ request[r].pc = "global"
  /\ \A i \in Others(r) : ~LocksAdmission(i)
  /\ Advance(r, "insert")
  /\ UNCHANGED <<labs, operations, exact>>

\* Mutant: GET_LOCK waits without end.
LockTimeoutNever(r) == FALSE /\ UNCHANGED admissionVars

\* GET_LOCK gives up after its five seconds.
LockTimeout(r) ==
  /\ request[r].pc = "global"
  /\ \E i \in Others(r) : LocksAdmission(i)
  /\ Answer(r, "failed")
  /\ UNCHANGED <<labs, operations, exact>>

\* The checks under the locks, the unique index on operation_id included.
Admitted(r) ==
  LET q == request[r]
  IN  /\ ~Known(r)
      /\ CASE q.kind = "create" ->
                /\ ~\E l \in ActiveLabs : labs[l].user = q.user
                /\ AdmitCreate
           [] q.kind = "destroy" ->
                /\ labs[q.lab].status \in {"Preparing", "Running", "Failed"}
                /\ labs[q.lab].pending = "none"
           [] q.kind = "add" ->
                /\ labs[q.lab].pending = "none"
                /\ AdmitInstance(q.lab)

\* Mutant: create does not look its operation id up a second time.
FoundAgainNever(r) == FALSE

\* Create and EnqueueAction look the operation id up again under their locks.
FoundAgain(r) == request[r].kind # "add" /\ Known(r)

\* Inserting waits for the row of the user.
Insert(r) ==
  LET q == request[r]
      counted == IF q.kind = "create" THEN Usage ELSE Rows
  IN  /\ q.pc = "insert"
      /\ \/ FoundAgain(r) /\ Answer(r, "accepted") /\ UNCHANGED exact
         \/ ~FoundAgain(r) /\ ~Admitted(r) /\ Answer(r, "refused") /\ UNCHANGED exact
         \/ /\ ~FoundAgain(r) /\ Admitted(r)
            /\ \A i \in Others(r) : ~LocksUser(i, q.user)
            /\ Advance(r, "commit")
            /\ exact' = (exact /\ (q.kind # "destroy" => counted = Containers))
      /\ UNCHANGED <<labs, operations>>

\* The lab and the operation become visible.
Commit(r) ==
  LET q == request[r]
  IN  /\ q.pc = "commit"
      /\ operations' = operations \cup {q.id}
      /\ labs' = CASE q.kind = "create" -> [l \in DOMAIN labs \cup {r} |-> IF l = r THEN NewLab(q.user) ELSE labs[l]]
                   [] q.kind = "add" -> [labs EXCEPT ![q.lab].pending = "add"]
                   [] q.kind = "destroy" ->
                        [labs EXCEPT ![q.lab].pending = "destroy", ![q.lab].status = "Terminating"]
      /\ request' = IF q.kind = "destroy"
                    THEN [request EXCEPT ![r].pc = "over", ![r].answer = "accepted"]
                    ELSE [request EXCEPT ![r].pc = "release"]
      /\ UNCHANGED exact

\* RELEASE_LOCK may fail, and is then tried once more; the request has failed
\* although its operation is stored.
Release(r) ==
  /\ request[r].pc = "release"
  /\ \E a \in {"accepted", "failed"} : Answer(r, a)
  /\ UNCHANGED <<labs, operations, exact>>

RequestStep(r) ==
  \/ Lock(r) \/ LockAdmission(r) \/ LockTimeout(r)
  \/ Insert(r) \/ Commit(r) \/ Release(r)

\* The worker ends the operation of a lab, whose row it locks.
OperationEnds(l) ==
  LET done == [labs[l] EXCEPT !.pending = "none"]
  IN  /\ labs[l].pending # "none"
      /\ \A r \in Requests : ~LocksLab(r, l)
      /\ \E success \in BOOLEAN :
           labs' = [labs EXCEPT ![l] =
             CASE done.status = "Preparing" ->
                    IF success THEN [done EXCEPT !.status = "Running", !.rows = 1]
                    ELSE [done EXCEPT !.status = "Failed"]
               [] done.status = "Running" ->
                    IF success THEN [done EXCEPT !.rows = @ + 1] ELSE done
               [] done.status = "Terminating" ->
                    IF success THEN [done EXCEPT !.status = "Terminated", !.rows = 0]
                    ELSE [done EXCEPT !.status = "Failed"]]
      /\ UNCHANGED <<request, operations, exact>>

AdmissionNext ==
  \/ \E r \in Requests : LookUp(r) \/ RequestStep(r)
  \/ \E l \in DOMAIN labs : OperationEnds(l)

AdmissionFairness == \A r \in Requests : WF_request(RequestStep(r))
AdmissionSpec == AdmissionInit /\ [][AdmissionNext]_admissionVars /\ AdmissionFairness

-----------------------------------------------------------------------------
(***************************************************************************)
(* Properties.                                                             *)
(***************************************************************************)
\* The admission lock, held until the commit, makes counting and inserting one
\* step: as long as every admission has counted all the containers there are
\* and will be, their number never exceeds the quota, however requests
\* interleave.  (loadUsage counts a lab as the containers it began with, and
\* admitGlobalTemporaryContainer only the stored rows: an admission that misses
\* an added instance or an operation under way may exceed the quota.)
CountedContainersWithinQuota == exact => Containers <= MaxTemporaryContainers

\* The row lock on the lab makes the check for an operation under way and the
\* insert one step: a request never commits an operation of a lab that has one.
OneOperationUnderWay ==
  \A r \in Requests :
    (request[r].pc = "commit" /\ request[r].kind # "create")
      => /\ labs[request[r].lab].pending = "none"
         /\ \A i \in Others(r) : ~(request[i].pc = "commit" /\ request[i].lab = request[r].lab)

\* A request to create or destroy a lab that was sent twice, the two at the same
\* time, is not refused because of itself: once the operation is stored, the
\* repetition finds it.  (ADD_INSTANCE looks its id up before it has the lock
\* only, and its repetition may be refused as busy.)
RepetitionsAccepted ==
  \A r \in Requests :
    (request[r].answer = "refused" /\ request[r].stored) => request[r].kind = "add"

\* Every request is answered.  Create locks its user and waits for the admission
\* lock, ADD_INSTANCE of the same user has the admission lock and waits for the
\* row of the user: the limit of GET_LOCK ends that.
RequestsAnswered ==
  \A r \in Requests : request[r].pc = "locking" ~> request[r].pc = "over"
=============================================================================
