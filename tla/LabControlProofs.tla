------------------------- MODULE LabControlProofs ---------------------------
(***************************************************************************)
(* The safety theorems that follow from the inductive invariant of         *)
(* LabControl, the leases under TimelySpec, and the steps by which the     *)
(* control plane implements LabSession.                                    *)
(***************************************************************************)
EXTENDS LabControlSteps

USE DEF Status, Active, Serving, Unfinished, Finished, Actions

-----------------------------------------------------------------------------
(***************************************************************************)
(* Theorems.                                                               *)
(***************************************************************************)
\* The tables and what the processes remember stay well-typed.
THEOREM TypeCorrect == Spec => []TypeOK
<1>1. ControlInv => TypeOK
  BY DEF ControlInv
<1> QED BY <1>1, ControlInvariant, PTL

\* The busy checks under the session row lock serialise the work of a lab,
\* for any number of processes and requests.
THEOREM OperationsAreSerial == Spec => []SerialOperations
<1>1. ControlInv => SerialOperations
  BY DEF ControlInv
<1> QED BY <1>1, ControlInvariant, PTL

\* The status that a completing transaction requires is the one it finds,
\* and no lab is left in Preparing or Terminating without an operation.
THEOREM StatusAndWorkAgree == Spec => []StatusMatchesWork
<1>1. ControlInv => StatusMatchesWork
  BY DEF ControlInv
<1> QED BY <1>1, ControlInvariant, PTL

\* While a lab is in service nothing has been queued to destroy it, so neither a
\* scheduler nor a user has used up the one expiration it can have.
THEOREM ExpirationNeverBlocked == Spec => []ExpirationStillPossible
<1>1. ControlInv => ExpirationStillPossible
  BY DEF ControlInv, NeverDestroyed, ExpirationStillPossible
<1> QED BY <1>1, ControlInvariant, PTL

\* One lab in preparation or in service per user.
THEOREM OneLiveLab == Spec => []OneLiveLabPerUser
<1>1. ControlInv => OneLiveLabPerUser
  BY DEF ControlInv
<1> QED BY <1>1, ControlInvariant, PTL

\* How the set of live labs can change.
LEMMA LiveAfter ==
  ASSUME ControlInv, OneOfFourKinds
  PROVE  \/ Live' \subseteq Live
         \/ \E l \in Labs : /\ Live' \subseteq Live \cup {l}
                            /\ Cardinality(ActiveLabs) + 1 <= MaxActiveLabs
<1> USE DEF ControlInv
<1>1. CASE Quiet \/ \E l \in Labs : Reminds(l)
  BY <1>1 DEF Quiet, Reminds, SameSession, Live
<1>2. ASSUME NEW o \in OpIds, NEW l \in Labs, NEW a \in Actions, Begins(o, l, a)
      PROVE  \/ Live' \subseteq Live
             \/ /\ Live' \subseteq Live \cup {l}
                /\ Cardinality(ActiveLabs) + 1 <= MaxActiveLabs
  BY <1>2 DEF Begins, SameSession, Live
<1>3. ASSUME NEW o \in OpIds, NEW l \in Labs, Ends(o, l)
      PROVE  Live' \subseteq Live
  BY <1>3, EndsAlone DEF Ends, SameSession, RequiredStatus, CompletedTo, Live
<1> QED BY <1>1, <1>2, <1>3 DEF OneOfFourKinds

\* The labs in preparation or in service never exceed LAB_MAX_ACTIVE: the
\* admission counts all active labs, and every other step only removes one.
THEOREM QuotaRespected == Spec => []LiveLabsWithinQuota
<1>1. Init => LiveLabsWithinQuota
  <2> SUFFICES ASSUME Init PROVE LiveLabsWithinQuota
    OBVIOUS
  <2>1. Live = {}
    BY DEF Init, Live, NoSession
  <2> QED BY <2>1, FS_EmptySet, ControlAssumption DEF LiveLabsWithinQuota
<1>2. ControlInv /\ LiveLabsWithinQuota /\ [Next]_vars => LiveLabsWithinQuota'
  <2> SUFFICES ASSUME ControlInv, LiveLabsWithinQuota, [Next]_vars
               PROVE  Cardinality(Live') <= MaxActiveLabs
    BY DEF LiveLabsWithinQuota
  <2>1. OneOfFourKinds
    BY NextKind DEF ControlInv
  <2>2. IsFiniteSet(Live) /\ IsFiniteSet(ActiveLabs) /\ Live \subseteq ActiveLabs
    BY ControlAssumption, FS_Subset DEF Live, ActiveLabs
  <2>3. CASE Live' \subseteq Live
    <3>1. Cardinality(Live') <= Cardinality(Live) /\ Cardinality(Live) \in Nat
          /\ Cardinality(Live') \in Nat
      BY <2>2, <2>3, FS_Subset, FS_CardinalityType
    <3> QED BY <3>1, ControlAssumption DEF LiveLabsWithinQuota
  <2>4. ASSUME NEW l \in Labs, Live' \subseteq Live \cup {l},
               Cardinality(ActiveLabs) + 1 <= MaxActiveLabs
        PROVE  Cardinality(Live') <= MaxActiveLabs
    <3>1. Live' \subseteq ActiveLabs \cup {l}
      BY <2>2, <2>4
    <3>2. IsFiniteSet(ActiveLabs \cup {l})
          /\ Cardinality(ActiveLabs \cup {l}) <= Cardinality(ActiveLabs) + 1
          /\ Cardinality(ActiveLabs) \in Nat /\ Cardinality(ActiveLabs \cup {l}) \in Nat
      <4> DEFINE S == ActiveLabs
      <4>1. IsFiniteSet(S)
        BY <2>2
      <4>2. IsFiniteSet(S \cup {l})
            /\ (Cardinality(S \cup {l}) = Cardinality(S)
                \/ Cardinality(S \cup {l}) = Cardinality(S) + 1)
        BY <4>1, FS_AddElement
      <4>3. Cardinality(S) \in Nat
        BY <4>1, FS_CardinalityType
      <4> HIDE DEF S
      <4> QED BY <4>2, <4>3 DEF S
    <3>3. Cardinality(Live') <= Cardinality(ActiveLabs \cup {l})
          /\ Cardinality(Live') \in Nat
      BY <3>1, <3>2, FS_Subset, FS_CardinalityType
    <3> QED BY <2>4, <3>2, <3>3, ControlAssumption
  <2> QED BY <2>1, <2>3, <2>4, LiveAfter
<1> QED BY <1>1, <1>2, ControlInvariant, PTL DEF Spec

\* Every status change of the SQL is one that CanTransition allows.
THEOREM TransitionsAreLegal == Spec => LegalTransitions
<1>1. ControlInv /\ [Next]_vars => [\A l \in Labs : LegalTransition(l)]_vars
  <2> SUFFICES ASSUME ControlInv, [Next]_vars, NEW m \in Labs PROVE LegalTransition(m)
    OBVIOUS
  <2> USE DEF ControlInv
  <2>1. OneOfFourKinds
    BY NextKind
  <2>2. CASE SameSession(m)
    BY <2>2 DEF SameSession, LegalTransition
  <2>3. CASE Reminds(m)
    BY <2>3 DEF Reminds, LegalTransition, CanTransition
  <2>4. ASSUME NEW o \in OpIds, NEW a \in Actions, Begins(o, m, a) PROVE LegalTransition(m)
    BY <2>4 DEF Begins, SameSession, LegalTransition, CanTransition
  <2>5. ASSUME NEW o \in OpIds, Ends(o, m) PROVE LegalTransition(m)
    <3> DEFINE from == session[m].status
               to   == session'[m].status
               act  == op[o].action
    <3>1. act \in Actions /\ from \in RequiredStatus(act) /\ to \in CompletedTo(act, from)
      BY <2>5, EndsAlone
    <3>2. \/ from = to
          \/ from = "Preparing" /\ to \in {"Running", "Failed"}
          \/ from \in Serving /\ to = "Failed"
          \/ from = "Expiring" /\ to = "Running"
          \/ from = "Terminating" /\ to \in {"Failed", "Terminated"}
      BY <3>1 DEF RequiredStatus, CompletedTo
    <3> QED BY <3>2 DEF LegalTransition, CanTransition
  <2>6. CASE Quiet
    BY <2>2, <2>6 DEF Quiet
  <2>7. ASSUME NEW l \in Labs, Reminds(l) PROVE LegalTransition(m)
    BY <2>2, <2>3, <2>7 DEF Reminds
  <2>8. ASSUME NEW o \in OpIds, NEW l \in Labs, NEW a \in Actions, Begins(o, l, a)
        PROVE  LegalTransition(m)
    <3>1. m # l => SameSession(m)
      BY <2>8 DEF Begins
    <3> QED BY <2>2, <2>4, <2>8, <3>1
  <2>9. ASSUME NEW o \in OpIds, NEW l \in Labs, Ends(o, l) PROVE LegalTransition(m)
    <3>1. m # l => SameSession(m)
      BY <2>9 DEF Ends
    <3> QED BY <2>2, <2>5, <2>9, <3>1
  <2> QED BY <2>1, <2>6, <2>7, <2>8, <2>9 DEF OneOfFourKinds
<1> QED BY <1>1, ControlInvariant, PTL DEF Spec, LegalTransitions

\* A finished operation is never touched again, and only the process that
\* holds the lease finishes one, with the outcome of its own work.
THEOREM LeaseHolderEndsOnce == Spec => EndedOnceByLeaseHolder
<1>1. ControlInv /\ [Next]_vars => [\A o \in OpIds : EndedByLeaseHolder(o)]_vars
  <2> SUFFICES ASSUME ControlInv, [Next]_vars, NEW o \in OpIds PROVE EndedByLeaseHolder(o)
    OBVIOUS
  <2> USE DEF ControlInv
  <2>1. CASE op'[o] = op[o]
    BY <2>1 DEF EndedByLeaseHolder
  <2>2. ASSUME NEW q \in OpIds, NEW l, NEW a, Insert(q, l, a) PROVE EndedByLeaseHolder(o)
    BY <2>2 DEF Insert, EndedByLeaseHolder, TypeOK
  <2>3. CASE Tick
    <3>1. op[o] \in Operations
      BY DEF TypeOK
    <3>2. op[o].lease = 0 => op'[o] = op[o]
      BY <2>3, <3>1 DEF Tick, Operations
    <3>3. op'[o].status = op[o].status
      BY <2>3, <3>1 DEF Tick, Operations
    <3> QED BY <3>2, <3>3 DEF LeasesWellFormed, EndedByLeaseHolder
  <2>4. ASSUME NEW p \in Procs, Claim(p) \/ MarkRunning(p) PROVE EndedByLeaseHolder(o)
    BY <2>4, ClaimRows DEF EndedByLeaseHolder
  <2>5. ASSUME NEW p \in Procs, Complete(p) PROVE EndedByLeaseHolder(o)
    <3>1. ASSUME NEW l \in Labs, NEW s \in Sessions, Completes(p, o, l, s)
          PROVE  EndedByLeaseHolder(o)
      <4>1. op[o] \in Operations /\ worker[p].op = o
        BY <3>1 DEF TypeOK, Completes
      <4>2. op'[o].status = IF worker[p].ok THEN "succeeded" ELSE "failed"
        BY <3>1, <4>1 DEF Completes, CompletedRow, TypeOK, Operations
      <4> QED BY <3>1, <4>2 DEF Completes, EndedByLeaseHolder
    <3>2. ASSUME NEW q \in OpIds, q # o, NEW l \in Labs, NEW s \in Sessions,
                 Completes(p, q, l, s)
          PROVE  op'[o] = op[o]
      BY <3>2 DEF Completes, TypeOK
    <3> QED BY <2>1, <2>5, <3>1, <3>2, CompleteShape DEF RollsBack
  <2>6. CASE Request
    <3>1. \E l \in Labs, q \in RequestIds, a \in Actions : Insert(q, l, a)
      BY ZenonT(30), <2>6 DEF Request, Create, EnqueueReset, EnqueueDestroy, EnqueueTopologyAction,
                  EnqueueAdjustment, EnqueueCacheAction
    <3> QED BY <2>2, <3>1 DEF OpIds
  <2>7. ASSUME NEW p \in Procs, NEW l \in Labs, AdvanceOne(p, l)
        PROVE  EndedByLeaseHolder(o)
    BY <2>1, <2>2, <2>7, ExpirationInOpIds
    DEF AdvanceOne, MarkExpiring, RestoreRunning, Expire, ExpireConflict, LeaveAlone
  <2> QED
    BY ZenonT(30), <2>1, <2>3, <2>4, <2>5, <2>6, <2>7 DEF Next, Step, Execute, Advance, Crash, vars
<1> QED BY <1>1, ControlInvariant, PTL DEF Spec, EndedOnceByLeaseHolder

\* The scheduler destroys no lab before its deadline, however stale its scan.
THEOREM NeverExpiredEarly == Spec => ExpiredOnlyWhenDue
<1>1. ControlInv /\ [Next]_vars => [\A l \in Labs : DueWhenExpired(l)]_vars
  <2> SUFFICES ASSUME ControlInv, [Next]_vars, NEW m \in Labs PROVE DueWhenExpired(m)
    OBVIOUS
  <2> USE DEF ControlInv
  <2> DEFINE e == ExpirationOperationID(m)
  <2>0. e \in OpIds
    BY ExpirationInOpIds
  <2>1. CASE op'[e].status = op[e].status
    BY <2>1 DEF DueWhenExpired
  <2>2. ASSUME NEW q \in OpIds, q # e, NEW l, NEW a, Insert(q, l, a)
        PROVE  DueWhenExpired(m)
    BY <2>0, <2>1, <2>2 DEF Insert, TypeOK
  <2>3. CASE Request
    <3>1. sched' = sched
      BY ZenonT(30), <2>3 DEF Request, Create, EnqueueReset, EnqueueDestroy, EnqueueTopologyAction,
                  EnqueueAdjustment, EnqueueCacheAction
    <3> QED BY <3>1 DEF DueWhenExpired
  <2>4. CASE Tick
    BY <2>0, <2>1, <2>4 DEF Tick, TypeOK, Operations
  <2>5. ASSUME NEW p \in Procs, Claim(p) \/ MarkRunning(p) PROVE DueWhenExpired(m)
    BY <2>0, <2>5, ClaimRows DEF DueWhenExpired
  <2>6. ASSUME NEW p \in Procs, Complete(p) PROVE DueWhenExpired(m)
    <3>1. ASSUME NEW q \in OpIds, NEW l \in Labs, NEW s \in Sessions, Completes(p, q, l, s)
          PROVE  op[e].status = "absent" => op'[e] = op[e]
      BY <2>0, <3>1 DEF Completes, TypeOK
    <3> QED BY ZenonT(30), <2>1, <2>6, <3>1, CompleteShape DEF RollsBack, DueWhenExpired
  <2>7. ASSUME NEW p \in Procs, NEW l \in Labs, AdvanceOne(p, l) PROVE DueWhenExpired(m)
    <3>1. CASE Expire(p, l) /\ l = m
      <4>1. session[m] \in Sessions /\ sched[p] \in Schedulers
        BY DEF TypeOK
      <4>2. -sched[p].lag >= Deadline(-session[m].total, -session[m].idle)
        BY <3>1 DEF Expire, SessionDecision, Evaluate
      <4>3. Deadline(-session[m].total, -session[m].idle) \in Int /\ sched[p].lag \in Nat
        BY <4>1, DeadlineAssumption DEF Deadline, Sessions, Schedulers
      <4> QED BY <4>2, <4>3 DEF DueWhenExpired
    <3>2. CASE Expire(p, l) /\ l # m
      <4>1. ExpirationOperationID(l) # e /\ ExpirationOperationID(l) \in OpIds
        BY <3>2, ExpirationInOpIds DEF ExpirationOperationID
      <4> QED BY <2>2, <3>2, <4>1 DEF Expire
    <3> QED
      BY <2>1, <2>7, <3>1, <3>2
      DEF AdvanceOne, MarkExpiring, RestoreRunning, ExpireConflict, LeaveAlone
  <2> QED
    BY Zenon, <2>1, <2>3, <2>4, <2>5, <2>6, <2>7 DEF Next, Step, Execute, Advance, Crash, vars
<1> QED BY <1>1, ControlInvariant, PTL DEF Spec, ExpiredOnlyWhenDue

-----------------------------------------------------------------------------
(***************************************************************************)
(* Leases under TimelySpec.                                                *)
(***************************************************************************)
\* Whoever may claim a row does not take it from a worker that keeps it: the
\* lease is longer than the command timeout.
LEMMA KeptIsNotClaimable ==
  ASSUME NEW p \in Procs, NEW o \in Claimable, TypeOK, KeepsLease(p, op[o])
  PROVE  op[o].action = "TOPOLOGY"
<1>1. op[o] \in Operations
  BY DEF TypeOK, Claimable
<1> QED BY <1>1, ControlAssumption DEF KeepsLease, Claimable, Operations

\* Time goes on only while every running command is within its timeout.
LEMMA TimelyTickKeeps ==
  ASSUME TypeOK, WorkersWellFormed, LeasesKept, TimelyTick
  PROVE  LeasesKept'
<1> SUFFICES ASSUME NEW p \in Procs, worker[p].pc # "idle"
             PROVE  KeepsLease(p, op'[worker[p].op])
  BY DEF LeasesKept, TimelyTick, Tick
<1> DEFINE row == op[worker[p].op]
           new == op'[worker[p].op]
<1>1. row \in Operations /\ worker[p].op \in OpIds /\ KeepsLease(p, row)
  BY DEF TypeOK, WorkersWellFormed, LeasesKept
<1>2. row.action = "TOPOLOGY" \/ LeaseDuration - row.lease < CommandTimeout
  BY DEF TimelyTick
<1>3. new = [row EXCEPT !.lease = IF row.lease = 0 THEN 0 ELSE row.lease - 1]
  BY <1>1 DEF TimelyTick, Tick
<1>4. new.status = row.status /\ new.action = row.action /\ new.owner = row.owner
  BY <1>1, <1>3 DEF Operations
<1>5. new.lease = IF row.lease = 0 THEN 0 ELSE row.lease - 1
  BY <1>1, <1>3 DEF Operations
<1>6. LeaseDuration - row.lease < CommandTimeout => LeaseDuration - new.lease <= CommandTimeout
  BY <1>1, <1>5, ControlAssumption DEF Operations
<1> QED BY <1>1, <1>2, <1>4, <1>6 DEF KeepsLease

\* A step of one worker leaves the others their rows and their leases.
LEMMA StepKeeps ==
  ASSUME TypeOK, RowsWellFormed, WorkersWellFormed, LeasesKept, NEW q \in Procs,
         Claim(q) \/ MarkRunning(q) \/ Complete(q)
  PROVE  LeasesKept'
<1> SUFFICES ASSUME NEW p \in Procs, worker'[p].pc # "idle"
             PROVE  KeepsLease(p, op'[worker'[p].op])
  BY DEF LeasesKept
<1>1. CASE Claim(q)
  <2>1. PICK o \in Claimable :
          /\ op' = [op EXCEPT ![o].status = "claimed", ![o].owner = q,
                              ![o].lease = LeaseDuration]
          /\ worker' = [worker EXCEPT ![q] = [pc |-> "claimed", op |-> o, ok |-> FALSE]]
    BY Zenon, <1>1 DEF Claim
  <2>2. o \in OpIds /\ op[o] \in Operations
    BY DEF Claimable, TypeOK
  <2>3. /\ op'[o].status = "claimed" /\ op'[o].owner = q /\ op'[o].lease = LeaseDuration
        /\ op'[o].action = op[o].action
    BY <2>1, <2>2 DEF TypeOK, Operations
  <2>4. CASE p = q
    <3>1. worker'[p].op = o
      BY <2>1, <2>4 DEF TypeOK
    <3> QED BY <2>3, <2>4, <3>1, ControlAssumption DEF KeepsLease
  <2>5. CASE p # q
    <3>1. worker'[p] = worker[p] /\ worker[p].pc # "idle" /\ worker[p].op \in OpIds
      BY <2>1, <2>5 DEF TypeOK, WorkersWellFormed
    <3>2. KeepsLease(p, op[worker[p].op])
      BY <3>1 DEF LeasesKept
    <3>3. CASE worker[p].op = o
      BY <2>3, <3>1, <3>2, <3>3, KeptIsNotClaimable DEF KeepsLease
    <3>4. CASE worker[p].op # o
      BY <2>1, <3>1, <3>2, <3>4 DEF TypeOK
    <3> QED BY <3>3, <3>4
  <2> QED BY <2>4, <2>5
<1>2. CASE MarkRunning(q)
  <2>1. worker[p].pc # "idle" /\ worker'[p].op = worker[p].op /\ worker[p].op \in OpIds
    BY <1>2 DEF MarkRunning, IdleWorker, TypeOK, Workers, WorkersWellFormed
  <2>2. KeepsLease(p, op[worker[p].op]) /\ op[worker[p].op] \in Operations
    BY <2>1 DEF LeasesKept, TypeOK
  <2>3. \/ op' = op
        \/ op' = [op EXCEPT ![worker[q].op].status = "running"]
    BY <1>2 DEF MarkRunning
  <2> QED BY <2>1, <2>2, <2>3 DEF KeepsLease, TypeOK, Operations
<1>3. CASE Complete(q)
  <2>1. /\ worker' = [worker EXCEPT ![q] = IdleWorker]
        /\ \/ op' = op
           \/ \E o \in OpIds : /\ op[o].owner = q /\ o = worker[q].op
                               /\ op' = [op EXCEPT ![o] = CompletedRow(q)]
    BY <1>3, CompleteShape DEF RollsBack, Completes
  <2>2. p # q /\ worker'[p] = worker[p] /\ worker[p].op \in OpIds
    BY <2>1 DEF IdleWorker, TypeOK, WorkersWellFormed
  <2>3. KeepsLease(p, op[worker[p].op])
    BY <2>2 DEF LeasesKept
  <2>4. ASSUME NEW o \in OpIds, op[o].owner = q, o = worker[q].op,
               op' = [op EXCEPT ![o] = CompletedRow(q)]
        PROVE  KeepsLease(p, op'[worker[p].op])
    <3>1. CASE worker[p].op # o
      BY <2>2, <2>3, <2>4, <3>1 DEF TypeOK
    <3>2. CASE worker[p].op = o
      <4>1. op[o].action = "TOPOLOGY" /\ op[o] \in Operations
        BY <2>2, <2>3, <2>4, <3>2 DEF KeepsLease, TypeOK
      <4>2. op'[o].action = "TOPOLOGY" /\ op'[o].status # "absent"
        BY <2>4, <4>1 DEF CompletedRow, TypeOK, Operations
      <4> QED BY <3>2, <4>2 DEF KeepsLease
    <3> QED BY <3>1, <3>2
  <2> QED BY <2>1, <2>2, <2>3, <2>4
<1> QED BY <1>1, <1>2, <1>3

\* Every other step inserts a row at most, and a worker goes on with the
\* operation it has or becomes idle.
LEMMA OthersKeep ==
  ASSUME TypeOK, WorkersWellFormed, LeasesKept,
         op' = op \/ \E o \in OpIds, l \in Labs, a \in Actions : Insert(o, l, a),
         \A p \in Procs : worker'[p].pc # "idle" =>
           worker[p].pc # "idle" /\ worker'[p].op = worker[p].op
  PROVE  LeasesKept'
<1> SUFFICES ASSUME NEW p \in Procs, worker'[p].pc # "idle"
             PROVE  KeepsLease(p, op'[worker'[p].op])
  BY DEF LeasesKept
<1>1. /\ worker'[p].op = worker[p].op /\ worker[p].op \in OpIds
      /\ KeepsLease(p, op[worker[p].op])
  BY DEF WorkersWellFormed, LeasesKept
<1>2. ASSUME NEW o \in OpIds, NEW l \in Labs, NEW a \in Actions, Insert(o, l, a)
      PROVE  op'[worker[p].op] = op[worker[p].op]
  BY <1>1, <1>2 DEF Insert, KeepsLease, TypeOK
<1> QED BY <1>1, <1>2

\* Every step of TimelySpec keeps the leases.
LEMMA LeasesKeptStep ==
  ASSUME TypeOK, RowsWellFormed, WorkersWellFormed, LeasesKept, [TimelyNext]_vars
  PROVE  LeasesKept'
<1>1. CASE UNCHANGED vars
  BY <1>1, OthersKeep DEF vars
<1>2. CASE Request
  <2>1. /\ UNCHANGED worker
        /\ \E l \in Labs, o \in RequestIds, a \in Actions : Insert(o, l, a)
    BY ZenonT(30), <1>2 DEF Request, Create, EnqueueReset, EnqueueDestroy, EnqueueTopologyAction,
                EnqueueAdjustment, EnqueueCacheAction
  <2> QED BY <2>1, OthersKeep DEF OpIds
<1>3. ASSUME NEW p \in Procs, Step(p) PROVE LeasesKept'
  <2>1. ASSUME NEW ok \in BOOLEAN, Execute(p, ok) PROVE LeasesKept'
    <3>1. \A q \in Procs : worker'[q].pc # "idle" =>
            worker[q].pc # "idle" /\ worker'[q].op = worker[q].op
      BY <2>1 DEF Execute, TypeOK, Workers
    <3> QED BY <2>1, <3>1, OthersKeep DEF Execute
  <2>2. CASE Crash(p)
    <3>1. \A q \in Procs : worker'[q].pc # "idle" =>
            worker[q].pc # "idle" /\ worker'[q].op = worker[q].op
      BY <2>2 DEF Crash, IdleWorker, TypeOK
    <3> QED BY <2>2, <3>1, OthersKeep DEF Crash
  <2>3. CASE Advance(p)
    BY <2>3, OthersKeep DEF Advance
  <2>4. ASSUME NEW l \in Labs, AdvanceOne(p, l) PROVE LeasesKept'
    <3>1. /\ UNCHANGED worker
          /\ op' = op \/ Insert(ExpirationOperationID(l), l, "DESTROY_LAB")
      BY Zenon, <2>4
      DEF AdvanceOne, MarkExpiring, RestoreRunning, Expire, ExpireConflict, LeaveAlone
    <3> QED BY <3>1, ExpirationInOpIds, OthersKeep
  <2> QED BY <1>3, <2>1, <2>2, <2>3, <2>4, StepKeeps DEF Step
<1> QED BY <1>1, <1>2, <1>3, TimelyTickKeeps DEF TimelyNext

\* Within the promised delays, for any number of processes, crashes and any
\* lease longer than the command timeout: two workers are never at work on
\* the same operation, unless it is a topology action, which sends several
\* commands under one lease.
THEOREM WorkersApart == TimelySpec => []SingleCommandsApart
<1>1. Init => ControlInv /\ LeasesKept
  BY InitInv DEF Init, IdleWorker, LeasesKept
<1>2. [TimelyNext]_vars => [Next]_vars
  BY DEF TimelyNext, TimelyTick, Next
<1>3. ControlInv /\ LeasesKept /\ [TimelyNext]_vars => (ControlInv /\ LeasesKept)'
  BY <1>2, NextInv, LeasesKeptStep DEF ControlInv
<1>4. LeasesKept => SingleCommandsApart
  BY DEF LeasesKept, KeepsLease, SingleCommandsApart, AtWork
<1> QED BY <1>1, <1>3, <1>4, PTL DEF TimelySpec

-----------------------------------------------------------------------------
(***************************************************************************)
(* The control plane implements LabSession, step by step.                  *)
(***************************************************************************)
\* The job of a lab without unfinished operations.
LEMMA JobWhenIdle ==
  ASSUME NEW l \in Labs
  PROVE  /\ UnfinishedOps(l) = {} => JobOf[l] = "none"
         /\ UnfinishedOps(l)' = {} => JobOf'[l] = "none"
BY DEF JobOf

\* The job of a lab with one unfinished operation.
LEMMA JobWhenBusy ==
  ASSUME NEW l \in Labs, NEW o
  PROVE  /\ UnfinishedOps(l) = {o} => JobOf[l] = op[o].action
         /\ UnfinishedOps(l)' = {o} => JobOf'[l] = op'[o].action
<1>1. ASSUME UnfinishedOps(l) = {o} PROVE JobOf[l] = op[o].action
  BY <1>1 DEF JobOf
<1>2. ASSUME UnfinishedOps(l)' = {o} PROVE JobOf'[l] = op'[o].action
  BY <1>2 DEF JobOf
<1> QED BY <1>1, <1>2

\* A lab that a step does not touch keeps its job.
LEMMA JobKept ==
  ASSUME SerialOperations, NEW l \in Labs, UnfinishedOps(l)' = UnfinishedOps(l),
         \A q \in UnfinishedOps(l) : op'[q].action = op[q].action
  PROVE  JobOf'[l] = JobOf[l]
<1>1. CASE UnfinishedOps(l) = {}
  BY <1>1, JobWhenIdle
<1>2. ASSUME NEW o \in UnfinishedOps(l) PROVE JobOf'[l] = JobOf[l]
  <2>1. UnfinishedOps(l) = {o}
    BY <1>2 DEF SerialOperations
  <2> QED BY <1>2, <2>1, JobWhenBusy
<1> QED BY <1>1, <1>2

\* The queue, its leases, retries and restarts implement the abstract lab:
\* each operation takes effect on its lab exactly once.
THEOREM Refinement == Spec => ImplementsLabSession
<1>1. Init => Abstract!Init
  <2> SUFFICES ASSUME Init PROVE Abstract!Init
    OBVIOUS
  <2>1. \A l \in Labs : UnfinishedOps(l) = {} /\ session[l].status = "None"
    BY DEF Init, UnfinishedOps, NoRow, NoSession
  <2> QED BY <2>1 DEF Abstract!Init, StatusOf, JobOf
<1>2. ControlInv /\ [Next]_vars => [Abstract!Next]_<<StatusOf, JobOf>>
  <2> SUFFICES ASSUME ControlInv, [Next]_vars
               PROVE  Abstract!Next \/ UNCHANGED <<StatusOf, JobOf>>
    OBVIOUS
  <2> USE DEF ControlInv
  <2>0. OneOfFourKinds
    BY NextKind
  \* The labs that the step is not about.
  <2>1. ASSUME NEW m \in Labs, SameSession(m), UnfinishedOps(m)' = UnfinishedOps(m),
               \A q \in UnfinishedOps(m) : op'[q].action = op[q].action
        PROVE  StatusOf'[m] = StatusOf[m] /\ JobOf'[m] = JobOf[m]
    BY <2>1, JobKept DEF SameSession, StatusOf
  <2>2. /\ StatusOf = [m \in Labs |-> StatusOf[m]] /\ JobOf = [m \in Labs |-> JobOf[m]]
        /\ StatusOf' = [m \in Labs |-> StatusOf'[m]] /\ JobOf' = [m \in Labs |-> JobOf'[m]]
    BY DEF StatusOf, JobOf
  <2>3. CASE Quiet
    <3>1. ASSUME NEW m \in Labs PROVE StatusOf'[m] = StatusOf[m] /\ JobOf'[m] = JobOf[m]
      <4>1. UnfinishedOps(m)' = UnfinishedOps(m)
        BY <2>3, UnfinishedAfter
      <4>2. SameSession(m) /\ \A q \in UnfinishedOps(m) : op'[q].action = op[q].action
        BY <2>3 DEF Quiet, SameRow, UnfinishedOps
      <4> QED BY <2>1, <4>1, <4>2
    <3> QED BY <2>2, <3>1
  <2>4. ASSUME NEW l \in Labs, Reminds(l) PROVE Abstract!Remind(l)
    <3>1. ASSUME NEW m \in Labs PROVE JobOf'[m] = JobOf[m]
      <4>1. UnfinishedOps(m)' = UnfinishedOps(m)
        BY <2>4, UnfinishedAfter
      <4>2. \A q \in UnfinishedOps(m) : op'[q].action = op[q].action
        BY <2>4 DEF Reminds, SameRow, UnfinishedOps
      <4> QED BY <4>1, <4>2, JobKept
    <3>2. StatusOf' = [StatusOf EXCEPT ![l] = session'[l].status]
      BY Zenon, <2>4 DEF Reminds, SameSession, StatusOf
    <3>3. StatusOf[l] = session[l].status
      BY DEF StatusOf
    <3> QED BY ZenonT(30), <2>2, <2>4, <3>1, <3>2, <3>3 DEF Reminds, Abstract!Remind
  <2>5. ASSUME NEW o \in OpIds, NEW l \in Labs, NEW a \in Actions, Begins(o, l, a)
        PROVE  Abstract!Open(l) \/ Abstract!Start(l, a)
    <3>1. ASSUME NEW m \in Labs, m # l PROVE JobOf'[m] = JobOf[m]
      <4>1. UnfinishedOps(m)' = UnfinishedOps(m)
        BY <2>5, <3>1, UnfinishedAfter
      <4>2. \A q \in UnfinishedOps(m) : op'[q].action = op[q].action
        BY <2>5 DEF Begins, SameRow, UnfinishedOps
      <4> QED BY <4>1, <4>2, JobKept
    <3>2. UnfinishedOps(l) = {} /\ UnfinishedOps(l)' = {o}
      BY <2>5, BeginsIdle, UnfinishedAfter
    <3>3. JobOf[l] = "none" /\ JobOf'[l] = a
      BY ZenonT(30), <2>5, <3>2, JobWhenIdle, JobWhenBusy DEF Begins
    <3>4. JobOf' = [JobOf EXCEPT ![l] = a]
      BY <2>2, <3>1, <3>3
    <3>5. /\ StatusOf' = [StatusOf EXCEPT ![l] = session'[l].status]
          /\ StatusOf[l] = session[l].status
      BY ZenonT(30), <2>5 DEF Begins, SameSession, StatusOf
    <3>6. session[l].status # "Preparing"
      BY <3>2 DEF StatusMatchesWork
    <3>7. CASE a = "CREATE_LAB"
      BY Zenon, <2>5, <3>4, <3>5, <3>7 DEF Begins, Abstract!Open
    <3>8. CASE a = "DESTROY_LAB"
      BY Zenon, <2>5, <3>3, <3>4, <3>5, <3>6, <3>8
      DEF Begins, Abstract!Start, Abstract!StartableIn
    <3>9. CASE a \notin {"CREATE_LAB", "DESTROY_LAB"}
      BY ZenonT(30), <2>5, <3>3, <3>4, <3>5, <3>9
      DEF Begins, SameSession, Abstract!Start, Abstract!StartableIn, Abstract!Serving
    <3> QED BY <3>7, <3>8, <3>9
  <2>6. ASSUME NEW o \in OpIds, NEW l \in Labs, Ends(o, l) PROVE Abstract!Finish(l)
    <3> DEFINE a == op[o].action
    <3>1. ASSUME NEW m \in Labs, m # l PROVE JobOf'[m] = JobOf[m]
      <4>1. UnfinishedOps(m)' = UnfinishedOps(m)
        BY <2>6, <3>1, EndsElsewhere
      <4>2. \A q \in UnfinishedOps(m) : op'[q].action = op[q].action
        BY <2>6 DEF Ends, SameRow, UnfinishedOps
      <4> QED BY <4>1, <4>2, JobKept
    <3>2. /\ UnfinishedOps(l) = {o} /\ UnfinishedOps(l)' = {} /\ a \in Actions
          /\ session[l].status \in RequiredStatus(a)
          /\ session'[l].status \in CompletedTo(a, session[l].status)
      BY <2>6, EndsAlone
    <3>3. JobOf[l] = a /\ JobOf'[l] = "none"
      BY <3>2, JobWhenIdle, JobWhenBusy
    <3>4. JobOf' = [JobOf EXCEPT ![l] = "none"]
      BY <2>2, <3>1, <3>3
    <3>5. /\ StatusOf' = [StatusOf EXCEPT ![l] = session'[l].status]
          /\ StatusOf[l] = session[l].status
      BY Zenon, <2>6 DEF Ends, SameSession, StatusOf
    <3>6. \/ /\ ~(a = "CACHE" /\ session[l].status = "Expiring")
             /\ session'[l].status = Abstract!Succeeded(a, session[l].status)
          \/ session'[l].status = Abstract!FailedTo(a, session[l].status)
      BY <3>2 DEF RequiredStatus, CompletedTo, Abstract!Succeeded, Abstract!FailedTo
    <3> QED BY ZenonT(30), <3>2, <3>3, <3>4, <3>5, <3>6 DEF Abstract!Finish
  <2> QED BY <2>0, <2>3, <2>4, <2>5, <2>6 DEF OneOfFourKinds, Abstract!Next
<1> QED BY <1>1, <1>2, ControlInvariant, PTL DEF Spec, ImplementsLabSession, Abstract!Spec
=============================================================================
