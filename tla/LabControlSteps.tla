------------------------- MODULE LabControlSteps ----------------------------
(***************************************************************************)
(* What a step of LabControl does: it keeps the types, it is of one of     *)
(* four kinds, and it keeps the inductive invariant ControlInv, for any    *)
(* number of users, labs, requests and processes, any quota and any timing.*)
(***************************************************************************)
EXTENDS LabControl, FiniteSetTheorems, TLAPS

USE DEF Status, Active, Serving, Unfinished, Finished, Actions

-----------------------------------------------------------------------------
(***************************************************************************)
(* What a step does to the tables.                                         *)
(***************************************************************************)
\* A row inserted by a request or an expiration is a well-formed row.
LEMMA InsertType ==
  ASSUME TypeOK, NEW o \in OpIds, NEW l \in Labs, NEW a \in Actions, Insert(o, l, a)
  PROVE  op' \in [OpIds -> Operations]
BY ControlAssumption DEF TypeOK, Insert, Operations

\* The identifier of an expiration is an operation identifier.
LEMMA ExpirationInOpIds ==
  ASSUME NEW l \in Labs
  PROVE  ExpirationOperationID(l) \in OpIds
BY DEF OpIds

(***************************************************************************)
(* What the five completing transactions have in common: the lease holder  *)
(* finishes its row and moves the session of its lab by CompletedTo.       *)
(***************************************************************************)
CompletedTo(a, from) ==
  CASE a = "CREATE_LAB"  -> IF from = "Preparing" THEN {"Running", "Failed"} ELSE {}
    [] a = "RESET_LAB"   -> IF from \in Serving THEN {"Running", "Failed"} ELSE {}
    [] a = "DESTROY_LAB" -> IF from = "Terminating" THEN {"Terminated", "Failed"} ELSE {}
    [] a = "TOPOLOGY"    -> {from} \cup (IF from \in Serving THEN {"Running"} ELSE {})
    [] OTHER             -> {from}

Completes(p, o, l, after) ==
  /\ worker[p].pc = "executed" /\ worker[p].op = o
  /\ op[o].status = "running" /\ op[o].owner = p /\ op[o].lab = l
  /\ op' = [op EXCEPT ![o] = CompletedRow(p)]
  /\ session' = [session EXCEPT ![l] = after]
  /\ worker' = [worker EXCEPT ![p] = IdleWorker]
  /\ UNCHANGED <<sched, crashes>>
  /\ after.user = session[l].user
  /\ after.status \in CompletedTo(op[o].action, session[l].status)

RollsBack(p) ==
  /\ worker[p].pc = "executed"
  /\ worker' = [worker EXCEPT ![p] = IdleWorker]
  /\ UNCHANGED <<session, op, sched, crashes>>

\* One transaction, once the session it writes is known to be of the right
\* kind whenever it writes it.
LEMMA CompleteTxShape ==
  ASSUME TypeOK, RowsWellFormed, WorkersWellFormed, NEW p \in Procs,
         worker[p].pc = "executed", NEW from, NEW after,
         SessionOf(p) \in Sessions /\ SessionOf(p).status \in from =>
           /\ after \in Sessions
           /\ after.user = SessionOf(p).user
           /\ after.status \in
                CompletedTo(op[worker[p].op].action, SessionOf(p).status),
         CompleteTx(p, from, after)
  PROVE  \/ RollsBack(p)
         \/ \E o \in OpIds, l \in Labs, s \in Sessions : Completes(p, o, l, s)
<1> DEFINE o == worker[p].op
           l == op[o].lab
<1>1. o \in OpIds
  BY DEF WorkersWellFormed
<1>2. CASE HoldsLease(p) /\ session[l].status \in from
  <2>1. l \in Labs
    BY <1>1, <1>2 DEF RowsWellFormed, HoldsLease
  <2>2. SessionOf(p) \in Sessions /\ SessionOf(p) = session[l]
    BY SMTT(20), <2>1 DEF SessionOf, TypeOK
  <2>3. after \in Sessions
    BY <1>2, <2>2
  <2>4. Completes(p, o, l, after)
    BY Zenon, <1>2, <2>2 DEF CompleteTx, Completes, HoldsLease
  <2> QED BY <1>1, <2>1, <2>3, <2>4
<1>3. CASE ~(HoldsLease(p) /\ session[l].status \in from)
  BY <1>3 DEF CompleteTx, RollsBack
<1> QED BY <1>2, <1>3

\* Each of the five completing transactions rolls back or completes.
LEMMA CompleteShape ==
  ASSUME TypeOK, RowsWellFormed, WorkersWellFormed, NEW p \in Procs, Complete(p)
  PROVE  \/ RollsBack(p)
         \/ \E o \in OpIds, l \in Labs, s \in Sessions : Completes(p, o, l, s)
<1> DEFINE old == SessionOf(p)
           a   == op[worker[p].op].action
<1>1. CASE CompleteProvision(p)
  <2> DEFINE new == IF worker[p].ok
                    THEN [old EXCEPT !.status = "Running", !.started = TRUE,
                                     !.total = 0, !.idle = 0]
                    ELSE [old EXCEPT !.status = "Failed"]
  <2>1. worker[p].pc = "executed" /\ a = "CREATE_LAB" /\ CompleteTx(p, {"Preparing"}, new)
    BY <1>1 DEF CompleteProvision, Executed
  <2>2. ASSUME old \in Sessions, old.status \in {"Preparing"}
        PROVE  new \in Sessions /\ new.user = old.user
               /\ new.status \in CompletedTo(a, old.status)
    BY Zenon, <2>1, <2>2 DEF Sessions, CompletedTo
  <2> QED BY Zenon, <2>1, <2>2, CompleteTxShape
<1>2. CASE CompleteReset(p)
  <2> DEFINE new == IF worker[p].ok
                    THEN [old EXCEPT !.status = "Running", !.idle = 0]
                    ELSE [old EXCEPT !.status = "Failed"]
  <2>1. worker[p].pc = "executed" /\ a = "RESET_LAB" /\ CompleteTx(p, Serving, new)
    BY <1>2 DEF CompleteReset, Executed
  <2>2. ASSUME old \in Sessions, old.status \in Serving
        PROVE  new \in Sessions /\ new.user = old.user
               /\ new.status \in CompletedTo(a, old.status)
    BY Zenon, <2>1, <2>2 DEF Sessions, CompletedTo
  <2> QED BY Zenon, <2>1, <2>2, CompleteTxShape
<1>3. CASE CompleteDestroy(p)
  <2> DEFINE new == [old EXCEPT !.status = IF worker[p].ok THEN "Terminated"
                                                           ELSE "Failed"]
  <2>1. worker[p].pc = "executed" /\ a = "DESTROY_LAB"
        /\ CompleteTx(p, {"Terminating"}, new)
    BY <1>3 DEF CompleteDestroy, Executed
  <2>2. ASSUME old \in Sessions, old.status \in {"Terminating"}
        PROVE  new \in Sessions /\ new.user = old.user
               /\ new.status \in CompletedTo(a, old.status)
    BY <2>1, <2>2 DEF Sessions, CompletedTo
  <2> QED BY Zenon, <2>1, <2>2, CompleteTxShape
<1>4. CASE /\ worker[p].pc = "executed" /\ a \in {"TOPOLOGY", "ADAPTIVE", "CACHE"}
           /\ CompleteTx(p, Status, old)
  <2>2. ASSUME old \in Sessions, old.status \in Status
        PROVE  old \in Sessions /\ old.user = old.user
               /\ old.status \in CompletedTo(a, old.status)
    BY <1>4, <2>2 DEF CompletedTo
  <2> QED BY <1>4, <2>2, CompleteTxShape
<1>5. CASE Executed(p, "TOPOLOGY") /\ worker[p].ok /\ CompleteTopology(p)
  <2> DEFINE new == [old EXCEPT !.status = "Running", !.idle = 0]
  <2>1. worker[p].pc = "executed" /\ a = "TOPOLOGY" /\ CompleteTx(p, Serving, new)
    BY <1>5 DEF CompleteTopology, Executed
  <2>2. ASSUME old \in Sessions, old.status \in Serving
        PROVE  new \in Sessions /\ new.user = old.user
               /\ new.status \in CompletedTo(a, old.status)
    BY Zenon, <2>1, <2>2 DEF Sessions, CompletedTo
  <2> QED BY Zenon, <2>1, <2>2, CompleteTxShape
<1>6. CASE worker[p].ok /\ CompleteCache(p)
  <2> DEFINE new == [old EXCEPT !.idle = 0]
  <2>1. worker[p].pc = "executed" /\ a = "CACHE" /\ CompleteTx(p, {"Running"}, new)
    BY <1>6 DEF CompleteCache, Executed
  <2>2. ASSUME old \in Sessions, old.status \in {"Running"}
        PROVE  new \in Sessions /\ new.user = old.user
               /\ new.status \in CompletedTo(a, old.status)
    BY <2>1, <2>2 DEF Sessions, CompletedTo
  <2> QED BY Zenon, <2>1, <2>2, CompleteTxShape
<1> QED
  BY <1>1, <1>2, <1>3, <1>4, <1>5, <1>6
  DEF Complete, CompleteTopology, CompleteCache, Executed

-----------------------------------------------------------------------------
(***************************************************************************)
(* Type correctness.                                                       *)
(***************************************************************************)
\* Time passing keeps ages, leases and lags natural numbers.
LEMMA TickType == TypeOK /\ Tick => TypeOK'
<1> SUFFICES ASSUME TypeOK, Tick PROVE TypeOK'
  OBVIOUS
<1>1. ASSUME NEW l \in Labs PROVE Older(session[l]) \in Sessions
  <2>1. session[l] \in Sessions
    BY DEF TypeOK
  <2>2. /\ Capped(session[l].total, MaxDuration + MaxLag) \in Nat
        /\ Capped(session[l].idle, IdleTimeout + MaxLag) \in Nat
    BY <2>1, DeadlineAssumption, ControlAssumption DEF Capped, Sessions
  <2> QED BY Zenon, <2>1, <2>2 DEF Older, Sessions
<1>2. ASSUME NEW o \in OpIds
      PROVE  [op[o] EXCEPT !.lease = IF @ = 0 THEN 0 ELSE @ - 1] \in Operations
  <2>1. op[o] \in Operations
    BY DEF TypeOK
  <2> QED BY <2>1 DEF Operations
<1>3. ASSUME NEW p \in Procs
      PROVE  (IF sched[p].todo = {} THEN sched[p]
              ELSE [sched[p] EXCEPT !.lag = @ + 1]) \in Schedulers
  <2>1. sched[p] \in Schedulers
    BY DEF TypeOK
  <2> QED BY <2>1 DEF Schedulers
<1>4. session' \in [Labs -> Sessions]
  BY <1>1 DEF Tick
<1>5. op' \in [OpIds -> Operations]
  BY <1>2 DEF Tick
<1>6. sched' \in [Procs -> Schedulers]
  BY <1>3 DEF Tick
<1> QED BY <1>4, <1>5, <1>6 DEF Tick, TypeOK

\* Removing a candidate leaves a well-formed scheduler.
LEMMA AdvancedType ==
  ASSUME TypeOK, NEW p \in Procs, NEW l \in Labs
  PROVE  Advanced(p, l) \in [Procs -> Schedulers]
<1>1. sched[p] \in Schedulers
  BY DEF TypeOK
<1>2. /\ IdleScheduler \in Schedulers
      /\ [todo |-> sched[p].todo \ {l}, lag |-> sched[p].lag] \in Schedulers
  BY <1>1 DEF Schedulers, IdleScheduler
<1> QED BY <1>2 DEF Advanced, TypeOK

\* UPDATE lab_sessions SET status leaves a well-formed session.
LEMMA StatusUpdateType ==
  ASSUME TypeOK, NEW l \in Labs, NEW s \in Status
  PROVE  [session EXCEPT ![l].status = s] \in [Labs -> Sessions]
<1>1. session[l] \in Sessions
  BY DEF TypeOK
<1>2. [session[l] EXCEPT !.status = s] \in Sessions
  BY <1>1 DEF Sessions
<1> QED BY <1>2 DEF TypeOK

\* An API request keeps the types.
LEMMA RequestType == TypeOK /\ Request => TypeOK'
<1> SUFFICES ASSUME TypeOK, NEW l \in Labs, NEW o \in RequestIds,
                    \/ \E u \in Users, s \in Scenarios : Create(u, l, s, o)
                    \/ EnqueueReset(l, o) \/ EnqueueDestroy(l, o)
                    \/ EnqueueTopologyAction(l, o) \/ EnqueueAdjustment(l, o)
                    \/ EnqueueCacheAction(l, o)
             PROVE  TypeOK'
  BY DEF Request
<1>0. o \in OpIds
  BY DEF OpIds
<1>1. ASSUME NEW u \in Users, NEW s \in Scenarios, Create(u, l, s, o) PROVE TypeOK'
  <2>1. session[l] \in Sessions
    BY DEF TypeOK
  <2>2. [[[session[l] EXCEPT !.status = "Preparing"] EXCEPT !.user = u]
           EXCEPT !.scenario = s] \in Sessions
    BY Zenon, <2>1 DEF Sessions
  <2>3. session' \in [Labs -> Sessions]
    BY Zenon, <1>1, <2>2 DEF Create, TypeOK
  <2> QED BY Zenon, <1>0, <1>1, <2>3, InsertType DEF Create, TypeOK
<1>2. CASE EnqueueDestroy(l, o)
  BY Zenon, <1>0, <1>2, InsertType, StatusUpdateType DEF EnqueueDestroy, TypeOK
<1>3. CASE EnqueueReset(l, o) \/ EnqueueTopologyAction(l, o)
           \/ EnqueueAdjustment(l, o) \/ EnqueueCacheAction(l, o)
  BY <1>0, <1>3, InsertType
  DEF EnqueueReset, EnqueueTopologyAction, EnqueueAdjustment, EnqueueCacheAction, TypeOK
<1> QED BY <1>1, <1>2, <1>3

\* advanceOne keeps the types.
LEMMA AdvanceOneType ==
  ASSUME TypeOK, NEW p \in Procs, NEW l \in Labs, AdvanceOne(p, l)
  PROVE  TypeOK'
<1>1. CASE MarkExpiring(p, l)
  BY Zenon, <1>1, AdvancedType, StatusUpdateType DEF MarkExpiring, AdvanceOne, TypeOK
<1>2. CASE RestoreRunning(p, l)
  BY Zenon, <1>2, AdvancedType, StatusUpdateType DEF RestoreRunning, AdvanceOne, TypeOK
<1>3. CASE Expire(p, l)
  BY Zenon, <1>3, AdvancedType, StatusUpdateType, ExpirationInOpIds, InsertType
  DEF Expire, AdvanceOne, TypeOK
<1>4. CASE ExpireConflict(p, l)
  <2>1. IdleScheduler \in Schedulers
    BY DEF IdleScheduler, Schedulers
  <2> QED BY <1>4, <2>1 DEF ExpireConflict, AdvanceOne, TypeOK
<1>5. CASE LeaveAlone(p, l)
  BY <1>5, AdvancedType DEF LeaveAlone, AdvanceOne, TypeOK
<1> QED BY <1>1, <1>2, <1>3, <1>4, <1>5 DEF AdvanceOne

\* A step of a worker or of a scheduler keeps the types.
LEMMA StepType ==
  ASSUME TypeOK, RowsWellFormed, WorkersWellFormed, NEW p \in Procs, Step(p)
  PROVE  TypeOK'
<1>0. IdleWorker \in Workers /\ IdleScheduler \in Schedulers
  BY DEF IdleWorker, Workers, IdleScheduler, Schedulers
<1>1. CASE Claim(p)
  <2>1. PICK o \in Claimable :
          /\ op' = [op EXCEPT ![o].status = "claimed", ![o].owner = p,
                              ![o].lease = LeaseDuration]
          /\ worker' = [worker EXCEPT ![p] = [pc |-> "claimed", op |-> o, ok |-> FALSE]]
    BY Zenon, <1>1 DEF Claim
  <2>2. o \in OpIds /\ op[o] \in Operations
    BY DEF Claimable, TypeOK
  <2>3. [[[op[o] EXCEPT !.status = "claimed"] EXCEPT !.owner = p]
           EXCEPT !.lease = LeaseDuration] \in Operations
    BY Zenon, <2>2, ControlAssumption DEF Operations
  <2>4. op' \in [OpIds -> Operations]
    BY <2>1, <2>2, <2>3 DEF TypeOK
  <2>5. worker' \in [Procs -> Workers]
    BY <2>1, <2>2 DEF TypeOK, Workers
  <2> QED BY <1>1, <2>4, <2>5 DEF Claim, TypeOK
<1>2. CASE MarkRunning(p)
  <2> DEFINE o == worker[p].op
  <2>1. o \in OpIds /\ op[o] \in Operations
    BY <1>2 DEF MarkRunning, WorkersWellFormed, TypeOK
  <2>2. [op[o] EXCEPT !.status = "running"] \in Operations
    BY <2>1 DEF Operations
  <2>3. op' \in [OpIds -> Operations]
    BY <1>2, <2>1, <2>2 DEF MarkRunning, TypeOK
  <2>4. [worker[p] EXCEPT !.pc = "running"] \in Workers
    BY DEF TypeOK, Workers
  <2>5. worker' \in [Procs -> Workers]
    BY <1>0, <1>2, <2>4 DEF MarkRunning, TypeOK
  <2> QED BY <1>2, <2>3, <2>5 DEF MarkRunning, TypeOK
<1>3. ASSUME NEW ok \in BOOLEAN, Execute(p, ok) PROVE TypeOK'
  <2>1. worker[p] \in Workers
    BY DEF TypeOK
  <2>2. [[worker[p] EXCEPT !.pc = "executed"] EXCEPT !.ok = ok] \in Workers
    BY Zenon, <2>1 DEF Workers
  <2> QED BY <1>3, <2>2 DEF Execute, TypeOK
<1>4. CASE Complete(p)
  <2>1. CASE RollsBack(p)
    BY <1>0, <2>1 DEF RollsBack, TypeOK
  <2>2. ASSUME NEW o \in OpIds, NEW l \in Labs, NEW s \in Sessions, Completes(p, o, l, s)
        PROVE  TypeOK'
    <3>1. op[o] \in Operations
      BY DEF TypeOK
    <3>2. CompletedRow(p) \in Operations
      BY Zenon, <2>2, <3>1 DEF Completes, CompletedRow, Operations
    <3> QED BY <1>0, <2>2, <3>2 DEF Completes, TypeOK
  <2> QED BY <1>4, <2>1, <2>2, CompleteShape
<1>5. CASE Advance(p)
  <2>1. [todo |-> Candidates, lag |-> 0] \in Schedulers
    BY DEF Candidates, Schedulers
  <2> QED BY <1>5, <2>1 DEF Advance, TypeOK
<1>6. ASSUME NEW l \in Labs, AdvanceOne(p, l) PROVE TypeOK'
  BY <1>6, AdvanceOneType
<1>7. CASE Crash(p)
  BY <1>0, <1>7 DEF Crash, TypeOK
<1> QED BY <1>1, <1>2, <1>3, <1>4, <1>5, <1>6, <1>7 DEF Step

-----------------------------------------------------------------------------
(***************************************************************************)
(* Every step is of one of four kinds, told apart by what it does to the   *)
(* parts of the two tables that the invariants are about.                  *)
(***************************************************************************)
SameRow(o) ==
  /\ op'[o].lab = op[o].lab /\ op'[o].action = op[o].action
  /\ op'[o].status \in Unfinished <=> op[o].status \in Unfinished
  /\ op'[o].status = "absent" <=> op[o].status = "absent"

SameSession(l) ==
  session'[l].status = session[l].status /\ session'[l].user = session[l].user

\* A step of a worker or of the clock that ends nothing.
Quiet ==
  (\A o \in OpIds : SameRow(o)) /\ (\A l \in Labs : SameSession(l))

\* The reminder window opens or closes.
Reminds(l) ==
  /\ \A o \in OpIds : SameRow(o)
  /\ \A m \in Labs \ {l} : SameSession(m)
  /\ session'[l].user = session[l].user
  /\ \/ session[l].status = "Running" /\ session'[l].status = "Expiring"
     \/ session[l].status = "Expiring" /\ session'[l].status = "Running"

\* An operation is accepted.
Begins(o, l, a) ==
  /\ op[o].status = "absent"
  /\ op'[o].status = "pending" /\ op'[o].lab = l /\ op'[o].action = a
  /\ \A q \in OpIds \ {o} : SameRow(q)
  /\ \A m \in Labs \ {l} : SameSession(m)
  /\ \/ /\ a = "CREATE_LAB" /\ o \in RequestIds
        /\ session[l].status = "None" /\ session'[l].status = "Preparing"
        /\ \A m \in ActiveLabs : session[m].user # session'[l].user
        /\ Cardinality(ActiveLabs) + 1 <= MaxActiveLabs
     \/ /\ a = "DESTROY_LAB" /\ (o \in RequestIds \/ o = ExpirationOperationID(l))
        /\ session[l].status \in {"Preparing", "Running", "Expiring", "Failed"}
        /\ session'[l].status = "Terminating"
        /\ session'[l].user = session[l].user
        /\ UnfinishedOps(l) = {}
     \/ /\ a \notin {"CREATE_LAB", "DESTROY_LAB"} /\ o \in RequestIds
        /\ session[l].status \in (IF a = "CACHE" THEN {"Running"} ELSE Serving)
        /\ SameSession(l)
        /\ UnfinishedOps(l) = {}

\* An operation is ended.
Ends(o, l) ==
  /\ op[o].status = "running" /\ op[o].lab = l
  /\ op'[o].status \in Finished
  /\ op'[o].lab = op[o].lab /\ op'[o].action = op[o].action
  /\ \A q \in OpIds \ {o} : SameRow(q)
  /\ \A m \in Labs \ {l} : SameSession(m)
  /\ session'[l].user = session[l].user
  /\ session'[l].status \in CompletedTo(op[o].action, session[l].status)

OneOfFourKinds ==
  \/ Quiet
  \/ \E l \in Labs : Reminds(l)
  \/ \E o \in OpIds, l \in Labs, a \in Actions : Begins(o, l, a)
  \/ \E o \in OpIds, l \in Labs : Ends(o, l)

\* Time passing changes no status, owner or action.
LEMMA TickKind == TypeOK /\ Tick => Quiet
<1> SUFFICES ASSUME TypeOK, Tick PROVE Quiet
  OBVIOUS
<1>1. ASSUME NEW l \in Labs PROVE SameSession(l)
  BY Zenon DEF Tick, Older, SameSession, TypeOK, Sessions
<1>2. ASSUME NEW o \in OpIds PROVE SameRow(o)
  BY DEF Tick, SameRow, TypeOK, Operations
<1> QED BY <1>1, <1>2 DEF Quiet

\* Insert changes one row; the rest of the table stays.
LEMMA InsertRows ==
  ASSUME TypeOK, NEW o \in OpIds, NEW l, NEW a, Insert(o, l, a)
  PROVE  /\ op[o].status = "absent"
         /\ op'[o].status = "pending" /\ op'[o].lab = l /\ op'[o].action = a
         /\ \A q \in OpIds \ {o} : SameRow(q)
BY DEF Insert, SameRow, TypeOK

\* An API request begins an operation.
LEMMA RequestKind == TypeOK /\ Request => OneOfFourKinds
<1> SUFFICES ASSUME TypeOK, NEW l \in Labs, NEW o \in RequestIds,
                    \/ \E u \in Users, s \in Scenarios : Create(u, l, s, o)
                    \/ EnqueueReset(l, o) \/ EnqueueDestroy(l, o)
                    \/ EnqueueTopologyAction(l, o) \/ EnqueueAdjustment(l, o)
                    \/ EnqueueCacheAction(l, o)
             PROVE  \E a \in Actions : Begins(o, l, a)
  BY DEF Request, OneOfFourKinds, OpIds
<1>0. o \in OpIds
  BY DEF OpIds
<1>1. ASSUME NEW u \in Users, NEW s \in Scenarios, Create(u, l, s, o)
      PROVE  Begins(o, l, "CREATE_LAB")
  <2>1. Insert(o, l, "CREATE_LAB")
    BY ZenonT(30), <1>1 DEF Create
  <2>2. \A m \in Labs \ {l} : SameSession(m)
    BY ZenonT(30), <1>1 DEF Create, SameSession, TypeOK
  <2>3. /\ session[l].status = "None" /\ session'[l].status = "Preparing"
        /\ session'[l].user = u
    BY ZenonT(30), <1>1 DEF Create, TypeOK, Sessions
  <2>4. /\ \A m \in ActiveLabs : session[m].user # u
        /\ Cardinality(ActiveLabs) + 1 <= MaxActiveLabs
    BY Zenon, <1>1 DEF Create, AdmitCreate
  <2> QED BY <1>0, <2>1, <2>2, <2>3, <2>4, InsertRows DEF Begins
<1>2. ASSUME EnqueueDestroy(l, o)
      PROVE  Begins(o, l, "DESTROY_LAB")
  <2>1. Insert(o, l, "DESTROY_LAB") /\ UnfinishedOps(l) = {}
    BY <1>2 DEF EnqueueDestroy
  <2>2. \A m \in Labs \ {l} : SameSession(m)
    BY <1>2 DEF EnqueueDestroy, SameSession, TypeOK
  <2>3. /\ session[l].status \in {"Preparing", "Running", "Expiring", "Failed"}
        /\ session'[l].status = "Terminating"
        /\ session'[l].user = session[l].user
    BY <1>2 DEF EnqueueDestroy, TypeOK, Sessions
  <2> QED BY <1>0, <2>1, <2>2, <2>3, InsertRows DEF Begins
<1>3. ASSUME NEW a \in {"RESET_LAB", "TOPOLOGY", "ADAPTIVE", "CACHE"},
             Insert(o, l, a), UnfinishedOps(l) = {}, UNCHANGED session,
             session[l].status \in (IF a = "CACHE" THEN {"Running"} ELSE Serving)
      PROVE  Begins(o, l, a)
  <2>1. \A m \in Labs : SameSession(m)
    BY <1>3 DEF SameSession
  <2> QED BY <1>0, <1>3, <2>1, InsertRows DEF Begins
<1> QED
  BY <1>1, <1>2, <1>3
  DEF EnqueueReset, EnqueueTopologyAction, EnqueueAdjustment, EnqueueCacheAction

\* advanceOne begins an expiration, moves the reminder or does nothing.
LEMMA AdvanceOneKind ==
  ASSUME TypeOK, NEW p \in Procs, NEW l \in Labs, AdvanceOne(p, l)
  PROVE  OneOfFourKinds
<1>1. CASE MarkExpiring(p, l)
  <2>1. session[l].status = "Running" /\ session[l] \in Sessions
    BY <1>1 DEF MarkExpiring, SessionDecision, Evaluate, TypeOK
  <2>2. Reminds(l)
    BY <1>1, <2>1 DEF MarkExpiring, Reminds, SameRow, SameSession, TypeOK, Sessions
  <2> QED BY <2>2 DEF OneOfFourKinds
<1>2. CASE RestoreRunning(p, l)
  <2>1. session[l].status = "Expiring" /\ session[l] \in Sessions
    BY <1>2 DEF RestoreRunning, SessionDecision, Evaluate, TypeOK
  <2>2. Reminds(l)
    BY <1>2, <2>1 DEF RestoreRunning, Reminds, SameRow, SameSession, TypeOK, Sessions
  <2> QED BY <2>2 DEF OneOfFourKinds
<1>3. CASE Expire(p, l)
  <2> DEFINE o == ExpirationOperationID(l)
  <2>0. o \in OpIds
    BY ExpirationInOpIds
  <2>1. Insert(o, l, "DESTROY_LAB") /\ UnfinishedOps(l) = {}
    BY <1>3 DEF Expire
  <2>2. \A m \in Labs \ {l} : SameSession(m)
    BY <1>3 DEF Expire, SameSession, TypeOK
  <2>3. /\ session[l].status \in {"Preparing", "Running", "Expiring", "Failed"}
        /\ session'[l].status = "Terminating"
        /\ session'[l].user = session[l].user
    BY <1>3 DEF Expire, TypeOK, Sessions
  <2>4. Begins(o, l, "DESTROY_LAB")
    BY SMTT(20), <2>0, <2>1, <2>2, <2>3, InsertRows DEF Begins
  <2> QED BY <2>0, <2>4 DEF OneOfFourKinds
<1>4. CASE ExpireConflict(p, l) \/ LeaveAlone(p, l)
  BY <1>4 DEF ExpireConflict, LeaveAlone, OneOfFourKinds, Quiet, SameRow, SameSession
<1> QED BY <1>1, <1>2, <1>3, <1>4 DEF AdvanceOne

\* A step of a process ends or begins an operation, moves the reminder or is
\* quiet.
LEMMA StepKind ==
  ASSUME TypeOK, RowsWellFormed, WorkersWellFormed, NEW p \in Procs, Step(p)
  PROVE  OneOfFourKinds
<1>1. CASE Claim(p)
  <2>1. PICK o \in Claimable :
          op' = [op EXCEPT ![o].status = "claimed", ![o].owner = p,
                           ![o].lease = LeaseDuration]
    BY Zenon, <1>1 DEF Claim
  <2>2. \A q \in OpIds : SameRow(q)
    BY <2>1 DEF Claimable, SameRow, TypeOK, Operations
  <2> QED BY <1>1, <2>2 DEF Claim, OneOfFourKinds, Quiet, SameSession
<1>2. CASE MarkRunning(p)
  <2>1. \A q \in OpIds : SameRow(q)
    BY <1>2 DEF MarkRunning, SameRow, TypeOK, Operations
  <2> QED BY <1>2, <2>1 DEF MarkRunning, OneOfFourKinds, Quiet, SameSession
<1>3. ASSUME NEW ok \in BOOLEAN, Execute(p, ok) PROVE OneOfFourKinds
  BY <1>3 DEF Execute, OneOfFourKinds, Quiet, SameSession, SameRow
<1>4. CASE Complete(p)
  <2>1. CASE RollsBack(p)
    BY <2>1 DEF RollsBack, OneOfFourKinds, Quiet, SameSession, SameRow
  <2>2. ASSUME NEW o \in OpIds, NEW l \in Labs, NEW s \in Sessions, Completes(p, o, l, s)
        PROVE  Ends(o, l)
    <3>1. op[o] \in Operations /\ worker[p].op = o
      BY <2>2 DEF TypeOK, Completes
    <3>2. /\ CompletedRow(p).status \in Finished
          /\ CompletedRow(p).lab = op[o].lab /\ CompletedRow(p).action = op[o].action
      BY <3>1 DEF CompletedRow, Operations
    <3>3. op'[o] = CompletedRow(p) /\ \A q \in OpIds \ {o} : op'[q] = op[q]
      BY <2>2 DEF Completes, TypeOK
    <3>4. session'[l] = s /\ \A m \in Labs \ {l} : session'[m] = session[m]
      BY <2>2 DEF Completes, TypeOK
    <3> QED BY <2>2, <3>2, <3>3, <3>4 DEF Completes, Ends, SameRow, SameSession
  <2> QED BY <1>4, <2>1, <2>2, CompleteShape DEF OneOfFourKinds
<1>5. CASE Advance(p) \/ Crash(p)
  BY <1>5 DEF Advance, Crash, OneOfFourKinds, Quiet, SameSession, SameRow
<1>6. ASSUME NEW l \in Labs, AdvanceOne(p, l) PROVE OneOfFourKinds
  BY <1>6, AdvanceOneKind
<1> QED BY <1>1, <1>2, <1>3, <1>4, <1>5, <1>6 DEF Step

\* Every step of the control plane keeps the types and is of one of the kinds.
LEMMA NextKind ==
  ASSUME TypeOK, RowsWellFormed, WorkersWellFormed, [Next]_vars
  PROVE  TypeOK' /\ OneOfFourKinds
<1>1. CASE Request
  BY <1>1, RequestType, RequestKind
<1>2. ASSUME NEW p \in Procs, Step(p) PROVE TypeOK' /\ OneOfFourKinds
  BY <1>2, StepType, StepKind
<1>3. CASE Tick
  BY <1>3, TickType, TickKind DEF OneOfFourKinds
<1>4. CASE UNCHANGED vars
  BY <1>4 DEF vars, TypeOK, OneOfFourKinds, Quiet, SameSession, SameRow
<1> QED BY <1>1, <1>2, <1>3, <1>4 DEF Next

-----------------------------------------------------------------------------
(***************************************************************************)
(* The inductive invariant, each conjunct once per kind of step.           *)
(***************************************************************************)
\* Unfinished rows name a lab and an action.
LEMMA RowsStep ==
  ASSUME TypeOK, RowsWellFormed, OneOfFourKinds
  PROVE  RowsWellFormed'
<1>1. CASE Quiet \/ \E l \in Labs : Reminds(l)
  BY <1>1 DEF Quiet, Reminds, SameRow, RowsWellFormed
<1>2. ASSUME NEW o \in OpIds, NEW l \in Labs, NEW a \in Actions, Begins(o, l, a)
      PROVE  RowsWellFormed'
  BY <1>2 DEF Begins, SameRow, RowsWellFormed
<1>3. ASSUME NEW o \in OpIds, NEW l \in Labs, Ends(o, l)
      PROVE  RowsWellFormed'
  BY <1>3 DEF Ends, SameRow, RowsWellFormed
<1> QED BY <1>1, <1>2, <1>3 DEF OneOfFourKinds

\* A busy worker remembers an operation.
LEMMA WorkersStep ==
  ASSUME TypeOK, RowsWellFormed, WorkersWellFormed, [Next]_vars
  PROVE  WorkersWellFormed'
<1>1. CASE UNCHANGED worker
  BY <1>1 DEF WorkersWellFormed
<1>2. ASSUME NEW p \in Procs, Step(p), worker' # worker PROVE WorkersWellFormed'
  <2>1. CASE worker' = [worker EXCEPT ![p] = IdleWorker]
    BY <2>1 DEF WorkersWellFormed, IdleWorker, TypeOK
  <2>2. CASE Claim(p)
    BY <2>2 DEF Claim, Claimable, WorkersWellFormed, TypeOK
  <2>3. CASE worker' = [worker EXCEPT ![p].pc = "running"] /\ worker[p].pc = "claimed"
    BY <2>3 DEF WorkersWellFormed, TypeOK, Workers
  <2>4. ASSUME NEW ok \in BOOLEAN, Execute(p, ok) PROVE WorkersWellFormed'
    BY <2>4 DEF Execute, WorkersWellFormed, TypeOK, Workers
  <2>5. CASE MarkRunning(p)
    BY <2>1, <2>3, <2>5 DEF MarkRunning
  <2>6. CASE Complete(p)
    BY <2>1, <2>6, CompleteShape DEF RollsBack, Completes
  <2>7. CASE Crash(p)
    BY <2>1, <2>7 DEF Crash
  <2> QED BY <1>2, <2>2, <2>4, <2>5, <2>6, <2>7 DEF Step, Advance, AdvanceOne
<1>3. CASE Request
  <2>1. UNCHANGED worker
    BY ZenonT(30), <1>3 DEF Request, Create, EnqueueReset, EnqueueDestroy, EnqueueTopologyAction,
                EnqueueAdjustment, EnqueueCacheAction
  <2> QED BY <1>1, <2>1
<1> QED BY <1>1, <1>2, <1>3 DEF Next, Tick, vars

\* Claim and MarkRunning change one unfinished row, which stays unfinished.
LEMMA ClaimRows ==
  ASSUME TypeOK, RowsWellFormed, WorkersWellFormed, NEW p \in Procs,
         Claim(p) \/ MarkRunning(p), NEW q \in OpIds
  PROVE  \/ op'[q] = op[q]
         \/ op[q].status \in Unfinished /\ op'[q].status \in {"claimed", "running"}
<1>1. CASE Claim(p)
  <2>1. PICK o \in Claimable :
          op' = [op EXCEPT ![o].status = "claimed", ![o].owner = p,
                           ![o].lease = LeaseDuration]
    BY Zenon, <1>1 DEF Claim
  <2> QED BY <2>1 DEF Claimable, TypeOK, Operations
<1>2. CASE MarkRunning(p)
  BY <1>2 DEF MarkRunning, TypeOK, Operations
<1> QED BY <1>1, <1>2

\* Rows that are not claimed or running carry no lease.
LEMMA LeasesStep ==
  ASSUME TypeOK, RowsWellFormed, LeasesWellFormed, WorkersWellFormed, [Next]_vars
  PROVE  LeasesWellFormed'
<1>1. CASE UNCHANGED op
  BY <1>1 DEF LeasesWellFormed
<1>2. ASSUME NEW o \in OpIds, NEW l, NEW a, Insert(o, l, a) PROVE LeasesWellFormed'
  BY <1>2 DEF Insert, LeasesWellFormed, TypeOK
<1>3. CASE Tick
  BY <1>3 DEF Tick, LeasesWellFormed, TypeOK, Operations
<1>4. ASSUME NEW p \in Procs, Claim(p) \/ MarkRunning(p) PROVE LeasesWellFormed'
  BY <1>4, ClaimRows DEF LeasesWellFormed
<1>5. ASSUME NEW p \in Procs, Complete(p) PROVE LeasesWellFormed'
  <2>1. ASSUME NEW o \in OpIds, NEW l \in Labs, NEW s \in Sessions, Completes(p, o, l, s)
        PROVE  LeasesWellFormed'
    <3>1. op[o] \in Operations /\ worker[p].op = o
      BY <2>1 DEF TypeOK, Completes
    <3>2. CompletedRow(p).lease = 0
      BY <3>1 DEF CompletedRow, Operations
    <3> QED BY <2>1, <3>2 DEF Completes, LeasesWellFormed, TypeOK
  <2> QED BY <1>1, <1>5, <2>1, CompleteShape DEF RollsBack
<1>6. CASE Request
  <2>1. \E l \in Labs, o \in RequestIds, a \in Actions : Insert(o, l, a)
    BY ZenonT(30), <1>6 DEF Request, Create, EnqueueReset, EnqueueDestroy, EnqueueTopologyAction,
                EnqueueAdjustment, EnqueueCacheAction
  <2> QED BY <1>2, <2>1 DEF OpIds
<1>7. ASSUME NEW p \in Procs, NEW l \in Labs, AdvanceOne(p, l) PROVE LeasesWellFormed'
  BY <1>1, <1>2, <1>7, ExpirationInOpIds
  DEF AdvanceOne, MarkExpiring, RestoreRunning, Expire, ExpireConflict, LeaveAlone
<1> QED
  BY Zenon, <1>1, <1>3, <1>4, <1>5, <1>6, <1>7 DEF Next, Step, Execute, Advance, Crash, vars

\* The unfinished operations of a lab, after each kind of step.
LEMMA UnfinishedAfter ==
  ASSUME TypeOK, NEW m \in Labs
  PROVE  /\ Quiet => UnfinishedOps(m)' = UnfinishedOps(m)
         /\ \A l \in Labs : Reminds(l) => UnfinishedOps(m)' = UnfinishedOps(m)
         /\ \A o \in OpIds, l \in Labs, a \in Actions : Begins(o, l, a) =>
              UnfinishedOps(m)' = IF m = l THEN UnfinishedOps(m) \cup {o} ELSE UnfinishedOps(m)
         /\ \A o \in OpIds, l \in Labs : Ends(o, l) =>
              UnfinishedOps(m)' = UnfinishedOps(m) \ {o}
<1>1. Quiet => UnfinishedOps(m)' = UnfinishedOps(m)
  BY DEF Quiet, SameRow, UnfinishedOps
<1>2. ASSUME NEW l \in Labs, Reminds(l) PROVE UnfinishedOps(m)' = UnfinishedOps(m)
  BY <1>2 DEF Reminds, SameRow, UnfinishedOps
<1>3. ASSUME NEW o \in OpIds, NEW l \in Labs, NEW a \in Actions, Begins(o, l, a)
      PROVE  UnfinishedOps(m)' = IF m = l THEN UnfinishedOps(m) \cup {o} ELSE UnfinishedOps(m)
  <2>1. op[o].status = "absent" /\ op'[o].status = "pending" /\ op'[o].lab = l
        /\ \A q \in OpIds \ {o} : SameRow(q)
    BY <1>3 DEF Begins
  <2> QED BY <2>1 DEF SameRow, UnfinishedOps
<1>4. ASSUME NEW o \in OpIds, NEW l \in Labs, Ends(o, l)
      PROVE  UnfinishedOps(m)' = UnfinishedOps(m) \ {o}
  BY <1>4 DEF Ends, SameRow, UnfinishedOps
<1> QED BY <1>1, <1>2, <1>3, <1>4

\* The end of an operation leaves those of the other labs alone.
LEMMA EndsElsewhere ==
  ASSUME TypeOK, NEW m \in Labs, NEW o \in OpIds, NEW l \in Labs, Ends(o, l), m # l
  PROVE  UnfinishedOps(m)' = UnfinishedOps(m)
<1>1. UnfinishedOps(m)' = UnfinishedOps(m) \ {o}
  BY UnfinishedAfter
<1>2. o \notin UnfinishedOps(m)
  BY DEF Ends, UnfinishedOps
<1> QED BY <1>1, <1>2

\* An operation begins on a lab that has none.
LEMMA BeginsIdle ==
  ASSUME TypeOK, StatusMatchesWork, NEW o \in OpIds, NEW l \in Labs, NEW a \in Actions,
         Begins(o, l, a)
  PROVE  UnfinishedOps(l) = {}
<1>1. CASE session[l].status = "None"
  BY <1>1 DEF StatusMatchesWork, RequiredStatus
<1> QED BY <1>1 DEF Begins

\* The operation that ends is the only one of its lab, in a status it needs.
LEMMA EndsAlone ==
  ASSUME TypeOK, RowsWellFormed, SerialOperations, StatusMatchesWork,
         NEW o \in OpIds, NEW l \in Labs, Ends(o, l)
  PROVE  /\ UnfinishedOps(l) = {o} /\ UnfinishedOps(l)' = {}
         /\ op[o].action \in Actions
         /\ session[l].status \in RequiredStatus(op[o].action)
         /\ session'[l].status \in CompletedTo(op[o].action, session[l].status)
<1>1. o \in UnfinishedOps(l)
  BY DEF Ends, UnfinishedOps
<1>2. UnfinishedOps(l) = {o}
  BY <1>1 DEF SerialOperations
<1>3. UnfinishedOps(l)' = {}
  BY <1>2, UnfinishedAfter
<1> QED BY <1>1, <1>2, <1>3 DEF StatusMatchesWork, RowsWellFormed, UnfinishedOps, Ends

\* The busy checks keep the operations of a lab serial.
LEMMA SerialStep ==
  ASSUME TypeOK, RowsWellFormed, SerialOperations, StatusMatchesWork, OneOfFourKinds
  PROVE  SerialOperations'
<1>1. CASE Quiet \/ \E l \in Labs : Reminds(l)
  BY <1>1, UnfinishedAfter DEF SerialOperations
<1>2. ASSUME NEW o \in OpIds, NEW l \in Labs, NEW a \in Actions, Begins(o, l, a)
      PROVE  SerialOperations'
  <2> SUFFICES ASSUME NEW m \in Labs
               PROVE  \A o1, o2 \in UnfinishedOps(m)' : o1 = o2
    BY DEF SerialOperations
  <2>1. m = l => UnfinishedOps(m)' = {o}
    BY <1>2, BeginsIdle, UnfinishedAfter
  <2>2. m # l => UnfinishedOps(m)' = UnfinishedOps(m)
    BY <1>2, UnfinishedAfter
  <2> QED BY <2>1, <2>2 DEF SerialOperations
<1>3. ASSUME NEW o \in OpIds, NEW l \in Labs, Ends(o, l)
      PROVE  SerialOperations'
  BY <1>3, UnfinishedAfter DEF SerialOperations
<1> QED BY <1>1, <1>2, <1>3 DEF OneOfFourKinds

\* Operations and statuses change together.
LEMMA StatusStep ==
  ASSUME TypeOK, RowsWellFormed, SerialOperations, StatusMatchesWork, OneOfFourKinds
  PROVE  StatusMatchesWork'
<1> DEFINE Agrees(m) ==
      /\ \A q \in UnfinishedOps(m) : session[m].status \in RequiredStatus(op[q].action)
      /\ session[m].status = "Preparing" =>
           \E q \in UnfinishedOps(m) : op[q].action = "CREATE_LAB"
      /\ session[m].status = "Terminating" =>
           \E q \in UnfinishedOps(m) : op[q].action = "DESTROY_LAB"
<1>0. ASSUME NEW m \in Labs PROVE Agrees(m)
  BY DEF StatusMatchesWork
<1> SUFFICES ASSUME NEW m \in Labs PROVE Agrees(m)'
  BY DEF StatusMatchesWork
\* A lab that the step does not touch.
<1>1. ASSUME SameSession(m), UnfinishedOps(m)' = UnfinishedOps(m),
             \A q \in UnfinishedOps(m) : op'[q].action = op[q].action
      PROVE  Agrees(m)'
  BY <1>0, <1>1 DEF SameSession, RequiredStatus
<1>2. CASE Quiet
  BY ZenonT(30), <1>1, <1>2, UnfinishedAfter DEF Quiet, SameRow, UnfinishedOps
<1>3. ASSUME NEW l \in Labs, Reminds(l) PROVE Agrees(m)'
  <2>1. /\ UnfinishedOps(m)' = UnfinishedOps(m)
        /\ \A q \in UnfinishedOps(m) : op'[q].action = op[q].action
    BY ZenonT(30), <1>3, UnfinishedAfter DEF Reminds, SameRow, UnfinishedOps
  <2>2. CASE m # l
    BY <1>1, <1>3, <2>1, <2>2 DEF Reminds
  <2>3. CASE m = l
    <3>1. \A q \in UnfinishedOps(m) :
            session[m].status \in Serving /\ session'[m].status \in Serving
            /\ op[q].action \notin {"CREATE_LAB", "DESTROY_LAB"}
      BY <1>0, <1>3, <2>3 DEF Reminds, RequiredStatus
    <3> QED BY <1>3, <2>1, <2>3, <3>1 DEF Reminds, RequiredStatus
  <2> QED BY <2>2, <2>3
<1>4. ASSUME NEW o \in OpIds, NEW l \in Labs, NEW a \in Actions, Begins(o, l, a)
      PROVE  Agrees(m)'
  <2>1. CASE m # l
    <3>1. UnfinishedOps(m)' = UnfinishedOps(m)
      BY <1>4, <2>1, UnfinishedAfter
    <3>2. \A q \in UnfinishedOps(m) : q \in OpIds \ {o}
      BY <1>4 DEF Begins, UnfinishedOps
    <3>3. \A q \in UnfinishedOps(m) : op'[q].action = op[q].action
      BY <1>4, <3>2 DEF Begins, SameRow
    <3>4. SameSession(m)
      BY <1>4, <2>1 DEF Begins
    <3> QED BY <1>1, <3>1, <3>3, <3>4
  <2>2. CASE m = l
    <3>0. UnfinishedOps(m)' = {o}
      BY <1>4, <2>2, BeginsIdle, UnfinishedAfter
    <3>1. UnfinishedOps(m)' = {o} /\ op'[o].action = a
      BY <1>4, <3>0 DEF Begins
    <3>2. /\ session'[m].status \in RequiredStatus(a)
          /\ session'[m].status = "Preparing" => a = "CREATE_LAB"
          /\ session'[m].status = "Terminating" => a = "DESTROY_LAB"
      BY <1>4, <2>2 DEF Begins, RequiredStatus, SameSession
    <3> QED BY <3>1, <3>2 DEF RequiredStatus
  <2> QED BY <2>1, <2>2
<1>5. ASSUME NEW o \in OpIds, NEW l \in Labs, Ends(o, l)
      PROVE  Agrees(m)'
  <2>1. CASE m # l
    <3>1. UnfinishedOps(m)' = UnfinishedOps(m)
      BY <1>5, <2>1, EndsElsewhere
    <3>2. \A q \in UnfinishedOps(m) : q \in OpIds \ {o}
      BY <1>5, <2>1 DEF Ends, UnfinishedOps
    <3>3. \A q \in UnfinishedOps(m) : op'[q].action = op[q].action
      BY <1>5, <3>2 DEF Ends, SameRow
    <3>4. SameSession(m)
      BY <1>5, <2>1 DEF Ends
    <3> QED BY <1>1, <3>1, <3>3, <3>4
  <2>2. CASE m = l
    <3>1. UnfinishedOps(m)' = {}
      BY <1>5, <2>2, EndsAlone
    <3>2. session'[m].status \notin {"Preparing", "Terminating"}
      BY Zenon, <1>5, <2>2, EndsAlone DEF RequiredStatus, CompletedTo
    <3> QED BY <3>1, <3>2
  <2> QED BY <2>1, <2>2
<1> QED BY <1>2, <1>3, <1>4, <1>5 DEF OneOfFourKinds

\* An operation to destroy a lab takes it out of service, and a lab that has
\* left service never returns to it.
LEMMA NeverDestroyedStep ==
  ASSUME TypeOK, RowsWellFormed, SerialOperations, StatusMatchesWork, NeverDestroyed,
         OneOfFourKinds
  PROVE  NeverDestroyed'
<1> DEFINE Early == {"None", "Preparing"} \cup Serving
<1> SUFFICES ASSUME NEW m \in Labs, session'[m].status \in Early,
                    NEW q \in OpIds, op'[q].lab = m
             PROVE  op'[q].action # "DESTROY_LAB"
  BY DEF NeverDestroyed
<1>0. ASSUME session[m].status \in Early, SameRow(q) PROVE op'[q].action # "DESTROY_LAB"
  BY <1>0 DEF SameRow, NeverDestroyed
<1>1. CASE Quiet
  BY <1>0, <1>1 DEF Quiet, SameSession
<1>2. ASSUME NEW l \in Labs, Reminds(l)
      PROVE  op'[q].action # "DESTROY_LAB"
  BY <1>0, <1>2 DEF Reminds, SameSession, Serving
<1>3. ASSUME NEW o \in OpIds, NEW l \in Labs, NEW a \in Actions, Begins(o, l, a)
      PROVE  op'[q].action # "DESTROY_LAB"
  <2>1. CASE q = o
    <3>1. op'[o].lab = l /\ op'[o].action = a BY <1>3 DEF Begins
    <3>2. a = "DESTROY_LAB" => session'[l].status = "Terminating" BY <1>3 DEF Begins
    <3> QED BY <2>1, <3>1, <3>2 DEF Serving
  <2>2. CASE q # o
    <3>1. session[m].status \in Early
      BY <1>3 DEF Begins, SameSession
    <3> QED BY <1>0, <1>3, <2>2, <3>1 DEF Begins
  <2> QED BY <2>1, <2>2
<1>4. ASSUME NEW o \in OpIds, NEW l \in Labs, Ends(o, l)
      PROVE  op'[q].action # "DESTROY_LAB"
  <2>1. session[m].status \in Early
    <3>1. CASE m # l
      BY <1>4, <3>1 DEF Ends, SameSession
    <3>2. CASE m = l
      BY Zenon, <1>4, <3>2, EndsAlone DEF RequiredStatus, CompletedTo
    <3> QED BY <3>1, <3>2
  <2>2. op'[q].lab = op[q].lab /\ op'[q].action = op[q].action
    BY <1>4 DEF Ends, SameRow
  <2> QED BY <2>1, <2>2 DEF NeverDestroyed
<1> QED BY <1>1, <1>2, <1>3, <1>4 DEF OneOfFourKinds

\* Only Create adds a live lab, and it looks at all active labs of the user.
LEMMA OneLiveStep ==
  ASSUME TypeOK, RowsWellFormed, SerialOperations, StatusMatchesWork, OneLiveLabPerUser,
         OneOfFourKinds
  PROVE  OneLiveLabPerUser'
<1> DEFINE Kept(m) == m \in Live' => m \in Live /\ session'[m].user = session[m].user
<1>1. (\A m \in Labs : Kept(m)) => OneLiveLabPerUser'
  BY DEF OneLiveLabPerUser, Live
<1>2. CASE Quiet
  BY <1>1, <1>2 DEF Quiet, SameSession, Live
<1>3. ASSUME NEW l \in Labs, Reminds(l) PROVE OneLiveLabPerUser'
  <2>1. \A m \in Labs : Kept(m)
    BY <1>3 DEF Reminds, SameSession, Live
  <2> QED BY <1>1, <2>1
<1>4. ASSUME NEW o \in OpIds, NEW l \in Labs, NEW a \in Actions, Begins(o, l, a)
      PROVE  OneLiveLabPerUser'
  <2>0. \A m \in Labs \ {l} : Kept(m)
    BY <1>4 DEF Begins, SameSession, Live
  <2>1. CASE a = "CREATE_LAB"
    <3>1. \A m \in Live : session[m].user # session'[l].user
      BY <1>4, <2>1 DEF Begins, Live, ActiveLabs
    <3> QED BY <2>0, <3>1 DEF OneLiveLabPerUser, Live
  <2>2. CASE a # "CREATE_LAB"
    <3>1. Kept(l)
      BY <1>4, <2>2 DEF Begins, SameSession, Live
    <3> QED BY <1>1, <2>0, <3>1
  <2> QED BY <2>1, <2>2
<1>5. ASSUME NEW o \in OpIds, NEW l \in Labs, Ends(o, l)
      PROVE  OneLiveLabPerUser'
  <2>1. \A m \in Labs \ {l} : Kept(m)
    BY <1>5 DEF Ends, SameSession, Live
  <2>2. Kept(l)
    BY <1>5, EndsAlone DEF Ends, RequiredStatus, CompletedTo, Live
  <2> QED BY SMTT(20), <1>1, <2>1, <2>2
<1> QED BY <1>2, <1>3, <1>4, <1>5 DEF OneOfFourKinds

\* The empty tables satisfy the invariant.
LEMMA InitInv == Init => ControlInv
<1> SUFFICES ASSUME Init PROVE ControlInv
  OBVIOUS
<1>1. NoSession \in Sessions /\ NoRow \in Operations
      /\ IdleWorker \in Workers /\ IdleScheduler \in Schedulers
  BY DEF NoSession, Sessions, NoRow, Operations, IdleWorker, Workers,
         IdleScheduler, Schedulers
<1>2. TypeOK
  BY <1>1 DEF Init, TypeOK
<1>3. \A l \in Labs : UnfinishedOps(l) = {} /\ session[l].status = "None"
  BY DEF Init, UnfinishedOps, NoRow, NoSession
<1>4. \A o \in OpIds : op[o].status = "absent"
  BY DEF Init, NoRow
<1>5. WorkersWellFormed
  BY DEF Init, WorkersWellFormed, IdleWorker
<1>6. RowsWellFormed /\ NeverDestroyed
  <2>1. \A o \in OpIds : op[o].action = "none" BY DEF Init, NoRow
  <2> QED BY <1>4, <2>1 DEF RowsWellFormed, NeverDestroyed, Unfinished
<1>8. LeasesWellFormed
  BY DEF Init, LeasesWellFormed, NoRow
<1>7. SerialOperations /\ StatusMatchesWork /\ OneLiveLabPerUser
  BY <1>3 DEF SerialOperations, StatusMatchesWork, OneLiveLabPerUser, Live
<1> QED BY <1>2, <1>5, <1>6, <1>7, <1>8 DEF ControlInv

\* Every step, delay and restart preserves the invariant.
LEMMA NextInv == ControlInv /\ [Next]_vars => ControlInv'
<1> SUFFICES ASSUME ControlInv, [Next]_vars PROVE ControlInv'
  OBVIOUS
<1> USE DEF ControlInv
<1>1. TypeOK' /\ OneOfFourKinds
  BY NextKind
<1>2. RowsWellFormed' /\ LeasesWellFormed' /\ WorkersWellFormed'
  BY <1>1, RowsStep, LeasesStep, WorkersStep
<1>3. SerialOperations' /\ StatusMatchesWork'
  BY <1>1, SerialStep, StatusStep
<1>4. NeverDestroyed' /\ OneLiveLabPerUser'
  BY <1>1, NeverDestroyedStep, OneLiveStep
<1> QED BY <1>1, <1>2, <1>3, <1>4

\* The inductive invariant holds in every reachable state: no interleaving
\* of requests, workers, schedulers, restarts and delays breaks it.
THEOREM ControlInvariant == Spec => []ControlInv
BY InitInv, NextInv, PTL DEF Spec
=============================================================================
