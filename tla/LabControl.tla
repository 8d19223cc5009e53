----------------------------- MODULE LabControl -----------------------------
(***************************************************************************)
(* The control plane of platform-api: lab sessions, the persistent queue   *)
(* of lab operations with its leases, the operation worker and the         *)
(* lifecycle scheduler of every platform-api process, and the API          *)
(* requests that feed the queue.                                           *)
(*                                                                         *)
(* Every database transaction of the code is one step: it locks the        *)
(* session row (FOR UPDATE) or the operation row it decides on, and either *)
(* commits or leaves the database as it was.  What a process remembers     *)
(* between two transactions is a variable of that process and is lost when *)
(* it crashes.                                                             *)
(*                                                                         *)
(* Operations are told apart by what they do to the session: TOPOLOGY      *)
(* stands for ADD_INSTANCE, REMOVE_INSTANCE, SET_INSTANCE_PERFORMANCE,     *)
(* SET_INSTANCE_WEIGHTS and SET_BALANCING_MODE, ADAPTIVE for               *)
(* APPLY_ADAPTIVE_WEIGHTS, CACHE for the four cache-layer actions.         *)
(*                                                                         *)
(* Time is relative.  A session carries the age of its started_at and of   *)
(* its last_effective_action_at, an operation the rest of its lease; Tick  *)
(* moves all of them.  Ages stop growing once no comparison of the code    *)
(* can tell them apart, so the clock never has to stop.                    *)
(***************************************************************************)
EXTENDS LabStatus, FiniteSets

CONSTANTS
  Users,           \* accounts
  Labs,            \* lab identifiers
  RequestIds,      \* operation identifiers made by clients and the balancer;
                   \* validOperationID accepts those of the scheduler too
  Procs,           \* platform-api processes (lease owners)
  Scenarios,       \* scenario types that courses offer
  MaxActiveLabs,   \* LAB_MAX_ACTIVE
  LeaseDuration,   \* LAB_OPERATION_LEASE
  CommandTimeout,  \* LAB_ORCHESTRATOR_TIMEOUT
  MaxLag,          \* bound: how old the time of a lifecycle scan may get
  MaxCrashes,      \* bound: how often a process may abandon its work
  NoUser, NoLab, NoOp, NoProc

ScenarioTypes == {"application_data_separation", "application_cluster", "multi_level_cache"}

\* expirationOperationID: derived from the lab alone.
ExpirationOperationID(l) == <<"system-expire", l>>

OpIds == RequestIds \cup {ExpirationOperationID(l) : l \in Labs}

\* newWorker requires the lease to exceed the command timeout.
ASSUME ControlAssumption ==
  /\ IsFiniteSet(Labs)
  /\ Scenarios \subseteq ScenarioTypes
  /\ MaxActiveLabs \in Nat /\ MaxLag \in Nat /\ MaxCrashes \in Nat
  /\ LeaseDuration \in Nat /\ CommandTimeout \in Nat
  /\ 0 < CommandTimeout /\ CommandTimeout < LeaseDuration
  /\ NoUser \notin Users /\ NoLab \notin Labs
  /\ NoOp \notin OpIds /\ NoProc \notin Procs

VARIABLES
  session,   \* table lab_sessions
  op,        \* table lab_operations
  worker,    \* what each process's operation worker remembers
  sched,     \* what each process's lifecycle scheduler remembers
  crashes    \* number of crashes so far

vars == <<session, op, worker, sched, crashes>>

-----------------------------------------------------------------------------
(***************************************************************************)
(* State.                                                                  *)
(***************************************************************************)
Actions == {"CREATE_LAB", "RESET_LAB", "DESTROY_LAB", "TOPOLOGY", "ADAPTIVE", "CACHE"}

Unfinished == {"pending", "claimed", "running"}
Finished   == {"succeeded", "failed"}

NoSession == [status |-> "None", user |-> NoUser, scenario |-> "none",
              started |-> FALSE, total |-> 0, idle |-> 0]

Sessions ==
  [status   : Status \cup {"None"},
   user     : Users \cup {NoUser},
   scenario : Scenarios \cup {"none"},
   started  : BOOLEAN,   \* started_at and last_effective_action_at are set
   total    : Nat,       \* age of started_at
   idle     : Nat]       \* age of last_effective_action_at

NoRow == [status |-> "absent", lab |-> NoLab, action |-> "none",
          owner |-> NoProc, lease |-> 0]

Operations ==
  [status : {"absent"} \cup Unfinished \cup Finished,
   lab    : Labs \cup {NoLab},
   action : Actions \cup {"none"},
   owner  : Procs \cup {NoProc},
   lease  : Nat]         \* time left until lease_expires_at

IdleWorker == [pc |-> "idle", op |-> NoOp, ok |-> FALSE]

Workers ==
  [pc  : {"idle", "claimed", "running", "executed"},
   op  : OpIds \cup {NoOp},
   ok  : BOOLEAN]        \* outcome of the external work

IdleScheduler == [todo |-> {}, lag |-> 0]

Schedulers ==
  [todo : SUBSET Labs,   \* candidates of this scan still to be advanced
   lag  : Nat]           \* age of the scan's time

TypeOK ==
  /\ session \in [Labs -> Sessions]
  /\ op \in [OpIds -> Operations]
  /\ worker \in [Procs -> Workers]
  /\ sched \in [Procs -> Schedulers]
  /\ crashes \in Nat

Init ==
  /\ session = [l \in Labs |-> NoSession]
  /\ op = [o \in OpIds |-> NoRow]
  /\ worker = [p \in Procs |-> IdleWorker]
  /\ sched = [p \in Procs |-> IdleScheduler]
  /\ crashes = 0

-----------------------------------------------------------------------------
(***************************************************************************)
(* API requests.  A request whose operation identifier is already in the   *)
(* table changes nothing, so every action below starts from an absent row. *)
(***************************************************************************)
UnfinishedOps(l) == {o \in OpIds : op[o].lab = l /\ op[o].status \in Unfinished}

Insert(o, l, a) ==
  /\ op[o].status = "absent"
  /\ op' = [op EXCEPT ![o] = [status |-> "pending", lab |-> l, action |-> a,
                              owner |-> NoProc, lease |-> 0]]

ActiveLabs == {l \in Labs : session[l].status \in Active}

\* Mutant: the admission test is off by one.
AdmitCreateOffByOne(u) ==
  /\ \A l \in ActiveLabs : session[l].user # u
  /\ Cardinality(ActiveLabs) <= MaxActiveLabs

\* Mutant: a lab in preparation does not block its owner.
AdmitCreateWhilePreparing(u) ==
  /\ \A l \in ActiveLabs : session[l].user = u => session[l].status = "Preparing"
  /\ Cardinality(ActiveLabs) + 1 <= MaxActiveLabs

\* One active lab per user and a global limit, decided under the user's row
\* lock and the global admission lock.  The container quota, which can only
\* refuse more, is left out.
AdmitCreate(u) ==
  /\ \A l \in ActiveLabs : session[l].user # u
  /\ Cardinality(ActiveLabs) + 1 <= MaxActiveLabs

Create(u, l, s, o) ==
  /\ session[l].status = "None"
  /\ AdmitCreate(u)
  /\ session' = [session EXCEPT ![l].status = "Preparing", ![l].user = u,
                                ![l].scenario = s]
  /\ Insert(o, l, "CREATE_LAB")
  /\ UNCHANGED <<worker, sched, crashes>>

EnqueueReset(l, o) ==
  /\ session[l].status \in Serving
  /\ UnfinishedOps(l) = {}
  /\ Insert(o, l, "RESET_LAB")
  /\ UNCHANGED <<session, worker, sched, crashes>>

\* Mutant: a destroy request does not look for an unfinished operation.
EnqueueDestroyUnserialized(l, o) ==
  /\ session[l].status \in {"Preparing", "Running", "Expiring", "Failed"}
  /\ session' = [session EXCEPT ![l].status = "Terminating"]
  /\ Insert(o, l, "DESTROY_LAB")
  /\ UNCHANGED <<worker, sched, crashes>>

EnqueueDestroy(l, o) ==
  /\ session[l].status \in {"Preparing", "Running", "Expiring", "Failed"}
  /\ UnfinishedOps(l) = {}
  /\ session' = [session EXCEPT ![l].status = "Terminating"]
  /\ Insert(o, l, "DESTROY_LAB")
  /\ UNCHANGED <<worker, sched, crashes>>

EnqueueTopologyAction(l, o) ==
  /\ session[l].status \in Serving
  /\ session[l].scenario = "application_cluster"
  /\ UnfinishedOps(l) = {}
  /\ Insert(o, l, "TOPOLOGY")
  /\ UNCHANGED <<session, worker, sched, crashes>>

\* The adaptive balancer's internal operation; whether the lab is in
\* adaptive mode and the weights differ is left to chance.
EnqueueAdjustment(l, o) ==
  /\ session[l].status \in Serving
  /\ session[l].scenario = "application_cluster"
  /\ UnfinishedOps(l) = {}
  /\ Insert(o, l, "ADAPTIVE")
  /\ UNCHANGED <<session, worker, sched, crashes>>

EnqueueCacheAction(l, o) ==
  /\ session[l].status = "Running"
  /\ session[l].scenario = "multi_level_cache"
  /\ UnfinishedOps(l) = {}
  /\ Insert(o, l, "CACHE")
  /\ UNCHANGED <<session, worker, sched, crashes>>

-----------------------------------------------------------------------------
(***************************************************************************)
(* The operation worker: claim, mark running, external work, completion.   *)
(***************************************************************************)
\* Mutant: an operation is claimed again whether or not its lease is over.
ClaimableAnyLease == {o \in OpIds : op[o].status \in Unfinished}

\* Mutant: a lease that ran out is not taken over.
ClaimablePendingOnly == {o \in OpIds : op[o].status = "pending"}

Claimable ==
  {o \in OpIds : \/ op[o].status = "pending"
                 \/ op[o].status \in {"claimed", "running"} /\ op[o].lease = 0}

\* The query orders by created_at, which is a time its requester read before
\* the transaction that inserted it, and skips rows that other transactions
\* have locked: any claimable row may come first.
Claim(p) ==
  /\ worker[p].pc = "idle"
  /\ \E o \in Claimable :
       /\ op' = [op EXCEPT ![o].status = "claimed", ![o].owner = p,
                           ![o].lease = LeaseDuration]
       /\ worker' = [worker EXCEPT ![p] = [pc |-> "claimed", op |-> o,
                                           ok |-> FALSE]]
  /\ UNCHANGED <<session, sched, crashes>>

\* processOne passes both calls the time it read before the claim, so the
\* lease_expires_at that MarkRunning writes is the one already in the row.
MarkRunning(p) ==
  LET o == worker[p].op
  IN  /\ worker[p].pc = "claimed"
      /\ IF op[o].status = "claimed" /\ op[o].owner = p
         THEN /\ op' = [op EXCEPT ![o].status = "running"]
              /\ worker' = [worker EXCEPT ![p].pc = "running"]
         ELSE /\ worker' = [worker EXCEPT ![p] = IdleWorker]
              /\ UNCHANGED op
      /\ UNCHANGED <<session, sched, crashes>>

\* The commands sent to the orchestrator (or to the cache instance) and
\* everything that makes the worker report a failure: an unreachable
\* orchestrator, a failed or rejected command, an incomplete result.
Execute(p, ok) ==
  /\ worker[p].pc = "running"
  /\ worker' = [worker EXCEPT ![p].pc = "executed", ![p].ok = ok]
  /\ UNCHANGED <<session, op, sched, crashes>>

\* Mutant: completion checks the status of the row but not its owner.
HoldsLeaseAnyOwner(p) == op[worker[p].op].status = "running"

HoldsLease(p) ==
  LET o == worker[p].op IN op[o].status = "running" /\ op[o].owner = p

\* Mutant: a failed operation is left for a compensation nobody runs.
CompletedRowCompensating(p) ==
  [op[worker[p].op] EXCEPT
     !.status = IF worker[p].ok THEN "succeeded" ELSE "compensating",
     !.owner = NoProc, !.lease = 0]

\* completeOperationRecord, inside a completing transaction.
CompletedRow(p) ==
  [op[worker[p].op] EXCEPT
     !.status = IF worker[p].ok THEN "succeeded" ELSE "failed",
     !.owner = NoProc, !.lease = 0]

\* One completing transaction: it needs the lease and, when it also updates
\* the session, one of the statuses in from; otherwise it rolls back and
\* the worker moves on.
CompleteTx(p, from, after) ==
  LET o == worker[p].op
      l == op[o].lab
  IN  /\ IF HoldsLease(p) /\ session[l].status \in from
         THEN /\ op' = [op EXCEPT ![o] = CompletedRow(p)]
              /\ session' = [session EXCEPT ![l] = after]
         ELSE UNCHANGED <<op, session>>
      /\ worker' = [worker EXCEPT ![p] = IdleWorker]
      /\ UNCHANGED <<sched, crashes>>

Executed(p, a) == worker[p].pc = "executed" /\ op[worker[p].op].action = a

SessionOf(p) == session[op[worker[p].op].lab]

CompleteProvision(p) ==
  /\ Executed(p, "CREATE_LAB")
  /\ CompleteTx(p, {"Preparing"},
       IF worker[p].ok
       THEN [SessionOf(p) EXCEPT !.status = "Running", !.started = TRUE,
                                 !.total = 0, !.idle = 0]
       ELSE [SessionOf(p) EXCEPT !.status = "Failed"])

CompleteReset(p) ==
  /\ Executed(p, "RESET_LAB")
  /\ CompleteTx(p, Serving,
       IF worker[p].ok
       THEN [SessionOf(p) EXCEPT !.status = "Running", !.idle = 0]
       ELSE [SessionOf(p) EXCEPT !.status = "Failed"])

CompleteDestroy(p) ==
  /\ Executed(p, "DESTROY_LAB")
  /\ CompleteTx(p, {"Terminating"},
       [SessionOf(p) EXCEPT !.status = IF worker[p].ok THEN "Terminated"
                                                       ELSE "Failed"])

CompleteTopology(p) ==
  \/ /\ Executed(p, "TOPOLOGY")
     /\ IF worker[p].ok
        THEN CompleteTx(p, Serving, [SessionOf(p) EXCEPT !.status = "Running",
                                                         !.idle = 0])
        ELSE CompleteTx(p, Status, SessionOf(p))
  \/ /\ Executed(p, "ADAPTIVE")
     /\ CompleteTx(p, Status, SessionOf(p))

CompleteCache(p) ==
  /\ Executed(p, "CACHE")
  /\ IF worker[p].ok
     THEN CompleteTx(p, {"Running"}, [SessionOf(p) EXCEPT !.idle = 0])
     ELSE CompleteTx(p, Status, SessionOf(p))

Complete(p) ==
  \/ CompleteProvision(p) \/ CompleteReset(p) \/ CompleteDestroy(p)
  \/ CompleteTopology(p) \/ CompleteCache(p)

-----------------------------------------------------------------------------
(***************************************************************************)
(* The lifecycle scheduler: list the candidates at one time, then advance  *)
(* each of them in a transaction of its own with that same time.           *)
(***************************************************************************)
\* Mutant: a lab in the reminder window is no longer looked at.
CandidatesRunningOnly == {l \in Labs : session[l].status = "Running"}

Candidates == {l \in Labs : session[l].status \in Serving}

Advance(p) ==
  /\ sched[p].todo = {}
  /\ Candidates # {}
  /\ sched' = [sched EXCEPT ![p] = [todo |-> Candidates, lag |-> 0]]
  /\ UNCHANGED <<session, op, worker, crashes>>

SessionDecision(s, now) ==
  IF s.started THEN Evaluate(now, s.status, -s.total, -s.idle) ELSE "none"

\* The scan goes on with the other candidates, or is over.
Advanced(p, l) ==
  [sched EXCEPT ![p] =
     IF @.todo = {l} THEN IdleScheduler
     ELSE [todo |-> sched[p].todo \ {l}, lag |-> sched[p].lag]]

MarkExpiring(p, l) ==
  /\ SessionDecision(session[l], -sched[p].lag) = "expiring"
  /\ session' = [session EXCEPT ![l].status = "Expiring"]
  /\ sched' = Advanced(p, l)
  /\ UNCHANGED op

RestoreRunning(p, l) ==
  /\ SessionDecision(session[l], -sched[p].lag) = "running"
  /\ session' = [session EXCEPT ![l].status = "Running"]
  /\ sched' = Advanced(p, l)
  /\ UNCHANGED op

\* Mutant: the expiration does not look for an unfinished operation.
ExpireUnserialized(p, l) ==
  /\ SessionDecision(session[l], -sched[p].lag) = "terminating"
  /\ session[l].status \in Serving
  /\ Insert(ExpirationOperationID(l), l, "DESTROY_LAB")
  /\ session' = [session EXCEPT ![l].status = "Terminating"]
  /\ sched' = Advanced(p, l)

\* Mutant: the expiration forgets to move the session.
ExpireKeepsStatus(p, l) ==
  /\ SessionDecision(session[l], -sched[p].lag) = "terminating"
  /\ UnfinishedOps(l) = {}
  /\ session[l].status \in Serving
  /\ Insert(ExpirationOperationID(l), l, "DESTROY_LAB")
  /\ sched' = Advanced(p, l)
  /\ UNCHANGED session

Expire(p, l) ==
  /\ SessionDecision(session[l], -sched[p].lag) = "terminating"
  /\ UnfinishedOps(l) = {}
  /\ session[l].status \in Serving
  /\ Insert(ExpirationOperationID(l), l, "DESTROY_LAB")
  /\ session' = [session EXCEPT ![l].status = "Terminating"]
  /\ sched' = Advanced(p, l)

\* The lab is due and idle but its row is taken or its status has changed
\* since it was listed: the transaction fails and ends the whole scan.
ExpireConflict(p, l) ==
  /\ SessionDecision(session[l], -sched[p].lag) = "terminating"
  /\ UnfinishedOps(l) = {}
  /\ \/ session[l].status \notin Serving
     \/ op[ExpirationOperationID(l)].status # "absent"
  /\ sched' = [sched EXCEPT ![p] = IdleScheduler]
  /\ UNCHANGED <<session, op>>

\* Nothing is due, or the lab still has an unfinished operation.
LeaveAlone(p, l) ==
  /\ \/ SessionDecision(session[l], -sched[p].lag) = "none"
     \/ /\ SessionDecision(session[l], -sched[p].lag) = "terminating"
        /\ UnfinishedOps(l) # {}
  /\ sched' = Advanced(p, l)
  /\ UNCHANGED <<session, op>>

AdvanceOne(p, l) ==
  /\ l \in sched[p].todo
  /\ \/ MarkExpiring(p, l) \/ RestoreRunning(p, l) \/ Expire(p, l)
     \/ ExpireConflict(p, l) \/ LeaveAlone(p, l)
  /\ UNCHANGED <<worker, crashes>>

-----------------------------------------------------------------------------
(***************************************************************************)
(* Crashes and time.                                                       *)
(***************************************************************************)
\* A process stops (or its context is cancelled, or its database connection
\* fails) between two transactions and starts again with nothing in memory.
Crash(p) ==
  /\ crashes < MaxCrashes
  /\ worker[p] # IdleWorker \/ sched[p] # IdleScheduler
  /\ worker' = [worker EXCEPT ![p] = IdleWorker]
  /\ sched' = [sched EXCEPT ![p] = IdleScheduler]
  /\ crashes' = crashes + 1
  /\ UNCHANGED <<session, op>>

Capped(n, max) == IF n < max THEN n + 1 ELSE n

Older(s) ==
  IF s.started
  THEN [s EXCEPT !.total = Capped(@, MaxDuration + MaxLag),
                 !.idle  = Capped(@, IdleTimeout + MaxLag)]
  ELSE s

Tick ==
  /\ \A p \in Procs : sched[p].todo # {} => sched[p].lag < MaxLag
  /\ session' = [l \in Labs |-> Older(session[l])]
  /\ op' = [o \in OpIds |->
              [op[o] EXCEPT !.lease = IF @ = 0 THEN 0 ELSE @ - 1]]
  /\ sched' = [p \in Procs |->
                 IF sched[p].todo = {} THEN sched[p]
                 ELSE [sched[p] EXCEPT !.lag = @ + 1]]
  /\ UNCHANGED <<worker, crashes>>

\* Time in a healthy system: transactions are prompt, and external work is
\* cut off by the command timeout.  A topology action sends up to four
\* commands, each with a timeout of its own, so its work may outlast the
\* lease.
TimelyTick ==
  /\ \A p \in Procs :
       LET row == op[worker[p].op]
       IN  \/ worker[p].pc = "idle"
           \/ /\ worker[p].pc = "running"
              /\ \/ row.action = "TOPOLOGY"
                 \/ LeaseDuration - row.lease < CommandTimeout
  /\ Tick

-----------------------------------------------------------------------------
Request ==
  \E l \in Labs, o \in RequestIds :
    \/ \E u \in Users, s \in Scenarios : Create(u, l, s, o)
    \/ EnqueueReset(l, o)
    \/ EnqueueDestroy(l, o)
    \/ EnqueueTopologyAction(l, o)
    \/ EnqueueAdjustment(l, o)
    \/ EnqueueCacheAction(l, o)

Step(p) ==
  \/ Claim(p)
  \/ MarkRunning(p)
  \/ \E ok \in BOOLEAN : Execute(p, ok)
  \/ Complete(p)
  \/ Advance(p)
  \/ \E l \in Labs : AdvanceOne(p, l)
  \/ Crash(p)

\* Any delay anywhere.
Next == Request \/ (\E p \in Procs : Step(p)) \/ Tick

Spec == Init /\ [][Next]_vars

\* Delays within the timeouts the configuration promises.
TimelyNext == Request \/ (\E p \in Procs : Step(p)) \/ TimelyTick

\* The goroutines of a process keep running, external work returns or times
\* out, and time goes on.  Nothing is assumed of the users.
Fairness ==
  /\ \A p \in Procs :
       /\ WF_vars(Claim(p))
       /\ WF_vars(MarkRunning(p))
       /\ WF_vars(\E ok \in BOOLEAN : Execute(p, ok))
       /\ WF_vars(Complete(p))
       /\ WF_vars(Advance(p))
       /\ WF_vars(\E l \in Labs : AdvanceOne(p, l))
  /\ SF_vars(TimelyTick)

TimelySpec == Init /\ [][TimelyNext]_vars /\ Fairness

-----------------------------------------------------------------------------
(***************************************************************************)
(* Safety.                                                                 *)
(***************************************************************************)
\* The queue serialises the work of one lab: however requests, the balancer,
\* the scheduler, expired leases and restarts interleave, a lab never has
\* two unfinished operations (the busy checks of EnqueueAction,
\* EnqueueTopologyAction, EnqueueCacheAction, EnqueueAdjustment and
\* advanceOne).
SerialOperations ==
  \A l \in Labs : \A o1, o2 \in UnfinishedOps(l) : o1 = o2

\* An unfinished operation finds its lab in a status it can complete in, and
\* a lab in a transient status has the operation that will take it out of
\* it.  The UPDATE ... WHERE status = ... clauses of the Complete functions
\* rely on the first half; a lab that broke the second would hang.
RequiredStatus(a) ==
  CASE a = "CREATE_LAB"  -> {"Preparing"}
    [] a = "DESTROY_LAB" -> {"Terminating"}
    [] OTHER             -> Serving

StatusMatchesWork ==
  /\ \A l \in Labs : \A o \in UnfinishedOps(l) :
       session[l].status \in RequiredStatus(op[o].action)
  /\ \A l \in Labs :
       /\ session[l].status = "Preparing" =>
            \E o \in UnfinishedOps(l) : op[o].action = "CREATE_LAB"
       /\ session[l].status = "Terminating" =>
            \E o \in UnfinishedOps(l) : op[o].action = "DESTROY_LAB"

\* The scheduler's operation identifier depends on the lab alone and is
\* unique in the table, so a lab can be expired once.  It never has to be
\* expired again: no lab that is in service has ever had an operation to
\* destroy it, of the scheduler or of its user, whatever failed, was repeated
\* or was restarted since.  Only a request that names the identifier itself
\* can have used it up (ExpirationIdTaken).
ExpirationStillPossible ==
  \A l \in Labs : session[l].status \in Serving =>
    \A o \in OpIds : op[o].lab = l => op[o].action # "DESTROY_LAB"

Live == {l \in Labs : session[l].status \in {"Preparing"} \cup Serving}

\* A user has at most one lab that is being prepared or is in service.
OneLiveLabPerUser ==
  \A l, m \in Live : session[l].user = session[m].user => l = m

\* What the requirements say of the account (R10): at most one active lab,
\* where Terminating counts as active.  A user who creates a lab while an
\* older one has failed and then destroys the failed one has two.
OneActiveLabPerUser ==
  \A l, m \in ActiveLabs : session[l].user = session[m].user => l = m

\* The labs that are being prepared or in service respect LAB_MAX_ACTIVE.
LiveLabsWithinQuota == Cardinality(Live) <= MaxActiveLabs

AtWork(p) == worker[p].pc \in {"running", "executed"}

\* A lease longer than the command timeout keeps a second worker away from
\* an operation that the first one is still working on, as long as delays
\* stay within the timeouts.
NoDuplicateExecution ==
  \A p, q \in Procs :
    AtWork(p) /\ AtWork(q) /\ worker[p].op = worker[q].op => p = q

\* The same for the operations that send one command, whose work the lease
\* does cover: every action but the topology actions.
SingleCommandsApart ==
  \A p, q \in Procs :
    /\ AtWork(p) /\ AtWork(q) /\ worker[p].op = worker[q].op
    /\ op[worker[p].op].action # "TOPOLOGY"
    => p = q

LegalTransition(l) ==
  LET from == session[l].status
      to   == session'[l].status
  IN  from # to => \/ from = "None" /\ to = "Preparing"
                   \/ CanTransition(from, to)

\* Every status change made by the SQL of the repositories is one that
\* CanTransition allows, although none of them calls it.
LegalTransitions == [][\A l \in Labs : LegalTransition(l)]_vars

EndedByLeaseHolder(o) ==
  /\ op[o].status \in Finished => op'[o] = op[o]
  /\ op[o].status \in Unfinished /\ op'[o].status \in Finished =>
       \E p \in Procs :
         /\ op[o].owner = p
         /\ worker[p].pc = "executed" /\ worker[p].op = o
         /\ op'[o].status = IF worker[p].ok THEN "succeeded" ELSE "failed"

\* An operation ends once, with the outcome that the process then holding
\* its lease has obtained: a worker that lost its lease cannot end it, and
\* what has ended never changes again.
EndedOnceByLeaseHolder == [][\A o \in OpIds : EndedByLeaseHolder(o)]_vars

DueWhenExpired(l) ==
  LET o == ExpirationOperationID(l)
  IN  sched' # sched /\ op[o].status = "absent" /\ op'[o].status # "absent" =>
        0 >= Deadline(-session[l].total, -session[l].idle)

\* The scheduler ends no lab before its deadline has really passed, however
\* old the time of its scan and whatever happened since it listed the lab.
ExpiredOnlyWhenDue == [][\A l \in Labs : DueWhenExpired(l)]_vars

(***************************************************************************)
(* The inductive invariant: the properties above and what they rest on.    *)
(***************************************************************************)
RowsWellFormed ==
  \A o \in OpIds :
    op[o].status \in Unfinished => op[o].lab \in Labs /\ op[o].action \in Actions

\* Only a claimed or running row carries a lease.
LeasesWellFormed ==
  \A o \in OpIds : op[o].status \notin {"claimed", "running"} => op[o].lease = 0

WorkersWellFormed ==
  \A p \in Procs : worker[p].pc # "idle" => worker[p].op \in OpIds

\* ExpirationStillPossible from before the insertion of the lab on.
NeverDestroyed ==
  \A l \in Labs : session[l].status \in {"None", "Preparing"} \cup Serving =>
    \A o \in OpIds : op[o].lab = l => op[o].action # "DESTROY_LAB"

\* What SingleCommandsApart rests on, for TimelySpec: the lease of a worker
\* that is not idle has not run out, so nobody else can have claimed its row.
KeepsLease(p, row) ==
  /\ row.status # "absent"
  /\ row.action # "TOPOLOGY" =>
       /\ row.status \in {"claimed", "running"} /\ row.owner = p
       /\ LeaseDuration - row.lease <= CommandTimeout

LeasesKept ==
  \A p \in Procs : worker[p].pc # "idle" => KeepsLease(p, op[worker[p].op])

\* The inductive invariant of the control plane: it carries every safety
\* property above from one transaction to the next.
ControlInv ==
  /\ TypeOK
  /\ RowsWellFormed
  /\ LeasesWellFormed
  /\ WorkersWellFormed
  /\ SerialOperations
  /\ StatusMatchesWork
  /\ NeverDestroyed
  /\ OneLiveLabPerUser

-----------------------------------------------------------------------------
(***************************************************************************)
(* The abstract specification: the job of a lab is the action of its       *)
(* unfinished operation.                                                   *)
(***************************************************************************)
StatusOf == [l \in Labs |-> session[l].status]

JobOf ==
  [l \in Labs |-> IF UnfinishedOps(l) = {} THEN "none"
                  ELSE op[CHOOSE o \in UnfinishedOps(l) : TRUE].action]

Abstract == INSTANCE LabSession WITH Jobs <- Actions, status <- StatusOf, job <- JobOf

\* Queue, leases, retries and crashes implement LabSession: each operation
\* takes effect on its lab exactly once.
ImplementsLabSession == Abstract!Spec

-----------------------------------------------------------------------------
(***************************************************************************)
(* Liveness, for TimelySpec.                                               *)
(***************************************************************************)
\* Every accepted operation ends, across lost leases and restarts.
OperationsEnd ==
  \A o \in OpIds : op[o].status \in Unfinished ~> op[o].status \in Finished

Due(l) ==
  session[l].status \in Serving /\ 0 >= Deadline(-session[l].total, -session[l].idle)

\* A lab that has reached its deadline leaves service.
DueLabsEnd == \A l \in Labs : Due(l) ~> session[l].status \notin Serving

\* A cache action that is under way when the reminder window opens: it can
\* neither complete in Expiring nor make room for the expiration.
CacheActionCaught ==
  \E o \in OpIds : /\ op[o].action = "CACHE" /\ op[o].status \in Unfinished
                   /\ session[op[o].lab].status = "Expiring"

\* A lab in service whose expiration identifier a request has used: the insert
\* of the scheduler fails, in every scan, and ends the scan.
ExpirationIdTaken ==
  \E l \in Labs : /\ session[l].status \in Serving
                  /\ op[ExpirationOperationID(l)].status # "absent"

\* Every operation the worker is given ends, cache actions included, unless
\* MarkExpiring has caught one: nothing else keeps it from completing.
OperationsEndUncaught == [](~CacheActionCaught) => OperationsEnd

\* Every lab that is due leaves service, with the same exception and that of a
\* request that has used the identifier of an expiration: nothing else keeps
\* advanceOne from expiring it.
DueLabsEndUncaught == [](~CacheActionCaught /\ ~ExpirationIdTaken) => DueLabsEnd
=============================================================================
