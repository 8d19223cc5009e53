# Verification of the lab platform

TLA+ models, TLC runs and TLAPS proofs for the backend of the architecture
learning platform and the page of its web client: what happens to a user's lab
from its creation to its end, and to the requests, sessions and traffic around it.
Paths below are relative to the repository; `platform-api` stands for
`src/services/platform-api/internal`, `orchestrator` for
`src/services/orchestrator/internal`, `lab-app` for `src/services/lab-app/internal`.

## The system

| Part | State | Operations |
|---|---|---|
| lab sessions and operation queue (`platform-api/lab`, `platform-api/operation/repository.go`) | tables `lab_sessions`, `lab_operations`, `lab_instances`, `lab_resources` | create, reset, destroy, topology, cache requests; claim, mark running, complete |
| operation worker (`platform-api/operation/worker.go`) | the claimed record, progress through its commands | claims one operation at a time, sends commands to the orchestrator, completes |
| lifecycle scheduler (`platform-api/lifecycle`) | the candidates and time of the current scan | remind, restore, expire; periodic reconciliation |
| adaptive balancer (`platform-api/balancer`) | per-lab smoothing, agreement counter, backoff | samples instances, enqueues weight changes |
| traffic entry, authentication (`platform-api/traffic`, `platform-api/auth`) | token buckets, failed-login windows, login sessions | admit, evict, block |
| orchestrator (`orchestrator/control`, `dockerapi`, `labdb`, `nginx`) | containers, networks, lab databases, gateway fragments | provision, reset, destroy, create/delete/update instance, apply upstream, reconcile |
| lab application (`lab-app/order`, `lab-app/cache`) | virtual load, L1 and Redis entries | process an order, read a product, cache-layer control |
| web client (`src/web/src`) | polled snapshot, traffic animation | poll, request, render |

Each platform-api process runs an HTTP API, one operation worker, one lifecycle
scheduler and one balancer. They meet only in MySQL: the API and the balancer
insert operations, the worker claims and completes them, the scheduler inserts a
destroy operation when a lab is due. The worker talks to the orchestrator over a
socket with a timeout per command. The orchestrator keeps no state of its own: it
works on what Docker, MySQL and the gateway hold.

What is hard here: the database transactions of several goroutines and processes
interleave; a process may stop between claiming an operation, executing it and
recording its outcome; leases end while work is still going on; a scan works with
a time and a candidate list that are already old; a timeout leaves a command's
effect unknown; an action of several commands can fail half-way.

## Modules

| Module | What it models |
|---|---|
| `LabStatus` | session statuses, legal transitions, the deadline rule `evaluate` (`lab/status.go`, `lifecycle/decision.go`) |
| `LabControl` | sessions, operation queue, workers, schedulers, API requests, restarts, time |
| `LabSession` | abstract specification: a lab with a status and at most one job |
| `LabControlSteps`, `LabControlProofs` | TLAPS proofs about `LabControl`: what a step does and that it keeps the inductive invariant; the safety theorems, the leases, the refinement |
| `Admission` | the transactions behind create, destroy and ADD_INSTANCE, statement by statement with their locks |
| `LabTopology` | instance rows, containers and gateway weights of one cluster lab, through every command of a topology action |
| `LabResources` | databases, networks, containers and gateway fragments of several labs: provisioning, compensation, reset, destruction, reconciliation |
| `Balancer` | the adaptive balancer: samples, computed weights, agreement, backoff, queued adjustments |
| `Traffic` | token buckets, forwarding, the load and the statistics of an application instance, the load the balancer is told |
| `Cache` | lookups through L1, Redis and MySQL, and the operations that add and remove a layer |
| `LoginLimiter` | the limiter of failed logins under overlapping logins |
| `Sessions` | login sessions, the authentication middleware and the cookie of a browser |
| `WebPage` | the page of the web client: user, mode, snapshot, poll timer, requests in flight |
| `LabTopologyProofs`, `AdmissionProofs`, `TrafficProofs`, `TrafficCounts` | TLAPS proofs about the modules they are named after |
| `ServiceProofs`, `ClientProofs` | TLAPS proofs about `Cache` and `Sessions`; about `Balancer` and `WebPage` |
| `MCLabControl`, `MCLabLiveness`, `MCLabResources`, `MCServices`, `MCClients` | instances for TLC |

### LabControl and the code

A database transaction is one step, because each locks the session row or the
operation row it decides on and either commits or changes nothing. What a
goroutine remembers between two transactions is in `worker[p]` or `sched[p]`.

- `session[l]` is the row of `lab_sessions`: status, user, scenario, and the ages
  of `started_at` and `last_effective_action_at`. `op[o]` is the row of
  `lab_operations`: status, lab, action, lease owner, time left on the lease.
- Requests: `Create`, `EnqueueReset`, `EnqueueDestroy` (`lab/repository.go`),
  `EnqueueTopologyAction` (`lab/topology.go`), `EnqueueCacheAction`
  (`lab/cache_actions.go`), `EnqueueAdjustment` (`balancer/repository.go`). A
  request whose operation identifier exists changes nothing and is not an action.
  Request identifiers are chosen by the client, and `validOperationID`
  (`lab/identity.go`) also accepts what the scheduler uses for the expiration of a
  lab, so `RequestIds` may contain `ExpirationOperationID(l)`.
- Worker: `Claim`, `MarkRunning`, `Execute` (all external work, with either
  outcome), then one of `CompleteProvision`, `CompleteReset`, `CompleteDestroy`,
  `CompleteTopology`, `CompleteCache`, each with its `UPDATE ... WHERE status ...`
  condition. When the lease or the status does not match, the transaction rolls
  back and the worker moves on.
- Scheduler: `Advance` lists candidates at one time; `AdvanceOne` advances one of
  them with that same, by then older, time: `MarkExpiring`, `RestoreRunning`,
  `Expire`, `ExpireConflict` (the transaction fails, which ends the scan),
  `LeaveAlone`.
- `Crash` loses a process's memory between two transactions. `Tick` is time.

Time is relative: rows carry ages and remaining lease time, capped where no
comparison in the code can tell values apart, so that time never has to stop and
liveness can be checked on a finite state space.

### LabTopology and the code

One cluster lab in service. `LabControl` shows that it has at most one unfinished
operation; here that operation is `job`, with its payload and the command its
worker has come to.

- `rows` is `lab_instances`, `containers` what Docker runs (with the operation that
  the label `platform.operationId` names), `upstream` the weights of the running
  gateway configuration.
- Requests are the cases of `buildTopologyPayload` (`lab/topology.go`) and the
  balancer's `EnqueueAdjustment`, with their limits and the payload they store.
- `CreateApp`, `DeleteApp`, `UpdateAppCapacity`, `ApplyUpstream` are the commands of
  `orchestrator/control/service.go`. Each may be refused for what it finds, fail
  without effect (`"fail"`), or be given up by the worker (`"lost"`): then it has
  taken effect already, or it is in `abandoned` and takes effect later or never
  (`Belated`), while the worker undoes, fails or begins the next operation.
  A capacity update may also fail in the middle, with or without its rollback, and
  one that is late removes the container first and creates it later.
  The gateway refuses a fragment that names a host which does not exist, since
  its template passes requests to each instance by a fixed host name; this is the
  behaviour of `nginx -t`, outside the repository.
- `AddInstance` ... `ApplyAdaptiveWeights` are the functions of
  `operation/worker.go`, one step per command, undo commands included;
  `CompleteTopology` and `RowsAfter` are the completing transaction.
- `Restart` loses the worker between two commands and starts the operation anew;
  `Shutdown` is the cancelled wait in `removeInstance`.

### LabResources and the code

`session[l]` is what the platform knows of a lab, `call[s]` a handler of the
orchestrator and the step it has come to, `world` what Docker, MySQL and the
gateway hold. A lab has one slot for the handler its worker waits for; `Late` is a
handler whose caller has given up, `Reconciler` the scheduler's command.

- `Create`, `Reset`, `Destroy`, `Complete` are the platform's transactions, reduced
  to what resources depend on. `ProvisionDatabase`, `EnsureNetwork`,
  `EnsureContainer`, `ApplyFragment` are the steps of `provision`; a failing one
  enters `destroyResources`, which goes on after errors and reports them.
- `ReadExpected` and `Reconcile` are two steps, because the scheduler reads the
  labs before the orchestrator lists what exists.
- The gateway validates the fragments of all labs at once, restores the file when
  it refuses, and after its replacement starts only when every fragment resolves.
- `Timeout`, `WorkerStop`, `OrchestratorStop`, `GatewayReplaced` and the failing
  calls are drawn from the faults of the environment `env`, at most `MaxFaults`.

### Admission and the code

`request[r].pc` says how far `Repository.Create`, `EnqueueAction` or
`EnqueueTopologyAction` has come; the locks it holds follow from that: the row of
the user or the lab, the named lock of the platform-wide quota with its limited
wait, the shared lock a foreign key takes. `OperationEnds` is the worker.

### Balancer, Traffic, Cache and the code

- `Balancer`: a sample is the list it reads (`ListAdaptiveLabs`) and what it does
  with it (`SampleEnds`); the user's operations may end in between.
  `TargetWeights` is the algorithm in integers. The smoothed load is chosen by the
  environment.
- `Traffic`: limiter and processor read the clock before they take their lock, so
  batches are handled out of the order of their times. `ReplaceContainer` and
  `RecordContainer` let the row lag behind the container. The balancer's metric of
  the instance has three writers: `Observe` with an answer, `sampleLoadRatios`, which
  takes an instance with another container or load model for idle (`ListLab`,
  `SampleLoad`: the rows are listed before the lock is taken), and the end of `sample`,
  which forgets metrics of idle instances (`ForgetMetric`).
- `Cache`: a lookup holds the lock only around each use of L1. A call of the worker
  may fail, be lost after its effect, or run after it was given up; the completing
  transaction may roll back or never run (`CompletionLost`), and the operation is
  then claimed and executed again.

### LoginLimiter, Sessions, WebPage and the code

- `LoginLimiter`: a login asks whether it is blocked and records its result under
  the time it read before comparing the hash; others run in between.
- `Sessions`: find, touch and the handler are statements of their own; answers that
  set or clear the cookie arrive in any order. The account may be disabled and
  enabled (`SetUserStatus`, which no code of the repository does): a login then
  stores no session, and `Authenticate` takes a session for invalid.
- `WebPage`: every handler of `App.vue` runs to its `await` and goes on in
  `ArriveAnswer`. `Bootstrapping`, `AuthBusy` and `RequestBusy` are the three busy
  refs: the first two keep the user from everything else, the third only disables
  the commands, so a login may overlap a command of the user before, and traffic
  batches overlap anything. The lab is a version number that grows.

## Runs

| Run | Instance | Shows |
|---|---|---|
| `control` | four settings: one lab, 2 processes, 2 requests, 1 restart, any delay; 3 users, 3 labs, 3 requests, room for 2 labs; 2 processes within their timeouts; one lab, 1 process, a request with the identifier of an expiration | the safety of the queue and its refinement of `LabSession`; admission; no two workers on one single-command operation |
| `control_liveness` | 1 lab, 1 process, 1 restart, 2 requests, topology and cache actions | every operation ends, every due lab leaves service, unless a cache action is caught by the reminder window or a request has used the identifier of the expiration |
| `control_one_active` (violation) | 1 user, 2 labs | "at most one active lab" is broken by destroying a failed lab after creating another |
| `control_cache_expiry` (violation) | 1 lab, cache scenario | a cache action unfinished when the reminder window opens keeps the lab from ever expiring |
| `control_long_topology` (violation) | 2 processes, topology actions | several commands under one lease let a second worker execute the same operation |
| `topology_remove_retry` (violation) | 2 instances, 1 restart | a repeated removal fails though the instance is gone |
| `resources` | 2 labs of 2 containers, 3 operations, 1 fault; five environments | running labs are complete, destroyed labs gone, leftovers removed |
| `resources_gateway` (violation) | 2 labs, 1 failing gateway call | two fragments without containers block each other's removal for ever |
| `resources_stale_list` (violation) | 2 labs, no fault | a lab created after the list was read loses its database and is reported Running |
| `services` | topology (two settings), traffic (two settings), cache, logins, sessions | the safety properties of these five components |
| `login_limit` (violation) | 1 key, one login after the other | more failures than the limit within the length of a window, across the end of one |
| `clients` | balancer, admission, page | safety and liveness of these three components |

`services` and `clients` each hold several components that share no state. The
variable `focus`, chosen at the start, says which one moves, so the state space is
the sum of theirs and not the product; the runs say nothing about interactions
between these components. TLC's statistics name the disjuncts of `MCNext`; the
actions of a component are disjuncts of its own next-state relation. Fairness in
`clients` is that of the component in focus.

### Properties

*Queue.* A lab never has two unfinished operations (`SerialOperations`); an
unfinished operation finds its lab in a status it can complete in, and a transient
status has the operation that ends it (`StatusMatchesWork`); no lab in service has
ever had an operation to destroy it, so no expiration has used up the scheduler's one
identifier for the lab (`ExpirationStillPossible`); an operation ends once, by the
holder of its lease (`EndedOnceByLeaseHolder`); no lab expires early, however old the
scan (`ExpiredOnlyWhenDue`); each operation takes effect exactly once
(`ImplementsLabSession`).

*Topology.* Rows, containers and gateway agree after one failing command
(`TopologyAgreement`) or repeated restarts (`RetriesConverge`); a removal deletes no
container that the gateway balances to (`DrainedBeforeDelete`). That is about
REMOVE_INSTANCE: a capacity update replaces a container behind its server.
After a lost answer nothing is promised: `setInstancePerformance` records a failure
without retrying or compensating, although the container may have, or later get,
the new performance, and row and container differ until the user asks again.

*Resources.* `RunningLabsComplete`, `DestroyedMeansGone`, `FragmentsResolve` (the
fragments on disk never block each other) and `LeftoversRemovedWithGateway`.

*Others.* Limits under reordered times and eviction (`PassedWithinRate`,
`AcceptedWithinCapacity`, `FailuresLimited`: the documents promise at most five
failures in five minutes, `FailuresPerWindow`, which `login_limit` refutes; what the
limiter does keep is less than twice the limit, and one more for each login that
overlaps, in a span as long as the window or the block, whichever is shorter, less the
time a login takes); statistics before answers
(`RecordedBeforeAnswered`); the newest load wins while it is fresh
(`LatestLoadObserved`); a layer
that was switched off stays empty and repeated operations leave what was asked
(`DisabledL1Empty`, `LayersAsRequested`); a live session is not lost
(`LiveSessionKept`); adjustments are about the current topology, follow speed and
load, and converge (`PendingAdjustmentCurrent`, `TargetsFollowLoad`,
`StableMeansApplied`, `AdaptiveLabsConverge`); admission counts and inserts in one
step, repetitions are accepted, every request is answered
(`CountedContainersWithinQuota`, `OneOperationUnderWay`, `RepetitionsAccepted`,
`RequestsAnswered`); a lab on show is polled and caught up with, guests see none
(`ShownLabCatchesUp`, `GuestsHaveNoLab`).

Status changes are those `CanTransition` allows (`LegalTransitions`); this one is
proved and not part of a run. Each run has one type invariant; `ServicesTypeOK` and
`ClientsTypeOK` are the conjunctions of those of their components.

### Conditions in the properties

`OperationsEndUncaught` and `DueLabsEndUncaught` exclude behaviours in which a cache
action is unfinished when its lab becomes Expiring, the subject of
`control_cache_expiry`. `DueLabsEndUncaught` also excludes those in which a request
has used the identifier of the expiration of a lab that is in service
(`ExpirationIdTaken`): `operation_id` is unique, so `Expire` fails in every scan, the
lab never expires, and the labs after it in the scan wait. No document speaks of
this case. Several properties hold only outside a situation the code does not handle. A
history variable records that it has occurred and the property excludes it, so the
run shows that nothing else breaks the property:

| Variable | Situation |
|---|---|
| `exact` (Admission) | an admission missed an added instance or an operation under way; the container quota may then be exceeded |
| `late` (Traffic) | a batch took the lock after a later one; the time in between is settled twice |
| `evicted` (Traffic) | the user's bucket was evicted and starts full |
| `excused` (LoginLimiter) | the entry of a key was given up to make room, or after a success; or a login took longer than `LoginDuration` |
| `collided`, `overtaken`, `refused` (Sessions) | two visits touch a session at the same microsecond; the answer to a request with an older cookie clears a newer one; a request came while the account was disabled |
| `wanted = "unknown"` (Cache) | the last call on a layer failed after its effect; its answer was lost with the completion and the repetition failed; or a given-up call ran later |
| `setBack` (Traffic) | a sample replaced an observation by one of an earlier time |
| `belated` (LabTopology) | a command took effect after the worker had given it up |
| `changed` (Balancer) | the user changed the lab since the weights were compared |
| `met` (LabResources) | reconciliation used an older list, or provisioning ran again during its own compensation |
| `mixedUp` (WebPage) | an answer was used after the user had changed |

### Bounds

Two requests let a creation, or one later operation and the scheduler's own, meet
another worker; three users are needed for the limit of two labs to refuse one. Two
processes are enough for a lost lease, one restart to interrupt any step. Leases of 2
and timeouts of 1 make "still valid", "just ended" and "long ended" distinct; idle
timeout 2, maximum 3 and lead 1 let either deadline come first. `MaxLag` bounds the
age of a scan. In `one_lab` scans that grow old, and scans of both processes, are
explored without a crash; in `admission` one process works, without a crash, in the
scenario without topology and cache actions; in `identifier` one process works,
without a crash: the proofs have none of these limits. In `LabTopology` three
instances let a removal leave a gap among the names and three operations let one be
undone and built upon (a fourth without failures and restarts, and two when a
given-up command may come later); two faults include a failed undo; the retries are
explored for four operations. In `LabResources` two labs are what fragments that
block each other need, and three operations create both and end or reset one; one
fault is allowed, and handlers meet only in environments of their own, since all of
it together is out of reach; the environments with a timeout, a stopped worker or
handlers that meet have at most two operations. `Traffic` has three batches and a
replaced container without samples, and two batches that do not wait for a lock with
them, `Cache` two overlapping lookups and two actions, the limiters one entry and two
keys so that eviction happens, `Sessions` two sessions and four visits. `Balancer`
has two instances, loads on both sides of the threshold and two changes of the user;
`Admission` three requests; `WebPage` two requests in flight, three acts of the user
and one fault, with which the user acts once less. Time in `Cache` passes only where
no call fails, and lookups run with at most one failing call. Larger bounds were
explored only for the inductive invariants (see Proofs).

Symmetry is used only in runs without liveness properties; the temporal properties
of `control` and `services` are action properties and a refinement without fairness.

**Deadlock** is checked in the `control` and `resources` runs. It is not in
`services`, `clients`, `login_limit` and `topology_remove_retry`, where users may
stop asking and clocks and acts are bounded.

### Fairness

- `TimelySpec` (LabControl): each goroutine keeps taking the step it is ready for,
  external work returns or is cut off by its timeout, and time goes on. `TimelyTick`
  keeps external work within the command timeout, which `newWorker` requires to be
  below the lease; a topology action sends up to four commands and is exempt.
- `FairSpec` of `LabResources`: workers and handlers go on, the scheduler
  reconciles on its ticker, Docker's restart policy starts the gateway.
- `Balancer`: the ticker samples, workers end operations. `Admission`: a request
  takes its next statement when its lock is free or its wait is over. `WebPage`:
  requests are answered and timers fire.

Nothing is assumed of users. Requests and acts are finite, so the liveness
properties speak of users who eventually stop: one who keeps acting keeps the idle
deadline moving, as intended.

## Proofs

A theorem holds for every value of the constants that the named assumptions allow:
any sets of users, labs, requests and processes, any number of instances, batches,
lookups or requests in flight, any limits and any timing.

| Module | Theorems | Inductive invariant |
|---|---|---|
| `LabControlProofs` (with `LabControlSteps`) | `TypeCorrect`, `OperationsAreSerial`, `StatusAndWorkAgree`, `ExpirationNeverBlocked`, `OneLiveLab`, `QuotaRespected`, `TransitionsAreLegal`, `LeaseHolderEndsOnce`, `NeverExpiredEarly`, `WorkersApart`, `Refinement` | `ControlInv`, and `LeasesKept` for `WorkersApart` |
| `LabTopologyProofs` | `TopologyWellTyped`, `ViewsAgree`, `InstancesDrainedBeforeDelete` | `TopologyInv` |
| `AdmissionProofs` | `AdmissionWellTyped`, `OperationsCommitAlone`, `RepetitionsFindTheOperation`, `QuotaHolds` | `AdmissionInv`, and `RoomLeft` for the quota |
| `TrafficProofs`, `TrafficCounts` | `LimiterKeepsTheRate`, `InstancesKeepTheirCapacity`, `BalancerKnowsTheLatestLoad`; `TrafficWellTyped`, `AnswersAreRecorded` | `TrafficInv` |
| `ServiceProofs` | `SwitchedOffMeansEmpty`, `LayersAreAsRequested`; `SessionsWellTyped`, `CookieOutlivesFailures` | `CacheInv`; `SessionsInv` |
| `ClientProofs` | `AdjustmentsAreCurrent`; `PageWellTyped`, `GuestsSeeNoLab` | none needed; `PageInv` |

The assumptions are those the modules state with `ASSUME`: that limits and times are
natural numbers, positive where the configuration is checked for it
(`platform-api/app/config.go`, `balancer/types.go`); the order of the deadlines
(`validateConfig` in `lifecycle/repository.go`) and of command timeout and lease
(`newWorker`); that performances and weights are within the limits of requests; that
the set of labs is finite and the speeds have a largest one; and that the values which
stand for "none" or for different roles are distinct. Nothing is assumed of operation
identifiers, nor of the login window and the block, of which either may be the longer.

**LabControl.** `SerialOperations` alone is not inductive: the busy check looks only
at unfinished rows, and that a completion meets the status it needs follows only
together with `StatusMatchesWork`. `NeverDestroyed` extends
`ExpirationStillPossible` back to before the insertion of the session, and the
`...WellFormed` conjuncts tie workers to rows. The argument classifies every step by
what it does to a lab: nothing, a reminder, the beginning of an operation, the end
of one. Each conjunct is then shown once per kind, and the same four kinds are the
steps of `LabSession`. `WorkersApart` is about `TimelySpec` and states
`SingleCommandsApart`, which `TimelyWorkersApart` checks on the timely setting of the
run `control`: by `LeasesKept` a busy worker owns its row, and the row's lease has
not run out because time passes only while its command is within a timeout that
`newWorker` requires to be shorter than the lease. Topology actions are outside it,
as the run `control_long_topology` shows they must be.

**LabTopology.** Agreement is about moments without an operation, so `StageOK` says
for every command of every action which performances the containers have and which
servers the gateway, relative to the payload and the rows (`PayloadOK`: nothing
changes them before the operation completes). The undo commands run only after a
command has failed, so under the hypothesis of `TopologyAgreement` they do not fail
themselves. `AbandonedOK` says that a given-up command is well-formed, whatever has
become of the lab since, and that there is one only after a lost answer. `FreeName`
rests on the least element of a set of numbers.

**Admission.** The locks a request holds are a function of its position, and the
invariant says that no two requests hold the same one. What a request has read
under a lock is then still true when it commits. For the quota, `RoomLeft` says that
a request which has been admitted and not committed has its place; the containers
are the elements of a set of pairs, and a commit adds one element.

**Traffic.** A bucket's tokens, what has passed and what the rate has given since the
start are tied by one inequality (`TokensGiven`), which survives times that go
backwards because an earlier time takes back what a later one gave; `LoadAccounted`
is its counterpart for the load of an instance. `LatestLoadObserved` is inductive
with the types: a metric is forgotten only after its freshness, and a sample that
replaces it by an older one is recorded in `setBack`. The answered units are a set of
pairs that grows by the units of one batch.

**Cache, Sessions.** `DisabledL1Empty` is kept by the lock around each filling of L1;
`LayersFollow` extends `LayersAsRequested` to the time of a call, and `RowsFollow` to
the time between its answer and the completing transaction, which may be lost. For
the sessions, `VisitOK` says that an answer which clears the cookie was computed for
a session that is over, and stays so while time passes, unless a visit collided or
met a disabled account (`Excused`); with `CookieIsLast` the browser then has the last
cookie it was given, or none because that session is over.

**Balancer, WebPage.** A queued adjustment keeps the user's operations out, so
`PendingAdjustmentCurrent` is inductive as it stands. `GuestsHaveNoLab` is not: an
answer of a lab must find the user it was sent for. `PageInv` adds that while
`restoreSession` waits nothing else is in flight, that the request of a user, sent
since the page last changed its user, finds a user (`AnswerFits`), that an answer
which ends the session finds the cookie gone, and that the page of a guest is in the
course mode.

`AdmissionInv` with `RoomLeft` (four requests) and `PageInv` (three requests in
flight, four acts) were checked by TLC on instances of several million
states before they were proved.

Only model-checked:

- liveness (`OperationsEndUncaught`, `DueLabsEndUncaught`, `LeftoversRemovedWithGateway`,
  `AdaptiveLabsConverge`, `RequestsAnswered`, `ShownLabCatchesUp`) and the violations:
  liveness under fairness is outside the prover's reach;
- `TargetsFollowLoad` and `StableMeansApplied`: they depend on sums over the
  instances, folds about which nothing can be shown by induction here;
- `FailuresLimited` and the type invariant of `LoginLimiter`: the failures of any span
  are counted in a sequence, which again needs induction;
- `RetriesConverge` (any number of repetitions of an action from any position);
- the invariants of `LabResources`, whose handlers meet in many ways.

## Not modelled

- Courses: read-only content and one idempotent progress row.
- Scenario templates, configuration, HTTP decoding and routing, envelope validation,
  the socket and Docker's HTTP encoding: constant data or stateless; their failures
  are outcomes of the calls.
- RESTART_SESSION_REDIS, RESET_LAB_DATABASE and the provisioner's reset: no worker
  sends them.
- Tables, accounts and rows inside a lab database: a database is there or not, and
  its creation is repeated with IF NOT EXISTS.
- Decay and smoothing of the balancer's load: floating-point functions of time; the
  model lets the smoothed load be anything.
- Traces and summaries of the cache, load states of the order processor, the
  traffic animation and the components of the web client that only render.
- The cache states that reading a lab merges into its snapshot: a read.

The next candidates for proofs are `DestroyedMeansGone` and `FragmentsResolve` of
`LabResources`.
