----------------------------- MODULE LabResources -----------------------------
(***************************************************************************)
(* The resources of all labs on the host: databases, networks, containers, *)
(* the fragment files of the gateway and the configuration nginx runs, and *)
(* the commands of the orchestrator that create and remove them:           *)
(* PROVISION_LAB, RESET_LAB, DESTROY_LAB and RECONCILE_RESOURCES.          *)
(*                                                                         *)
(* A command is executed in a slot, one call to Docker, MySQL or the       *)
(* gateway manager at a time: every lab has a slot for the command its     *)
(* worker waits for, Late holds a command whose worker has given up, and   *)
(* Reconciler the command of the scheduler.  A call may fail, with its     *)
(* effect, without it or with a part of it.  The orchestrator may stop at  *)
(* any point, and so may the worker.                                       *)
(*                                                                         *)
(* Of the lab session (LabControl has all of it) only the status and the   *)
(* operation under way are kept.                                           *)
(***************************************************************************)
EXTENDS Integers, FiniteSets, Sequences

CONSTANTS
  Labs,            \* lab identifiers
  Late, Reconciler,\* the two other slots
  Containers,      \* containers of a lab in the order of their creation
  MaxOps,          \* bound: number of operations
  MaxFaults,       \* bound: failing calls and stopping processes
  Environments     \* what may go wrong; one is chosen for a behaviour

Slots == Labs \cup {Late, Reconciler}

Redis == "session-redis"
Roles == {Containers[i] : i \in DOMAIN Containers}

\* The containers the fragment of a lab passes requests to.
Servers == Roles \ {Redis}

\* What may fail in an environment, and whether handlers may meet in it: a lab
\* is created between the scheduler's query and the orchestrator's inspection,
\* or an operation is executed again while the handler of its first execution
\* still compensates.
Calls == {"image", "database", "network", "container", "gateway", "inspect"}
Stops == {"orchestrator", "worker", "timeout", "gateway_container"}

ASSUME ResourcesAssumption ==
  /\ Late \notin Labs /\ Reconciler \notin Labs /\ Late # Reconciler
  /\ Containers \in Seq(STRING) /\ Servers # {}
  /\ MaxOps \in Nat /\ MaxFaults \in Nat
  /\ \A e \in Environments : e.faults \subseteq Calls \cup Stops /\ e.meet \in BOOLEAN
                             /\ e.ops \in 0..MaxOps

VARIABLES
  session,  \* status and operation of each lab in the platform database
  world,    \* the resources
  call,     \* the command executed in each slot
  faults,   \* number of faults so far
  env,      \* the environment
  met       \* labs at which two handlers were at work on the same resources

vars == <<session, world, call, faults, env, met>>

-----------------------------------------------------------------------------
(***************************************************************************)
(* State.                                                                  *)
(***************************************************************************)
Active == {"Preparing", "Running", "Terminating"}

\* The labels of a network or a container name the operation it was created
\* by; 0 is a resource that does not exist.
Worlds ==
  [database  : SUBSET Labs,
   network   : [Labs -> 0..MaxOps],
   joined    : SUBSET Labs,                \* gateway and MySQL are attached
   container : [Labs -> [Roles -> 0..MaxOps]],
   file      : SUBSET Labs,                \* fragments in the directory
   running   : SUBSET Labs,                \* labs nginx serves
   up        : BOOLEAN]                    \* the gateway container runs

Absent == [r \in Roles |-> 0]

\* A command at the call "at": whether it compensates, has met a failure, has
\* lost its caller; and what reconciliation has been told and has found.
NoCall == [cmd |-> "none", lab |-> Late, op |-> 0, at |-> "idle", next |-> 1,
           undo |-> FALSE, failed |-> FALSE, cancelled |-> FALSE,
           expected |-> {}, orphans |-> {}, databases |-> {}]

Removing == {"remove gateway", "remove containers", "remove network", "drop database"}
Building == {"database", "network", "container", "gateway"}

\* Tables, resources and handlers are well-typed, and a resource carries the
\* label of an operation its lab has had.
TypeOK ==
  /\ session \in [Labs -> [status : Active \cup {"none", "Failed", "Ended"},
                           action : {"none", "PROVISION_LAB", "RESET_LAB", "DESTROY_LAB"},
                           op : 0..MaxOps]]
  /\ world \in Worlds
  /\ \A l \in Labs : /\ world.network[l] <= session[l].op
                     /\ \A r \in Roles : world.container[l][r] <= session[l].op
  /\ \A s \in Slots : call[s].at \in
       Removing \cup Building \cup {"idle", "answered", "reconnect", "inspect",
                                    "orphans"}
  /\ faults \in 0..MaxFaults /\ met \subseteq Labs

Init ==
  /\ session = [l \in Labs |-> [status |-> "none", action |-> "none", op |-> 0]]
  /\ world = [database |-> {}, network |-> [l \in Labs |-> 0], joined |-> {},
              container |-> [l \in Labs |-> Absent], file |-> {},
              running |-> {}, up |-> TRUE]
  /\ call = [s \in Slots |-> NoCall]
  /\ faults = 0
  /\ env \in Environments
  /\ met = {}

Fault(kind) ==
  /\ kind \in env.faults
  /\ faults < MaxFaults
  /\ faults' = faults + 1

-----------------------------------------------------------------------------
(***************************************************************************)
(* The lab sessions of the platform.                                       *)
(***************************************************************************)
Enqueue(l, action, status) ==
  /\ session[l].action = "none"
  /\ \E op \in 1..env.ops :
       /\ \A k \in Labs : session[k].op < op
       /\ op = 1 \/ \E k \in Labs : session[k].op = op - 1
       /\ session' = [session EXCEPT ![l] =
                        [status |-> status, action |-> action, op |-> op]]
  /\ UNCHANGED <<world, call, faults, env>>

\* Two handlers meet at a lab: the one under the condition is at work on it, or
\* will be, by what it knows of it from before.
Meets(l, handler) ==
  /\ handler => env.meet
  /\ met' = IF handler THEN met \cup {l} ELSE met

Create(l) ==
  /\ session[l].status = "none"
  /\ Enqueue(l, "PROVISION_LAB", "Preparing")
  /\ Meets(l, call[Reconciler].at \in {"reconnect", "inspect"})

Reset(l) ==
  /\ session[l].status = "Running"
  /\ Enqueue(l, "RESET_LAB", "Preparing")
  /\ UNCHANGED met

Destroy(l) ==
  /\ session[l].status \in {"Running", "Failed"}
  /\ Enqueue(l, "DESTROY_LAB", "Terminating")
  /\ UNCHANGED met

\* The worker sends the command of the operation it has claimed.  It sends it
\* again after a stop, when the lease has run out.
Submit(l) ==
  /\ session[l].action # "none" /\ call[l] = NoCall
  /\ call' = [call EXCEPT ![l] =
       [NoCall EXCEPT !.cmd = session[l].action, !.lab = l, !.op = session[l].op,
                      !.at = IF session[l].action = "PROVISION_LAB"
                             THEN "database" ELSE "remove gateway"]]
  /\ Meets(l, call[Late].lab = l /\ session[l].action # "DESTROY_LAB")
  /\ UNCHANGED <<session, world, faults, env>>

\* Mutant: a status the schema does not know.
EndsTerminated(l, ok) ==
  session' = [session EXCEPT
    ![l].status = IF ~ok THEN "Failed"
                  ELSE IF @ = "Terminating" THEN "Terminated" ELSE "Running",
    ![l].action = "none"]

\* The completing transactions.
Ends(l, ok) ==
  session' = [session EXCEPT
    ![l].status = IF ~ok THEN "Failed"
                  ELSE IF @ = "Terminating" THEN "Ended" ELSE "Running",
    ![l].action = "none"]

Complete(l) ==
  /\ call[l].at = "answered"
  /\ Ends(l, ~call[l].failed)
  /\ call' = [call EXCEPT ![l] = NoCall]
  /\ UNCHANGED <<world, faults, env, met>>

\* The context of the request is cancelled; its handler goes on in Late.
GivesUp(l) ==
  /\ call[l].at \notin {"idle", "answered"} /\ call[Late] = NoCall
  /\ call' = [call EXCEPT ![l] = NoCall, ![Late] = [call[l] EXCEPT !.cancelled = TRUE]]
  /\ UNCHANGED <<world, env, met>>

Timeout(l) == Fault("timeout") /\ GivesUp(l) /\ Ends(l, FALSE)

WorkerStop(l) == Fault("worker") /\ GivesUp(l) /\ UNCHANGED session

-----------------------------------------------------------------------------
(***************************************************************************)
(* The gateway manager.  nginx -t resolves every host that some fragment   *)
(* passes requests to, whichever lab is being changed.  (The servers of    *)
(* the upstream block are resolved later, but the fragment also has a      *)
(* location for every instance, which names the host in its proxy_pass.)   *)
(***************************************************************************)
Resolves(w, l) ==
  l \in w.joined /\ w.network[l] # 0 /\ \A r \in Servers : w.container[l][r] # 0

Valid(w) == w.up /\ \A l \in w.file : Resolves(w, l)

Reload(w) == [w EXCEPT !.running = w.file]

WithFile(l) == [world EXCEPT !.file = @ \cup {l}]

\* Mutant: the fragment is reloaded and not removed.
WithoutFileKept(l) == world

WithoutFile(l) == [world EXCEPT !.file = @ \ {l}]

\* What a failed Apply or Remove leaves: the previous file, and the running
\* configuration as it was or, when it was the answer to the reload that was
\* lost, as it was to be.  Apply reloads again when there was a file before.
RolledBack(l) ==
  {world, [world EXCEPT !.running = IF l \in world.file THEN @ \ {l} ELSE world.file \cup {l}]}

ApplyRolledBack(l) == IF l \in world.file THEN {world, Reload(world)} ELSE RolledBack(l)

-----------------------------------------------------------------------------
(***************************************************************************)
(* Calls.  The call of a slot succeeds and makes the world good, is        *)
(* refused because of what it meets, finds its context cancelled, or fails *)
(* with one of the effects in bad.                                         *)
(***************************************************************************)
Perform(s, kind, possible, good, refused, bad, ok, fails) ==
  /\ \/ /\ ~call[s].cancelled /\ possible
        /\ world' = good /\ call' = [call EXCEPT ![s] = ok]
        /\ UNCHANGED faults
     \/ /\ ~call[s].cancelled /\ ~possible
        /\ world' = refused /\ call' = [call EXCEPT ![s] = fails]
        /\ UNCHANGED faults
     \/ /\ call[s].cancelled
        /\ call' = [call EXCEPT ![s] = fails]
        /\ UNCHANGED <<world, faults>>
     \/ /\ ~call[s].cancelled /\ Fault(kind)
        /\ world' \in bad /\ call' = [call EXCEPT ![s] = fails]
  /\ UNCHANGED <<session, env, met>>

Answered(c, failed) ==
  [NoCall EXCEPT !.cmd = c.cmd, !.lab = c.lab, !.at = "answered", !.failed = failed]

\* The deferred compensation of provision, with a context of its own.
Compensating(c) ==
  [c EXCEPT !.at = "remove gateway", !.undo = TRUE, !.cancelled = FALSE, !.next = 1]

Ensured(label, op) == label \in {0, op}

At(s, at) == s # Reconciler /\ call[s].at = at
Going(s, at) == [call[s] EXCEPT !.at = at]
Failing(s, at) == [call[s] EXCEPT !.at = at, !.failed = TRUE]

\* The procedures of the lab databases.
DatabaseMade(l) == [world EXCEPT !.database = @ \cup {l}]
DatabaseDropped(l) == [world EXCEPT !.database = @ \ {l}]

\* provision inspects the images first, which changes nothing.
InspectImage(s) ==
  /\ At(s, "database")
  /\ IF call[s].cancelled THEN UNCHANGED faults ELSE Fault("image")
  /\ call' = [call EXCEPT ![s] = Answered(call[s], TRUE)]
  /\ UNCHANGED <<session, world, env, met>>

ProvisionDatabase(s) ==
  LET l == call[s].lab
  IN  /\ At(s, "database")
      /\ Perform(s, "database", TRUE, DatabaseMade(l), world, {world, DatabaseMade(l)},
                 Going(s, "network"), Compensating(call[s]))

\* EnsureNetwork, which refuses a network with other labels, and ConnectNetwork
\* for the gateway and MySQL.
EnsureNetwork(s) ==
  LET c == call[s]
      made == [world EXCEPT !.network[c.lab] = c.op]
      joined == [made EXCEPT !.joined = @ \cup {c.lab}]
  IN  /\ At(s, "network")
      /\ Perform(s, "network", Ensured(world.network[c.lab], c.op), joined, world,
                 {world, made, joined}, Going(s, "container"), Compensating(c))

EnsureContainer(s) ==
  LET c == call[s]
      r == Containers[c.next]
      made == [world EXCEPT !.container[c.lab][r] = c.op]
  IN  /\ At(s, "container")
      /\ Perform(s, "container",
                 world.network[c.lab] # 0 /\ Ensured(world.container[c.lab][r], c.op),
                 made, world, {world, made},
                 IF c.next = Len(Containers) THEN Going(s, "gateway")
                 ELSE [c EXCEPT !.next = @ + 1],
                 Compensating(c))

ApplyFragment(s) ==
  LET c == call[s]
  IN  /\ At(s, "gateway")
      /\ Perform(s, "gateway", Valid(WithFile(c.lab)), Reload(WithFile(c.lab)), world,
                 ApplyRolledBack(c.lab), Answered(c, FALSE), Compensating(c))

\* provision.
Build(s) ==
  \/ InspectImage(s) \/ ProvisionDatabase(s) \/ EnsureNetwork(s)
  \/ EnsureContainer(s) \/ ApplyFragment(s)

\* Mutant: the failure of a removal is not reported when the database, which
\* comes last, could be dropped.
RemovedForgetful(c, failed) ==
  CASE c.undo                          -> Answered(c, TRUE)
    [] c.cmd = "RESET_LAB"             -> [c EXCEPT !.at = "database"]
    [] c.cmd = "RECONCILE_RESOURCES"   -> [c EXCEPT !.at = "orphans", !.lab = Late]
    [] OTHER                           -> Answered(c, FALSE)

\* After the last call of destroyResources.
Removed(c, failed) ==
  CASE c.undo                          -> Answered(c, TRUE)
    [] c.cmd = "RESET_LAB" /\ ~failed  -> [c EXCEPT !.at = "database"]
    [] c.cmd = "RECONCILE_RESOURCES"   -> IF failed THEN NoCall
                                          ELSE [c EXCEPT !.at = "orphans", !.lab = Late]
    [] OTHER                           -> Answered(c, failed)

RemoveFragment(s) ==
  LET l == call[s].lab
  IN  /\ call[s].at = "remove gateway"
      /\ IF l \notin world.file
         THEN Perform(s, "none", TRUE, world, world, {}, Going(s, "remove containers"),
                      Going(s, "remove containers"))
         ELSE Perform(s, "gateway", Valid(WithoutFile(l)), Reload(WithoutFile(l)), world,
                      RolledBack(l), Going(s, "remove containers"), Failing(s, "remove containers"))

RemoveContainers(s) ==
  LET l == call[s].lab
      kept(K) == [world EXCEPT !.container[l] = [r \in Roles |-> IF r \in K THEN @[r] ELSE 0]]
  IN  /\ call[s].at = "remove containers"
      /\ Perform(s, "container", TRUE, kept({}), world, {kept(K) : K \in SUBSET Roles},
                 Going(s, "remove network"), Failing(s, "remove network"))

\* Docker does not remove a network that still has a container.
RemoveNetwork(s) ==
  LET l == call[s].lab
      left == [world EXCEPT !.joined = @ \ {l}]
      gone == [left EXCEPT !.network[l] = 0]
  IN  /\ call[s].at = "remove network"
      /\ Perform(s, "network", world.container[l] = Absent, gone, left, {world, left, gone},
                 Going(s, "drop database"), Failing(s, "drop database"))

DestroyDatabase(s) ==
  LET c == call[s]
  IN  /\ c.at = "drop database"
      /\ Perform(s, "database", TRUE, DatabaseDropped(c.lab), world,
                 {world, DatabaseDropped(c.lab)}, Removed(c, c.failed), Removed(c, TRUE))

\* destroyResources goes on after a failure and reports it in the end.
DestroyResources(s) ==
  RemoveFragment(s) \/ RemoveContainers(s) \/ RemoveNetwork(s) \/ DestroyDatabase(s)

-----------------------------------------------------------------------------
(***************************************************************************)
(* Reconciliation.                                                         *)
(***************************************************************************)
\* Mutant: labs in preparation are not expected to have resources yet.
ExpectedLabIDsLate == {l \in Labs : session[l].status \in Active \ {"Preparing"}}

ExpectedLabIDs == {l \in Labs : session[l].status \in Active}

ReadExpected ==
  /\ call[Reconciler] = NoCall
  /\ call' = [call EXCEPT ![Reconciler] =
                [NoCall EXCEPT !.cmd = "RECONCILE_RESOURCES", !.at = "reconnect",
                               !.expected = ExpectedLabIDs]]
  /\ UNCHANGED <<session, world, faults, env, met>>

\* Mutant: only containers show that a lab has resources.
ActualLabIDsContainers == {l \in Labs : world.container[l] # Absent}

ActualLabIDs ==
  {l \in Labs : world.container[l] # Absent \/ world.network[l] # 0 \/ l \in world.file}

\* A failing call ends the command; the next one starts from the beginning.
ReconnectExpectedNetworks ==
  LET c == call[Reconciler]
      found == {l \in c.expected : world.network[l] # 0}
      with(K) == [world EXCEPT !.joined = @ \cup K]
  IN  /\ c.at = "reconnect"
      /\ Perform(Reconciler, "network", TRUE, with(found), world,
                 {with(K) : K \in SUBSET found}, [c EXCEPT !.at = "inspect"], NoCall)

InspectActual ==
  LET c == call[Reconciler]
  IN  /\ c.at = "inspect"
      /\ Perform(Reconciler, "inspect", TRUE, world, world, {world},
                 [c EXCEPT !.at = "orphans", !.expected = {},
                           !.orphans = ActualLabIDs \ c.expected,
                           !.databases = world.database \ c.expected], NoCall)

\* The orphans are removed one after the other, then the databases among them
\* that were found, removed or not.
RemoveOrphans ==
  LET c == call[Reconciler]
  IN  /\ c.at = "orphans"
      /\ \/ /\ \E l \in c.orphans :
                 call' = [call EXCEPT ![Reconciler] =
                            [c EXCEPT !.lab = l, !.at = "remove gateway", !.orphans = @ \ {l}]]
            /\ UNCHANGED <<session, world, faults, env, met>>
         \/ /\ c.orphans = {}
            /\ \E l \in c.databases :
                 Perform(Reconciler, "database", TRUE, DatabaseDropped(l), world,
                         {world, DatabaseDropped(l)},
                         [c EXCEPT !.databases = @ \ {l}, !.lab = Late], NoCall)
         \/ /\ c.orphans = {} /\ c.databases = {}
            /\ call' = [call EXCEPT ![Reconciler] = NoCall]
            /\ UNCHANGED <<session, world, faults, env, met>>

Reconcile == ReconnectExpectedNetworks \/ InspectActual \/ RemoveOrphans

-----------------------------------------------------------------------------
(***************************************************************************)
(* Processes that stop.                                                    *)
(***************************************************************************)
\* The handler that is inside Apply or Remove may have changed the file.
HalfDone ==
  {world} \cup {WithFile(call[s].lab) : s \in {t \in Slots : call[t].at = "gateway"}}
          \cup {WithoutFile(call[s].lab) : s \in {t \in Slots : call[t].at = "remove gateway"}}

\* The worker that waits for an answer is told of an error.
OrchestratorStop ==
  /\ \E s \in Slots : call[s].at \notin {"idle", "answered"}
  /\ Fault("orchestrator")
  /\ world' \in HalfDone
  /\ call' = [s \in Slots |->
       IF s \in Labs /\ call[s] # NoCall
       THEN IF call[s].at = "answered" THEN call[s] ELSE Answered(call[s], TRUE)
       ELSE NoCall]
  /\ UNCHANGED <<session, env, met>>

\* A handler nobody waits for is done.
Forget ==
  /\ call[Late].at = "answered"
  /\ call' = [call EXCEPT ![Late] = NoCall]
  /\ UNCHANGED <<session, world, faults, env, met>>

\* The gateway container is replaced: the new one is attached to no lab's
\* network, and nginx does not start before all fragments resolve.
GatewayReplaced ==
  /\ world.up
  /\ Fault("gateway_container")
  /\ world' = [world EXCEPT !.up = FALSE, !.joined = {}, !.running = {}]
  /\ UNCHANGED <<session, call, env, met>>

GatewayStarts ==
  /\ ~world.up
  /\ Valid([world EXCEPT !.up = TRUE])
  /\ world' = Reload([world EXCEPT !.up = TRUE])
  /\ UNCHANGED <<session, call, faults, env, met>>

Handler(s) == Build(s) \/ DestroyResources(s)

\* The platform's workers and the commands they wait for.
Work == \E l \in Labs : Submit(l) \/ Handler(l) \/ Complete(l)

\* The scheduler's reconciliation.
Reconciliation == ReadExpected \/ Reconcile \/ DestroyResources(Reconciler)

\* The command nobody waits for.
Abandoned == Handler(Late) \/ Forget

Next ==
  \/ \E l \in Labs : Create(l) \/ Reset(l) \/ Destroy(l) \/ Timeout(l) \/ WorkerStop(l)
  \/ Work \/ Reconciliation \/ Abandoned
  \/ OrchestratorStop \/ GatewayReplaced \/ GatewayStarts

Spec == Init /\ [][Next]_vars

\* The workers go on with what they have claimed, the orchestrator with what
\* it has been asked, the scheduler reconciles again and again, and Docker
\* restarts the gateway.
FairSpec ==
  Spec /\ WF_vars(Work) /\ WF_vars(Reconciliation) /\ WF_vars(Abandoned)
       /\ WF_vars(GatewayStarts)

-----------------------------------------------------------------------------
(***************************************************************************)
(* Properties.                                                             *)
(***************************************************************************)
Provisioned(l) ==
  /\ l \in world.database /\ world.network[l] # 0
  /\ \A r \in Roles : world.container[l][r] # 0
  /\ l \in world.file
  /\ world.up => l \in world.running /\ l \in world.joined

Gone(l) ==
  /\ l \notin world.database /\ l \notin world.file
  /\ world.network[l] = 0 /\ world.container[l] = Absent

\* A lab that users are told is Running has its database, its network, all of
\* its containers and its place in the gateway, whatever other labs,
\* compensations and reconciliations do at the same time.
RunningLabsIntact == \A l \in Labs : session[l].status = "Running" => Provisioned(l)

\* The same but for the two cases in which handlers meet: reconcile was given a
\* list of labs from before the lab was created, and provision was executed
\* again while the first execution was still being compensated.
RunningLabsComplete ==
  \A l \in Labs \ met : session[l].status = "Running" => Provisioned(l)

\* A destroyed lab has left nothing behind: destroyResources reports every
\* failure.  (A handler nobody waits for may still be compensating.)
DestroyedMeansGone ==
  [][\A l \in Labs :
       /\ session[l].status # "Ended" /\ session'[l].status = "Ended"
       /\ call[Late].lab # l
       => Gone(l)]_vars

GatewayReliable == env.faults \cap {"gateway", "gateway_container"} = {}

\* The fragments on disk always resolve, so that nginx -t never refuses one
\* lab because of another, unless a call to the gateway itself fails or handlers
\* have met: every command removes a lab's fragment before its containers and
\* writes it after them.
FragmentsResolve ==
  (GatewayReliable /\ met = {}) => \A l \in world.file : Resolves(world, l)

\* What a failed or ended lab has left is removed in the end.
LeftoversRemoved ==
  \A l \in Labs :
    session[l].status \in {"Failed", "Ended"} ~>
      (Gone(l) \/ session[l].status \notin {"Failed", "Ended"})

\* The same when no call to the gateway fails and no handlers meet, whatever
\* else fails or stops.
LeftoversRemovedWithGateway == (GatewayReliable /\ [](met = {})) => LeftoversRemoved
=============================================================================
