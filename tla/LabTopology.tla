----------------------------- MODULE LabTopology -----------------------------
(***************************************************************************)
(* The topology of one cluster lab in service: the rows of lab_instances,  *)
(* the application containers, the running gateway configuration, and the  *)
(* commands by which the operation worker of platform-api moves all three  *)
(* from one topology to the next.                                          *)
(*                                                                         *)
(* LabControl shows that a lab has at most one unfinished operation; here  *)
(* that operation is the variable job, with the payload its request built  *)
(* and the command its worker has come to.  A command to the orchestrator  *)
(* is one step.  It may be refused because of what it finds, fail without  *)
(* effect, or take effect while its answer is lost (the worker's timeout). *)
(* A timeout ends only the waiting: a command that the worker has given up *)
(* may also take effect at any time later, or never.  The worker may stop  *)
(* at any command; the operation is then claimed again and executed from   *)
(* its first command.                                                      *)
(*                                                                         *)
(* Instance app-i is the number i.  Container identifiers and the figures  *)
(* derived from the performance are left out.  Reconciliation compares     *)
(* labs, not instances, and changes nothing here.                          *)
(***************************************************************************)
EXTENDS Integers, FiniteSets

CONSTANTS
  MaxInstances,      \* LAB_MAX_INSTANCES_PER_LAB
  Performances,      \* performance percentages a user may ask for
  Weights,           \* weights a user or the balancer may ask for
  Requests,          \* topology actions that are requested
  Faults,            \* kinds of command failure that happen: "fail", "lost"
  MaxFaults,         \* bound: number of failing commands
  MaxRestarts,       \* bound: number of times a worker stops
  MaxOperations      \* bound: number of operations

Names == 1..MaxInstances

TopologyActions ==
  {"ADD_INSTANCE", "REMOVE_INSTANCE", "SET_INSTANCE_PERFORMANCE",
   "SET_INSTANCE_WEIGHTS", "SET_BALANCING_MODE", "APPLY_ADAPTIVE_WEIGHTS"}

\* The weight a request gives a new instance in the gateway, and the weight
\* and performance the scenario template gives it in its row.
DefaultInstanceWeight == 100
InitialWeight == 100
InitialPerformance == 100

ASSUME TopologyAssumption ==
  /\ MaxInstances \in Nat \ {0}
  /\ Performances \subseteq 20..100 /\ Weights \subseteq 1..100
  /\ Requests \subseteq TopologyActions
  /\ Faults \subseteq {"fail", "lost"}
  /\ MaxFaults \in Nat /\ MaxRestarts \in Nat /\ MaxOperations \in Nat

VARIABLES
  rows,        \* lab_instances of the lab, by instance name
  mode,        \* balancing_mode of the lab
  containers,  \* application containers, with the operation in their label
  upstream,    \* weight of each server in the running gateway configuration
  job,         \* the unfinished operation
  abandoned,   \* commands that were given up and may still take effect
  belated,     \* whether one of them has taken effect
  seq,         \* number of operations so far; identifies the current one
  faults,      \* number of failing commands, by kind
  restarts     \* number of times a worker has stopped

vars == <<rows, mode, containers, upstream, job, abandoned, belated, seq, faults, restarts>>

-----------------------------------------------------------------------------
(***************************************************************************)
(* State.                                                                  *)
(***************************************************************************)
Rows == [perf : 20..100, weight : 1..100]

\* topologyServers: what the gateway configuration says for these rows.
Servers(r) == [n \in DOMAIN r |-> r[n].weight]

\* A payload: the target instance, performance and mode, the servers to
\* apply, and the rows as the request saw them (previousServers,
\* previousPerformancePercent and the topology fingerprint).
NoJob == [action |-> "none", pc |-> "idle", name |-> 0, perf |-> 0,
          mode |-> "fixed", servers |-> <<>>, seen |-> <<>>]

NoFaults == [fail |-> 0, lost |-> 0]

IsPartialFcn(f, S, Ok(_)) == DOMAIN f \subseteq S /\ \A n \in DOMAIN f : Ok(f[n])

\* The tables and payloads are well-typed, and the lab always has between one
\* and MaxInstances instances (the limits of buildTopologyPayload, which are
\* tested when the request comes and hold when it completes).
TypeOK ==
  /\ IsPartialFcn(rows, Names, LAMBDA r : r \in Rows) /\ DOMAIN rows # {}
  /\ mode \in {"fixed", "adaptive"}
  /\ IsPartialFcn(containers, Names, LAMBDA c : c \in [perf : 20..100, op : 0..seq])
  /\ IsPartialFcn(upstream, Names, LAMBDA w : w \in 1..100) /\ DOMAIN upstream # {}
  /\ job.action \in TopologyActions \cup {"none"}
  /\ job.name \in Names \cup {0}
  /\ belated \in BOOLEAN
  /\ seq \in 0..MaxOperations
  /\ faults \in [fail : 0..MaxFaults, lost : 0..MaxFaults]
  /\ restarts \in 0..MaxRestarts

\* A cluster lab as it is provisioned, with one instance.
Init ==
  /\ rows = [n \in {1} |->
               [perf |-> InitialPerformance, weight |-> InitialWeight]]
  /\ mode = "fixed"
  /\ containers = [n \in {1} |->
                     [perf |-> InitialPerformance, op |-> 0]]
  /\ upstream = Servers(rows)
  /\ job = NoJob
  /\ abandoned = {} /\ belated = FALSE
  /\ seq = 0 /\ faults = NoFaults /\ restarts = 0

-----------------------------------------------------------------------------
(***************************************************************************)
(* Requests: what EnqueueTopologyAction and EnqueueAdjustment accept and   *)
(* the payload they store.                                                 *)
(***************************************************************************)
Enqueue(action, name, perf, m, servers) ==
  /\ action \in Requests
  /\ job = NoJob
  /\ seq < MaxOperations
  /\ job' = [action |-> action, pc |-> "start", name |-> name, perf |-> perf,
             mode |-> m, servers |-> servers, seen |-> rows]
  /\ seq' = seq + 1
  /\ UNCHANGED <<rows, mode, containers, upstream, abandoned, belated, faults, restarts>>

\* Mutant: the name after the last one, although removals leave gaps.
NextInstanceNameAfterLast(r) ==
  CHOOSE n \in 2..(MaxInstances + 1) :
    n - 1 \in DOMAIN r /\ \A k \in DOMAIN r : k < n

\* The first free name.
NextInstanceName(r) ==
  CHOOSE n \in Names \ DOMAIN r : \A k \in Names \ DOMAIN r : n <= k

With(f, n, x) == [k \in DOMAIN f \cup {n} |-> IF k = n THEN x ELSE f[k]]

\* The platform-wide container quota may refuse the request; nothing changes.
EnqueueAddInstance ==
  /\ Cardinality(DOMAIN rows) < MaxInstances
  /\ LET n == NextInstanceName(rows)
     IN  Enqueue("ADD_INSTANCE", n, InitialPerformance, mode,
                 With(Servers(rows), n, DefaultInstanceWeight))

Without(f, n) == [k \in DOMAIN f \ {n} |-> f[k]]

EnqueueRemoveInstance(n) ==
  /\ Cardinality(DOMAIN rows) > 1
  /\ n \in DOMAIN rows
  /\ Enqueue("REMOVE_INSTANCE", n, 0, mode, Without(Servers(rows), n))

EnqueueSetPerformance(n, q) ==
  /\ n \in DOMAIN rows
  /\ Enqueue("SET_INSTANCE_PERFORMANCE", n, q, mode, Servers(rows))

EnqueueSetWeights(w) ==
  /\ mode = "fixed"
  /\ Enqueue("SET_INSTANCE_WEIGHTS", 0, 0, mode, w)

EnqueueSetMode(m) == Enqueue("SET_BALANCING_MODE", 0, 0, m, Servers(rows))

\* The balancer's proposal, checked against the rows under the lock.
EnqueueAdjustment(w) ==
  /\ mode = "adaptive"
  /\ w # Servers(rows)
  /\ Enqueue("APPLY_ADAPTIVE_WEIGHTS", 0, 0, mode, w)

Request ==
  \/ EnqueueAddInstance
  \/ \E n \in Names : EnqueueRemoveInstance(n)
  \/ \E n \in Names, q \in Performances : EnqueueSetPerformance(n, q)
  \/ \E w \in [DOMAIN rows -> Weights] : EnqueueSetWeights(w) \/ EnqueueAdjustment(w)
  \/ \E m \in {"fixed", "adaptive"} : EnqueueSetMode(m)

-----------------------------------------------------------------------------
(***************************************************************************)
(* Commands of the orchestrator.  Each goes on at ok or at bad.            *)
(***************************************************************************)
Goto(pc) == job' = [job EXCEPT !.pc = pc]

Fault(kind, n) ==
  /\ kind \in Faults
  /\ faults.fail + faults.lost + n <= MaxFaults
  /\ faults' = [faults EXCEPT ![kind] = @ + n]

\* Mutant: a container of that name must not exist yet.
CreatableStrict(n, op) == n \notin DOMAIN containers

\* EnsureContainer accepts an existing container only with the labels of the
\* same operation.
Creatable(n, op) == n \in DOMAIN containers => containers[n].op = op

\* nginx -t resolves the instance hosts that the fragment passes requests to,
\* so a configuration with a missing container is refused and the previous
\* one stays.
Resolvable(servers) == DOMAIN servers # {} /\ DOMAIN servers \subseteq DOMAIN containers

Possible(c) ==
  CASE c.type = "CREATE_APP_INSTANCE" -> Creatable(c.name, c.op)
    [] c.type = "APPLY_LAB_UPSTREAM"  -> Resolvable(c.servers)
    [] OTHER                          -> c.name \in DOMAIN containers

\* The containers after command c, and the gateway.  An update of the capacity
\* removes the container and creates it anew.
ContainersAfter(c) ==
  CASE c.type = "CREATE_APP_INSTANCE" /\ c.name \notin DOMAIN containers ->
         With(containers, c.name, [perf |-> c.perf, op |-> c.op])
    [] c.type = "UPDATE_APP_CAPACITY" ->
         With(containers, c.name, [perf |-> c.perf, op |-> c.op])
    [] c.type = "DELETE_APP_INSTANCE" -> Without(containers, c.name)
    [] OTHER -> containers

UpstreamAfter(c) == IF c.type = "APPLY_LAB_UPSTREAM" THEN c.servers ELSE upstream

\* A command is refused when it is not possible.
Command(c, ok, bad) ==
  \/ /\ Possible(c)
     /\ Goto(ok)
     /\ containers' = ContainersAfter(c) /\ upstream' = UpstreamAfter(c)
     /\ UNCHANGED <<faults, abandoned, belated>>
  \/ /\ ~Possible(c)
     /\ Goto(bad)
     /\ UNCHANGED <<containers, upstream, faults, abandoned, belated>>
  \/ /\ Possible(c) /\ Fault("fail", 1)
     /\ Goto(bad)
     /\ UNCHANGED <<containers, upstream, abandoned, belated>>
  \/ /\ Possible(c) /\ Fault("lost", 1)
     /\ Goto(bad)
     /\ \/ /\ containers' = ContainersAfter(c) /\ upstream' = UpstreamAfter(c)
           /\ UNCHANGED abandoned
        \/ abandoned' = abandoned \cup {c} /\ UNCHANGED <<containers, upstream>>
     /\ UNCHANGED belated

NewCommand(type, n, q, previous, servers) ==
  [type |-> type, name |-> n, perf |-> q, previous |-> previous, servers |-> servers, op |-> seq]

CreateApp(n, q, ok, bad) ==
  Command(NewCommand("CREATE_APP_INSTANCE", n, q, q, <<>>), ok, bad)

DeleteApp(n, ok, bad) ==
  Command(NewCommand("DELETE_APP_INSTANCE", n, 0, 0, <<>>), ok, bad)

\* When the new container fails the old performance is restored; when that
\* fails too, the instance is gone.
UpdateAppCapacity(n, q, previous, ok, bad) ==
  \/ Command(NewCommand("UPDATE_APP_CAPACITY", n, q, previous, <<>>), ok, bad)
  \/ /\ n \in DOMAIN containers
     /\ \/ /\ Fault("fail", 1)
           /\ containers' = With(containers, n, [perf |-> previous, op |-> seq])
        \/ /\ Fault("fail", 2)
           /\ containers' = Without(containers, n)
     /\ Goto(bad)
     /\ UNCHANGED <<upstream, abandoned, belated>>

ApplyUpstream(servers, ok, bad) ==
  Command(NewCommand("APPLY_LAB_UPSTREAM", 0, 0, 0, servers), ok, bad)

\* A command that was given up takes effect, or is cancelled.  Of a capacity
\* update the removal comes first; the creation, with the new performance or
\* with the previous one, is then still to come.
Belated(c) ==
  /\ c \in abandoned
  /\ \/ /\ Possible(c) /\ c.type # "UPDATE_APP_CAPACITY"
        /\ containers' = ContainersAfter(c) /\ upstream' = UpstreamAfter(c)
        /\ abandoned' = abandoned \ {c} /\ belated' = TRUE
     \/ /\ Possible(c) /\ c.type = "UPDATE_APP_CAPACITY"
        /\ containers' = Without(containers, c.name) /\ UNCHANGED upstream
        /\ \E q \in {c.perf, c.previous} :
             abandoned' = (abandoned \ {c})
                            \cup {[c EXCEPT !.type = "CREATE_APP_INSTANCE", !.perf = q]}
        /\ belated' = TRUE
     \/ /\ abandoned' = abandoned \ {c}
        /\ UNCHANGED <<containers, upstream, belated>>
  /\ UNCHANGED <<rows, mode, job, seq, faults, restarts>>

-----------------------------------------------------------------------------
(***************************************************************************)
(* The operation worker, one command after the other.                      *)
(***************************************************************************)
\* Mutant: the new container is kept when the gateway refuses it.
AddInstanceKeep ==
  /\ job.action = "ADD_INSTANCE"
  /\ \/ job.pc = "start" /\ CreateApp(job.name, job.perf, "apply", "failed")
     \/ job.pc = "apply" /\ ApplyUpstream(job.servers, "done", "failed")

AddInstance ==
  /\ job.action = "ADD_INSTANCE"
  /\ \/ job.pc = "start" /\ CreateApp(job.name, job.perf, "apply", "failed")
     \/ job.pc = "apply" /\ ApplyUpstream(job.servers, "done", "undo")
     \/ job.pc = "undo"  /\ DeleteApp(job.name, "failed", "failed")

\* Mutant: the container is removed although the gateway kept its server.
RemoveInstanceHasty ==
  /\ job.action = "REMOVE_INSTANCE"
  /\ \/ job.pc = "start"  /\ ApplyUpstream(job.servers, "delete", "delete")
     \/ job.pc = "delete" /\ DeleteApp(job.name, "done", "undo")
     \/ job.pc = "undo"   /\ ApplyUpstream(Servers(job.seen), "failed", "failed")

RemoveInstance ==
  /\ job.action = "REMOVE_INSTANCE"
  /\ \/ job.pc = "start"  /\ ApplyUpstream(job.servers, "delete", "failed")
     \/ job.pc = "delete" /\ DeleteApp(job.name, "done", "undo")
     \/ job.pc = "undo"   /\ ApplyUpstream(Servers(job.seen), "failed", "failed")

PreviousPerformance == job.seen[job.name].perf

SetInstancePerformance ==
  /\ job.action = "SET_INSTANCE_PERFORMANCE"
  /\ \/ /\ job.pc = "start"
        /\ UpdateAppCapacity(job.name, job.perf, PreviousPerformance, "apply", "failed")
     \/ job.pc = "apply" /\ ApplyUpstream(job.servers, "done", "undo")
     \/ /\ job.pc = "undo"
        /\ UpdateAppCapacity(job.name, PreviousPerformance, job.perf,
                             "undoApply", "undoApply")
     \/ job.pc = "undoApply" /\ ApplyUpstream(Servers(job.seen), "failed", "failed")

SetInstanceWeights ==
  /\ job.action = "SET_INSTANCE_WEIGHTS"
  /\ job.pc = "start"
  /\ ApplyUpstream(job.servers, "done", "failed")

SetBalancingMode ==
  /\ job.action = "SET_BALANCING_MODE"
  /\ job.pc = "start"
  /\ Goto("done")
  /\ UNCHANGED <<containers, upstream, abandoned, belated, faults>>

\* ValidateAdaptive, then the new weights.
ApplyAdaptiveWeights ==
  /\ job.action = "APPLY_ADAPTIVE_WEIGHTS"
  /\ \/ /\ job.pc = "start"
        /\ Goto(IF mode = "adaptive" /\ rows = job.seen THEN "apply" ELSE "skipped")
        /\ UNCHANGED <<containers, upstream, abandoned, belated, faults>>
     \/ job.pc = "apply" /\ ApplyUpstream(job.servers, "done", "failed")

Execute ==
  /\ \/ AddInstance \/ RemoveInstance \/ SetInstancePerformance
     \/ SetInstanceWeights \/ SetBalancingMode \/ ApplyAdaptiveWeights
  /\ UNCHANGED <<rows, mode, seq, restarts>>

\* applyTopologyResult.
RowsAfter ==
  CASE job.action = "ADD_INSTANCE" ->
         With(rows, job.name, [perf |-> job.perf, weight |-> InitialWeight])
    [] job.action = "REMOVE_INSTANCE" -> Without(rows, job.name)
    [] job.action = "SET_INSTANCE_PERFORMANCE" ->
         [rows EXCEPT ![job.name].perf = job.perf]
    [] job.action \in {"SET_INSTANCE_WEIGHTS", "APPLY_ADAPTIVE_WEIGHTS"} ->
         [n \in DOMAIN rows |-> [rows[n] EXCEPT !.weight = job.servers[n]]]
    [] job.action = "SET_BALANCING_MODE" -> rows

CompleteTopology ==
  /\ job.pc \in {"done", "skipped", "failed"}
  /\ rows' = IF job.pc = "done" THEN RowsAfter ELSE rows
  /\ mode' = IF job.pc = "done" /\ job.action = "SET_BALANCING_MODE"
             THEN job.mode ELSE mode
  /\ job' = NoJob
  /\ UNCHANGED <<containers, upstream, abandoned, belated, seq, faults, restarts>>

\* The worker stops between two commands.
Restart ==
  /\ job.action # "none" /\ job.pc # "start"
  /\ restarts < MaxRestarts
  /\ restarts' = restarts + 1
  /\ Goto("start")
  /\ UNCHANGED <<rows, mode, containers, upstream, abandoned, belated, seq, faults>>

\* A worker that is asked to stop while removeInstance waits for the gateway
\* to drain puts the previous servers back, whether that works or not.
Shutdown ==
  /\ job.action = "REMOVE_INSTANCE" /\ job.pc = "delete"
  /\ restarts < MaxRestarts
  /\ restarts' = restarts + 1
  /\ ApplyUpstream(Servers(job.seen), "start", "start")
  /\ UNCHANGED <<rows, mode, seq>>

Next ==
  \/ Request \/ Execute \/ CompleteTopology \/ Restart \/ Shutdown
  \/ \E c \in abandoned : Belated(c)

Spec == Init /\ [][Next]_vars

-----------------------------------------------------------------------------
(***************************************************************************)
(* Properties.                                                             *)
(***************************************************************************)
\* Between operations the three views of the topology agree: the rows that
\* users see, the containers that exist with their performance, and the
\* weights the gateway balances with.  The undo commands of addInstance,
\* removeInstance and setInstancePerformance are there for this.
Agreement ==
  job = NoJob =>
    /\ DOMAIN containers = DOMAIN rows
    /\ \A n \in DOMAIN rows : containers[n].perf = rows[n].perf
    /\ upstream = Servers(rows)

\* After one failing command the undo commands have restored the agreement.
TopologyAgreement ==
  restarts = 0 /\ faults.lost = 0 /\ faults.fail <= 1 => Agreement

\* Commands are idempotent: as long as no command fails of itself, an
\* operation that a restarted worker executes again does not fail either.
RetriesSucceed == faults = NoFaults => job.pc # "failed"

DrainedWhenDeleted ==
  job.action = "REMOVE_INSTANCE" /\ ~belated' =>
    \A n \in DOMAIN containers \ DOMAIN containers' : n \notin DOMAIN upstream

\* removeInstance takes an instance out of the running gateway configuration
\* before it deletes the container, whatever fails or is repeated, and whatever
\* answer is lost.  The exception is a command that took effect after the
\* worker had given it up: a deletion that comes after the undo has put the
\* server back, or an older gateway update that puts it back before the
\* deletion.  (A capacity update replaces a container behind its server.)
DrainedBeforeDelete == [][DrainedWhenDeleted]_vars
=============================================================================
