------------------------- MODULE LabTopologyProofs --------------------------
(***************************************************************************)
(* Theorems about the instances behind the gateway of a lab (LabTopology): *)
(* the rows, the containers and the gateway agree between operations, and  *)
(* an instance is drained before its container is deleted.                 *)
(***************************************************************************)
EXTENDS LabTopology, TLAPS, FiniteSetTheorems, WellFoundedInduction

-----------------------------------------------------------------------------
(***************************************************************************)
(* What the provers need of the functions the model is built from.         *)
(***************************************************************************)
Perfs(f) == [n \in DOMAIN f |-> f[n].perf]
IsFcn(f) == f = [n \in DOMAIN f |-> f[n]]

LEMMA ViewsOfWith ==
  ASSUME NEW f, NEW n, NEW x
  PROVE  /\ Perfs(With(f, n, x)) = With(Perfs(f), n, x.perf)
         /\ Servers(With(f, n, x)) = With(Servers(f), n, x.weight)
BY DEF Perfs, Servers, With

LEMMA PerfsOfNew ==
  ASSUME NEW f, NEW n, NEW q, NEW o
  PROVE  Perfs(With(f, n, [perf |-> q, op |-> o])) = With(Perfs(f), n, q)
<1> DEFINE c == [perf |-> q, op |-> o]
<1>1. c.perf = q OBVIOUS
<1> HIDE DEF c
<1>2. Perfs(With(f, n, c)) = With(Perfs(f), n, c.perf) BY ViewsOfWith
<1> QED BY <1>1, <1>2 DEF c

LEMMA ViewsOfWithout ==
  ASSUME NEW f, NEW n
  PROVE  /\ Perfs(Without(f, n)) = Without(Perfs(f), n)
         /\ Servers(Without(f, n)) = Without(Servers(f), n)
BY DEF Perfs, Servers, Without

LEMMA WithWith ==
  ASSUME NEW f, NEW n, NEW x, NEW y
  PROVE  With(With(f, n, x), n, y) = With(f, n, y)
BY DEF With

LEMMA WithoutWith ==
  ASSUME NEW f, IsFcn(f), NEW n, NEW x, n \notin DOMAIN f
  PROVE  Without(With(f, n, x), n) = f
BY DEF With, Without, IsFcn

LEMMA WithItself ==
  ASSUME NEW f, IsFcn(f), NEW n \in DOMAIN f
  PROVE  With(f, n, f[n]) = f
BY DEF With, IsFcn

LEMMA ViewsAreFcns ==
  ASSUME NEW f
  PROVE  /\ IsFcn(Perfs(f)) /\ DOMAIN Perfs(f) = DOMAIN f
         /\ IsFcn(Servers(f)) /\ DOMAIN Servers(f) = DOMAIN f
         /\ \A n \in DOMAIN f : Perfs(f)[n] = f[n].perf
BY DEF Perfs, Servers, IsFcn

LEMMA ViewsOfPerformance ==
  ASSUME NEW r, IsFcn(r), \A k \in DOMAIN r : r[k] \in Rows, NEW n \in DOMAIN r, NEW q
  PROVE  /\ Perfs([r EXCEPT ![n].perf = q]) = With(Perfs(r), n, q)
         /\ Servers([r EXCEPT ![n].perf = q]) = Servers(r)
BY DEF Perfs, Servers, With, IsFcn, Rows

LEMMA ViewsOfWeights ==
  ASSUME NEW r, \A k \in DOMAIN r : r[k] \in Rows, NEW w, IsFcn(w), DOMAIN w = DOMAIN r
  PROVE  LET after == [n \in DOMAIN r |-> [r[n] EXCEPT !.weight = w[n]]]
         IN  Perfs(after) = Perfs(r) /\ Servers(after) = w
BY DEF Perfs, Servers, IsFcn, Rows

\* Every set of numbers has a least one, so that there is a first free name
\* whenever the lab has fewer instances than it may have.
LEMMA LeastElement ==
  ASSUME NEW S, S \subseteq Nat, S # {}
  PROVE  \E n \in S : \A k \in S : n <= k
<1> DEFINE R == OpToRel(<, Nat)
<1>1. IsWellFoundedOn(R, Nat) BY NatLessThanWellFounded
<1> HIDE DEF R
<1>2. PICK n \in S : \A k \in S : <<k, n>> \notin R BY <1>1, WFMin
<1>3. \A a, b \in Nat : a < b => <<a, b>> \in R BY DEF R, OpToRel
<1>4. ASSUME NEW k \in S PROVE n <= k
  <2>1. ~(k < n) BY <1>2, <1>3
  <2> QED BY <2>1
<1> QED BY <1>4

LEMMA FreeName ==
  ASSUME NEW r, DOMAIN r \subseteq Names, Cardinality(DOMAIN r) < MaxInstances
  PROVE  NextInstanceName(r) \in Names \ DOMAIN r
<1>1. Cardinality(Names) = MaxInstances
  <2>1. 1 \in Int /\ MaxInstances \in Int /\ MaxInstances > 0 BY TopologyAssumption
  <2>2. Cardinality(1..MaxInstances) = IF 1 > MaxInstances THEN 0 ELSE MaxInstances - 1 + 1
    BY <2>1, FS_Interval
  <2> QED BY <2>1, <2>2 DEF Names
<1> DEFINE free == Names \ DOMAIN r
<1>2. free # {}
  <2>1. ASSUME free = {} PROVE DOMAIN r = Names BY <2>1
  <2> QED BY <2>1, <1>1, TopologyAssumption
<1>3. free \subseteq Nat BY TopologyAssumption DEF Names
<1> HIDE DEF free
<1>4. \E n \in free : \A k \in free : n <= k
  BY <1>2, <1>3, LeastElement
<1>5. (CHOOSE n \in free : \A k \in free : n <= k) \in free BY <1>4
<1> QED BY <1>5 DEF NextInstanceName, free

\* The servers that the payload of a request asks the gateway for.
RequestedServers ==
  CASE job.action = "ADD_INSTANCE" -> With(Servers(rows), job.name, InitialWeight)
    [] job.action = "REMOVE_INSTANCE" -> Without(Servers(rows), job.name)
    [] job.action \in {"SET_INSTANCE_WEIGHTS", "APPLY_ADAPTIVE_WEIGHTS"} -> job.servers
    [] OTHER -> Servers(rows)

\* What a payload holds, which nothing changes before the operation completes.
PayloadOK ==
  /\ job = [action |-> job.action, pc |-> job.pc, name |-> job.name, perf |-> job.perf,
            mode |-> job.mode, servers |-> job.servers, seen |-> job.seen]
  /\ job.action \in TopologyActions
  /\ job.seen = rows
  /\ job.servers = RequestedServers
  /\ job.mode \in {"fixed", "adaptive"}
  /\ job.action = "ADD_INSTANCE" => job.name \in Names \ DOMAIN rows
  /\ job.action = "REMOVE_INSTANCE" => DOMAIN rows # {job.name}
  /\ job.action \in {"REMOVE_INSTANCE", "SET_INSTANCE_PERFORMANCE"} =>
       job.name \in DOMAIN rows
  /\ job.action \in {"ADD_INSTANCE", "SET_INSTANCE_PERFORMANCE"} => job.perf \in 20..100
  /\ job.action \in {"SET_INSTANCE_WEIGHTS", "SET_BALANCING_MODE", "APPLY_ADAPTIVE_WEIGHTS"} =>
       job.name = 0
  /\ job.action \in {"SET_INSTANCE_WEIGHTS", "APPLY_ADAPTIVE_WEIGHTS"} =>
       job.servers \in [DOMAIN rows -> 1..100]

\* The commands an operation comes to.
PcOK ==
  CASE job.action = "ADD_INSTANCE" -> job.pc \in {"start", "apply", "undo", "done", "failed"}
    [] job.action = "REMOVE_INSTANCE" -> job.pc \in {"start", "delete", "undo", "done", "failed"}
    [] job.action = "SET_INSTANCE_PERFORMANCE" ->
         job.pc \in {"start", "apply", "undo", "undoApply", "done", "failed"}
    [] job.action = "SET_BALANCING_MODE" -> job.pc \in {"start", "done"}
    [] job.action = "SET_INSTANCE_WEIGHTS" -> job.pc \in {"start", "done", "failed"}
    [] OTHER -> job.pc \in {"start", "apply", "skipped", "done", "failed"}

\* An instance that is about to be deleted has left the gateway, unless a
\* command that was given up has come late.
DrainedAtDelete ==
  job.action = "REMOVE_INSTANCE" /\ job.pc = "delete" /\ ~belated => job.name \notin DOMAIN upstream

\* The performance of each container, and the servers of the gateway, at each
\* command of an operation during which at most one command fails.
StagePerfs ==
  CASE job.action \in {"ADD_INSTANCE", "SET_INSTANCE_PERFORMANCE"}
         /\ job.pc \in {"apply", "undo", "done"} -> With(Perfs(rows), job.name, job.perf)
    [] job.action = "REMOVE_INSTANCE" /\ job.pc = "done" -> Without(Perfs(rows), job.name)
    [] OTHER -> Perfs(rows)

StageServers ==
  IF \/ job.pc = "done"
     \/ job.action = "REMOVE_INSTANCE" /\ job.pc \in {"delete", "undo"}
  THEN job.servers ELSE Servers(rows)

Undisturbed == restarts = 0 /\ faults.lost = 0 /\ faults.fail <= 1

\* The undo commands run only after a command has failed, so that under
\* Undisturbed they cannot fail themselves.
StageOK ==
  Undisturbed =>
    /\ Perfs(containers) = StagePerfs
    /\ upstream = StageServers
    /\ job.pc \in {"undo", "undoApply"} => faults.fail = 1

\* A command that was given up, as far as its effect depends on it.  There is
\* one, or a late one has taken effect, only when an answer was lost.
ServersOK(s) ==
  IsPartialFcn(s, Names, LAMBDA w : w \in 1..100) /\ DOMAIN s # {} /\ IsFcn(s)

CommandOK(c) ==
  /\ c.op \in 0..seq
  /\ \/ c.type = "APPLY_LAB_UPSTREAM" /\ ServersOK(c.servers)
     \/ c.type = "DELETE_APP_INSTANCE" /\ c.name \in Names
     \/ c.type = "CREATE_APP_INSTANCE" /\ c.name \in Names /\ c.perf \in 20..100
     \/ /\ c.type = "UPDATE_APP_CAPACITY" /\ c.name \in Names
        /\ c.perf \in 20..100 /\ c.previous \in 20..100
        /\ c = [type |-> c.type, name |-> c.name, perf |-> c.perf, previous |-> c.previous,
                servers |-> c.servers, op |-> c.op]

AbandonedOK ==
  /\ \A c \in abandoned : CommandOK(c)
  /\ abandoned # {} \/ belated => faults.lost > 0

TopologyInv ==
  /\ TypeOK
  /\ AbandonedOK
  /\ IsFcn(rows) /\ IsFcn(containers) /\ IsFcn(upstream)
  /\ job = NoJob \/ (PayloadOK /\ PcOK)
  /\ DrainedAtDelete
  /\ StageOK

USE DEF IsFcn

LEMMA TopologyInvInit == Init => TopologyInv
<1> SUFFICES ASSUME Init PROVE TopologyInv OBVIOUS
<1>1. rows[1] = [perf |-> 100, weight |-> 100] /\ DOMAIN rows = {1} /\ IsFcn(rows)
  BY DEF Init, InitialPerformance, InitialWeight
<1>2. containers[1] = [perf |-> 100, op |-> 0] /\ DOMAIN containers = {1} /\ IsFcn(containers)
  BY DEF Init, InitialPerformance
<1>3. upstream = [n \in {1} |-> 100]
  BY <1>1 DEF Init, Servers
<1>4. TypeOK
  <2>1. 1 \in Names BY TopologyAssumption DEF Names
  <2>2. rows[1] \in Rows /\ containers[1] \in [perf : 20..100, op : 0..seq]
    BY <1>1, <1>2 DEF Rows, Init
  <2>3. faults \in [fail : 0..MaxFaults, lost : 0..MaxFaults]
    BY TopologyAssumption DEF Init, NoFaults
  <2>4. seq \in 0..MaxOperations /\ restarts \in 0..MaxRestarts
    BY TopologyAssumption DEF Init
  <2>5. belated \in BOOLEAN BY DEF Init
  <2>6. /\ IsPartialFcn(rows, Names, LAMBDA r : r \in Rows) /\ DOMAIN rows # {}
        /\ IsPartialFcn(containers, Names, LAMBDA c : c \in [perf : 20..100, op : 0..seq])
        /\ IsPartialFcn(upstream, Names, LAMBDA w : w \in 1..100) /\ DOMAIN upstream # {}
    BY <1>1, <1>2, <1>3, <2>1, <2>2 DEF IsPartialFcn
  <2> QED BY <2>3, <2>4, <2>5, <2>6 DEF Init, TypeOK, IsPartialFcn, NoJob
<1>5. StageOK
  BY <1>1, <1>2, <1>3 DEF Init, StageOK, StagePerfs, StageServers, Perfs, Servers, NoJob, NoFaults
<1> QED BY <1>1, <1>2, <1>3, <1>4, <1>5 DEF Init, TopologyInv, DrainedAtDelete, AbandonedOK, NoJob

\* What each command can do.
Lost(c, happened) ==
  /\ Fault("lost", 1)
  /\ \/ happened /\ abandoned' = abandoned
     \/ UNCHANGED <<containers, upstream>> /\ abandoned' = abandoned \cup {c}

LEMMA ApplyEffect ==
  ASSUME NEW servers, NEW ok, NEW bad, ApplyUpstream(servers, ok, bad)
  PROVE  LET c == NewCommand("APPLY_LAB_UPSTREAM", 0, 0, 0, servers)
         IN  /\ UNCHANGED <<containers, belated>>
             /\ \/ Resolvable(servers) /\ Goto(ok) /\ upstream' = servers
                   /\ UNCHANGED <<faults, abandoned>>
                \/ ~Resolvable(servers) /\ Goto(bad) /\ UNCHANGED <<upstream, faults, abandoned>>
                \/ Fault("fail", 1) /\ Goto(bad) /\ UNCHANGED <<upstream, abandoned>>
                \/ Lost(c, upstream' = servers) /\ Resolvable(servers) /\ Goto(bad)
<1> DEFINE c == NewCommand("APPLY_LAB_UPSTREAM", 0, 0, 0, servers)
<1>1. c.type = "APPLY_LAB_UPSTREAM" /\ c.servers = servers BY DEF NewCommand
<1>2. Command(c, ok, bad) BY DEF ApplyUpstream
<1> HIDE DEF c
<1>3. Possible(c) = Resolvable(servers) BY <1>1 DEF Possible, Resolvable
<1>4. ContainersAfter(c) = containers /\ UpstreamAfter(c) = servers
  BY <1>1 DEF ContainersAfter, UpstreamAfter
<1>5. QED BY <1>2, <1>3, <1>4 DEF Command, Lost, c

LEMMA CreateEffect ==
  ASSUME NEW n, NEW q, NEW ok, NEW bad, CreateApp(n, q, ok, bad)
  PROVE  LET c == NewCommand("CREATE_APP_INSTANCE", n, q, q, <<>>)
             after == IF n \in DOMAIN containers THEN containers
                      ELSE With(containers, n, [perf |-> q, op |-> seq])
         IN  /\ UNCHANGED <<upstream, belated>>
             /\ \/ Goto(ok) /\ containers' = after /\ UNCHANGED <<faults, abandoned>>
                \/ n \in DOMAIN containers /\ Goto(bad) /\ UNCHANGED <<containers, faults, abandoned>>
                \/ Fault("fail", 1) /\ Goto(bad) /\ UNCHANGED <<containers, abandoned>>
                \/ Lost(c, containers' = after) /\ Goto(bad)
<1> DEFINE c == NewCommand("CREATE_APP_INSTANCE", n, q, q, <<>>)
           after == IF n \in DOMAIN containers THEN containers
                    ELSE With(containers, n, [perf |-> q, op |-> seq])
<1>1. c.type = "CREATE_APP_INSTANCE" /\ c.name = n /\ c.perf = q /\ c.op = seq BY DEF NewCommand
<1>2. Command(c, ok, bad) BY DEF CreateApp
<1> HIDE DEF c
<1>3. ~Possible(c) => n \in DOMAIN containers BY <1>1 DEF Possible, Creatable
<1>4. ContainersAfter(c) = after /\ UpstreamAfter(c) = upstream
  BY <1>1 DEF ContainersAfter, UpstreamAfter
<1> HIDE DEF after
<1>5. QED BY <1>2, <1>3, <1>4 DEF Command, Lost, c, after

LEMMA DeleteEffect ==
  ASSUME NEW n, NEW ok, NEW bad, DeleteApp(n, ok, bad)
  PROVE  LET c == NewCommand("DELETE_APP_INSTANCE", n, 0, 0, <<>>)
         IN  /\ UNCHANGED <<upstream, belated>>
             /\ \/ Goto(ok) /\ containers' = Without(containers, n) /\ UNCHANGED <<faults, abandoned>>
                \/ n \notin DOMAIN containers /\ Goto(bad) /\ UNCHANGED <<containers, faults, abandoned>>
                \/ Fault("fail", 1) /\ Goto(bad) /\ UNCHANGED <<containers, abandoned>>
                \/ Lost(c, containers' = Without(containers, n)) /\ Goto(bad)
<1> DEFINE c == NewCommand("DELETE_APP_INSTANCE", n, 0, 0, <<>>)
<1>1. c.type = "DELETE_APP_INSTANCE" /\ c.name = n BY DEF NewCommand
<1>2. Command(c, ok, bad) BY DEF DeleteApp
<1> HIDE DEF c
<1>3. ~Possible(c) => n \notin DOMAIN containers BY <1>1 DEF Possible
<1>4. ContainersAfter(c) = Without(containers, n) /\ UpstreamAfter(c) = upstream
  BY <1>1 DEF ContainersAfter, UpstreamAfter
<1>5. QED BY <1>2, <1>3, <1>4 DEF Command, Lost, c

UpdateOutcome(n, q, previous, ok, bad) ==
  LET c == NewCommand("UPDATE_APP_CAPACITY", n, q, previous, <<>>)
      new == With(containers, n, [perf |-> q, op |-> seq])
      old == With(containers, n, [perf |-> previous, op |-> seq])
  IN  /\ UNCHANGED <<upstream, belated>>
      /\ \/ /\ Goto(ok) /\ containers' = new /\ UNCHANGED <<faults, abandoned>>
         \/ /\ n \notin DOMAIN containers /\ Goto(bad)
            /\ UNCHANGED <<containers, faults, abandoned>>
         \/ /\ Fault("fail", 1) /\ Goto(bad) /\ UNCHANGED abandoned
            /\ containers' = containers \/ containers' = old
         \/ /\ Fault("fail", 2) /\ Goto(bad) /\ UNCHANGED abandoned
            /\ containers' = Without(containers, n)
         \/ Lost(c, containers' = new) /\ Goto(bad)

LEMMA UpdateEffect ==
  ASSUME NEW n, NEW q, NEW previous, NEW ok, NEW bad, UpdateAppCapacity(n, q, previous, ok, bad)
  PROVE  UpdateOutcome(n, q, previous, ok, bad)
<1> DEFINE c == NewCommand("UPDATE_APP_CAPACITY", n, q, previous, <<>>)
           new == With(containers, n, [perf |-> q, op |-> seq])
<1>1. c.type = "UPDATE_APP_CAPACITY" /\ c.name = n /\ c.perf = q /\ c.op = seq BY DEF NewCommand
<1>2. CASE Command(c, ok, bad)
  <2> HIDE DEF c
  <2>1. ~Possible(c) => n \notin DOMAIN containers BY <1>1 DEF Possible
  <2>2. ContainersAfter(c) = new /\ UpstreamAfter(c) = upstream
    BY <1>1 DEF ContainersAfter, UpstreamAfter
  <2> HIDE DEF new
  <2> QED BY <1>2, <2>1, <2>2 DEF UpdateOutcome, Command, Lost, c, new
<1>3. QED BY <1>2 DEF UpdateOutcome, UpdateAppCapacity

\* The servers that an operation may apply.
LEMMA ServersTyped ==
  ASSUME TopologyInv, PayloadOK
  PROVE  ServersOK(job.servers) /\ ServersOK(Servers(rows))
<1>1. ServersOK(Servers(rows))
  BY DEF ServersOK, TopologyInv, TypeOK, IsPartialFcn, Servers, Rows
<1>2. CASE job.action = "ADD_INSTANCE"
  BY <1>1, <1>2 DEF ServersOK, PayloadOK, RequestedServers, With, IsPartialFcn, InitialWeight
<1>3. CASE job.action = "REMOVE_INSTANCE"
  <2>1. PICK k \in DOMAIN rows : k # job.name BY <1>3 DEF PayloadOK, TopologyInv, TypeOK
  <2>2. k \in DOMAIN Without(Servers(rows), job.name) BY <2>1 DEF Without, Servers
  <2> QED BY <1>1, <1>3, <2>2 DEF ServersOK, PayloadOK, RequestedServers, Without, IsPartialFcn
<1>4. CASE job.action \in {"SET_INSTANCE_WEIGHTS", "APPLY_ADAPTIVE_WEIGHTS"}
  <2>1. job.servers \in [DOMAIN rows -> 1..100] BY <1>4 DEF PayloadOK
  <2>2. DOMAIN rows \subseteq Names /\ DOMAIN rows # {} BY DEF TopologyInv, TypeOK, IsPartialFcn
  <2>3. ServersOK(job.servers) BY <2>1, <2>2 DEF ServersOK, IsPartialFcn
  <2> QED BY <1>1, <2>3
<1> QED BY <1>1, <1>2, <1>3, <1>4 DEF PayloadOK, RequestedServers, TopologyActions

LEMMA CommandsTyped ==
  ASSUME seq \in Nat, NEW n, NEW q, NEW previous, NEW servers
  PROVE  /\ ServersOK(servers) => CommandOK(NewCommand("APPLY_LAB_UPSTREAM", 0, 0, 0, servers))
         /\ n \in Names => CommandOK(NewCommand("DELETE_APP_INSTANCE", n, 0, 0, <<>>))
         /\ n \in Names /\ q \in 20..100 =>
              CommandOK(NewCommand("CREATE_APP_INSTANCE", n, q, q, <<>>))
         /\ n \in Names /\ q \in 20..100 /\ previous \in 20..100 =>
              CommandOK(NewCommand("UPDATE_APP_CAPACITY", n, q, previous, <<>>))
<1> USE DEF CommandOK, NewCommand
<1>1. ServersOK(servers) => CommandOK(NewCommand("APPLY_LAB_UPSTREAM", 0, 0, 0, servers)) OBVIOUS
<1>2. n \in Names => CommandOK(NewCommand("DELETE_APP_INSTANCE", n, 0, 0, <<>>)) OBVIOUS
<1>3. n \in Names /\ q \in 20..100 =>
        CommandOK(NewCommand("CREATE_APP_INSTANCE", n, q, q, <<>>)) OBVIOUS
<1>4. n \in Names /\ q \in 20..100 /\ previous \in 20..100 =>
        CommandOK(NewCommand("UPDATE_APP_CAPACITY", n, q, previous, <<>>)) OBVIOUS
<1> QED BY <1>1, <1>2, <1>3, <1>4

\* What one command can do to the containers, the gateway and the operation.
LEMMA ExecuteEffect ==
  ASSUME TopologyInv, Execute
  PROVE  /\ PayloadOK /\ PcOK
         /\ \E n \in Names, q \in 20..100 :
              containers' \in {containers, Without(containers, n),
                              With(containers, n, [perf |-> q, op |-> seq])}
         /\ upstream' \in {upstream, job.servers, Servers(rows)}
         /\ faults' = faults \/ \E kind \in {"fail", "lost"}, k \in {1, 2} : Fault(kind, k)
         /\ belated' = belated
         /\ \/ abandoned' = abandoned
            \/ \E c : CommandOK(c) /\ abandoned' = abandoned \cup {c} /\ Fault("lost", 1)
         /\ \E pc : job' = [job EXCEPT !.pc = pc]
<1>1. PayloadOK /\ PcOK
  BY DEF TopologyInv, NoJob, Execute, AddInstance, RemoveInstance, SetInstancePerformance,
    SetInstanceWeights, SetBalancingMode, ApplyAdaptiveWeights
<1>2. /\ 1 \in Names /\ 20 \in 20..100 /\ job.seen = rows
      /\ job.action \in {"ADD_INSTANCE", "REMOVE_INSTANCE"} => job.name \in Names
      /\ job.action = "ADD_INSTANCE" => job.perf \in 20..100
  BY <1>1, TopologyAssumption DEF TopologyInv, TypeOK, IsPartialFcn, Names, PayloadOK
<1>10. seq \in Nat BY TopologyAssumption DEF TopologyInv, TypeOK, IsPartialFcn
<1>9. /\ ServersOK(job.servers) /\ ServersOK(Servers(rows))
      /\ \A servers : ServersOK(servers) => CommandOK(NewCommand("APPLY_LAB_UPSTREAM", 0, 0, 0, servers))
  BY <1>1, <1>10, ServersTyped, CommandsTyped
<1>3. CASE AddInstance
  <2>1. /\ CommandOK(NewCommand("CREATE_APP_INSTANCE", job.name, job.perf, job.perf, <<>>))
        /\ CommandOK(NewCommand("DELETE_APP_INSTANCE", job.name, 0, 0, <<>>))
        /\ job.name \in Names /\ job.perf \in 20..100
    BY <1>2, <1>3, <1>10, CommandsTyped DEF AddInstance
  <2>2. CASE job.pc = "start"
    BY <1>1, <1>3, <2>1, <2>2, CreateEffect DEF AddInstance, Goto, Lost
  <2>3. CASE job.pc = "apply"
    BY <1>1, <1>2, <1>3, <1>9, <2>3, ApplyEffect DEF AddInstance, Goto, Lost
  <2>4. CASE job.pc = "undo"
    BY <1>1, <1>2, <1>3, <2>1, <2>4, DeleteEffect DEF AddInstance, Goto, Lost
  <2> QED BY <1>3, <2>2, <2>3, <2>4 DEF AddInstance
<1>4. CASE RemoveInstance
  <2>1. /\ CommandOK(NewCommand("DELETE_APP_INSTANCE", job.name, 0, 0, <<>>))
        /\ job.name \in Names
    BY <1>2, <1>4, <1>10, CommandsTyped DEF RemoveInstance
  <2>2. CASE job.pc \in {"start", "undo"}
    BY <1>1, <1>2, <1>4, <1>9, <2>2, ApplyEffect DEF RemoveInstance, Goto, Lost
  <2>3. CASE job.pc = "delete"
    BY <1>1, <1>2, <1>4, <2>1, <2>3, DeleteEffect DEF RemoveInstance, Goto, Lost
  <2> QED BY <1>4, <2>2, <2>3 DEF RemoveInstance
<1>5. CASE SetInstancePerformance
  <2>1. PreviousPerformance \in 20..100 /\ job.perf \in 20..100 /\ job.name \in Names
    BY <1>1, <1>5 DEF PreviousPerformance, PayloadOK, SetInstancePerformance, TopologyInv,
      TypeOK, IsPartialFcn, Rows
  <2>2. \A q, p \in 20..100 :
          CommandOK(NewCommand("UPDATE_APP_CAPACITY", job.name, q, p, <<>>))
    BY <1>10, <2>1, CommandsTyped
  <2>3. CASE job.pc \in {"start", "undo"}
    <3>1. PICK q \in {job.perf, PreviousPerformance}, p \in {job.perf, PreviousPerformance},
               ok \in {"apply", "undoApply"}, bad \in {"failed", "undoApply"} :
            UpdateAppCapacity(job.name, q, p, ok, bad)
      BY <1>5, <2>3 DEF SetInstancePerformance
    <3>2. q \in 20..100 /\ p \in 20..100 BY <2>1
    <3>3. UpdateOutcome(job.name, q, p, ok, bad) BY <3>1, UpdateEffect
    <3> QED BY <1>1, <2>1, <2>2, <3>2, <3>3 DEF UpdateOutcome, Goto, Lost
  <2>4. CASE job.pc \in {"apply", "undoApply"}
    BY <1>1, <1>2, <1>5, <1>9, <2>4, ApplyEffect DEF SetInstancePerformance, Goto, Lost
  <2> QED BY <1>5, <2>3, <2>4 DEF SetInstancePerformance
<1>6. CASE SetInstanceWeights
  BY <1>1, <1>2, <1>6, <1>9, ApplyEffect DEF SetInstanceWeights, Goto, Lost
<1>7. CASE SetBalancingMode
  BY <1>1, <1>2, <1>7 DEF SetBalancingMode, Goto
<1>8. CASE ApplyAdaptiveWeights
  BY <1>1, <1>2, <1>8, <1>9, ApplyEffect DEF ApplyAdaptiveWeights, Goto, Lost
<1> QED BY <1>3, <1>4, <1>5, <1>6, <1>7, <1>8 DEF Execute

TypesOK == TypeOK /\ AbandonedOK /\ IsFcn(rows) /\ IsFcn(containers) /\ IsFcn(upstream)

LEMMA ExecuteTypes ==
  ASSUME TopologyInv, Execute
  PROVE  TypesOK'
<1>1. PayloadOK BY ExecuteEffect
<1>2. UNCHANGED <<rows, mode, seq, restarts>> BY DEF Execute
<1>3. PICK pc : job' = [job EXCEPT !.pc = pc] BY ExecuteEffect
<1>4. job'.action = job.action /\ job'.name = job.name BY <1>1, <1>3 DEF PayloadOK
<1>5. /\ IsPartialFcn(containers', Names, LAMBDA c : c \in [perf : 20..100, op : 0..seq])
      /\ IsFcn(containers')
  <2>1. PICK n \in Names, q \in 20..100 :
          containers' \in {containers, Without(containers, n),
                           With(containers, n, [perf |-> q, op |-> seq])}
    BY ExecuteEffect
  <2>2. seq \in 0..seq BY DEF TopologyInv, TypeOK
  <2>3. CASE containers' = containers BY <2>3 DEF TopologyInv, TypeOK, IsPartialFcn
  <2>4. CASE containers' = Without(containers, n)
    BY <2>4 DEF TopologyInv, TypeOK, IsPartialFcn, Without
  <2>5. CASE containers' = With(containers, n, [perf |-> q, op |-> seq])
    BY <2>2, <2>5 DEF TopologyInv, TypeOK, IsPartialFcn, With
  <2> QED BY <2>1, <2>3, <2>4, <2>5
<1>6. /\ IsPartialFcn(upstream', Names, LAMBDA w : w \in 1..100) /\ DOMAIN upstream' # {}
      /\ IsFcn(upstream')
  <2>1. CASE upstream' = upstream BY <2>1 DEF TopologyInv, TypeOK, IsPartialFcn
  <2>3. CASE upstream' \in {job.servers, Servers(rows)}
    BY <1>1, <2>3, ServersTyped DEF ServersOK, IsPartialFcn
  <2> QED BY <2>1, <2>3, ExecuteEffect
<1>7. faults' \in [fail : 0..MaxFaults, lost : 0..MaxFaults]
  <2>1. faults \in [fail : 0..MaxFaults, lost : 0..MaxFaults] BY DEF TopologyInv, TypeOK
  <2>2. ASSUME NEW kind \in {"fail", "lost"}, NEW k \in {1, 2}, Fault(kind, k)
        PROVE  faults' \in [fail : 0..MaxFaults, lost : 0..MaxFaults]
    <3>1. faults'[kind] \in 0..MaxFaults BY <2>1, <2>2, TopologyAssumption DEF Fault
    <3> QED BY <2>1, <2>2, <3>1 DEF Fault
  <2> QED BY <2>1, <2>2, ExecuteEffect
<1>8. belated' = belated BY ExecuteEffect
<1>9. AbandonedOK'
  <2>1. \A c : CommandOK(c) => CommandOK(c)'
    BY <1>2 DEF CommandOK, ServersOK, IsPartialFcn
  <2>2. faults'.lost >= faults.lost /\ (Fault("lost", 1) => faults'.lost > 0)
    <3>1. faults \in [fail : 0..MaxFaults, lost : 0..MaxFaults] BY DEF TopologyInv, TypeOK
    <3>2. ASSUME NEW kind \in {"fail", "lost"}, NEW k \in {1, 2}, Fault(kind, k)
          PROVE  faults'.lost >= faults.lost /\ (kind = "lost" => faults'.lost > 0)
      BY <3>1, <3>2, TopologyAssumption DEF Fault
    <3>3. faults' = faults => faults'.lost >= faults.lost BY <3>1, TopologyAssumption
    <3> QED BY <3>2, <3>3, ExecuteEffect
  <2>3. \A c \in abandoned : CommandOK(c)' BY <2>1 DEF TopologyInv, AbandonedOK
  <2>4. faults.lost > 0 => faults'.lost > 0
    BY <1>7, <2>2, TopologyAssumption DEF TopologyInv, TypeOK
  <2>5. CASE abandoned' = abandoned
    BY <1>8, <2>3, <2>4, <2>5 DEF TopologyInv, AbandonedOK
  <2>6. ASSUME NEW c, CommandOK(c), abandoned' = abandoned \cup {c}, Fault("lost", 1)
        PROVE  AbandonedOK'
    <3>1. faults'.lost > 0 BY <2>2, <2>6
    <3>2. \A d \in abandoned' : CommandOK(d)' BY <2>1, <2>3, <2>6
    <3> QED BY <3>1, <3>2 DEF AbandonedOK
  <2> QED BY <2>5, <2>6, ExecuteEffect
<1>10. TypeOK'
  BY <1>2, <1>4, <1>5, <1>6, <1>7, <1>8 DEF TopologyInv, TypeOK, IsPartialFcn
<1> QED BY <1>2, <1>5, <1>6, <1>9, <1>10 DEF TopologyInv, TypesOK

LEMMA ExecutePayload ==
  ASSUME TopologyInv, Execute
  PROVE  (PayloadOK /\ PcOK)'
<1>1. PayloadOK /\ PcOK /\ rows' = rows BY ExecuteEffect DEF Execute
<1>2. PICK pc : job' = [job EXCEPT !.pc = pc] BY ExecuteEffect
<1>3. /\ job'.action = job.action /\ job'.name = job.name /\ job'.perf = job.perf
      /\ job'.mode = job.mode /\ job'.servers = job.servers /\ job'.seen = job.seen
      /\ job'.pc = pc
      /\ job' = [action |-> job'.action, pc |-> job'.pc, name |-> job'.name, perf |-> job'.perf,
                 mode |-> job'.mode, servers |-> job'.servers, seen |-> job'.seen]
  BY <1>1, <1>2 DEF PayloadOK
<1>4. PayloadOK' BY <1>1, <1>3 DEF PayloadOK, RequestedServers
<1>5. PcOK'
  <2>1. CASE AddInstance
    BY <1>1, <1>3, <2>1
    DEF PcOK, PayloadOK, AddInstance, CreateApp, ApplyUpstream, DeleteApp, Command, Goto
  <2>2. CASE RemoveInstance
    BY <1>1, <1>3, <2>2 DEF PcOK, PayloadOK, RemoveInstance, ApplyUpstream, DeleteApp, Command, Goto
  <2>3. CASE SetInstancePerformance
    BY <1>1, <1>3, <2>3
    DEF PcOK, PayloadOK, SetInstancePerformance, UpdateAppCapacity, ApplyUpstream, Command, Goto
  <2>4. CASE SetInstanceWeights
    BY <1>1, <1>3, <2>4 DEF PcOK, PayloadOK, SetInstanceWeights, ApplyUpstream, Command, Goto
  <2>5. CASE SetBalancingMode
    BY <1>1, <1>3, <2>5 DEF PcOK, PayloadOK, SetBalancingMode, Goto
  <2>6. CASE ApplyAdaptiveWeights
    BY <1>1, <1>3, <2>6 DEF PcOK, PayloadOK, ApplyAdaptiveWeights, ApplyUpstream, Command, Goto
  <2> QED BY <2>1, <2>2, <2>3, <2>4, <2>5, <2>6 DEF Execute
<1> QED BY <1>4, <1>5

\* The gateway accepts the servers of a payload, and those of the rows, when
\* the containers are those of the rows and of the instance being added.
LEMMA ExecuteStage ==
  ASSUME TopologyInv, Execute
  PROVE  (DrainedAtDelete /\ StageOK)'
<1>1. PayloadOK /\ PcOK /\ rows' = rows /\ restarts' = restarts BY ExecuteEffect DEF Execute
<1>2. PICK pc : job' = [job EXCEPT !.pc = pc] BY ExecuteEffect
<1>3. /\ job'.action = job.action /\ job'.name = job.name /\ job'.perf = job.perf
      /\ job'.servers = job.servers /\ job'.pc = pc /\ job.seen = rows
      /\ \A x : Goto(x) => pc = x
  BY <1>1, <1>2 DEF PayloadOK, Goto
<1>4. DrainedAtDelete'
  <2>1. CASE job.action # "REMOVE_INSTANCE" BY <1>3, <2>1 DEF DrainedAtDelete
  <2>2. CASE RemoveInstance
    <3>1. job.name \notin DOMAIN job.servers
      BY <1>1, <2>2 DEF PayloadOK, RequestedServers, RemoveInstance, Without
    <3>2. belated' = belated BY ExecuteEffect
    <3> QED BY <1>3, <2>2, <3>1, <3>2, ApplyEffect, DeleteEffect
        DEF Lost, DrainedAtDelete, RemoveInstance
  <2> QED BY <2>1, <2>2 DEF Execute, AddInstance, SetInstancePerformance, SetInstanceWeights,
        SetBalancingMode, ApplyAdaptiveWeights
<1>5. StageOK'
  <2> SUFFICES ASSUME Undisturbed'
               PROVE  /\ Perfs(containers') = StagePerfs' /\ upstream' = StageServers'
                      /\ pc \in {"undo", "undoApply"} => faults'.fail = 1
    BY <1>3 DEF StageOK
  <2>1. /\ faults \in [fail : 0..MaxFaults, lost : 0..MaxFaults]
        /\ faults'.fail <= 1 /\ faults'.lost = 0 /\ restarts = 0
    BY <1>1 DEF TopologyInv, TypeOK, Undisturbed
  <2>2. Undisturbed
    <3>1. ASSUME NEW kind \in {"fail", "lost"}, NEW k \in {1, 2}, Fault(kind, k)
          PROVE  faults'.fail \in faults.fail..1 /\ faults'.lost \in faults.lost..0
      BY <2>1, <3>1, TopologyAssumption DEF Fault
    <3>2. faults'.fail \in faults.fail..1 /\ faults'.lost \in faults.lost..0
      BY <2>1, <3>1, ExecuteEffect, TopologyAssumption
    <3> QED BY <2>1, <3>2, <1>1, TopologyAssumption DEF Undisturbed
  <2>3. /\ Perfs(containers) = StagePerfs /\ upstream = StageServers
        /\ job.pc \in {"undo", "undoApply"} => faults.fail = 1
    BY <2>2 DEF TopologyInv, StageOK
  <2>4. /\ DOMAIN rows # {} /\ \A n \in DOMAIN rows : rows[n].perf = Perfs(rows)[n]
        /\ DOMAIN containers = DOMAIN StagePerfs /\ DOMAIN Servers(rows) = DOMAIN rows
        /\ DOMAIN Perfs(rows) = DOMAIN rows
        /\ IsFcn(Perfs(rows)) /\ IsFcn(containers)
    BY <2>3, ViewsAreFcns DEF TopologyInv, TypeOK
  <2>5. /\ ~Fault("lost", 1) /\ ~Fault("fail", 2)
        /\ Fault("fail", 1) => faults.fail = 0 /\ faults'.fail = 1
        /\ faults' = faults => faults'.fail = faults.fail
    <3>1. faults.fail \in 0..1 /\ faults.lost = 0
      BY <2>1, <2>2, TopologyAssumption DEF Undisturbed
    <3> QED BY <2>1, <3>1, TopologyAssumption DEF Fault
  <2>6. CASE AddInstance
    <3>1. /\ job.name \notin DOMAIN rows /\ job.servers = With(Servers(rows), job.name, InitialWeight)
          /\ DOMAIN job.servers = DOMAIN rows \cup {job.name}
      BY <1>1, <2>4, <2>6 DEF PayloadOK, RequestedServers, AddInstance, With
    <3>2. CASE job.pc = "start"
      <4>1. DOMAIN containers = DOMAIN rows /\ Perfs(containers) = Perfs(rows)
            /\ upstream = Servers(rows)
        BY <2>3, <2>4, <2>6, <3>2 DEF StagePerfs, StageServers, AddInstance
      <4>2. \/ pc = "apply" /\ containers' = With(containers, job.name, [perf |-> job.perf, op |-> seq])
               /\ upstream' = upstream
            \/ pc = "failed" /\ containers' = containers /\ upstream' = upstream
        BY <1>3, <2>5, <2>6, <3>1, <3>2, <4>1, CreateEffect
          DEF Lost, AddInstance
      <4>3. Perfs(With(containers, job.name, [perf |-> job.perf, op |-> seq]))
              = With(Perfs(rows), job.name, job.perf)
        BY <4>1, PerfsOfNew
      <4> QED BY <1>1, <1>3, <2>6, <4>1, <4>2, <4>3 DEF StagePerfs, StageServers, AddInstance
    <3>3. CASE job.pc = "apply"
      <4>1. Perfs(containers) = With(Perfs(rows), job.name, job.perf) /\ upstream = Servers(rows)
        BY <2>3, <2>6, <3>3 DEF StagePerfs, StageServers, AddInstance
      <4>2. DOMAIN containers = DOMAIN rows \cup {job.name}
        BY <2>4, <4>1, ViewsAreFcns DEF With
      <4>3. \/ pc = "done" /\ containers' = containers /\ upstream' = job.servers
            \/ pc = "undo" /\ containers' = containers /\ upstream' = upstream /\ faults'.fail = 1
        BY <1>3, <2>5, <2>6, <3>1, <3>3, <4>2, ApplyEffect
          DEF Lost, AddInstance, Resolvable
      <4> QED BY <1>1, <1>3, <2>6, <4>1, <4>3 DEF StagePerfs, StageServers, AddInstance
    <3>4. CASE job.pc = "undo"
      <4>1. Perfs(containers) = With(Perfs(rows), job.name, job.perf) /\ upstream = Servers(rows)
            /\ faults.fail = 1
        BY <2>3, <2>6, <3>4 DEF StagePerfs, StageServers, AddInstance
      <4>2. job.name \in DOMAIN containers
        BY <4>1, ViewsAreFcns DEF With
      <4>3. pc = "failed" /\ containers' = Without(containers, job.name) /\ upstream' = upstream
        BY <1>3, <2>5, <2>6, <3>4, <4>1, <4>2, DeleteEffect
          DEF Lost, AddInstance
      <4>4. Perfs(containers') = Perfs(rows)
        BY <2>4, <3>1, <4>1, <4>3, ViewsOfWithout, WithoutWith
      <4> QED BY <1>1, <1>3, <2>6, <4>1, <4>3, <4>4 DEF StagePerfs, StageServers, AddInstance
    <3> QED BY <2>6, <3>2, <3>3, <3>4 DEF AddInstance
  <2>7. CASE RemoveInstance
    <3>1. /\ job.name \in DOMAIN rows /\ DOMAIN rows # {job.name}
          /\ job.servers = Without(Servers(rows), job.name)
          /\ DOMAIN job.servers = DOMAIN rows \ {job.name} /\ DOMAIN job.servers # {}
      BY <1>1, <2>4, <2>7 DEF PayloadOK, RequestedServers, RemoveInstance, Without
    <3>2. job.pc \in {"start", "delete", "undo"} =>
            DOMAIN containers = DOMAIN rows /\ Perfs(containers) = Perfs(rows)
      BY <2>3, <2>4, <2>7 DEF StagePerfs, RemoveInstance
    <3>3. CASE job.pc = "start"
      <4>1. \/ pc = "delete" /\ containers' = containers /\ upstream' = job.servers
            \/ pc = "failed" /\ containers' = containers /\ upstream' = upstream
        BY <1>3, <2>5, <2>7, <3>1, <3>2, <3>3, ApplyEffect
          DEF Lost, RemoveInstance, Resolvable
      <4> QED BY <1>1, <1>3, <2>3, <2>7, <3>2, <3>3, <4>1 DEF StagePerfs, StageServers, RemoveInstance
    <3>4. CASE job.pc = "delete"
      <4>1. \/ pc = "done" /\ containers' = Without(containers, job.name) /\ upstream' = upstream
            \/ pc = "undo" /\ containers' = containers /\ upstream' = upstream /\ faults'.fail = 1
        BY <1>3, <2>5, <2>7, <3>1, <3>2, <3>4, DeleteEffect
          DEF Lost, RemoveInstance
      <4>2. Perfs(Without(containers, job.name)) = Without(Perfs(rows), job.name)
        BY <3>2, <3>4, ViewsOfWithout
      <4> QED BY <1>1, <1>3, <2>3, <2>7, <3>2, <3>4, <4>1, <4>2
          DEF StagePerfs, StageServers, RemoveInstance
    <3>5. CASE job.pc = "undo"
      <4>1. pc = "failed" /\ containers' = containers /\ upstream' = Servers(rows)
        BY <1>3, <2>3, <2>4, <2>5, <2>7, <3>1, <3>2, <3>5, ApplyEffect
          DEF Lost, RemoveInstance, Resolvable
      <4> QED BY <1>1, <1>3, <2>7, <3>2, <3>5, <4>1 DEF StagePerfs, StageServers, RemoveInstance
    <3> QED BY <2>7, <3>3, <3>4, <3>5 DEF RemoveInstance
  <2>8. CASE SetInstancePerformance
    <3>1. /\ job.name \in DOMAIN rows /\ job.servers = Servers(rows)
          /\ PreviousPerformance = Perfs(rows)[job.name]
      BY <1>1, <1>3, <2>4, <2>8 DEF PayloadOK, RequestedServers, SetInstancePerformance,
        PreviousPerformance
    <3>2. /\ job.pc \in {"apply", "undo"} =>
               Perfs(containers) = With(Perfs(rows), job.name, job.perf)
          /\ job.pc \in {"start", "undoApply"} => Perfs(containers) = Perfs(rows)
          /\ upstream = Servers(rows)
      BY <2>3, <2>8, <3>1 DEF StagePerfs, StageServers, SetInstancePerformance
    <3>3. DOMAIN containers = DOMAIN rows
      BY <2>4, <2>8, <3>1, <3>2, ViewsAreFcns DEF With, SetInstancePerformance
    <3>4. /\ With(Perfs(rows), job.name, PreviousPerformance) = Perfs(rows)
          /\ With(With(Perfs(rows), job.name, job.perf), job.name, PreviousPerformance)
               = Perfs(rows)
      BY <2>4, <3>1, WithItself, WithWith
    <3>5. \A q : Perfs(With(containers, job.name, [perf |-> q, op |-> seq]))
                  = With(Perfs(containers), job.name, q)
      BY PerfsOfNew
    <3>6. CASE job.pc = "start"
      <4>1. /\ upstream' = upstream
            /\ \/ pc = "apply" /\ containers' = With(containers, job.name, [perf |-> job.perf, op |-> seq])
               \/ pc = "failed" /\ containers' = containers
               \/ /\ pc = "failed"
                  /\ containers' = With(containers, job.name, [perf |-> PreviousPerformance, op |-> seq])
        <5>1. UpdateOutcome(job.name, job.perf, PreviousPerformance, "apply", "failed")
          BY <2>8, <3>6, UpdateEffect DEF SetInstancePerformance
        <5> QED BY <1>3, <2>5, <3>1, <3>3, <5>1 DEF UpdateOutcome, Lost
      <4> QED BY <1>1, <1>3, <2>8, <3>2, <3>4, <3>5, <3>6, <4>1
          DEF StagePerfs, StageServers, SetInstancePerformance
    <3>7. CASE job.pc = "apply"
      <4>1. \/ pc = "done" /\ containers' = containers /\ upstream' = job.servers
            \/ pc = "undo" /\ containers' = containers /\ upstream' = upstream /\ faults'.fail = 1
        BY <1>3, <2>4, <2>5, <2>8, <3>1, <3>3, <3>7, ApplyEffect
          DEF Lost, SetInstancePerformance, Resolvable
      <4> QED BY <1>1, <1>3, <2>8, <3>1, <3>2, <3>7, <4>1 DEF StagePerfs, StageServers, SetInstancePerformance
    <3>8. CASE job.pc = "undo"
      <4>1. /\ pc = "undoApply" /\ upstream' = upstream /\ faults'.fail = 1
            /\ containers' = With(containers, job.name, [perf |-> PreviousPerformance, op |-> seq])
        <5>1. UpdateOutcome(job.name, PreviousPerformance, job.perf, "undoApply", "undoApply")
          BY <2>8, <3>8, UpdateEffect DEF SetInstancePerformance
        <5> QED BY <1>3, <2>3, <2>5, <3>1, <3>3, <3>8, <5>1 DEF UpdateOutcome, Lost
      <4> QED BY <1>1, <1>3, <2>8, <3>2, <3>4, <3>5, <3>8, <4>1
          DEF StagePerfs, StageServers, SetInstancePerformance
    <3>9. CASE job.pc = "undoApply"
      <4>1. pc = "failed" /\ containers' = containers /\ upstream' = Servers(rows)
        BY <1>3, <2>3, <2>4, <2>5, <2>8, <3>2, <3>3, <3>9, ApplyEffect
          DEF Lost, SetInstancePerformance, Resolvable
      <4> QED BY <1>1, <1>3, <2>8, <3>2, <3>9, <4>1 DEF StagePerfs, StageServers, SetInstancePerformance
    <3> QED BY <2>8, <3>6, <3>7, <3>8, <3>9 DEF SetInstancePerformance
  <2>9. CASE SetInstanceWeights \/ SetBalancingMode \/ ApplyAdaptiveWeights
    <3>1. Perfs(containers) = Perfs(rows) /\ upstream = Servers(rows)
      BY <2>3, <2>9 DEF StagePerfs, StageServers, SetInstanceWeights, SetBalancingMode,
        ApplyAdaptiveWeights
    <3>2. /\ containers' = containers /\ pc \notin {"undo", "undoApply", "delete"}
          /\ upstream' = IF pc = "done" THEN job.servers ELSE upstream
      BY <1>1, <1>3, <2>5, <2>9, <3>1, ApplyEffect
          DEF Lost, SetInstanceWeights, SetBalancingMode, ApplyAdaptiveWeights, PayloadOK, RequestedServers, Resolvable
    <3> QED BY <1>1, <1>3, <2>9, <3>1, <3>2 DEF StagePerfs, StageServers, SetInstanceWeights,
          SetBalancingMode, ApplyAdaptiveWeights
  <2> QED BY <2>6, <2>7, <2>8, <2>9 DEF Execute
<1> QED BY <1>4, <1>5

-----------------------------------------------------------------------------
(***************************************************************************)
(* The other steps.                                                        *)
(***************************************************************************)
LEMMA EnqueueStep ==
  ASSUME TopologyInv, NEW action, NEW name, NEW perf, NEW m, NEW servers,
         Enqueue(action, name, perf, m, servers),
         name \in Names \cup {0}, m \in {"fixed", "adaptive"},
         LET payload == [action |-> action, pc |-> "start", name |-> name, perf |-> perf,
                         mode |-> m, servers |-> servers, seen |-> rows]
         IN  job' = payload => PayloadOK'
  PROVE  TopologyInv'
<1>1. /\ UNCHANGED <<rows, mode, containers, upstream, abandoned, belated, faults, restarts>>
      /\ seq' = seq + 1 /\ seq < MaxOperations /\ job = NoJob
  BY DEF Enqueue
<1>2. /\ job'.action = action /\ job'.pc = "start" /\ job'.name = name
      /\ action \in TopologyActions
      /\ PayloadOK'
  BY TopologyAssumption DEF Enqueue
<1>3. \A op : op \in 0..seq => op \in 0..seq' BY <1>1, TopologyAssumption DEF TopologyInv, TypeOK
<1>4. TypeOK'
  <2>1. seq' \in 0..MaxOperations BY <1>1, TopologyAssumption DEF TopologyInv, TypeOK
  <2>2. ASSUME NEW n \in DOMAIN containers PROVE containers[n] \in [perf : 20..100, op : 0..seq']
    BY <1>3 DEF TopologyInv, TypeOK, IsPartialFcn
  <2> QED BY <1>1, <1>2, <2>1, <2>2 DEF TopologyInv, TypeOK, IsPartialFcn
<1>5. PcOK' BY <1>2 DEF PcOK, TopologyActions
<1>6. DrainedAtDelete' BY <1>2 DEF DrainedAtDelete
<1>7. StageOK'
  BY <1>1, <1>2 DEF TopologyInv, StageOK, StagePerfs, StageServers, Undisturbed, NoJob
<1>8. AbandonedOK'
  <2>1. \A c : CommandOK(c) => CommandOK(c)'
    BY <1>1, <1>3 DEF CommandOK, ServersOK, IsPartialFcn
  <2> QED BY <1>1, <2>1 DEF TopologyInv, AbandonedOK
<1> QED BY <1>1, <1>2, <1>4, <1>5, <1>6, <1>7, <1>8 DEF TopologyInv

LEMMA RequestStep ==
  ASSUME TopologyInv, Request
  PROVE  TopologyInv'
<1>1. /\ mode \in {"fixed", "adaptive"} /\ DOMAIN rows \subseteq Names
      /\ 0 \in Names \cup {0} /\ rows' = rows
  BY DEF TopologyInv, TypeOK, IsPartialFcn, Request, EnqueueAddInstance, EnqueueRemoveInstance,
    EnqueueSetPerformance, EnqueueSetWeights, EnqueueSetMode, EnqueueAdjustment, Enqueue
<1>2. CASE EnqueueAddInstance
  <2> DEFINE n == NextInstanceName(rows)
  <2>1. n \in Names \ DOMAIN rows BY <1>1, <1>2, FreeName DEF EnqueueAddInstance
  <2>2. Enqueue("ADD_INSTANCE", n, InitialPerformance, mode,
                With(Servers(rows), n, DefaultInstanceWeight))
    BY <1>2 DEF EnqueueAddInstance
  <2> HIDE DEF n
  <2> QED BY <1>1, <2>1, <2>2, EnqueueStep
      DEF PayloadOK, RequestedServers, TopologyActions, InitialPerformance, InitialWeight,
        DefaultInstanceWeight
<1>3. ASSUME NEW n \in Names, EnqueueRemoveInstance(n) PROVE TopologyInv'
  <2>1. DOMAIN rows # {n} /\ n \in DOMAIN rows
    <3>1. Cardinality({n}) = 1 BY FS_Singleton
    <3> QED BY <1>3, <3>1 DEF EnqueueRemoveInstance
  <2> QED BY <1>1, <1>3, <2>1, EnqueueStep
      DEF EnqueueRemoveInstance, PayloadOK, RequestedServers, TopologyActions
<1>4. ASSUME NEW n \in Names, NEW q \in Performances, EnqueueSetPerformance(n, q)
      PROVE  TopologyInv'
  BY <1>1, <1>4, EnqueueStep, TopologyAssumption
  DEF EnqueueSetPerformance, PayloadOK, RequestedServers, TopologyActions
<1>5. ASSUME NEW w \in [DOMAIN rows -> Weights], EnqueueSetWeights(w) \/ EnqueueAdjustment(w)
      PROVE  TopologyInv'
  <2>1. w \in [DOMAIN rows -> 1..100] BY TopologyAssumption
  <2>2. CASE EnqueueSetWeights(w)
    BY <1>1, <2>1, <2>2, EnqueueStep DEF EnqueueSetWeights, PayloadOK, RequestedServers, TopologyActions
  <2>3. CASE EnqueueAdjustment(w)
    BY <1>1, <2>1, <2>3, EnqueueStep DEF EnqueueAdjustment, PayloadOK, RequestedServers, TopologyActions
  <2> QED BY <1>5, <2>2, <2>3
<1>6. ASSUME NEW m \in {"fixed", "adaptive"}, EnqueueSetMode(m) PROVE TopologyInv'
  BY <1>1, <1>6, EnqueueStep DEF EnqueueSetMode, PayloadOK, RequestedServers, TopologyActions
<1> QED BY <1>2, <1>3, <1>4, <1>5, <1>6 DEF Request

LEMMA CompleteStep ==
  ASSUME TopologyInv, CompleteTopology
  PROVE  TopologyInv'
<1>1. /\ PayloadOK /\ PcOK /\ job.pc \in {"done", "skipped", "failed"} /\ job' = NoJob
      /\ UNCHANGED <<containers, upstream, abandoned, belated, seq, faults, restarts>>
  BY DEF TopologyInv, CompleteTopology, NoJob
<1>2. /\ \A n \in DOMAIN rows : rows[n] \in Rows
      /\ DOMAIN rows # {} /\ DOMAIN rows \subseteq Names /\ IsFcn(rows)
  BY DEF TopologyInv, TypeOK, IsPartialFcn
<1>3. mode' \in {"fixed", "adaptive"}
  BY <1>1 DEF CompleteTopology, PayloadOK, TopologyInv, TypeOK
<1> DEFINE Good(r) == /\ \A n \in DOMAIN r : r[n] \in Rows
                      /\ DOMAIN r # {} /\ DOMAIN r \subseteq Names /\ IsFcn(r)
                      /\ Undisturbed => Perfs(containers) = Perfs(r) /\ upstream = Servers(r)
<1>4. Good(rows')
  <2>1. Undisturbed => Perfs(containers) = StagePerfs /\ upstream = StageServers
    BY DEF TopologyInv, StageOK
  <2>2. CASE job.pc # "done"
    BY <1>1, <1>2, <2>1, <2>2 DEF CompleteTopology, StagePerfs, StageServers
  <2>3. CASE job.pc = "done"
    <3>1. rows' = RowsAfter BY <2>3 DEF CompleteTopology
    <3>2. Undisturbed => upstream = RequestedServers
      BY <1>1, <2>1, <2>3 DEF StageServers, PayloadOK
    <3>3. CASE job.action = "ADD_INSTANCE"
      <4> DEFINE row == [perf |-> job.perf, weight |-> InitialWeight]
      <4>1. row \in Rows /\ row.perf = job.perf /\ row.weight = InitialWeight
        BY <1>1, <3>3 DEF PayloadOK, Rows, InitialWeight
      <4>2. rows' = With(rows, job.name, row) BY <3>1, <3>3 DEF RowsAfter
      <4> HIDE DEF row
      <4>3. /\ Perfs(rows') = With(Perfs(rows), job.name, job.perf)
            /\ Servers(rows') = With(Servers(rows), job.name, InitialWeight)
        <5>1. /\ Perfs(With(rows, job.name, row)) = With(Perfs(rows), job.name, row.perf)
              /\ Servers(With(rows, job.name, row)) = With(Servers(rows), job.name, row.weight)
          BY ViewsOfWith
        <5> QED BY <4>1, <4>2, <5>1
      <4>4. /\ DOMAIN rows' = DOMAIN rows \cup {job.name} /\ IsFcn(rows')
            /\ \A n \in DOMAIN rows' : rows'[n] = IF n = job.name THEN row ELSE rows[n]
        BY <4>2 DEF With
      <4>5. job.name \in Names BY <1>1, <3>3 DEF PayloadOK
      <4> QED BY <1>2, <2>1, <2>3, <3>2, <3>3, <4>1, <4>3, <4>4, <4>5 DEF StagePerfs, RequestedServers
    <3>4. CASE job.action = "REMOVE_INSTANCE"
      <4>1. rows' = Without(rows, job.name) BY <3>1, <3>4 DEF RowsAfter
      <4>2. /\ Perfs(rows') = Without(Perfs(rows), job.name)
            /\ Servers(rows') = Without(Servers(rows), job.name)
        BY <4>1, ViewsOfWithout
      <4>3. PICK k \in DOMAIN rows : k # job.name BY <1>1, <1>2, <3>4 DEF PayloadOK
      <4>4. /\ DOMAIN rows' = DOMAIN rows \ {job.name} /\ IsFcn(rows')
            /\ \A n \in DOMAIN rows' : rows'[n] = rows[n]
        BY <4>1 DEF Without
      <4> QED BY <1>2, <2>1, <2>3, <3>2, <3>4, <4>2, <4>3, <4>4 DEF StagePerfs, RequestedServers
    <3>5. CASE job.action = "SET_INSTANCE_PERFORMANCE"
      <4>1. rows' = [rows EXCEPT ![job.name].perf = job.perf] BY <3>1, <3>5 DEF RowsAfter
      <4>2. job.name \in DOMAIN rows /\ job.perf \in 20..100 BY <1>1, <3>5 DEF PayloadOK
      <4>3. /\ Perfs(rows') = With(Perfs(rows), job.name, job.perf)
            /\ Servers(rows') = Servers(rows)
        <5> DEFINE after == [rows EXCEPT ![job.name].perf = job.perf]
        <5>1. Perfs(after) = With(Perfs(rows), job.name, job.perf) /\ Servers(after) = Servers(rows)
          BY <1>2, <4>2, ViewsOfPerformance
        <5> HIDE DEF after
        <5>2. rows' = after BY <4>1 DEF after
        <5> QED BY <5>1, <5>2
      <4>4. DOMAIN rows' = DOMAIN rows /\ IsFcn(rows') /\ \A n \in DOMAIN rows' : rows'[n] \in Rows
        <5>1. [rows[job.name] EXCEPT !.perf = job.perf] \in Rows BY <1>2, <4>2 DEF Rows
        <5>2. \A n \in DOMAIN rows :
                rows'[n] = IF n = job.name THEN [rows[job.name] EXCEPT !.perf = job.perf] ELSE rows[n]
          BY <4>1, <4>2
        <5>3. DOMAIN rows' = DOMAIN rows /\ IsFcn(rows') BY <4>1
        <5> QED BY <1>2, <5>1, <5>2, <5>3
      <4> QED BY <1>2, <2>1, <2>3, <3>2, <3>5, <4>3, <4>4 DEF StagePerfs, RequestedServers
    <3>6. CASE job.action \in {"SET_INSTANCE_WEIGHTS", "APPLY_ADAPTIVE_WEIGHTS"}
      <4>1. rows' = [n \in DOMAIN rows |-> [rows[n] EXCEPT !.weight = job.servers[n]]]
        BY <3>1, <3>6 DEF RowsAfter
      <4>2. job.servers \in [DOMAIN rows -> 1..100] BY <1>1, <3>6 DEF PayloadOK
      <4>3. Perfs(rows') = Perfs(rows) /\ Servers(rows') = job.servers
        <5> DEFINE after == [n \in DOMAIN rows |-> [rows[n] EXCEPT !.weight = job.servers[n]]]
        <5>1. Perfs(after) = Perfs(rows) /\ Servers(after) = job.servers
          BY <1>2, <4>2, ViewsOfWeights
        <5> HIDE DEF after
        <5>2. rows' = after BY <4>1 DEF after
        <5> QED BY <5>1, <5>2
      <4>4. DOMAIN rows' = DOMAIN rows /\ IsFcn(rows') /\ \A n \in DOMAIN rows' : rows'[n] \in Rows
        BY <1>2, <4>1, <4>2 DEF Rows
      <4> QED BY <1>2, <2>1, <2>3, <3>2, <3>6, <4>3, <4>4 DEF StagePerfs, RequestedServers
    <3>7. CASE job.action = "SET_BALANCING_MODE"
      BY <1>2, <2>1, <2>3, <3>1, <3>2, <3>7 DEF RowsAfter, StagePerfs, RequestedServers
    <3> QED BY <1>1, <3>3, <3>4, <3>5, <3>6, <3>7 DEF PayloadOK, TopologyActions
  <2> QED BY <2>2, <2>3
<1>5. TypeOK' BY <1>1, <1>3, <1>4 DEF TopologyInv, TypeOK, IsPartialFcn, NoJob
<1>6. StageOK'
  BY <1>1, <1>4 DEF StageOK, StagePerfs, StageServers, Undisturbed, NoJob
<1>7. AbandonedOK'
  BY <1>1 DEF TopologyInv, AbandonedOK, CommandOK, ServersOK, IsPartialFcn
<1> QED BY <1>1, <1>4, <1>5, <1>6, <1>7 DEF TopologyInv, DrainedAtDelete, NoJob

\* A worker that stops disturbs the agreement and nothing else.
LEMMA RestartStep ==
  ASSUME TopologyInv, Restart \/ Shutdown
  PROVE  TopologyInv'
<1>0. PayloadOK /\ job.seen = rows
  BY DEF TopologyInv, NoJob, PayloadOK, Restart, Shutdown
<1>1. /\ PayloadOK /\ Goto("start")
      /\ UNCHANGED <<rows, mode, containers, seq, belated>>
      /\ restarts' = restarts + 1 /\ restarts < MaxRestarts
      /\ upstream' \in {upstream, Servers(rows)}
      /\ faults' = faults \/ Fault("fail", 1) \/ Fault("lost", 1)
      /\ \/ abandoned' = abandoned
         \/ /\ Fault("lost", 1)
            /\ abandoned' =
                 abandoned \cup {NewCommand("APPLY_LAB_UPSTREAM", 0, 0, 0, Servers(rows))}
  BY <1>0, ApplyEffect DEF Restart, Shutdown, Lost
<1>2. /\ job'.action = job.action /\ job'.name = job.name /\ job'.perf = job.perf
      /\ job'.mode = job.mode /\ job'.servers = job.servers /\ job'.seen = job.seen
      /\ job'.pc = "start"
      /\ job' = [action |-> job'.action, pc |-> job'.pc, name |-> job'.name, perf |-> job'.perf,
                 mode |-> job'.mode, servers |-> job'.servers, seen |-> job'.seen]
  BY <1>1 DEF PayloadOK, Goto
<1>3. (PayloadOK /\ PcOK)' BY <1>1, <1>2 DEF PayloadOK, PcOK, RequestedServers, TopologyActions
<1>4. faults' \in [fail : 0..MaxFaults, lost : 0..MaxFaults]
  <2>1. faults \in [fail : 0..MaxFaults, lost : 0..MaxFaults] BY DEF TopologyInv, TypeOK
  <2>2. ASSUME NEW kind \in {"fail", "lost"}, Fault(kind, 1)
        PROVE  faults' \in [fail : 0..MaxFaults, lost : 0..MaxFaults]
    BY <2>1, <2>2, TopologyAssumption DEF Fault
  <2> QED BY <1>1, <2>1, <2>2
<1>5. /\ IsPartialFcn(upstream', Names, LAMBDA w : w \in 1..100) /\ DOMAIN upstream' # {}
      /\ IsFcn(upstream')
  BY <1>1 DEF TopologyInv, TypeOK, IsPartialFcn, Servers, Rows
<1>6. restarts' \in 0..MaxRestarts /\ restarts' # 0
  BY <1>1, TopologyAssumption DEF TopologyInv, TypeOK
<1>7. TypeOK' BY <1>1, <1>2, <1>4, <1>5, <1>6 DEF TopologyInv, TypeOK, IsPartialFcn
<1>8. AbandonedOK'
  <2>1. \A c : CommandOK(c) => CommandOK(c)' BY <1>1 DEF CommandOK, ServersOK, IsPartialFcn
  <2>2. CommandOK(NewCommand("APPLY_LAB_UPSTREAM", 0, 0, 0, Servers(rows)))
    BY <1>0, ServersTyped, CommandsTyped, TopologyAssumption DEF TopologyInv, TypeOK
  <2>3. (Fault("lost", 1) => faults'.lost > 0) /\ (faults.lost > 0 => faults'.lost > 0)
    <3>1. faults \in [fail : 0..MaxFaults, lost : 0..MaxFaults] BY DEF TopologyInv, TypeOK
    <3> QED BY <1>1, <3>1, TopologyAssumption DEF Fault
  <2>4. \A c \in abandoned' : CommandOK(c)'
    BY <1>1, <2>1, <2>2 DEF TopologyInv, AbandonedOK
  <2>5. abandoned' # {} \/ belated' => faults'.lost > 0
    BY <1>1, <2>3 DEF TopologyInv, AbandonedOK
  <2> QED BY <2>4, <2>5 DEF AbandonedOK
<1> QED BY <1>1, <1>2, <1>3, <1>5, <1>6, <1>7, <1>8
    DEF TopologyInv, DrainedAtDelete, StageOK, Undisturbed

\* So does a command that takes effect after it was given up, which may also
\* put a server back that removeInstance had taken out.
LEMMA BelatedStep ==
  ASSUME TopologyInv, NEW c \in abandoned, Belated(c)
  PROVE  TopologyInv'
<1>1. UNCHANGED <<rows, mode, job, seq, faults, restarts>> BY DEF Belated
<1>2. faults.lost > 0 /\ CommandOK(c) /\ seq \in Nat
  BY TopologyAssumption DEF TopologyInv, AbandonedOK, TypeOK
<1>3. StageOK'
  <2>1. ~Undisturbed' BY <1>1, <1>2, TopologyAssumption DEF Undisturbed, TopologyInv, TypeOK
  <2> QED BY <2>1 DEF StageOK
<1>4. \/ belated' = TRUE
      \/ UNCHANGED <<containers, upstream, belated>>
  BY DEF Belated
<1>12. \/ UNCHANGED <<containers, upstream>>
       \/ containers' = Without(containers, c.name) /\ upstream' = upstream
       \/ containers' = ContainersAfter(c) /\ upstream' = UpstreamAfter(c)
          /\ c.type # "UPDATE_APP_CAPACITY"
  BY DEF Belated
<1>5. DrainedAtDelete' BY <1>1, <1>4 DEF TopologyInv, DrainedAtDelete
<1>6. AbandonedOK'
  <2>1. \A d : CommandOK(d) => CommandOK(d)' BY <1>1 DEF CommandOK, ServersOK, IsPartialFcn
  <2>2. ASSUME c.type = "UPDATE_APP_CAPACITY", NEW q \in {c.perf, c.previous}
        PROVE  CommandOK([c EXCEPT !.type = "CREATE_APP_INSTANCE", !.perf = q])
    <3> DEFINE d == [c EXCEPT !.type = "CREATE_APP_INSTANCE", !.perf = q]
    <3>1. /\ c = [type |-> c.type, name |-> c.name, perf |-> c.perf, previous |-> c.previous,
                  servers |-> c.servers, op |-> c.op]
          /\ c.name \in Names /\ q \in 20..100 /\ c.op \in 0..seq
      BY <1>2, <2>2 DEF CommandOK
    <3>2. d.type = "CREATE_APP_INSTANCE" /\ d.name = c.name /\ d.perf = q /\ d.op = c.op
      BY <3>1
    <3> HIDE DEF d
    <3>3. CommandOK(d) BY <3>1, <3>2 DEF CommandOK
    <3> QED BY <3>3 DEF d
  <2>3. \A d \in abandoned' : CommandOK(d)
    BY <2>2 DEF Belated, TopologyInv, AbandonedOK
  <2>4. \A d \in abandoned' : CommandOK(d)' BY <2>1, <2>3
  <2> QED BY <1>1, <1>2, <2>4 DEF AbandonedOK
<1>7. /\ IsPartialFcn(containers', Names, LAMBDA x : x \in [perf : 20..100, op : 0..seq])
      /\ IsFcn(containers')
  <2>1. \/ containers' = containers
        \/ containers' = Without(containers, c.name)
        \/ /\ containers' = With(containers, c.name, [perf |-> c.perf, op |-> c.op])
           /\ c.type = "CREATE_APP_INSTANCE"
    BY <1>12 DEF ContainersAfter
  <2>2. CASE containers' = containers BY <2>2 DEF TopologyInv, TypeOK, IsPartialFcn
  <2>3. CASE containers' = Without(containers, c.name)
    BY <2>3 DEF TopologyInv, TypeOK, IsPartialFcn, Without
  <2>4. CASE /\ containers' = With(containers, c.name, [perf |-> c.perf, op |-> c.op])
             /\ c.type = "CREATE_APP_INSTANCE"
    <3>1. c.name \in Names /\ c.perf \in 20..100 /\ c.op \in 0..seq BY <1>2, <2>4 DEF CommandOK
    <3> QED BY <2>4, <3>1 DEF TopologyInv, TypeOK, IsPartialFcn, With
  <2> QED BY <2>1, <2>2, <2>3, <2>4
<1>8. ServersOK(upstream')
  <2>1. ServersOK(upstream) BY DEF TopologyInv, TypeOK, ServersOK
  <2>2. c.type = "APPLY_LAB_UPSTREAM" => ServersOK(c.servers) BY <1>2 DEF CommandOK
  <2>3. upstream' = upstream \/ (c.type = "APPLY_LAB_UPSTREAM" /\ upstream' = c.servers)
    BY <1>12 DEF UpstreamAfter
  <2>4. CASE upstream' = upstream BY <2>1, <2>4 DEF ServersOK, IsPartialFcn
  <2>5. CASE c.type = "APPLY_LAB_UPSTREAM" /\ upstream' = c.servers
    BY <2>2, <2>5 DEF ServersOK, IsPartialFcn
  <2> QED BY <2>3, <2>4, <2>5
<1>9. belated' \in BOOLEAN BY <1>4 DEF TopologyInv, TypeOK
<1>10. TypeOK' BY <1>1, <1>7, <1>8, <1>9 DEF TopologyInv, TypeOK, IsPartialFcn, ServersOK
<1>11. job' = NoJob \/ (PayloadOK /\ PcOK)'
  BY <1>1 DEF TopologyInv, PayloadOK, PcOK, RequestedServers
<1> QED BY <1>1, <1>3, <1>5, <1>6, <1>7, <1>8, <1>10, <1>11 DEF TopologyInv, ServersOK

LEMMA TopologyInvInductive == TopologyInv /\ [Next]_vars => TopologyInv'
<1> SUFFICES ASSUME TopologyInv, [Next]_vars PROVE TopologyInv' OBVIOUS
<1>1. CASE Request BY <1>1, RequestStep
<1>2. CASE Execute
  BY <1>2, ExecuteTypes, ExecutePayload, ExecuteStage DEF TopologyInv, TypesOK
<1>3. CASE CompleteTopology BY <1>3, CompleteStep
<1>4. CASE Restart \/ Shutdown BY <1>4, RestartStep
<1>6. CASE \E c \in abandoned : Belated(c) BY <1>6, BelatedStep
<1>5. CASE UNCHANGED vars
  <2>1. TypeOK' BY <1>5 DEF vars, TopologyInv, TypeOK, IsPartialFcn
  <2>2. AbandonedOK'
    BY <1>5 DEF vars, TopologyInv, AbandonedOK, CommandOK, ServersOK, IsPartialFcn
  <2>3. job' = NoJob \/ (PayloadOK /\ PcOK)'
    BY <1>5 DEF vars, TopologyInv, PayloadOK, PcOK, RequestedServers
  <2>4. (DrainedAtDelete /\ StageOK)'
    BY <1>5 DEF vars, TopologyInv, DrainedAtDelete, StageOK, StagePerfs, StageServers, Undisturbed
  <2>5. IsFcn(rows') /\ IsFcn(containers') /\ IsFcn(upstream') BY <1>5 DEF vars, TopologyInv
  <2> QED BY <2>1, <2>2, <2>3, <2>4, <2>5 DEF TopologyInv
<1> QED BY <1>1, <1>2, <1>3, <1>4, <1>5, <1>6 DEF Next

LEMMA TopologyInvariant == Spec => []TopologyInv
BY TopologyInvInit, TopologyInvInductive, PTL DEF Spec

-----------------------------------------------------------------------------
\* Whatever commands fail or are lost and however often workers stop, the
\* tables, containers and gateway configuration are well-typed, and a lab has
\* between one and MaxInstances instances (buildTopologyPayload).
THEOREM TopologyWellTyped == Spec => []TypeOK
<1>1. TopologyInv => TypeOK BY DEF TopologyInv
<1> QED BY <1>1, TopologyInvariant, PTL

\* After any number of operations of which one command has failed, and
\* between operations, the rows, the containers and the gateway agree: the
\* undo commands of addInstance, removeInstance and setInstancePerformance
\* restore what the failed operation had changed.
THEOREM ViewsAgree == Spec => []TopologyAgreement
<1>1. TopologyInv => TopologyAgreement
  <2> SUFFICES ASSUME TopologyInv, Undisturbed, job = NoJob
               PROVE  /\ DOMAIN containers = DOMAIN rows
                      /\ \A n \in DOMAIN rows : containers[n].perf = rows[n].perf
                      /\ upstream = Servers(rows)
    BY DEF TopologyAgreement, Agreement, Undisturbed
  <2>1. Perfs(containers) = Perfs(rows) /\ upstream = Servers(rows)
    BY DEF TopologyInv, StageOK, StagePerfs, StageServers, NoJob
  <2> QED BY <2>1, ViewsAreFcns
<1> QED BY <1>1, TopologyInvariant, PTL

\* removeInstance deletes a container only when the running gateway has no
\* server for it, also when the operation is executed again after a restart,
\* a shutdown during the drain, a failed command or a lost answer; as long as
\* no command that was given up has taken effect later.
THEOREM InstancesDrainedBeforeDelete == Spec => DrainedBeforeDelete
<1>1. TopologyInv /\ [Next]_vars => [DrainedWhenDeleted]_vars
  <2> SUFFICES ASSUME TopologyInv, Next, job.action = "REMOVE_INSTANCE", ~belated',
                      NEW n \in DOMAIN containers \ DOMAIN containers'
               PROVE  n \notin DOMAIN upstream
    BY DEF DrainedWhenDeleted
  <2>1. containers' # containers OBVIOUS
  <2>5. ~\E c \in abandoned : Belated(c) BY <2>1 DEF Belated
  <2>2. RemoveInstance /\ Execute
    BY <2>1, <2>5, ApplyEffect DEF Next, Request, EnqueueAddInstance, EnqueueRemoveInstance, EnqueueSetPerformance,
      EnqueueSetWeights, EnqueueSetMode, EnqueueAdjustment, Enqueue, Execute, AddInstance,
      SetInstancePerformance, SetInstanceWeights, SetBalancingMode, ApplyAdaptiveWeights,
      CompleteTopology, Restart, Shutdown
  <2>3. job.pc = "delete" /\ containers' = Without(containers, job.name)
    BY <2>1, <2>2, ApplyEffect, DeleteEffect DEF RemoveInstance, Lost
  <2>6. ~belated BY <2>2, ExecuteEffect
  <2>4. n = job.name BY <2>3 DEF Without
  <2> QED BY <2>3, <2>4, <2>6 DEF TopologyInv, DrainedAtDelete
<1> QED BY <1>1, TopologyInvariant, PTL DEF Spec, DrainedBeforeDelete
=============================================================================
