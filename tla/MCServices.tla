------------------------------ MODULE MCServices ------------------------------
(***************************************************************************)
(* Components with safety properties, in one run: the topology of a lab,   *)
(* traffic, the cache of the lab application, the limiter of logins and    *)
(* the sessions.  They share no state; "focus" is the one that moves in a  *)
(* behaviour.                                                              *)
(***************************************************************************)
EXTENDS LabTopology, Traffic, Cache, LoginLimiter, Sessions, TLC

VARIABLE focus

\* The products of the catalogue are alike.
MCSymmetry == Permutations(Catalog)

MCInit ==
  /\ focus \in {"unreliable", "retries", "traffic", "samples", "cache", "logins", "sessions"}
  /\ Init /\ TrafficInit /\ CacheInit /\ LoginLimiterInit /\ SessionsInit

(***************************************************************************)
(* The topology in two settings.  unreliable: every kind of failure, one   *)
(* restart and three operations (two, when a command that was given up may *)
(* come later), or four operations without any of these.  retries: two     *)
(* restarts, four operations, no failing command, no removal of an         *)
(* instance (LabTopologyRemoveRetry.cfg is about its retry).  In the       *)
(* cache, time passes only where no call fails, and a second failure comes *)
(* only without lookups.                                                   *)
(***************************************************************************)
Topology ==
  /\ Next
  /\ \/ /\ focus = "unreliable" /\ restarts' <= 1
        /\ seq' <= 3 \/ (restarts' = 0 /\ faults' = NoFaults)
        /\ abandoned' # {} \/ belated' => seq' <= 2
     \/ focus = "retries" /\ faults' = NoFaults /\ job'.action # "REMOVE_INSTANCE"

\* Traffic in two settings: three batches without samples, and two batches with
\* samples, where time is longer, only containers are replaced, and the limiter
\* and the processor do not wait for their locks.
MCTraffic ==
  /\ TrafficNext
  /\ \/ focus = "traffic" /\ sample' = NoSample /\ clock' <= 2
     \/ /\ focus = "samples" /\ disturbed' = app'.id - 1
        /\ sample' # NoSample => clock' <= sample'.at + 1
        /\ \A b \in Batches :
             /\ b > 2 => batch'[b] = NewBatch
             /\ batch'[b].pc \notin {"refused", "failed"}
             /\ batch'[b].pc \in {"arrived", "received"} => batch'[b].at = clock'

MCNext ==
  /\ UNCHANGED focus
  /\ \/ /\ Topology
        /\ UNCHANGED <<trafficVars, cacheVars, loginVars, sessionVars>>
     \/ /\ MCTraffic
        /\ UNCHANGED <<vars, cacheVars, loginVars, sessionVars>>
     \/ /\ focus = "cache" /\ CacheNext
        /\ cacheFaults' > 0 => cacheClock' = 0
        /\ cacheFaults' > 1 => lookup' = [k \in Lookups |-> NewLookup]
        /\ UNCHANGED <<vars, trafficVars, loginVars, sessionVars>>
     \/ /\ focus = "logins" /\ LoginLimiterNext
        /\ UNCHANGED <<vars, trafficVars, cacheVars, sessionVars>>
     \/ /\ focus = "sessions" /\ SessionsNext
        /\ UNCHANGED <<vars, trafficVars, cacheVars, loginVars>>

MCSpec ==
  MCInit /\ [][MCNext]_<<focus, vars, trafficVars, cacheVars, loginVars, sessionVars>>

\* Types of all components, with the limits on instances, on the entries of the
\* two limiters and of L1, and on the life of a session.
ServicesTypeOK ==
  /\ TypeOK /\ TrafficTypeOK /\ CacheTypeOK /\ LoginLimiterTypeOK /\ SessionsTypeOK

\* A topology operation that restarted workers execute again and again, in
\* executeTopology from its first command, succeeds and leaves rows,
\* containers and gateway in agreement.
RetriesConverge == focus = "retries" => RetriesSucceed /\ Agreement
=============================================================================
