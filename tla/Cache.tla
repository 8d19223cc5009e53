-------------------------------- MODULE Cache --------------------------------
(***************************************************************************)
(* The multi-level cache lab: lookups of one application instance through  *)
(* its L1 store, the session Redis and MySQL, while the operations that    *)
(* remove and add a layer are carried out by the worker of platform-api.   *)
(*                                                                         *)
(* A lookup reads the clock once, at its start, and holds the processor's  *)
(* lock only around each use of L1, so lookups and the switching of L1     *)
(* interleave between its steps.  The answer of a call may be lost, and a  *)
(* call that was given up may still run later.  The summaries that         *)
(* instances leave in Redis have no reader in platform-api; of a report,   *)
(* only its effect on L1 is kept.  Redis holds only what Set wrote, so the *)
(* branch for an unreadable value is left out.                             *)
(***************************************************************************)
EXTENDS Integers, Sequences, Functions

CONSTANTS
  LookupCount,      \* lookups of the instance
  Catalog, Unknown, \* products in MySQL, and ids that are not
  L1MaxEntries, L1TTL,
  L2TTLs,           \* expiry of a Redis entry, with its jitter
  MaxCacheClock,    \* bound: the clock
  MaxCacheActions,  \* bound: operations
  MaxCacheFaults    \* bound: failing, lost or given-up calls

ASSUME CacheAssumption ==
  /\ Catalog \cap Unknown = {}
  /\ {L1MaxEntries, L1TTL} \subseteq Nat \ {0} /\ L2TTLs \subseteq Nat \ {0}
  /\ {LookupCount, MaxCacheClock, MaxCacheActions, MaxCacheFaults} \subseteq Nat

VARIABLES
  cacheClock,
  l1, l1Enabled,    \* the LRU list, front first, and its switch
  redisUp, redis,   \* the session Redis, and the expiry of its entries
  lookup,
  redisEnabled, redisRow,   \* the lab's row and its resource row
  cacheOp,          \* the lab's cache operation
  strays,           \* calls that were given up and may still run
  wanted,           \* per layer, what the last call asked for, if it was answered
                    \* and recorded, and no stray call has asked for something
                    \* else since
  cacheFaults, cacheActions

storeVars == <<l1, l1Enabled, redisUp, redis>>
rowVars == <<redisEnabled, redisRow, cacheOp, strays, wanted, cacheActions>>
cacheVars == <<cacheClock, storeVars, lookup, rowVars, cacheFaults>>

-----------------------------------------------------------------------------
Lookups == 1..LookupCount
Products == Catalog \cup Unknown
CacheActions == {"REMOVE_INSTANCE_L1", "ADD_INSTANCE_L1",
                 "REMOVE_SESSION_REDIS", "ADD_SESSION_REDIS"}
Layer(a) == IF a \in {"REMOVE_INSTANCE_L1", "ADD_INSTANCE_L1"} THEN "l1" ELSE "redis"
Adds(a) == a \in {"ADD_INSTANCE_L1", "ADD_SESSION_REDIS"}
NoOperation == [pc |-> "idle", action |-> "none"]
NewLookup == [pc |-> "new", product |-> 0, at |-> 0]

CacheInit ==
  /\ cacheClock = 0 /\ l1 = <<>> /\ l1Enabled = TRUE
  /\ redisUp = TRUE /\ redis = <<>>
  /\ lookup = [k \in Lookups |-> NewLookup]
  /\ redisEnabled = TRUE /\ redisRow = "ready"
  /\ cacheOp = NoOperation /\ strays = {}
  /\ wanted = [l1 |-> "on", redis |-> "on"]
  /\ cacheFaults = 0 /\ cacheActions = 0

\* Types; L1 holds every product once and stays within its size.
CacheTypeOK ==
  /\ cacheClock \in 0..MaxCacheClock /\ {l1Enabled, redisUp, redisEnabled} \subseteq BOOLEAN
  /\ Len(l1) <= L1MaxEntries
  /\ \A i, j \in DOMAIN l1 : l1[i].product = l1[j].product => i = j
  /\ \A i \in DOMAIN l1 : l1[i].product \in Catalog
  /\ DOMAIN redis \subseteq Catalog
  /\ redisRow \in {"ready", "deleted"} /\ strays \subseteq CacheActions
  /\ cacheOp.pc \in {"idle", "pending", "calling", "answered", "failed"}
  /\ cacheFaults \in 0..MaxCacheFaults

CacheFault == cacheFaults < MaxCacheFaults /\ cacheFaults' = cacheFaults + 1
NoFault == UNCHANGED cacheFaults

-----------------------------------------------------------------------------
(***************************************************************************)
(* L1Store.                                                                *)
(***************************************************************************)
WithoutProduct(p) == SelectSeq(l1, LAMBDA e : e.product # p)
Live(p, now) == \E i \in DOMAIN l1 : l1[i].product = p /\ now < l1[i].expires

\* Get: a hit moves to the front, an expired entry is dropped.
Touched(p, now) ==
  IF Live(p, now) THEN SelectSeq(l1, LAMBDA e : e.product = p) \o WithoutProduct(p) ELSE WithoutProduct(p)

\* Mutant: no entry is evicted.
PutUnbounded(p, now) == <<[product |-> p, expires |-> now + L1TTL]>> \o WithoutProduct(p)

\* Put: to the front, the entry at the back making room.
Put(p, now) ==
  LET new == <<[product |-> p, expires |-> now + L1TTL]>> \o WithoutProduct(p)
  IN  SubSeq(new, 1, IF Len(new) > L1MaxEntries THEN L1MaxEntries ELSE Len(new))

\* Snapshot: expired entries are dropped, if there are any.
Snapshot(now) ==
  IF \A i \in DOMAIN l1 : now < l1[i].expires THEN l1
  ELSE SelectSeq(l1, LAMBDA e : now < e.expires)

-----------------------------------------------------------------------------
(***************************************************************************)
(* A lookup.                                                               *)
(***************************************************************************)
Step(k, r) == lookup' = [lookup EXCEPT ![k] = r]
At(k, pc) == [lookup[k] EXCEPT !.pc = pc]
Ended == [NewLookup EXCEPT !.pc = "ended"]

\* Lookups are alike, so they begin in order.
Begin(k, p) ==
  /\ lookup[k].pc = "new" /\ \A i \in 1..(k - 1) : lookup[i].pc # "new"
  /\ Step(k, [lookup[k] EXCEPT !.pc = "l1", !.product = p, !.at = cacheClock])
  /\ UNCHANGED <<cacheClock, storeVars, rowVars, cacheFaults>>

GetL1(k) ==
  LET p == lookup[k].product  now == lookup[k].at
  IN  /\ lookup[k].pc = "l1"
      /\ l1' = IF l1Enabled THEN Touched(p, now) ELSE l1
      /\ Step(k, At(k, IF l1Enabled /\ Live(p, now) THEN "report" ELSE "redis"))
      /\ UNCHANGED <<cacheClock, l1Enabled, redisUp, redis, rowVars, cacheFaults>>

\* The Redis may be absent, or not answer in time.
GetRedis(k) ==
  /\ lookup[k].pc = "redis"
  /\ \/ /\ redisUp
        /\ Step(k, At(k, IF lookup[k].product \in DOMAIN redis THEN "fill" ELSE "mysql"))
        /\ NoFault
     \/ /\ IF redisUp THEN CacheFault ELSE NoFault
        /\ Step(k, At(k, "mysql"))
  /\ UNCHANGED <<cacheClock, storeVars, rowVars>>

GetMySQL(k) ==
  /\ lookup[k].pc = "mysql"
  /\ \/ /\ Step(k, At(k, IF lookup[k].product \in Catalog THEN "set" ELSE "report"))
        /\ NoFault
     \/ /\ CacheFault
        /\ Step(k, Ended)
  /\ UNCHANGED <<cacheClock, storeVars, rowVars>>

\* Filling Redis is best effort: without Redis, or when it fails, the lookup
\* goes on.
SetRedis(k) ==
  /\ lookup[k].pc = "set"
  /\ \/ /\ redisUp
        /\ \E ttl \in L2TTLs :
             redis' = [p \in DOMAIN redis \cup {lookup[k].product} |->
                        IF p = lookup[k].product THEN cacheClock + ttl ELSE redis[p]]
        /\ NoFault
     \/ /\ IF redisUp THEN CacheFault ELSE NoFault
        /\ UNCHANGED redis
  /\ Step(k, At(k, "fill"))
  /\ UNCHANGED <<cacheClock, l1, l1Enabled, redisUp, rowVars>>

\* Mutant: a lookup that was begun with L1 fills it.
FillL1Unchecked(k) ==
  /\ lookup[k].pc = "fill"
  /\ l1' = Put(lookup[k].product, lookup[k].at)
  /\ Step(k, At(k, "report"))
  /\ UNCHANGED <<cacheClock, l1Enabled, redisUp, redis, rowVars, cacheFaults>>

\* putL1IfEnabled looks at the switch again.
FillL1(k) ==
  /\ lookup[k].pc = "fill"
  /\ l1' = IF l1Enabled THEN Put(lookup[k].product, lookup[k].at) ELSE l1
  /\ Step(k, At(k, "report"))
  /\ UNCHANGED <<cacheClock, l1Enabled, redisUp, redis, rowVars, cacheFaults>>

\* report, and the answer.
Finish(k) ==
  /\ lookup[k].pc = "report"
  /\ l1' = Snapshot(lookup[k].at)
  /\ Step(k, Ended)
  /\ UNCHANGED <<cacheClock, l1Enabled, redisUp, redis, rowVars, cacheFaults>>

\* Time passes; Redis drops what has expired.
CacheTick ==
  /\ cacheClock < MaxCacheClock
  /\ cacheClock' = cacheClock + 1
  /\ redis' = Restrict(redis, {p \in DOMAIN redis : redis[p] > cacheClock + 1})
  /\ UNCHANGED <<l1, l1Enabled, redisUp, lookup, rowVars, cacheFaults>>

-----------------------------------------------------------------------------
(***************************************************************************)
(* The operations.                                                         *)
(***************************************************************************)
\* EnqueueCacheAction, in a running lab with no operation under way.
EnqueueCacheAction(a) ==
  /\ cacheOp.pc = "idle" /\ cacheActions < MaxCacheActions
  /\ cacheOp' = [pc |-> "pending", action |-> a]
  /\ cacheActions' = cacheActions + 1
  /\ UNCHANGED <<cacheClock, storeVars, lookup, redisEnabled, redisRow, strays, wanted,
                 cacheFaults>>

\* A store that is switched off is cleared; the answer is a snapshot.
SetL1Enabled(on) ==
  /\ l1Enabled' = on
  /\ l1' = IF l1Enabled /\ ~on THEN <<>> ELSE Snapshot(cacheClock)

\* CREATE_SESSION_REDIS returns a Redis that is there, and DELETE_SESSION_REDIS
\* succeeds when there is none; a new Redis is empty.
Apply(a) ==
  \/ /\ Layer(a) = "l1"
     /\ SetL1Enabled(Adds(a))
     /\ UNCHANGED <<redisUp, redis>>
  \/ /\ Layer(a) = "redis"
     /\ redisUp' = Adds(a)
     /\ redis' = IF redisUp /\ Adds(a) THEN redis ELSE <<>>
     /\ UNCHANGED <<l1, l1Enabled>>

Wish(a) == IF Adds(a) THEN "on" ELSE "off"
Asked(a, wish) == wanted' = [wanted EXCEPT ![Layer(a)] = wish]

ClaimCache ==
  /\ cacheOp.pc = "pending"
  /\ cacheOp' = [cacheOp EXCEPT !.pc = "calling"]
  /\ UNCHANGED <<cacheClock, storeVars, lookup, redisEnabled, redisRow, strays, wanted,
                 cacheActions, cacheFaults>>

\* The call, which may fail before or after it has its effect.
CallCache ==
  /\ cacheOp.pc = "calling"
  /\ \/ /\ Apply(cacheOp.action)
        /\ cacheOp' = [cacheOp EXCEPT !.pc = "answered"]
        /\ Asked(cacheOp.action, Wish(cacheOp.action))
        /\ NoFault
     \/ /\ CacheFault
        /\ cacheOp' = [cacheOp EXCEPT !.pc = "failed"]
        /\ \/ Apply(cacheOp.action) /\ Asked(cacheOp.action, "unknown")
           \/ UNCHANGED <<storeVars, wanted>>
  /\ UNCHANGED <<cacheClock, lookup, redisEnabled, redisRow, strays, cacheActions>>

\* The worker gives a call up, or stops and leaves the operation to another.
AbandonCall ==
  /\ cacheOp.pc = "calling" /\ CacheFault
  /\ strays' = strays \cup {cacheOp.action}
  /\ \E pc \in {"failed", "pending"} : cacheOp' = [cacheOp EXCEPT !.pc = pc]
  /\ UNCHANGED <<cacheClock, storeVars, lookup, redisEnabled, redisRow, wanted, cacheActions>>

\* A call that was given up runs, or is cancelled.
StrayCall(a) ==
  /\ a \in strays
  /\ strays' = strays \ {a}
  /\ \/ /\ Apply(a)
        /\ Asked(a, IF wanted[Layer(a)] = Wish(a) THEN Wish(a) ELSE "unknown")
     \/ UNCHANGED <<storeVars, wanted>>
  /\ UNCHANGED <<cacheClock, lookup, redisEnabled, redisRow, cacheOp, cacheActions, cacheFaults>>

\* Mutant: the flag of the lab is left alone.
CompleteCacheKeepsFlag ==
  /\ cacheOp.pc \in {"answered", "failed"}
  /\ LET a == cacheOp.action  ok == cacheOp.pc = "answered"
     IN  /\ redisRow' = IF ok /\ Layer(a) = "redis"
                        THEN (IF Adds(a) THEN "ready" ELSE "deleted") ELSE redisRow
  /\ cacheOp' = NoOperation
  /\ UNCHANGED <<cacheClock, storeVars, lookup, redisEnabled, strays, wanted,
                 cacheActions, cacheFaults>>

\* Only a successful operation changes the rows.
CompleteCache ==
  /\ cacheOp.pc \in {"answered", "failed"}
  /\ LET a == cacheOp.action  ok == cacheOp.pc = "answered"
     IN  /\ redisRow' = IF ok /\ Layer(a) = "redis"
                        THEN (IF Adds(a) THEN "ready" ELSE "deleted") ELSE redisRow
         /\ redisEnabled' = IF ok /\ Layer(a) = "redis" THEN Adds(a) ELSE redisEnabled
  /\ cacheOp' = NoOperation
  /\ UNCHANGED <<cacheClock, storeVars, lookup, strays, wanted, cacheActions, cacheFaults>>

\* CompleteCache rolls back, or the worker stops before it: the operation is
\* claimed again when its lease ends.  What the call did stays.
CompletionLost ==
  /\ cacheOp.pc \in {"answered", "failed"} /\ CacheFault
  /\ cacheOp' = [cacheOp EXCEPT !.pc = "pending"]
  /\ \/ cacheOp.pc = "answered" /\ Asked(cacheOp.action, "unknown")
     \/ cacheOp.pc = "failed" /\ UNCHANGED wanted
  /\ UNCHANGED <<cacheClock, storeVars, lookup, redisEnabled, redisRow, strays, cacheActions>>

CacheNext ==
  \/ \E k \in Lookups :
       \/ \E p \in Products : Begin(k, p)
       \/ GetL1(k) \/ GetRedis(k) \/ GetMySQL(k) \/ SetRedis(k) \/ FillL1(k) \/ Finish(k)
  \/ CacheTick
  \/ \E a \in CacheActions : EnqueueCacheAction(a) \/ StrayCall(a)
  \/ ClaimCache \/ CallCache \/ AbandonCall \/ CompleteCache \/ CompletionLost

CacheSpec == CacheInit /\ [][CacheNext]_cacheVars

-----------------------------------------------------------------------------
(***************************************************************************)
(* Properties.                                                             *)
(***************************************************************************)
\* While its L1 is switched off an instance keeps nothing in it, whatever
\* lookups were under way when it was switched.
DisabledL1Empty == ~l1Enabled => l1 = <<>>

\* What the last operation on a layer asked for is what the layer is, and for
\* Redis what both rows say, also when operations were repeated after failures,
\* lost answers or lost completions.  There are three exceptions, each up to the
\* next recorded operation on the layer: its last call failed after its effect;
\* the answer of a call was lost with its completion, and the repetition failed
\* without effect; or a call that had been given up ran afterwards.
LayersAsRequested ==
  cacheOp.pc = "idle" =>
    /\ wanted.l1 # "unknown" => l1Enabled = (wanted.l1 = "on")
    /\ wanted.redis # "unknown" =>
         /\ redisUp = (wanted.redis = "on")
         /\ redisEnabled = redisUp
         /\ redisRow = IF redisUp THEN "ready" ELSE "deleted"
=============================================================================
