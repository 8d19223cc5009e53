--------------------------- MODULE ServiceProofs ----------------------------
(***************************************************************************)
(* Theorems about the layers of the cache lab (Cache) and about the        *)
(* cookie of a browser (Sessions).                                         *)
(***************************************************************************)
EXTENDS Cache, Sessions, TLAPS

-----------------------------------------------------------------------------
(***************************************************************************)
(* Cache.                                                                  *)
(***************************************************************************)
Wishes == {"on", "off", "unknown"}

\* What the operation, the calls that were given up and the wishes can be.
CacheWellFormed ==
  /\ l1Enabled \in BOOLEAN /\ redisUp \in BOOLEAN /\ redisEnabled \in BOOLEAN
  /\ strays \subseteq CacheActions
  /\ wanted \in [l1 : Wishes, redis : Wishes]
  /\ cacheOp \in [pc : {"idle", "pending", "calling", "answered", "failed"},
                  action : CacheActions \cup {"none"}]
  /\ cacheOp.pc # "idle" => cacheOp.action \in CacheActions

\* Each layer is what was asked for last, at any time.
LayersFollow ==
  /\ wanted.l1 # "unknown" => l1Enabled = (wanted.l1 = "on")
  /\ wanted.redis # "unknown" => redisUp = (wanted.redis = "on")

Uncommitted == cacheOp.pc = "answered" /\ Layer(cacheOp.action) = "redis"

\* The rows follow, except between the answer to an operation on Redis and its
\* completion; until then nothing but what it asks for is wanted.
RowsFollow ==
  wanted.redis # "unknown" =>
    IF Uncommitted THEN wanted.redis = Wish(cacheOp.action)
    ELSE /\ redisEnabled = (wanted.redis = "on")
         /\ redisRow = IF wanted.redis = "on" THEN "ready" ELSE "deleted"

CacheInv == CacheWellFormed /\ DisabledL1Empty /\ LayersFollow /\ RowsFollow

USE DEF Layer, Adds, Wish, CacheActions, Wishes

\* A snapshot of an empty store is empty.
LEMMA EmptySnapshot == ASSUME NEW now PROVE l1 = <<>> => Snapshot(now) = <<>>
BY DEF Snapshot

\* What a call does to the two layers, whoever makes it.
LEMMA ApplyEffect ==
  ASSUME CacheInv, NEW a \in CacheActions, Apply(a)
  PROVE  /\ Layer(a) = "l1" => l1Enabled' = Adds(a) /\ redisUp' = redisUp
         /\ Layer(a) = "redis" => redisUp' = Adds(a) /\ l1Enabled' = l1Enabled
         /\ l1Enabled' \in BOOLEAN /\ redisUp' \in BOOLEAN
         /\ DisabledL1Empty'
<1> USE DEF CacheInv, CacheWellFormed
<1>1. CASE Layer(a) = "l1"
  <2>1. SetL1Enabled(Adds(a)) /\ redisUp' = redisUp
    BY <1>1 DEF Apply
  <2>2. ~l1Enabled' => l1' = <<>>
    <3>1. l1Enabled' = Adds(a) /\ l1' = IF l1Enabled /\ ~Adds(a) THEN <<>> ELSE Snapshot(cacheClock)
      BY <2>1 DEF SetL1Enabled
    <3> QED BY <3>1, EmptySnapshot DEF DisabledL1Empty
  <2> QED BY <1>1, <2>1, <2>2 DEF SetL1Enabled, DisabledL1Empty
<1>2. CASE Layer(a) = "redis"
  <2>1. redisUp' = Adds(a) /\ l1' = l1 /\ l1Enabled' = l1Enabled
    BY <1>2 DEF Apply
  <2> QED BY <1>2, <2>1 DEF DisabledL1Empty
<1> QED BY <1>1, <1>2

\* The steps of a lookup and of the clock leave the switches and rows alone, and
\* fill L1 only where it is switched on.
LEMMA LookupStep ==
  ASSUME CacheInv,
         \/ CacheTick
         \/ \E k \in Lookups :
              \/ \E p \in Products : Begin(k, p)
              \/ GetL1(k) \/ GetRedis(k) \/ GetMySQL(k) \/ SetRedis(k) \/ FillL1(k) \/ Finish(k)
  PROVE  UNCHANGED <<l1Enabled, redisUp, rowVars>> /\ DisabledL1Empty'
<1> USE DEF CacheInv, CacheWellFormed, DisabledL1Empty
<1>1. CASE CacheTick
  BY <1>1 DEF CacheTick
<1>2. ASSUME NEW k \in Lookups, NEW p \in Products, Begin(k, p)
      PROVE  UNCHANGED <<l1Enabled, redisUp, rowVars>> /\ DisabledL1Empty'
  BY <1>2 DEF Begin, storeVars
<1>3. ASSUME NEW k \in Lookups, GetL1(k) \/ FillL1(k)
      PROVE  UNCHANGED <<l1Enabled, redisUp, rowVars>> /\ DisabledL1Empty'
  BY <1>3 DEF GetL1, FillL1
<1>4. ASSUME NEW k \in Lookups, GetRedis(k) \/ GetMySQL(k) \/ SetRedis(k)
      PROVE  UNCHANGED <<l1Enabled, redisUp, rowVars>> /\ DisabledL1Empty'
  BY <1>4 DEF GetRedis, GetMySQL, SetRedis, storeVars
<1>5. ASSUME NEW k \in Lookups, Finish(k)
      PROVE  UNCHANGED <<l1Enabled, redisUp, rowVars>> /\ DisabledL1Empty'
  BY <1>5, EmptySnapshot DEF Finish
<1> QED BY <1>1, <1>2, <1>3, <1>4, <1>5

LEMMA CacheInvInductive == CacheInv /\ [CacheNext]_cacheVars => CacheInv'
<1> SUFFICES ASSUME CacheInv, [CacheNext]_cacheVars PROVE CacheInv'
  OBVIOUS
<1> USE DEF CacheInv, CacheWellFormed, LayersFollow, RowsFollow, Uncommitted
<1>1. CASE UNCHANGED <<l1Enabled, redisUp, rowVars>> /\ DisabledL1Empty'
  BY <1>1 DEF rowVars
<1>2. ASSUME NEW a \in CacheActions, EnqueueCacheAction(a) PROVE CacheInv'
  BY <1>2 DEF EnqueueCacheAction, storeVars, DisabledL1Empty
<1>3. ASSUME NEW a \in CacheActions, StrayCall(a) PROVE CacheInv'
  <2>1. CASE Apply(a) /\ Asked(a, IF wanted[Layer(a)] = Wish(a) THEN Wish(a) ELSE "unknown")
    BY <1>3, <2>1, ApplyEffect DEF StrayCall, Asked
  <2>2. CASE UNCHANGED <<storeVars, wanted>>
    BY <1>3, <2>2 DEF StrayCall, storeVars, DisabledL1Empty
  <2> QED BY <1>3, <2>1, <2>2 DEF StrayCall
<1>4. CASE ClaimCache
  BY <1>4 DEF ClaimCache, storeVars, DisabledL1Empty
<1>5. CASE CallCache
  <2> DEFINE a == cacheOp.action
  <2>0. a \in CacheActions /\ cacheOp.pc = "calling"
    BY <1>5 DEF CallCache
  <2>1. CASE /\ Apply(a) /\ cacheOp' = [cacheOp EXCEPT !.pc = "answered"]
             /\ Asked(a, Wish(a))
    BY <1>5, <2>0, <2>1, ApplyEffect DEF CallCache, Asked
  <2>2. CASE cacheOp' = [cacheOp EXCEPT !.pc = "failed"] /\ Apply(a) /\ Asked(a, "unknown")
    BY <1>5, <2>0, <2>2, ApplyEffect DEF CallCache, Asked
  <2>3. CASE cacheOp' = [cacheOp EXCEPT !.pc = "failed"] /\ UNCHANGED <<storeVars, wanted>>
    BY <1>5, <2>0, <2>3 DEF CallCache, storeVars, DisabledL1Empty
  <2> QED BY <1>5, <2>1, <2>2, <2>3 DEF CallCache
<1>6. CASE AbandonCall
  BY <1>6 DEF AbandonCall, storeVars, DisabledL1Empty
<1>7. CASE CompleteCache
  <2>1. UNCHANGED <<l1, l1Enabled, redisUp, strays, wanted>> /\ cacheOp' = NoOperation
    BY <1>7 DEF CompleteCache, storeVars
  <2>2. CASE Uncommitted
    <3>1. /\ redisEnabled' = Adds(cacheOp.action)
          /\ redisRow' = IF Adds(cacheOp.action) THEN "ready" ELSE "deleted"
      BY <1>7, <2>2 DEF CompleteCache
    <3> QED BY <2>1, <2>2, <3>1 DEF NoOperation, DisabledL1Empty
  <2>3. CASE ~Uncommitted
    <3>1. redisEnabled' = redisEnabled /\ redisRow' = redisRow
      BY <1>7, <2>3 DEF CompleteCache
    <3> QED BY <2>1, <2>3, <3>1 DEF NoOperation, DisabledL1Empty
  <2> QED BY <2>2, <2>3
<1>9. CASE CompletionLost
  <2>1. /\ UNCHANGED <<l1, l1Enabled, redisUp, redisEnabled, redisRow, strays>>
        /\ cacheOp' = [cacheOp EXCEPT !.pc = "pending"] /\ cacheOp.pc \in {"answered", "failed"}
    BY <1>9 DEF CompletionLost, storeVars
  <2>2. CASE cacheOp.pc = "answered" /\ Asked(cacheOp.action, "unknown")
    BY <2>1, <2>2 DEF Asked, DisabledL1Empty
  <2>3. CASE cacheOp.pc = "failed" /\ UNCHANGED wanted
    BY <2>1, <2>3 DEF DisabledL1Empty
  <2> QED BY <1>9, <2>2, <2>3 DEF CompletionLost
<1>8. CASE UNCHANGED cacheVars
  BY <1>8 DEF cacheVars, storeVars, rowVars, DisabledL1Empty
<1> QED
  BY <1>1, <1>2, <1>3, <1>4, <1>5, <1>6, <1>7, <1>8, <1>9, LookupStep DEF CacheNext

LEMMA CacheInvariant == CacheSpec => []CacheInv
<1>1. CacheInit => CacheInv
  <2> SUFFICES ASSUME CacheInit PROVE CacheInv
    OBVIOUS
  <2>1. /\ l1 = <<>> /\ l1Enabled = TRUE /\ redisUp = TRUE /\ redisEnabled = TRUE
        /\ redisRow = "ready" /\ cacheOp = NoOperation /\ strays = {}
        /\ wanted = [l1 |-> "on", redis |-> "on"]
    BY DEF CacheInit
  <2> QED
    BY <2>1 DEF CacheInv, CacheWellFormed, DisabledL1Empty, LayersFollow, RowsFollow,
                Uncommitted, NoOperation
<1> QED BY <1>1, CacheInvInductive, PTL DEF CacheSpec

\* An instance whose L1 is switched off keeps nothing in it, for any number of
\* lookups under way and whatever calls fail or come late: putL1IfEnabled looks
\* at the switch again, and SetL1Enabled clears the store.
THEOREM SwitchedOffMeansEmpty == CacheSpec => []DisabledL1Empty
<1>1. CacheInv => DisabledL1Empty
  BY DEF CacheInv
<1> QED BY <1>1, CacheInvariant, PTL

\* Between operations every layer, and for Redis both rows, are what the last
\* answered call asked for, unless a call failed after its effect or ran late,
\* or an answer was lost before its completion.
THEOREM LayersAreAsRequested == CacheSpec => []LayersAsRequested
<1>1. CacheInv => LayersAsRequested
  BY DEF CacheInv, CacheWellFormed, LayersFollow, RowsFollow, Uncommitted, LayersAsRequested
<1> QED BY <1>1, CacheInvariant, PTL

-----------------------------------------------------------------------------
(***************************************************************************)
(* Sessions.                                                               *)
(***************************************************************************)
SessionRows == [revoked : BOOLEAN, expiresAt : Nat, lastSeenAt : Nat]
VisitRecords ==
  [kind : {"none", "login", "view", "logout"},
   pc : {"none", "found", "sent", "touched", "keep", "clear", "set"},
   session : Nat, now : Nat]
Numbers == 1..Len(sessions)

\* One of the exceptions of LiveSessionKept that a request finds in the tables.
Excused == collided \/ refused

\* Types.
SessionsWellFormed ==
  /\ sessionClock \in 0..MaxSessionClock /\ sessions \in Seq(SessionRows)
  /\ visit \in [Visits -> VisitRecords]
  /\ jar \in 0..Len(sessions) /\ given \in 0..Len(sessions)
  /\ overtaken \in BOOLEAN /\ Excused \in BOOLEAN

\* A request has the time it read and the session it was sent with.  An answer
\* clears the cookie of a session that is over, unless it is excused.
VisitOK(v) ==
  /\ visit[v].now <= sessionClock
  /\ visit[v].session \in 0..Len(sessions)
  /\ visit[v].kind = "none" => visit[v].pc = "none"
  /\ visit[v].kind = "login" => visit[v].pc \in {"sent", "set", "keep"}
  /\ visit[v].kind \in {"view", "logout"} => visit[v].session # 0 /\ visit[v].pc # "set"
  /\ visit[v].pc = "set" => visit[v].session # 0
  /\ visit[v].pc = "clear" /\ ~Excused => ~Valid(visit[v].session, sessionClock)

RowsInOrder ==
  \A s \in Numbers : /\ sessions[s].lastSeenAt <= sessionClock
                     /\ sessions[s].lastSeenAt < sessions[s].expiresAt

\* The browser has the last cookie or none, and none if that session is over.
CookieIsLast ==
  /\ jar \in {0, given}
  /\ (jar = 0 /\ given # 0 /\ ~overtaken /\ ~Excused) => ~Valid(given, sessionClock)

SessionsInv ==
  /\ SessionsWellFormed /\ (\A v \in Visits : VisitOK(v)) /\ RowsInOrder /\ CookieIsLast

\* What a step does to the rows: it may add one, revoke one or record a visit.
RowsKept ==
  /\ sessions' \in Seq(SessionRows) /\ Len(sessions) <= Len(sessions)'
  /\ sessionClock' \in Nat /\ sessionClock <= sessionClock'
  /\ Excused' \in BOOLEAN /\ (Excused => Excused')
  /\ \A s \in Numbers : /\ sessions'[s].expiresAt = sessions[s].expiresAt
                        /\ sessions[s].revoked => sessions'[s].revoked

\* What is over stays over.
LEMMA OverStaysOver ==
  ASSUME SessionsInv, RowsKept, NEW s \in Numbers, ~Valid(s, sessionClock)
  PROVE  ~(~sessions'[s].revoked /\ sessions'[s].expiresAt > sessionClock')
<1>1. sessionClock \in Nat /\ sessions[s] \in SessionRows
  BY SessionsAssumption DEF SessionsInv, SessionsWellFormed, Numbers
<1>2. sessions[s].expiresAt \in Int BY <1>1 DEF SessionRows
<1> QED BY <1>1, <1>2 DEF Valid, RowsKept

LEMMA VisitKept ==
  ASSUME SessionsInv, RowsKept, NEW v \in Visits, visit'[v] = visit[v]
  PROVE  VisitOK(v)'
<1>1. /\ visit[v] \in VisitRecords /\ VisitOK(v) /\ sessionClock \in Nat
      /\ Len(sessions) \in Nat /\ Len(sessions)' \in Nat
  BY SessionsAssumption DEF SessionsInv, SessionsWellFormed, RowsKept
<1>2. visit[v].now \in Nat /\ visit[v].session \in Nat BY <1>1 DEF VisitRecords
<1>3. visit[v].now <= sessionClock' /\ visit[v].session \in 0..Len(sessions)'
  BY <1>1, <1>2 DEF VisitOK, RowsKept
<1>4. ASSUME visit[v].pc = "clear", ~Excused'
      PROVE  ~Valid(visit[v].session, sessionClock)'
  <2>1. visit[v].kind \in {"view", "logout"} /\ ~Valid(visit[v].session, sessionClock)
    BY <1>1, <1>4 DEF VisitOK, VisitRecords, RowsKept
  <2>2. visit[v].session \in Numbers BY <1>1, <1>2, <2>1 DEF VisitOK, Numbers
  <2>3. ~(~sessions'[visit[v].session].revoked /\ sessions'[visit[v].session].expiresAt > sessionClock')
    BY <2>1, <2>2, OverStaysOver
  <2> QED BY <2>3 DEF Valid
<1> QED BY <1>1, <1>3, <1>4 DEF VisitOK

LEMMA CookieKept ==
  ASSUME SessionsInv, RowsKept, UNCHANGED browserVars
  PROVE  /\ CookieIsLast' /\ jar' \in 0..Len(sessions)' /\ given' \in 0..Len(sessions)'
         /\ overtaken' \in BOOLEAN
<1>1. /\ jar' = jar /\ given' = given /\ overtaken' = overtaken /\ overtaken \in BOOLEAN
      /\ jar \in 0..Len(sessions) /\ given \in 0..Len(sessions) /\ CookieIsLast
      /\ Len(sessions) \in Nat /\ Len(sessions)' \in Nat
  BY DEF browserVars, SessionsInv, SessionsWellFormed, RowsKept
<1>2. jar' \in 0..Len(sessions)' /\ given' \in 0..Len(sessions)'
  BY <1>1 DEF RowsKept
<1>3. ASSUME jar = 0, given # 0, ~overtaken, ~Excused' PROVE ~Valid(given, sessionClock)'
  <2>1. given \in Numbers /\ ~Valid(given, sessionClock)
    BY <1>1, <1>3 DEF CookieIsLast, Numbers, RowsKept
  <2>2. ~(~sessions'[given].revoked /\ sessions'[given].expiresAt > sessionClock')
    BY <2>1, OverStaysOver
  <2> QED BY <1>1, <2>2 DEF Valid
<1> QED BY <1>1, <1>2, <1>3 DEF CookieIsLast

LEMMA RowsUnchanged ==
  ASSUME SessionsInv, UNCHANGED <<sessionClock, sessions>>, Excused' \in BOOLEAN,
         Excused => Excused'
  PROVE  RowsKept /\ RowsInOrder' /\ sessionClock' \in 0..MaxSessionClock
<1>1. sessionClock \in Nat /\ Len(sessions) \in Nat
  BY SessionsAssumption DEF SessionsInv, SessionsWellFormed
<1> QED BY <1>1 DEF SessionsInv, SessionsWellFormed, RowsKept, RowsInOrder, Numbers

\* The step of one request, put together.
LEMMA VisitStep ==
  ASSUME SessionsInv, NEW v \in Visits, RowsKept, RowsInOrder', CookieIsLast',
         visit' \in [Visits -> VisitRecords], \A w \in Visits \ {v} : visit'[w] = visit[w],
         VisitOK(v)', sessionClock' \in 0..MaxSessionClock,
         jar' \in 0..Len(sessions)', given' \in 0..Len(sessions)', overtaken' \in BOOLEAN
  PROVE  SessionsInv'
<1>1. \A w \in Visits : VisitOK(w)' BY VisitKept
<1> QED BY <1>1 DEF SessionsInv, SessionsWellFormed, RowsKept


\* Steps of a request that leave the rows and the browser alone.
LEMMA QuietVisit ==
  ASSUME SessionsInv, NEW v \in Visits,
         \/ Visit(v) \/ StoreFails(v) \/ FindSession(v)
         \/ CreateSession(v) /\ ~active
  PROVE  SessionsInv'
<1>1. /\ UNCHANGED <<sessionClock, sessions, browserVars>>
      /\ Excused' \in BOOLEAN /\ (Excused => Excused')
  <2>1. UNCHANGED <<sessionClock, sessions, browserVars, collided>>
    BY DEF Visit, StoreFails, FindSession, CreateSession
  <2>5. refused => refused'
    BY DEF Visit, StoreFails, FindSession, CreateSession, accountVars
  <2>2. collided' = collided BY <2>1
  <2>3. Excused' \in BOOLEAN BY DEF Excused
  <2>4. Excused => Excused' BY <2>2, <2>5 DEF Excused
  <2> QED BY <2>1, <2>3, <2>4
<1>2. /\ visit \in [Visits -> VisitRecords] /\ visit[v] \in VisitRecords /\ VisitOK(v)
      /\ jar \in 0..Len(sessions) /\ Len(sessions) \in Nat /\ sessionClock \in Nat
      /\ Excused \in BOOLEAN
  BY SessionsAssumption DEF SessionsInv, SessionsWellFormed
<1>3. RowsKept /\ RowsInOrder' /\ sessionClock' \in 0..MaxSessionClock
  BY <1>1, <1>2, RowsUnchanged
<1>4. /\ CookieIsLast' /\ jar' \in 0..Len(sessions)' /\ given' \in 0..Len(sessions)'
      /\ overtaken' \in BOOLEAN
  BY <1>1, <1>3, CookieKept
<1>5. PICK r \in VisitRecords :
        /\ visit' = [visit EXCEPT ![v] = r]
        /\ r.now <= sessionClock /\ r.session \in 0..Len(sessions)
        /\ r.kind # "none"
        /\ r.kind = "login" => r.pc \in {"sent", "set", "keep"}
        /\ r.kind \in {"view", "logout"} => r.session # 0 /\ r.pc # "set"
        /\ r.pc = "set" => r.session # 0
        /\ r.pc = "clear" /\ ~Excused' => ~Valid(r.session, sessionClock)
  <2>1. CASE Visit(v)
    <3>1. PICK kind \in {"login", "view", "logout"} :
            /\ kind # "login" => jar # 0
            /\ visit' = [visit EXCEPT ![v] =
                           [kind |-> kind, pc |-> "sent", now |-> 0,
                            session |-> IF kind = "login" THEN 0 ELSE jar]]
      BY <2>1 DEF Visit
    <3> DEFINE r == [kind |-> kind, pc |-> "sent", now |-> 0,
                     session |-> IF kind = "login" THEN 0 ELSE jar]
    <3>2. /\ r \in VisitRecords /\ r.now <= sessionClock /\ r.session \in 0..Len(sessions)
          /\ r.kind = kind /\ r.pc = "sent" /\ (kind # "login" => r.session # 0)
      BY <1>2, <3>1 DEF VisitRecords
    <3>3. visit' = [visit EXCEPT ![v] = r] BY <3>1
    <3> HIDE DEF r
    <3> QED BY <3>1, <3>2, <3>3
  <2>2. CASE StoreFails(v)
    <3> DEFINE r == [visit[v] EXCEPT !.pc = "keep"]
    <3>1. r \in VisitRecords /\ r.pc = "keep" /\ r.kind = visit[v].kind
          /\ r.session = visit[v].session /\ r.now = visit[v].now
      BY <1>2 DEF VisitRecords
    <3>2. visit' = [visit EXCEPT ![v] = r] /\ visit[v].pc \in {"sent", "found", "touched"}
      BY <1>2, <2>2 DEF StoreFails, To
    <3> HIDE DEF r
    <3> QED BY <1>2, <3>1, <3>2 DEF VisitOK
  <2>3. CASE FindSession(v)
    <3> DEFINE pc == IF Valid(visit[v].session, sessionClock) /\ active THEN "found" ELSE "clear"
               timed == [visit[v] EXCEPT !.now = sessionClock]
               r == [timed EXCEPT !.pc = pc]
    <3>1. /\ pc \in {"found", "clear"}
          /\ pc = "clear" /\ ~Excused' => ~Valid(visit[v].session, sessionClock)
      BY <2>3 DEF FindSession, Excused
    <3>2. visit' = [visit EXCEPT ![v] = r] /\ visit[v].pc = "sent" /\ visit[v].kind # "login"
      BY <1>2, <2>3 DEF FindSession
    <3> HIDE DEF pc
    <3>3. r \in VisitRecords /\ r.pc = pc /\ r.kind = visit[v].kind
          /\ r.session = visit[v].session /\ r.now = sessionClock
      BY <1>2, <3>1 DEF VisitRecords
    <3>4. r.pc = "clear" /\ ~Excused' => ~Valid(r.session, sessionClock) BY <3>1, <3>3 DEF Valid
    <3>5. visit[v].kind \in {"view", "logout"} /\ visit[v].session # 0
          /\ visit[v].session \in 0..Len(sessions)
      BY <1>2, <3>2 DEF VisitOK, VisitRecords
    <3> HIDE DEF r
    <3>6. /\ r.now <= sessionClock /\ r.session \in 0..Len(sessions) /\ r.session # 0
          /\ r.kind # "none" /\ r.kind # "login" /\ r.pc # "set"
      BY <1>2, <3>1, <3>3, <3>5
    <3> QED BY <3>2, <3>3, <3>4, <3>6
  <2>4. CASE CreateSession(v) /\ ~active
    <3> DEFINE r == [visit[v] EXCEPT !.pc = "keep"]
    <3>1. r \in VisitRecords /\ r.pc = "keep" /\ r.kind = visit[v].kind
          /\ r.session = visit[v].session /\ r.now = visit[v].now
      BY <1>2 DEF VisitRecords
    <3>2. visit' = [visit EXCEPT ![v] = r] /\ visit[v].kind = "login"
      BY <1>2, <2>4 DEF CreateSession, To
    <3> HIDE DEF r
    <3> QED BY <1>2, <3>1, <3>2 DEF VisitOK
  <2> QED BY <2>1, <2>2, <2>3, <2>4
<1>6. visit' \in [Visits -> VisitRecords] /\ visit'[v] = r /\ \A w \in Visits \ {v} : visit'[w] = visit[w]
  BY <1>2, <1>5
<1>7. VisitOK(v)' BY <1>1, <1>5, <1>6 DEF VisitOK, Valid
<1> QED BY <1>3, <1>4, <1>6, <1>7, VisitStep

LEMMA CreateSessionStep ==
  ASSUME SessionsInv, NEW v \in Visits, CreateSession(v), active
  PROVE  SessionsInv'
<1>1. /\ sessions' = Append(sessions, NewSession(sessionClock))
      /\ visit' = [visit EXCEPT ![v].pc = "set", ![v].session = Len(sessions')]
      /\ visit[v].kind = "login" /\ UNCHANGED <<sessionClock, browserVars, Excused>>
  BY DEF CreateSession, accountVars, Excused
<1>2. /\ visit \in [Visits -> VisitRecords] /\ visit[v] \in VisitRecords /\ VisitOK(v)
      /\ sessions \in Seq(SessionRows) /\ Len(sessions) \in Nat /\ sessionClock \in Nat
      /\ Excused \in BOOLEAN /\ sessionClock \in 0..MaxSessionClock
  BY SessionsAssumption DEF SessionsInv, SessionsWellFormed
<1> DEFINE new == NewSession(sessionClock)
<1>3. /\ new \in SessionRows /\ new.lastSeenAt = sessionClock
      /\ new.expiresAt = sessionClock + SessionTTL
  BY <1>2, SessionsAssumption DEF NewSession, SessionRows
<1> HIDE DEF new
<1>4. /\ sessions' \in Seq(SessionRows) /\ Len(sessions') = Len(sessions) + 1
      /\ \A s \in Numbers : sessions'[s] = sessions[s]
      /\ sessions'[Len(sessions) + 1] = new
  BY <1>1, <1>2, <1>3 DEF Numbers, new
<1>5. RowsKept
  <2>1. Excused' \in BOOLEAN /\ (Excused => Excused') BY <1>1, <1>2
  <2>2. Len(sessions) <= Len(sessions') /\ sessionClock' \in Nat /\ sessionClock <= sessionClock'
    BY <1>1, <1>2, <1>4
  <2> QED BY <1>4, <2>1, <2>2 DEF RowsKept
<1>6. RowsInOrder'
  <2>1. ASSUME NEW s \in 1..Len(sessions)'
        PROVE  sessions'[s].lastSeenAt <= sessionClock /\ sessions'[s].lastSeenAt < sessions'[s].expiresAt
    <3>1. CASE s \in Numbers BY <1>4, <3>1 DEF SessionsInv, RowsInOrder
    <3>2. CASE s = Len(sessions) + 1 BY <1>2, <1>3, <1>4, <3>2, SessionsAssumption
    <3> QED BY <1>2, <1>4, <2>1, <3>1, <3>2 DEF Numbers
  <2> QED BY <1>1, <2>1 DEF RowsInOrder, Numbers
<1>7. /\ CookieIsLast' /\ jar' \in 0..Len(sessions)' /\ given' \in 0..Len(sessions)'
      /\ overtaken' \in BOOLEAN
  BY <1>1, <1>5, CookieKept
<1> DEFINE n == Len(sessions')
           moved == [visit[v] EXCEPT !.pc = "set"]
           r == [moved EXCEPT !.session = n]
<1>8. n \in Nat /\ n # 0 BY <1>2, <1>4
<1>9. visit' = [visit EXCEPT ![v] = r] BY <1>1, <1>2
<1> HIDE DEF n
<1>10. r \in VisitRecords /\ r.pc = "set" /\ r.session = n /\ r.kind = "login" /\ r.now = visit[v].now
  BY <1>1, <1>2, <1>8 DEF VisitRecords
<1> HIDE DEF r
<1>11. visit' \in [Visits -> VisitRecords] /\ visit'[v] = r /\ \A w \in Visits \ {v} : visit'[w] = visit[w]
  BY <1>2, <1>9, <1>10
<1>12. VisitOK(v)' BY <1>1, <1>2, <1>8, <1>10, <1>11 DEF VisitOK, n
<1> QED BY <1>1, <1>2, <1>5, <1>6, <1>7, <1>11, <1>12, VisitStep


\* A row is changed in one field.
LEMMA RowStep ==
  ASSUME SessionsInv, NEW s \in Numbers, NEW row \in SessionRows,
         sessions' = [sessions EXCEPT ![s] = row], row.expiresAt = sessions[s].expiresAt,
         sessions[s].revoked => row.revoked,
         row.lastSeenAt <= sessionClock, row.lastSeenAt < row.expiresAt,
         UNCHANGED <<sessionClock, Excused>>
  PROVE  RowsKept /\ RowsInOrder' /\ sessionClock' \in 0..MaxSessionClock
<1>1. /\ sessions \in Seq(SessionRows) /\ Len(sessions) \in Nat /\ sessionClock \in Nat
      /\ Excused \in BOOLEAN /\ sessionClock \in 0..MaxSessionClock
  BY SessionsAssumption DEF SessionsInv, SessionsWellFormed
<1>2. /\ sessions' \in Seq(SessionRows) /\ Len(sessions') = Len(sessions) /\ sessions'[s] = row
      /\ \A i \in Numbers \ {s} : sessions'[i] = sessions[i]
  BY <1>1 DEF Numbers
<1>3. RowsKept
  <2>1. Excused' \in BOOLEAN /\ (Excused => Excused') BY <1>1
  <2>2. \A i \in Numbers : /\ sessions'[i].expiresAt = sessions[i].expiresAt
                           /\ sessions[i].revoked => sessions'[i].revoked
    BY <1>2
  <2> QED BY <1>1, <1>2, <2>1, <2>2 DEF RowsKept
<1>4. RowsInOrder'
  BY <1>1, <1>2 DEF SessionsInv, RowsInOrder, Numbers
<1> QED BY <1>1, <1>3, <1>4

LEMMA TouchSessionStep ==
  ASSUME SessionsInv, NEW v \in Visits, TouchSession(v)
  PROVE  SessionsInv'
<1> DEFINE s == visit[v].session
           now == visit[v].now
<1>1. /\ visit[v].pc = "found" /\ UNCHANGED <<sessionClock, browserVars>>
  BY DEF TouchSession
<1>2. /\ visit \in [Visits -> VisitRecords] /\ visit[v] \in VisitRecords /\ VisitOK(v)
      /\ sessions \in Seq(SessionRows) /\ Len(sessions) \in Nat /\ sessionClock \in Nat
      /\ Excused \in BOOLEAN
  BY SessionsAssumption DEF SessionsInv, SessionsWellFormed
<1>3. /\ visit[v].kind \in {"view", "logout"} /\ s \in Numbers /\ now \in Nat /\ now <= sessionClock
      /\ sessions[s] \in SessionRows
  BY <1>1, <1>2 DEF VisitOK, VisitRecords, Numbers
<1>4. PICK pc \in {"touched", "clear"} :
        /\ visit' = [visit EXCEPT ![v].pc = pc]
        /\ RowsKept /\ RowsInOrder' /\ sessionClock' \in 0..MaxSessionClock
        /\ pc = "clear" /\ ~Excused' => ~Valid(s, sessionClock)
  <2>1. CASE Touchable(s, now)
    <3> DEFINE row == [sessions[s] EXCEPT !.lastSeenAt = now]
    <3>1. sessions' = [sessions EXCEPT ![s] = row] /\ visit' = [visit EXCEPT ![v].pc = "touched"]
          /\ Excused' = Excused
      BY <1>2, <1>3, <2>1 DEF TouchSession, To, Numbers, Excused, accountVars
    <3>2. row \in SessionRows /\ row.expiresAt = sessions[s].expiresAt /\ row.lastSeenAt = now
          /\ row.revoked = sessions[s].revoked
      BY <1>3 DEF SessionRows
    <3>3. now < sessions[s].expiresAt BY <1>3, <2>1 DEF Touchable, Valid, SessionRows
    <3> HIDE DEF row
    <3>4. RowsKept /\ RowsInOrder' /\ sessionClock' \in 0..MaxSessionClock
      BY <1>1, <1>3, <3>1, <3>2, <3>3, RowStep
    <3> QED BY <3>1, <3>4
  <2>2. CASE ~Touchable(s, now)
    <3>1. /\ sessions' = sessions /\ visit' = [visit EXCEPT ![v].pc = "clear"]
          /\ Excused' = (Excused \/ Valid(s, now))
      BY <2>2 DEF TouchSession, To, Excused, accountVars
    <3>2. Excused' \in BOOLEAN /\ (Excused => Excused') BY <3>1
    <3>3. RowsKept /\ RowsInOrder' /\ sessionClock' \in 0..MaxSessionClock
      BY <1>1, <3>1, <3>2, RowsUnchanged
    <3>4. ~Valid(s, now) => ~Valid(s, sessionClock)
      BY <1>2, <1>3 DEF Valid, SessionRows
    <3> QED BY <3>1, <3>3, <3>4
  <2> QED BY <2>1, <2>2
<1>5. /\ CookieIsLast' /\ jar' \in 0..Len(sessions)' /\ given' \in 0..Len(sessions)'
      /\ overtaken' \in BOOLEAN
  BY <1>1, <1>4, CookieKept
<1> DEFINE r == [visit[v] EXCEPT !.pc = pc]
<1>6. /\ r \in VisitRecords /\ r.pc = pc /\ r.kind = visit[v].kind /\ r.session = s /\ r.now = now
      /\ visit' = [visit EXCEPT ![v] = r]
  BY <1>2, <1>4 DEF VisitRecords
<1> HIDE DEF r
<1>7. visit' \in [Visits -> VisitRecords] /\ visit'[v] = r /\ \A w \in Visits \ {v} : visit'[w] = visit[w]
  BY <1>2, <1>6
<1>8. s \in Numbers /\ s # 0 /\ s \in 0..Len(sessions)' /\ now <= sessionClock'
  BY <1>1, <1>2, <1>3, <1>4 DEF Numbers, RowsKept
<1>9. ASSUME pc = "clear", ~Excused'
      PROVE  ~(~sessions'[s].revoked /\ sessions'[s].expiresAt > sessionClock')
  BY <1>4, <1>8, <1>9, OverStaysOver
<1>10. VisitOK(v)' BY <1>3, <1>4, <1>6, <1>7, <1>8, <1>9 DEF VisitOK, Valid
<1> QED BY <1>4, <1>5, <1>7, <1>10, VisitStep


LEMMA HandleStep ==
  ASSUME SessionsInv, NEW v \in Visits, Handle(v)
  PROVE  SessionsInv'
<1> DEFINE s == visit[v].session
<1>1. visit[v].pc = "touched" /\ UNCHANGED <<sessionClock, browserVars, Excused>>
  BY DEF Handle, Excused, accountVars
<1>2. /\ visit \in [Visits -> VisitRecords] /\ visit[v] \in VisitRecords /\ VisitOK(v)
      /\ sessions \in Seq(SessionRows) /\ Len(sessions) \in Nat /\ sessionClock \in Nat
      /\ Excused \in BOOLEAN
  BY SessionsAssumption DEF SessionsInv, SessionsWellFormed
<1>3. visit[v].kind \in {"view", "logout"} /\ s \in Numbers /\ sessions[s] \in SessionRows
  BY <1>1, <1>2 DEF VisitOK, VisitRecords, Numbers
<1>4. PICK pc \in {"keep", "clear"} :
        /\ visit' = [visit EXCEPT ![v].pc = pc]
        /\ RowsKept /\ RowsInOrder' /\ sessionClock' \in 0..MaxSessionClock
        /\ pc = "clear" => sessions'[s].revoked
  <2>1. CASE visit[v].kind = "view"
    <3>1. visit' = [visit EXCEPT ![v].pc = "keep"] /\ sessions' = sessions
      BY <2>1 DEF Handle, To
    <3>2. RowsKept /\ RowsInOrder' /\ sessionClock' \in 0..MaxSessionClock
      BY <1>1, <1>2, <3>1, RowsUnchanged
    <3> QED BY <3>1, <3>2
  <2>2. CASE visit[v].kind = "logout"
    <3> DEFINE row == [sessions[s] EXCEPT !.revoked = TRUE]
    <3>1. sessions' = [sessions EXCEPT ![s] = row] /\ visit' = [visit EXCEPT ![v].pc = "clear"]
      BY <1>2, <1>3, <2>2 DEF Handle, To, Numbers
    <3>2. row \in SessionRows /\ row.expiresAt = sessions[s].expiresAt /\ row.revoked
          /\ row.lastSeenAt = sessions[s].lastSeenAt
      BY <1>3 DEF SessionRows
    <3>3. sessions[s].lastSeenAt <= sessionClock /\ sessions[s].lastSeenAt < sessions[s].expiresAt
      BY <1>3 DEF SessionsInv, RowsInOrder
    <3> HIDE DEF row
    <3>4. RowsKept /\ RowsInOrder' /\ sessionClock' \in 0..MaxSessionClock
      BY <1>1, <1>3, <3>1, <3>2, <3>3, RowStep
    <3>5. sessions'[s].revoked BY <1>2, <1>3, <3>1, <3>2 DEF Numbers
    <3> QED BY <3>1, <3>4, <3>5
  <2> QED BY <1>3, <2>1, <2>2
<1>5. /\ CookieIsLast' /\ jar' \in 0..Len(sessions)' /\ given' \in 0..Len(sessions)'
      /\ overtaken' \in BOOLEAN
  BY <1>1, <1>4, CookieKept
<1> DEFINE r == [visit[v] EXCEPT !.pc = pc]
<1>6. /\ r \in VisitRecords /\ r.pc = pc /\ r.kind = visit[v].kind /\ r.session = s
      /\ r.now = visit[v].now /\ visit' = [visit EXCEPT ![v] = r]
  BY <1>2, <1>4 DEF VisitRecords
<1> HIDE DEF r
<1>7. visit' \in [Visits -> VisitRecords] /\ visit'[v] = r /\ \A w \in Visits \ {v} : visit'[w] = visit[w]
  BY <1>2, <1>6
<1>8. s # 0 /\ s \in 0..Len(sessions)' /\ visit[v].now <= sessionClock'
  BY <1>1, <1>2, <1>3, <1>4 DEF Numbers, RowsKept, VisitOK
<1>9. VisitOK(v)' BY <1>3, <1>4, <1>6, <1>7, <1>8 DEF VisitOK, Valid
<1> QED BY <1>4, <1>5, <1>7, <1>9, VisitStep

LEMMA AnswerVisitStep ==
  ASSUME SessionsInv, NEW v \in Visits, AnswerVisit(v)
  PROVE  SessionsInv'
<1>1. /\ visit[v].pc \in {"keep", "clear", "set"} /\ visit' = [visit EXCEPT ![v] = NoVisit]
      /\ UNCHANGED <<sessionClock, sessions, Excused>>
  BY DEF AnswerVisit, Excused, accountVars
<1>2. /\ visit \in [Visits -> VisitRecords] /\ visit[v] \in VisitRecords /\ VisitOK(v)
      /\ Len(sessions) \in Nat /\ sessionClock \in Nat /\ Excused \in BOOLEAN
      /\ jar \in 0..Len(sessions) /\ given \in 0..Len(sessions) /\ overtaken \in BOOLEAN
      /\ CookieIsLast
  BY SessionsAssumption DEF SessionsInv, SessionsWellFormed
<1>3. RowsKept /\ RowsInOrder' /\ sessionClock' \in 0..MaxSessionClock
  BY <1>1, <1>2, RowsUnchanged
<1>4. NoVisit \in VisitRecords BY DEF NoVisit, VisitRecords
<1>5. visit' \in [Visits -> VisitRecords] /\ visit'[v] = NoVisit
      /\ \A w \in Visits \ {v} : visit'[w] = visit[w]
  BY <1>1, <1>2, <1>4
<1>6. VisitOK(v)' BY <1>1, <1>2, <1>5 DEF VisitOK, NoVisit
<1>7. /\ CookieIsLast' /\ jar' \in 0..Len(sessions)' /\ given' \in 0..Len(sessions)'
      /\ overtaken' \in BOOLEAN
  <2>1. CASE visit[v].pc = "keep"
    <3>1. UNCHANGED browserVars BY <2>1 DEF AnswerVisit
    <3> QED BY <1>3, <3>1, CookieKept
  <2>2. CASE visit[v].pc = "clear"
    <3>1. /\ jar' = 0 /\ given' = given
          /\ overtaken' = (overtaken \/ jar \notin {0, visit[v].session})
      BY <2>2 DEF AnswerVisit
    <3>2. ASSUME ~overtaken', ~Excused, given # 0 PROVE ~Valid(given, sessionClock)
      <4>1. CASE jar = 0 BY <1>2, <3>1, <3>2, <4>1 DEF CookieIsLast
      <4>2. CASE jar = visit[v].session /\ jar # 0
        <5>1. jar = given BY <1>2, <4>2 DEF CookieIsLast
        <5>2. ~Valid(visit[v].session, sessionClock) BY <1>2, <2>2, <3>2 DEF VisitOK
        <5> QED BY <4>2, <5>1, <5>2
      <4> QED BY <3>1, <3>2, <4>1, <4>2
    <3>3. overtaken' \in BOOLEAN BY <3>1
    <3> QED BY <1>1, <1>2, <3>1, <3>2, <3>3 DEF CookieIsLast, Valid
  <2>3. CASE visit[v].pc = "set"
    <3>1. jar' = visit[v].session /\ given' = visit[v].session /\ overtaken' = overtaken
      BY <2>3 DEF AnswerVisit
    <3>2. visit[v].session # 0 /\ visit[v].session \in 0..Len(sessions)
      BY <1>2, <2>3 DEF VisitOK
    <3> QED BY <1>1, <1>2, <3>1, <3>2 DEF CookieIsLast
  <2> QED BY <1>1, <2>1, <2>2, <2>3
<1> QED BY <1>3, <1>5, <1>6, <1>7, VisitStep

LEMMA SessionsInvInductive == SessionsInv /\ [SessionsNext]_sessionVars => SessionsInv'
<1> SUFFICES ASSUME SessionsInv, [SessionsNext]_sessionVars PROVE SessionsInv'
  OBVIOUS
<1>1. CASE SessionTick
  <2>1. /\ sessionClock < MaxSessionClock /\ sessionClock' = sessionClock + 1
        /\ UNCHANGED <<sessions, visit, browserVars, Excused>>
    BY <1>1 DEF SessionTick, Excused, accountVars
  <2>2. /\ sessionClock \in Nat /\ sessionClock' \in 0..MaxSessionClock /\ Len(sessions) \in Nat
        /\ Excused \in BOOLEAN /\ sessions \in Seq(SessionRows)
        /\ \A s \in Numbers : sessions[s] \in SessionRows
    BY <2>1, SessionsAssumption DEF SessionsInv, SessionsWellFormed, Numbers
  <2>3. RowsKept
    <3>1. Excused' \in BOOLEAN /\ (Excused => Excused') BY <2>1, <2>2
    <3> QED BY <2>1, <2>2, <3>1 DEF RowsKept
  <2>4. RowsInOrder'
    BY <2>1, <2>2 DEF SessionsInv, RowsInOrder, Numbers, SessionRows
  <2>5. \A v \in Visits : VisitOK(v)' BY <2>1, <2>3, VisitKept
  <2>6. /\ CookieIsLast' /\ jar' \in 0..Len(sessions)' /\ given' \in 0..Len(sessions)'
        /\ overtaken' \in BOOLEAN
    BY <2>1, <2>3, CookieKept
  <2> QED BY <2>1, <2>2, <2>3, <2>4, <2>5, <2>6 DEF SessionsInv, SessionsWellFormed, RowsKept
<1>2. CASE UNCHANGED sessionVars \/ SetUserStatus
  BY <1>2 DEF sessionVars, SetUserStatus, browserVars, Excused, SessionsInv, SessionsWellFormed, VisitOK,
              RowsInOrder, CookieIsLast, Valid, Numbers
<1> QED
  BY <1>1, <1>2, QuietVisit, CreateSessionStep, TouchSessionStep, HandleStep, AnswerVisitStep
  DEF SessionsNext

LEMMA SessionsInvariant == SessionsSpec => []SessionsInv
<1>1. SessionsInit => SessionsInv
  <2> SUFFICES ASSUME SessionsInit PROVE SessionsInv
    OBVIOUS
  <2>1. /\ sessionClock = 0 /\ sessions = <<>> /\ visit = [v \in Visits |-> NoVisit]
        /\ jar = 0 /\ given = 0 /\ overtaken = FALSE /\ Excused = FALSE
    BY DEF SessionsInit, Excused
  <2>2. NoVisit \in VisitRecords BY DEF NoVisit, VisitRecords
  <2>3. SessionsWellFormed
    <3>1. overtaken \in BOOLEAN /\ Excused \in BOOLEAN BY <2>1
    <3>2. sessions \in Seq(SessionRows) /\ Len(sessions) = 0 BY <2>1
    <3>3. visit \in [Visits -> VisitRecords] BY <2>1, <2>2
    <3>4. jar \in 0..Len(sessions) /\ given \in 0..Len(sessions) /\ sessionClock \in 0..MaxSessionClock
      BY <2>1, <3>2, SessionsAssumption
    <3> QED BY <3>1, <3>2, <3>3, <3>4 DEF SessionsWellFormed
  <2>4. \A v \in Visits : VisitOK(v) BY <2>1 DEF VisitOK, NoVisit
  <2>5. RowsInOrder /\ CookieIsLast BY <2>1 DEF RowsInOrder, CookieIsLast, Numbers
  <2> QED BY <2>3, <2>4, <2>5 DEF SessionsInv
<1> QED BY <1>1, SessionsInvInductive, PTL DEF SessionsSpec

\* Types; and TouchSession records no visit at or after the end of a session,
\* for any lifetime and any number of requests at a time.
THEOREM SessionsWellTyped == SessionsSpec => []SessionsTypeOK
<1>1. SessionsInv => SessionsTypeOK
  <2> SUFFICES ASSUME SessionsInv PROVE SessionsTypeOK
    OBVIOUS
  <2>1. {jar, given} \subseteq 0..Len(sessions) BY DEF SessionsInv, SessionsWellFormed
  <2>2. \A v \in Visits : visit[v] \in VisitRecords /\ visit[v].session \in 0..Len(sessions)
    BY DEF SessionsInv, SessionsWellFormed, VisitOK
  <2> QED
    BY <2>1, <2>2
    DEF SessionsInv, SessionsWellFormed, RowsInOrder, SessionsTypeOK, VisitRecords, Numbers
<1> QED BY <1>1, SessionsInvariant, PTL

\* Authenticate, FindSession, TouchSession and logout, with their statements
\* interleaved at will and the answers in any order, clear the cookie of the
\* last login only when its session is over; the exceptions are the three that
\* the property names.
THEOREM CookieOutlivesFailures == SessionsSpec => []LiveSessionKept
<1>1. SessionsInv => LiveSessionKept
  BY DEF SessionsInv, CookieIsLast, LiveSessionKept, Excused
<1> QED BY <1>1, SessionsInvariant, PTL
=============================================================================
