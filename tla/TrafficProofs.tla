--------------------------- MODULE TrafficProofs ----------------------------
(***************************************************************************)
(* Theorems about the traffic of a user through the limiter and the        *)
(* instance to the balancer (Traffic).                                     *)
(***************************************************************************)
EXTENDS Traffic, TLAPS

-----------------------------------------------------------------------------
(***************************************************************************)
(* Traffic.                                                                *)
(***************************************************************************)
LEMMA MinOfTwo ==
  ASSUME NEW a \in Int, NEW b \in Int
  PROVE  Min({a, b}) = IF a <= b THEN a ELSE b
<1>1. \E x \in {a, b} : \A y \in {a, b} : x <= y OBVIOUS
<1>2. Min({a, b}) \in {a, b} /\ Min({a, b}) <= a /\ Min({a, b}) <= b BY <1>1 DEF Min
<1> QED BY <1>2

LEMMA MaxOfZero ==
  ASSUME NEW a \in Int
  PROVE  Max({0, a}) = IF a > 0 THEN a ELSE 0
<1>1. \E x \in {0, a} : \A y \in {0, a} : x >= y OBVIOUS
<1>2. Max({0, a}) \in {0, a} /\ Max({0, a}) >= 0 /\ Max({0, a}) >= a BY <1>1 DEF Max
<1> QED BY <1>2

LEMMA Scaling ==
  ASSUME NEW r \in Nat, NEW a \in Int, NEW b \in Int
  PROVE  /\ r * a \in Int /\ r * b \in Int /\ a * r \in Int
         /\ (a - b) * r = r * a - r * b /\ r * (a - b) = r * a - r * b
         /\ a <= b => r * a <= r * b
OBVIOUS

Buckets == [tokens : Int, updated : Nat, seen : Nat]
BatchRecords ==
  [pc : {"new", "arrived", "refused", "sent", "received", "answered", "failed", "done"},
   at : Nat, units : Nat, seen : [container : Nat, speed : Nat], to : Nat, speed : Nat,
   accepted : 0..MaxLoad, load : 0..MaxLoad, waiting : BOOLEAN]

Metrics == [at : Int, container : Nat, speed : Nat, load : 0..MaxLoad]
Samples == [at : Int, container : Nat, speed : Nat]

\* Types, and times that the clock has reached.
TrafficTypes ==
  /\ clock \in 0..MaxClock /\ passed \in Nat /\ stats \in Nat /\ disturbed \in 0..MaxDisturbances
  /\ \A u \in DOMAIN buckets : buckets[u] \in Buckets /\ buckets[u].updated <= clock
  /\ row \in [container : Nat, speed : Nat]
  /\ app \in [id : Nat \ {0}, speed : Nat, load : 0..MaxLoad, updated : Int, accepted : Nat, born : Nat]
  /\ app.born <= clock
  /\ batch \in [Batches -> BatchRecords]
  /\ \A b \in Batches : batch[b].at <= clock
  /\ metric \in Metrics /\ sample \in Samples

\* No bucket holds more than Burst tokens.
BucketBounds == \A u \in DOMAIN buckets : buckets[u].tokens <= Burst

\* What has passed and what is left was given by the time of the last refill.
TokensGiven ==
  ~evicted =>
    /\ User \in DOMAIN buckets =>
         passed + buckets[User].tokens <= Burst + Rate * buckets[User].updated
    /\ User \notin DOMAIN buckets => passed = 0
    /\ passed <= Burst + Rate * clock

\* A batch that this container has received came after its start.
ReceivedAfterStart ==
  \A b \in Batches :
    /\ batch[b].to <= app.id
    /\ batch[b].pc = "received" /\ batch[b].to = app.id => app.born <= batch[b].at

\* What was accepted is the load, or has been processed by the last batch.
LoadAccounted ==
  /\ app.updated < 0 => app.accepted = 0 /\ app.load = 0
  /\ app.updated >= 0 /\ ~late =>
       /\ app.born <= app.updated /\ app.updated <= clock
       /\ app.accepted <= app.load + app.speed * (app.updated - app.born)

\* A batch has accepted units when it has been processed.
AcceptedWhenProcessed ==
  \A b \in Batches :
    batch[b].pc \in {"new", "arrived", "sent", "received"} => batch[b].accepted = 0

TrafficInv ==
  /\ TrafficTypes /\ BucketBounds /\ TokensGiven /\ ReceivedAfterStart /\ LoadAccounted
  /\ AcceptedWhenProcessed /\ LatestLoadObserved

\* What a batch finds when it is processed.
LEMMA SettledLoad ==
  ASSUME TrafficTypes, NEW b \in Batches
  PROVE  /\ Settled(batch[b].at) \in 0..MaxLoad
         /\ AcceptedUnits(b) \in 0..(MaxLoad - Settled(batch[b].at))
         /\ app.updated >= 0 /\ batch[b].at >= app.updated =>
              app.load <= Settled(batch[b].at) + app.speed * (batch[b].at - app.updated)
<1> DEFINE now == batch[b].at
           elapsed == IF app.updated >= 0 /\ now > app.updated THEN now - app.updated ELSE 0
<1>1. now \in Nat /\ batch[b].units \in Nat /\ app.load \in 0..MaxLoad /\ app.speed \in Nat
      /\ app.updated \in Int /\ MaxLoad \in Nat
  BY TrafficAssumption DEF TrafficTypes, BatchRecords
<1>2. elapsed \in Nat BY <1>1
<1>3. app.speed * elapsed \in Nat BY <1>1, <1>2
<1> DEFINE left == app.load - app.speed * elapsed
<1>4. left \in Int /\ Settled(now) = Max({0, left}) BY <1>1, <1>3 DEF Settled
<1>5. left <= app.load /\ app.load = left + app.speed * elapsed BY <1>1, <1>3
<1> HIDE DEF elapsed, left
<1>6. Settled(now) = IF left > 0 THEN left ELSE 0 BY <1>4, MaxOfZero
<1>7. Settled(now) \in 0..MaxLoad BY <1>1, <1>4, <1>5, <1>6
<1> DEFINE room == MaxLoad - Settled(now)
<1>8. AcceptedUnits(b) \in 0..room
  <2>1. room \in Nat BY <1>1, <1>7
  <2>2. AcceptedUnits(b) = Min({batch[b].units, Max({0, room})}) BY DEF AcceptedUnits
  <2> HIDE DEF room
  <2>3. Max({0, room}) = room BY <2>1, MaxOfZero
  <2>4. Min({batch[b].units, room}) = IF batch[b].units <= room THEN batch[b].units ELSE room
    BY <1>1, <2>1, MinOfTwo
  <2> QED BY <1>1, <2>1, <2>2, <2>3, <2>4
<1>9. app.updated >= 0 /\ now >= app.updated => elapsed = now - app.updated BY <1>1 DEF elapsed
<1> QED BY <1>1, <1>3, <1>4, <1>5, <1>6, <1>7, <1>8, <1>9

\* A request takes at most what it finds.
LEMMA AllowStep ==
  ASSUME TrafficTypes, BucketBounds, TokensGiven,
         NEW u, NEW now \in 0..clock, Allow(u, now), clock' = clock
  PROVE  /\ \A v \in DOMAIN buckets' : buckets'[v] \in Buckets /\ buckets'[v].updated <= clock
         /\ passed' \in Nat /\ BucketBounds' /\ TokensGiven'
<1> DEFINE entry == Refilled(u, now)
           spent == IF Allowed(u, now) THEN 1 ELSE 0
           kept == DOMAIN buckets \ EvictionFor(u)
           left == [entry EXCEPT !.tokens = @ - spent]
<1>1. clock \in Nat /\ now \in Nat /\ Burst \in Nat /\ Rate \in Nat /\ MaxEntries \in Nat \ {0}
      /\ passed \in Nat
  BY TrafficAssumption DEF TrafficTypes
<1>2. /\ entry \in Buckets /\ entry.tokens <= Burst /\ entry.updated = now
      /\ u \in DOMAIN buckets =>
           entry.tokens <= buckets[u].tokens + (now - buckets[u].updated) * Rate
  <2>1. CASE u \notin DOMAIN buckets BY <1>1, <2>1 DEF Refilled, Buckets
  <2>2. CASE u \in DOMAIN buckets
    <3> DEFINE more == buckets[u].tokens + (now - buckets[u].updated) * Rate
    <3>1. more \in Int BY <1>1, <2>2 DEF TrafficTypes, Buckets
    <3>2. entry = [tokens |-> Min({Burst, more}), updated |-> now, seen |-> now]
      BY <2>2 DEF Refilled
    <3> HIDE DEF more
    <3>3. Min({Burst, more}) \in Int /\ Min({Burst, more}) <= Burst /\ Min({Burst, more}) <= more
      BY <1>1, <3>1, MinOfTwo
    <3>4. entry.tokens <= more /\ entry.tokens <= Burst /\ entry \in Buckets /\ entry.updated = now
      BY <1>1, <3>2, <3>3 DEF Buckets
    <3> QED BY <3>4 DEF more
  <2> QED BY <2>1, <2>2
<1>3. spent = (IF entry.tokens >= 1 THEN 1 ELSE 0) BY DEF Allowed
<1>4. /\ DOMAIN buckets' = kept \cup {u}
      /\ \A v \in kept \cup {u} : buckets'[v] = IF v = u THEN left ELSE buckets[v]
      /\ passed' = (IF u = User THEN passed + spent ELSE passed)
      /\ evicted' = (evicted \/ User \in EvictionFor(u))
  BY DEF Allow
<1> HIDE DEF entry, spent
<1>5. /\ left \in Buckets /\ left.updated = now /\ left.tokens = entry.tokens - spent
      /\ left.tokens <= Burst /\ spent \in {0, 1}
  BY <1>1, <1>2, <1>3 DEF Buckets
<1> HIDE DEF left
<1>6. \A v \in DOMAIN buckets' :
        buckets'[v] \in Buckets /\ buckets'[v].updated <= clock /\ buckets'[v].tokens <= Burst
  BY <1>1, <1>4, <1>5 DEF TrafficTypes, BucketBounds
<1>8. TokensGiven'
  <2> SUFFICES ASSUME ~evicted'
               PROVE  /\ User \in DOMAIN buckets' =>
                           passed' + buckets'[User].tokens <= Burst + Rate * buckets'[User].updated
                      /\ User \notin DOMAIN buckets' => passed' = 0
                      /\ passed' <= Burst + Rate * clock
    BY DEF TokensGiven
  <2>1. /\ User \in DOMAIN buckets =>
             passed + buckets[User].tokens <= Burst + Rate * buckets[User].updated
        /\ User \notin DOMAIN buckets => passed = 0
        /\ passed <= Burst + Rate * clock
        /\ User \notin EvictionFor(u)
    BY <1>4 DEF TokensGiven
  <2>2. CASE u = User
    <3>1. buckets'[User] = left /\ User \in DOMAIN buckets' /\ passed' = passed + spent
      BY <1>4, <2>2
    <3>2. Rate * now \in Nat /\ Rate * now <= Rate * clock /\ Rate * clock \in Nat
      BY <1>1, Scaling
    <3>3. passed + entry.tokens <= Burst + Rate * now
      <4>1. CASE User \notin DOMAIN buckets BY <1>1, <1>2, <2>1, <3>2, <4>1 DEF Buckets
      <4>2. CASE User \in DOMAIN buckets
        <5> DEFINE t == buckets[User].tokens
                   since == buckets[User].updated
        <5>1. t \in Int /\ since \in Nat BY <4>2 DEF TrafficTypes, Buckets
        <5>2. entry.tokens <= t + (now - since) * Rate /\ entry.tokens \in Int
          BY <1>2, <2>2, <4>2 DEF Buckets
        <5>3. passed + t <= Burst + Rate * since BY <2>1, <4>2
        <5> HIDE DEF t, since
        <5>4. (now - since) * Rate = Rate * now - Rate * since /\ Rate * since \in Int
          BY <1>1, <5>1, Scaling
        <5> QED BY <1>1, <3>2, <5>1, <5>2, <5>3, <5>4
      <4> QED BY <4>1, <4>2
    <3>4. passed' + left.tokens <= Burst + Rate * now
      BY <1>1, <1>2, <1>5, <3>1, <3>2, <3>3 DEF Buckets
    <3>5. passed' <= Burst + Rate * clock
      <4>1. CASE spent = 0 BY <1>1, <2>1, <3>1, <4>1
      <4>2. CASE spent = 1 BY <1>1, <1>2, <1>3, <3>1, <3>2, <3>3, <4>2 DEF Buckets
      <4> QED BY <1>5, <4>1, <4>2
    <3> QED BY <1>5, <3>1, <3>4, <3>5
  <2>3. CASE u # User
    BY <1>4, <2>1, <2>3
  <2> QED BY <2>2, <2>3
<1>9. passed' \in Nat BY <1>1, <1>4, <1>5
<1> QED BY <1>6, <1>8, <1>9 DEF BucketBounds

LEMMA TrafficInvInit == TrafficInit => TrafficInv
<1> SUFFICES ASSUME TrafficInit PROVE TrafficInv OBVIOUS
<1>1. Max(AppSpeeds) \in AppSpeeds
  BY TrafficAssumption DEF Max
<1>2. /\ MaxLoad \in Nat /\ Burst \in Nat /\ Rate \in Nat /\ MaxEntries \in Nat
      /\ MaxClock \in Nat /\ MaxDisturbances \in Nat /\ Max(AppSpeeds) \in Nat
  BY <1>1, TrafficAssumption
<1>3. /\ app = [id |-> 1, speed |-> Max(AppSpeeds), load |-> 0, updated |-> -1, accepted |-> 0,
                born |-> 0]
      /\ clock = 0
  BY DEF TrafficInit, NewApp
<1>4. NewBatch \in BatchRecords BY <1>2 DEF NewBatch, BatchRecords
<1>5. \A b \in Batches : batch[b] = NewBatch BY DEF TrafficInit
<1>6. DOMAIN buckets = {} BY DEF TrafficInit
<1>7. TrafficTypes
  <2>1. batch \in [Batches -> BatchRecords] BY <1>4 DEF TrafficInit
  <2>2. row \in [container : Nat, speed : Nat] /\ metric \in Metrics
        /\ sample \in Samples
    BY <1>2 DEF TrafficInit, NoMetric, NoSample, Metrics, Samples
  <2>3. app \in [id : Nat \ {0}, speed : Nat, load : 0..MaxLoad, updated : Int, accepted : Nat,
                 born : Nat] /\ app.born <= clock
    BY <1>2, <1>3
  <2>4. \A b \in Batches : batch[b].at <= clock BY <1>3, <1>5 DEF NewBatch
  <2> QED BY <1>2, <1>3, <1>6, <2>1, <2>2, <2>3, <2>4 DEF TrafficTypes, TrafficInit
<1>8. BucketBounds BY <1>2, <1>6 DEF BucketBounds
<1>9. TokensGiven BY <1>2, <1>3, <1>6 DEF TokensGiven, TrafficInit
<1>10. ReceivedAfterStart /\ LoadAccounted /\ LatestLoadObserved
  BY <1>3, <1>5 DEF ReceivedAfterStart, LoadAccounted, LatestLoadObserved, NewBatch, NoMetric,
      TrafficInit
<1>11. AcceptedWhenProcessed BY <1>5 DEF AcceptedWhenProcessed, NewBatch
<1> QED BY <1>7, <1>8, <1>9, <1>10, <1>11 DEF TrafficInv

\* What the record of a batch may become.
MayMove(b, r) ==
  /\ r \in BatchRecords /\ r.at <= clock /\ r.to <= app.id
  /\ r.pc = "received" /\ r.to = app.id => app.born <= r.at
  /\ r.pc \in {"new", "arrived", "sent", "received"} => r.accepted = 0
  /\ batch[b].pc # "done"

\* The record of one batch changes, to one that the other parts allow.
LEMMA MoveStep ==
  ASSUME TrafficInv, NEW b \in Batches, NEW r, MayMove(b, r), Move(b, r),
         clock' = clock, app'.id = app.id, app'.born = app.born, setBack' = setBack
  PROVE  /\ batch' \in [Batches -> BatchRecords] /\ \A c \in Batches : batch'[c].at <= clock
         /\ batch'[b] = r /\ \A c \in Batches \ {b} : batch'[c] = batch[c]
         /\ ReceivedAfterStart' /\ AcceptedWhenProcessed'
         /\ r.pc # "done" /\ metric' = metric => LatestLoadObserved'
<1>1. batch \in [Batches -> BatchRecords] /\ batch' = [batch EXCEPT ![b] = r]
  BY DEF TrafficInv, TrafficTypes, Move
<1>2. batch'[b] = r /\ \A c \in Batches \ {b} : batch'[c] = batch[c] BY <1>1
<1>3. batch' \in [Batches -> BatchRecords] BY <1>1 DEF MayMove
<1>4. \A c \in Batches : batch'[c].at <= clock BY <1>2 DEF TrafficInv, TrafficTypes, MayMove
<1>5. ReceivedAfterStart' BY <1>2 DEF TrafficInv, ReceivedAfterStart, MayMove
<1>6. r.pc # "done" /\ metric' = metric => LatestLoadObserved'
  BY <1>2 DEF TrafficInv, LatestLoadObserved, MayMove
<1>7. AcceptedWhenProcessed' BY <1>2 DEF TrafficInv, AcceptedWhenProcessed, MayMove
<1> QED BY <1>2, <1>3, <1>4, <1>5, <1>6, <1>7

LEMMA DisturbanceCounted ==
  ASSUME TrafficTypes, Disturbance
  PROVE  disturbed' \in 0..MaxDisturbances /\ disturbed' # 0
<1>1. disturbed \in 0..MaxDisturbances /\ MaxDisturbances \in Nat
      /\ disturbed < MaxDisturbances /\ disturbed' = disturbed + 1
  BY TrafficAssumption DEF TrafficTypes, Disturbance
<1> QED BY <1>1

LEMMA OverRecord ==
  ASSUME TrafficInv, NEW b \in Batches, NEW pc \in {"refused", "failed", "done"}
  PROVE  /\ Over(b, pc) \in BatchRecords /\ Over(b, pc).pc = pc /\ Over(b, pc).to = 0
         /\ Over(b, pc).accepted = batch[b].accepted /\ Over(b, pc).load = batch[b].load
         /\ Over(b, pc).at = batch[b].at /\ batch[b].at <= clock /\ batch[b].at \in Nat
         /\ 0 <= app.id /\ app.id # 0
<1>1. batch[b] \in BatchRecords /\ batch[b].at <= clock /\ app.id \in Nat \ {0}
  BY DEF TrafficInv, TrafficTypes
<1>2. MaxLoad \in Nat BY TrafficAssumption
<1>3. NewBatch \in BatchRecords /\ NewBatch.to = 0 BY <1>2 DEF NewBatch, BatchRecords
<1>4. /\ Over(b, pc) \in BatchRecords /\ Over(b, pc).pc = pc /\ Over(b, pc).to = 0
      /\ Over(b, pc).at = batch[b].at /\ batch[b].at \in Nat
      /\ Over(b, pc).accepted = batch[b].accepted /\ Over(b, pc).load = batch[b].load
  BY <1>1, <1>3 DEF Over, BatchRecords
<1> QED BY <1>1, <1>4

LEMMA BatchOnItsWay ==
  ASSUME TrafficInv, NEW b \in Batches,
         (\E n \in Units : Arrive(b, n)) \/ Submit(b) \/ Deliver(b) \/ GiveUp(b),
         sample' = sample, setBack' = setBack
  PROVE  TrafficInv'
<1>1. /\ batch[b] \in BatchRecords /\ batch[b].at <= clock /\ batch[b].at \in Nat
      /\ clock \in Nat /\ app.id \in Nat \ {0} /\ app.born <= clock
      /\ batch[b].to <= app.id
      /\ batch[b].pc = "received" /\ batch[b].to = app.id => app.born <= batch[b].at
      /\ row \in [container : Nat, speed : Nat]
      /\ batch[b].pc \in {"new", "arrived", "sent", "received"} => batch[b].accepted = 0
  BY TrafficAssumption
  DEF TrafficInv, TrafficTypes, BatchRecords, ReceivedAfterStart, AcceptedWhenProcessed
<1>2. ASSUME NEW n \in Units, Arrive(b, n) PROVE TrafficInv'
  <2> DEFINE r == [batch[b] EXCEPT !.pc = "arrived", !.at = clock, !.units = n]
  <2>1. Move(b, r) /\ batch[b].pc = "new"
        /\ UNCHANGED <<clock, buckets, passed, evicted, row, app, stats, metric, late, disturbed>>
    BY <1>2 DEF Arrive
  <2>2. r \in BatchRecords /\ r.pc = "arrived" /\ r.at = clock /\ r.to = batch[b].to
        /\ r.accepted = batch[b].accepted
    BY <1>1, TrafficAssumption DEF BatchRecords
  <2> HIDE DEF r
  <2>3. MayMove(b, r) BY <1>1, <2>1, <2>2 DEF MayMove
  <2>4. /\ batch' \in [Batches -> BatchRecords] /\ \A c \in Batches : batch'[c].at <= clock
        /\ ReceivedAfterStart' /\ LatestLoadObserved' /\ AcceptedWhenProcessed'
    BY <2>1, <2>2, <2>3, MoveStep
  <2> QED BY <1>1, <2>1, <2>4 DEF TrafficInv, TrafficTypes, BucketBounds, TokensGiven, LoadAccounted
<1>3. CASE Submit(b)
  <2> DEFINE sent == [batch[b] EXCEPT !.pc = "sent", !.seen = row]
             r == IF Allowed(User, batch[b].at) THEN sent ELSE Over(b, "refused")
  <2>1. Move(b, r) /\ batch[b].pc = "arrived" /\ Allow(User, batch[b].at)
        /\ UNCHANGED <<clock, row, app, stats, metric, late, disturbed>>
    BY <1>3 DEF Submit
  <2>2. sent \in BatchRecords /\ sent.pc = "sent" /\ sent.at = batch[b].at /\ sent.to = batch[b].to
        /\ sent.accepted = batch[b].accepted
    BY <1>1 DEF BatchRecords
  <2>3. /\ Over(b, "refused") \in BatchRecords /\ Over(b, "refused").pc = "refused"
        /\ Over(b, "refused").to = 0 /\ Over(b, "refused").at = batch[b].at
        /\ Over(b, "refused").accepted = batch[b].accepted
    BY OverRecord
  <2> HIDE DEF sent
  <2>4. r \in BatchRecords /\ r.pc \in {"sent", "refused"} /\ r.at = batch[b].at
        /\ r.to \in {batch[b].to, 0} /\ r.accepted = batch[b].accepted
    BY <2>2, <2>3
  <2> HIDE DEF r
  <2>5. MayMove(b, r) BY <1>1, <2>1, <2>4 DEF MayMove
  <2>6. /\ batch' \in [Batches -> BatchRecords] /\ \A c \in Batches : batch'[c].at <= clock
        /\ ReceivedAfterStart' /\ LatestLoadObserved' /\ AcceptedWhenProcessed'
    BY <2>1, <2>4, <2>5, MoveStep
  <2>7. /\ \A v \in DOMAIN buckets' : buckets'[v] \in Buckets /\ buckets'[v].updated <= clock
        /\ passed' \in Nat /\ BucketBounds' /\ TokensGiven'
    <3> DEFINE now == batch[b].at
    <3>1. now \in 0..clock /\ Allow(User, now) BY <1>1, <2>1
    <3> HIDE DEF now
    <3>2. TrafficTypes /\ BucketBounds /\ TokensGiven BY DEF TrafficInv
    <3> QED BY <2>1, <3>1, <3>2, AllowStep
  <2> QED BY <1>1, <2>1, <2>6, <2>7 DEF TrafficInv, TrafficTypes, LoadAccounted
<1>4. CASE Deliver(b)
  <2> DEFINE r == [batch[b] EXCEPT !.pc = "received", !.at = clock, !.to = app.id]
  <2>1. Move(b, r) /\ batch[b].pc = "sent"
        /\ UNCHANGED <<clock, buckets, passed, evicted, row, app, stats, metric, late, disturbed>>
    BY <1>4 DEF Deliver
  <2>2. r \in BatchRecords /\ r.pc = "received" /\ r.at = clock /\ r.to = app.id
        /\ r.accepted = batch[b].accepted
    BY <1>1 DEF BatchRecords
  <2> HIDE DEF r
  <2>3. MayMove(b, r) BY <1>1, <2>1, <2>2 DEF MayMove
  <2>4. /\ batch' \in [Batches -> BatchRecords] /\ \A c \in Batches : batch'[c].at <= clock
        /\ ReceivedAfterStart' /\ LatestLoadObserved' /\ AcceptedWhenProcessed'
    BY <2>1, <2>2, <2>3, MoveStep
  <2> QED BY <1>1, <2>1, <2>4 DEF TrafficInv, TrafficTypes, BucketBounds, TokensGiven, LoadAccounted
<1>5. CASE GiveUp(b)
  <2> DEFINE unheard == [batch[b] EXCEPT !.waiting = FALSE]
             r == IF batch[b].pc = "answered" THEN Over(b, "failed") ELSE unheard
  <2>1. Move(b, r) /\ batch[b].pc \in {"sent", "received", "answered"} /\ Disturbance
        /\ UNCHANGED <<clock, buckets, passed, evicted, row, app, stats, metric, late>>
    BY <1>5 DEF GiveUp
  <2>2. unheard \in BatchRecords /\ unheard.pc = batch[b].pc /\ unheard.at = batch[b].at
        /\ unheard.to = batch[b].to /\ unheard.accepted = batch[b].accepted
    BY <1>1 DEF BatchRecords
  <2>3. /\ Over(b, "failed") \in BatchRecords /\ Over(b, "failed").pc = "failed"
        /\ Over(b, "failed").to = 0 /\ Over(b, "failed").at = batch[b].at
        /\ Over(b, "failed").accepted = batch[b].accepted
    BY OverRecord
  <2> HIDE DEF unheard
  <2>4. r \in BatchRecords /\ r.pc \in {"sent", "received", "failed"} /\ r.at = batch[b].at
        /\ r.to \in {batch[b].to, 0} /\ (r.pc = "received" => batch[b].pc = "received")
        /\ r.accepted = batch[b].accepted /\ (r.pc = "sent" => batch[b].pc = "sent")
    BY <2>1, <2>2, <2>3
  <2> HIDE DEF r
  <2>5. MayMove(b, r) BY <1>1, <2>1, <2>4 DEF MayMove
  <2>6. /\ batch' \in [Batches -> BatchRecords] /\ \A c \in Batches : batch'[c].at <= clock
        /\ ReceivedAfterStart' /\ LatestLoadObserved' /\ AcceptedWhenProcessed'
    BY <2>1, <2>4, <2>5, MoveStep
  <2>7. disturbed' \in 0..MaxDisturbances /\ disturbed' # 0
    BY <2>1, DisturbanceCounted DEF TrafficInv
  <2> QED BY <1>1, <2>1, <2>6, <2>7 DEF TrafficInv, TrafficTypes, BucketBounds, TokensGiven, LoadAccounted
<1> QED BY <1>2, <1>3, <1>4, <1>5

LEMMA ProcessStep ==
  ASSUME TrafficInv, NEW b \in Batches, Process(b), sample' = sample, setBack' = setBack
  PROVE  TrafficInv'
<1> DEFINE n == AcceptedUnits(b)
           settled == Settled(batch[b].at)
           now == batch[b].at
           r == Answered(b)
<1>1. /\ batch[b] \in BatchRecords /\ now <= clock /\ now \in Nat
      /\ clock \in Nat /\ app.id \in Nat \ {0} /\ app.born \in Nat /\ app.speed \in Nat
      /\ app.updated \in Int /\ app.accepted \in Nat /\ app.load \in 0..MaxLoad /\ MaxLoad \in Nat
      /\ app \in [id : Nat \ {0}, speed : Nat, load : 0..MaxLoad, updated : Int,
                  accepted : Nat, born : Nat]
      /\ batch[b].to <= app.id /\ stats \in Nat
      /\ batch[b].pc = "received" /\ batch[b].to = app.id => app.born <= now
      /\ batch[b].pc = "received" => batch[b].accepted = 0
  BY TrafficAssumption
  DEF TrafficInv, TrafficTypes, BatchRecords, ReceivedAfterStart, AcceptedWhenProcessed
<1>2. /\ settled \in 0..MaxLoad /\ n \in 0..(MaxLoad - settled)
      /\ app.updated >= 0 /\ now >= app.updated => app.load <= settled + app.speed * (now - app.updated)
  BY SettledLoad DEF TrafficInv
<1>3. batch[b].pc = "received" /\ UNCHANGED <<clock, buckets, passed, evicted, row, metric>>
  BY DEF Process
<1>4. /\ Over(b, "failed") \in BatchRecords /\ Over(b, "failed").pc = "failed"
      /\ Over(b, "failed").to = 0 /\ Over(b, "failed").at = now
      /\ Over(b, "failed").accepted = batch[b].accepted
  BY OverRecord
<1>5. ASSUME batch[b].to = app.id, stats' = stats + n, app' = Processed(b),
             late' = (late \/ now < app.updated), Move(b, r), UNCHANGED disturbed
      PROVE  TrafficInv'
  <2>1. app' = [app EXCEPT !.load = settled + n, !.updated = now, !.accepted = @ + n]
    BY <1>5 DEF Processed
  <2>2. Processed(b).load = settled + n BY <1>1 DEF Processed
  <2>3. r \in BatchRecords /\ r.pc \in {"answered", "failed"} /\ r.at = now /\ r.to = batch[b].to
        /\ r.accepted = n
    <3> DEFINE pc == IF batch[b].waiting THEN "answered" ELSE "failed"
               load == Processed(b).load
    <3>1. pc \in {"answered", "failed"} OBVIOUS
    <3>2. load \in 0..MaxLoad /\ n \in 0..MaxLoad BY <1>1, <1>2, <2>2
    <3>3. r = [batch[b] EXCEPT !.pc = pc, !.accepted = n, !.speed = app.speed, !.load = load]
      BY DEF Answered
    <3> HIDE DEF pc, load, n, r
    <3> QED BY <1>1, <3>1, <3>2, <3>3 DEF BatchRecords
  <2> HIDE DEF n, settled, r
  <2>4. /\ app'.id = app.id /\ app'.born = app.born /\ app'.speed = app.speed
        /\ app'.updated = now /\ app'.load = settled + n /\ app'.accepted = app.accepted + n
        /\ app' \in [id : Nat \ {0}, speed : Nat, load : 0..MaxLoad, updated : Int,
                     accepted : Nat, born : Nat]
    <3> DEFINE load == settled + n
               accepted == app.accepted + n
    <3>1. load \in 0..MaxLoad /\ accepted \in Nat BY <1>1, <1>2
    <3>2. app' = [app EXCEPT !.load = load, !.updated = now, !.accepted = accepted] BY <1>1, <2>1
    <3> HIDE DEF load, accepted
    <3>3. /\ app'.id = app.id /\ app'.born = app.born /\ app'.speed = app.speed
          /\ app'.updated = now /\ app'.load = load /\ app'.accepted = accepted
      BY <1>1, <3>2
    <3>4. app' \in [id : Nat \ {0}, speed : Nat, load : 0..MaxLoad, updated : Int,
                    accepted : Nat, born : Nat]
      <4> DEFINE Apps == [id : Nat \ {0}, speed : Nat, load : 0..MaxLoad, updated : Int,
                          accepted : Nat, born : Nat]
                 loaded == [app EXCEPT !.load = load]
                 settledApp == [loaded EXCEPT !.updated = now]
      <4>1. loaded \in Apps BY <1>1, <3>1
      <4> HIDE DEF loaded
      <4>2. settledApp \in Apps BY <1>1, <4>1
      <4> HIDE DEF settledApp
      <4>3. [settledApp EXCEPT !.accepted = accepted] \in Apps BY <3>1, <4>2
      <4> QED BY <3>2, <4>3 DEF settledApp, loaded
    <3> QED BY <3>3, <3>4 DEF load, accepted
  <2>5. /\ batch' \in [Batches -> BatchRecords] /\ \A c \in Batches : batch'[c].at <= clock
        /\ ReceivedAfterStart' /\ LatestLoadObserved' /\ AcceptedWhenProcessed'
    <3>1. MayMove(b, r) BY <1>1, <1>3, <2>3 DEF MayMove
    <3> QED BY <1>3, <1>5, <2>3, <2>4, <3>1, MoveStep
  <2>6. LoadAccounted'
    <3> SUFFICES ASSUME ~late'
                 PROVE  app.accepted + n <= settled + n + app.speed * (now - app.born)
      BY <1>1, <1>3, <1>5, <2>4 DEF LoadAccounted
    <3>1. ~late /\ ~(now < app.updated) BY <1>5
    <3>2. app.speed * (now - app.born) \in Nat BY <1>1, <1>3, <1>5
    <3>3. CASE app.updated < 0
      <4>1. app.accepted = 0 BY <3>3 DEF TrafficInv, LoadAccounted
      <4> QED BY <1>2, <3>2, <4>1
    <3>4. CASE app.updated >= 0
      <4>1. app.accepted <= app.load + app.speed * (app.updated - app.born)
        BY <3>1, <3>4 DEF TrafficInv, LoadAccounted
      <4>2. app.load <= settled + app.speed * (now - app.updated)
        BY <1>1, <1>2, <3>1, <3>4
      <4>3. /\ app.speed * (app.updated - app.born) = app.speed * app.updated - app.speed * app.born
            /\ app.speed * (now - app.updated) = app.speed * now - app.speed * app.updated
            /\ app.speed * (now - app.born) = app.speed * now - app.speed * app.born
            /\ app.speed * now \in Int /\ app.speed * app.updated \in Int
            /\ app.speed * app.born \in Int
        BY <1>1, Scaling
      <4> QED BY <1>1, <1>2, <4>1, <4>2, <4>3
    <3> QED BY <1>1, <3>3, <3>4
  <2>7. stats' \in Nat BY <1>1, <1>2, <1>5
  <2> QED BY <1>3, <1>5, <2>4, <2>5, <2>6, <2>7
      DEF TrafficInv, TrafficTypes, BucketBounds, TokensGiven
<1>6. ASSUME Move(b, Over(b, "failed")), stats' \in {stats, stats + n}, UNCHANGED <<app, late>>,
             Disturbance \/ UNCHANGED <<stats, disturbed>>
      PROVE  TrafficInv'
  <2>1. /\ batch' \in [Batches -> BatchRecords] /\ \A c \in Batches : batch'[c].at <= clock
        /\ ReceivedAfterStart' /\ LatestLoadObserved' /\ AcceptedWhenProcessed'
    <3> DEFINE over == Over(b, "failed")
    <3>1. MayMove(b, over) /\ Move(b, over) /\ over.pc = "failed" BY <1>1, <1>3, <1>4, <1>6 DEF MayMove
    <3> HIDE DEF over
    <3> QED BY <1>3, <1>6, <3>1, MoveStep
  <2>2. disturbed' \in 0..MaxDisturbances
    BY <1>6, TrafficAssumption DEF TrafficInv, TrafficTypes, Disturbance
  <2>3. stats' \in Nat BY <1>1, <1>2, <1>6
  <2> QED BY <1>3, <1>6, <2>1, <2>2, <2>3
      DEF TrafficInv, TrafficTypes, BucketBounds, TokensGiven, LoadAccounted
<1> QED BY <1>5, <1>6 DEF Process

LEMMA ReturnStep ==
  ASSUME TrafficInv, NEW b \in Batches, Return(b), sample' = sample, setBack' = setBack
  PROVE  TrafficInv'
<1> DEFINE r == Over(b, IF ValidResult(b) THEN "done" ELSE "failed")
<1>1. /\ Move(b, r) /\ batch[b].pc = "answered"
      /\ metric' = (IF ValidResult(b) THEN Observed(b) ELSE metric)
      /\ UNCHANGED <<clock, buckets, passed, evicted, row, app, stats, late, disturbed>>
  BY DEF Return
<1>2. /\ r \in BatchRecords /\ r.pc = (IF ValidResult(b) THEN "done" ELSE "failed") /\ r.to = 0
      /\ r.accepted = batch[b].accepted /\ r.load = batch[b].load
      /\ r.at = batch[b].at /\ batch[b].at <= clock /\ batch[b].at \in Nat /\ 0 <= app.id /\ app.id # 0
  BY OverRecord
<1> HIDE DEF r
<1>3. /\ batch' \in [Batches -> BatchRecords] /\ \A c \in Batches : batch'[c].at <= clock
      /\ ReceivedAfterStart'
      /\ batch'[b] = r /\ \A c \in Batches \ {b} : batch'[c] = batch[c]
      /\ ~ValidResult(b) => LatestLoadObserved'
      /\ AcceptedWhenProcessed'
  <2>1. MayMove(b, r) BY <1>1, <1>2 DEF MayMove
  <2> QED BY <1>1, <1>2, <2>1, MoveStep
<1>4. /\ metric \in Metrics /\ batch[b] \in BatchRecords
      /\ \A c \in Batches : batch[c].at \in Nat
  BY DEF TrafficInv, TrafficTypes, BatchRecords
<1>5. /\ metric' \in Metrics
      /\ ValidResult(b) =>
           /\ batch[b].at < metric.at => metric' = metric
           /\ ~(batch[b].at < metric.at) =>
                metric'.at = batch[b].at /\ metric'.load = batch[b].load
  <2> DEFINE new == [at |-> batch[b].at, container |-> batch[b].seen.container,
                     speed |-> batch[b].speed, load |-> batch[b].load]
  <2>1. new \in Metrics /\ new.at = batch[b].at /\ new.load = batch[b].load
    BY <1>4 DEF BatchRecords, Metrics
  <2>2. metric' \in {metric, new} /\ (ValidResult(b) => metric' = IF batch[b].at < metric.at THEN metric ELSE new)
    BY <1>1 DEF Observed
  <2> HIDE DEF new
  <2> QED BY <1>4, <2>1, <2>2
<1>6. LatestLoadObserved'
  <2>1. CASE ValidResult(b)
    <3>1. ASSUME ~setBack', NEW c \in Batches, batch'[c].pc = "done"
          PROVE  batch'[c].at <= metric'.at \/ clock' - batch'[c].at > MetricFreshness
      <4>1. metric.at \in Int /\ metric.at <= metric'.at /\ batch[b].at <= metric'.at
        BY <1>2, <1>4, <1>5, <2>1 DEF Metrics
      <4>2. CASE c = b BY <1>2, <1>3, <4>1, <4>2
      <4>3. CASE c # b
        <5>1. batch'[c] = batch[c] /\ clock' = clock BY <1>1, <1>3, <4>3
        <5>2. batch[c].at <= metric.at \/ clock - batch[c].at > MetricFreshness
          BY <3>1, <5>1 DEF TrafficInv, LatestLoadObserved
        <5>3. metric'.at \in Int BY <1>5 DEF Metrics
        <5> QED BY <1>4, <4>1, <5>1, <5>2, <5>3
      <4> QED BY <4>2, <4>3
    <3>2. ASSUME metric'.load # 0
          PROVE  \E c \in Batches :
                   batch'[c].pc = "done" /\ batch'[c].at = metric'.at /\ batch'[c].load = metric'.load
      <4>1. CASE batch[b].at < metric.at
        <5>1. PICK c \in Batches :
                batch[c].pc = "done" /\ batch[c].at = metric.at /\ batch[c].load = metric.load
          BY <1>5, <2>1, <3>2, <4>1 DEF TrafficInv, LatestLoadObserved
        <5>2. c # b BY <1>1, <5>1
        <5> QED BY <1>3, <1>5, <2>1, <4>1, <5>1, <5>2
      <4>2. CASE ~(batch[b].at < metric.at) BY <1>2, <1>3, <1>5, <2>1, <4>2
      <4> QED BY <4>1, <4>2
    <3> QED BY <3>1, <3>2 DEF LatestLoadObserved
  <2> QED BY <1>3, <2>1
<1> QED BY <1>1, <1>3, <1>5, <1>6
    DEF TrafficInv, TrafficTypes, BucketBounds, TokensGiven, LoadAccounted

\* What a step of the balancer leaves alone.
LEMMA SamplerStep ==
  ASSUME TrafficInv, UNCHANGED elsewhere, metric' \in Metrics, sample' \in Samples,
         LatestLoadObserved'
  PROVE  TrafficInv'
BY DEF elsewhere, TrafficInv, TrafficTypes, BucketBounds, TokensGiven, ReceivedAfterStart,
  LoadAccounted, AcceptedWhenProcessed

LEMMA BalancerSteps ==
  ASSUME TrafficInv, ListLab \/ SampleLoad \/ ForgetMetric
  PROVE  TrafficInv'
<1>1. /\ clock \in Nat /\ metric \in Metrics /\ sample \in Samples
      /\ row \in [container : Nat, speed : Nat] /\ MaxLoad \in Nat \ {0}
      /\ MetricFreshness \in Nat /\ \A b \in Batches : batch[b].at \in Nat
  BY TrafficAssumption DEF TrafficInv, TrafficTypes, BatchRecords
<1>2. UNCHANGED elsewhere BY DEF ListLab, SampleLoad, ForgetMetric
<1>3. clock' = clock /\ batch' = batch BY <1>2 DEF elsewhere
<1>4. UNCHANGED <<metric, setBack>> => LatestLoadObserved'
  BY <1>3 DEF TrafficInv, LatestLoadObserved
<1>5. NoSample \in Samples /\ NoMetric \in Metrics /\ NoMetric.load = 0
  BY <1>1 DEF NoSample, NoMetric, Samples, Metrics
<1>6. CASE ListLab
  <2>1. sample' \in Samples BY <1>1, <1>6 DEF ListLab, Samples
  <2>2. UNCHANGED <<metric, setBack>> BY <1>6 DEF ListLab
  <2> QED BY <1>1, <1>2, <1>4, <2>1, <2>2, SamplerStep
<1>7. CASE SampleLoad
  <2>1. sample' \in Samples BY <1>5, <1>7 DEF SampleLoad
  <2>2. CASE UNCHANGED <<metric, setBack>> BY <1>1, <1>2, <1>4, <2>1, <2>2, SamplerStep
  <2>3. ASSUME NEW now \in sample.at..clock,
               metric' = [at |-> now, container |-> sample.container,
                          speed |-> sample.speed, load |-> 0],
               setBack' = (setBack \/ now < metric.at)
        PROVE  TrafficInv'
    <3>1. now \in Int BY <1>1, <2>3 DEF Samples
    <3>2. metric' \in Metrics /\ metric'.at = now /\ metric'.load = 0
      BY <1>1, <2>3, <3>1 DEF Samples, Metrics
    <3>3. ASSUME ~setBack', NEW b \in Batches, batch'[b].pc = "done"
          PROVE  batch'[b].at <= metric'.at \/ clock' - batch'[b].at > MetricFreshness
      <4>1. ~setBack /\ ~(now < metric.at) BY <2>3, <3>3
      <4>2. batch[b].at <= metric.at \/ clock - batch[b].at > MetricFreshness
        BY <1>3, <3>3, <4>1 DEF TrafficInv, LatestLoadObserved
      <4>3. metric.at \in Int BY <1>1 DEF Metrics
      <4> QED BY <1>1, <1>3, <3>1, <3>2, <4>1, <4>2, <4>3
    <3>4. LatestLoadObserved' BY <3>2, <3>3 DEF LatestLoadObserved
    <3> QED BY <1>2, <2>1, <3>2, <3>4, SamplerStep
  <2> QED BY <1>7, <2>2, <2>3 DEF SampleLoad
<1>8. CASE ForgetMetric
  <2>1. /\ MaxLoad <= metric.speed * (clock - metric.at - MetricFreshness - 1)
        /\ metric' = NoMetric /\ sample' = sample /\ setBack' = setBack
    BY <1>8 DEF ForgetMetric, samplerVars
  <2>2. metric.at \in Int /\ metric.speed \in Nat BY <1>1 DEF Metrics
  <2>3. clock - metric.at > MetricFreshness
    <3> DEFINE t == clock - metric.at - MetricFreshness - 1
    <3>1. t \in Int /\ MaxLoad <= metric.speed * t BY <1>1, <2>1, <2>2
    <3>2. clock - metric.at = t + MetricFreshness + 1 BY <1>1, <2>2
    <3> HIDE DEF t
    <3>3. t <= 0 => metric.speed * t <= metric.speed * 0 /\ metric.speed * t \in Int
      BY <2>2, <3>1, Scaling
    <3>4. metric.speed * 0 = 0 BY <2>2
    <3>5. ~(t <= 0) BY <1>1, <3>1, <3>3, <3>4
    <3> QED BY <1>1, <3>1, <3>2, <3>5
  <2>4. ASSUME ~setBack', NEW b \in Batches, batch'[b].pc = "done"
        PROVE  clock' - batch'[b].at > MetricFreshness
    <3>1. batch[b].at <= metric.at \/ clock - batch[b].at > MetricFreshness
      BY <1>3, <2>1, <2>4 DEF TrafficInv, LatestLoadObserved
    <3> QED BY <1>1, <1>3, <2>2, <2>3, <3>1
  <2>5. LatestLoadObserved' BY <1>5, <2>1, <2>4 DEF LatestLoadObserved
  <2> QED BY <1>1, <1>2, <1>5, <2>1, <2>5, SamplerStep
<1> QED BY <1>6, <1>7, <1>8

LEMMA TrafficInvInductive == TrafficInv /\ [TrafficNext]_trafficVars => TrafficInv'
<1> SUFFICES ASSUME TrafficInv, [TrafficNext]_trafficVars PROVE TrafficInv' OBVIOUS
<1>1. ASSUME NEW b \in Batches,
             (\E n \in Units : Arrive(b, n)) \/ Submit(b) \/ Deliver(b) \/ GiveUp(b),
             UNCHANGED samplerVars
      PROVE  TrafficInv'
  BY <1>1, BatchOnItsWay DEF samplerVars
<1>2. ASSUME NEW b \in Batches, Process(b), UNCHANGED samplerVars PROVE TrafficInv'
  BY <1>2, ProcessStep DEF samplerVars
<1>3. ASSUME NEW b \in Batches, Return(b), UNCHANGED samplerVars PROVE TrafficInv'
  BY <1>3, ReturnStep DEF samplerVars
<1>4. ASSUME NEW u \in OtherUsers, OtherSubmit(u), UNCHANGED samplerVars PROVE TrafficInv'
  <2>1. /\ Disturbance /\ Allow(u, clock)
        /\ UNCHANGED <<clock, row, app, batch, stats, metric, sample, setBack, late>>
        /\ clock \in 0..clock
    BY <1>4, TrafficAssumption DEF OtherSubmit, samplerVars, TrafficInv, TrafficTypes
  <2>2. /\ \A v \in DOMAIN buckets' : buckets'[v] \in Buckets /\ buckets'[v].updated <= clock
        /\ passed' \in Nat /\ BucketBounds' /\ TokensGiven'
    BY <2>1, AllowStep DEF TrafficInv
  <2>3. disturbed' \in 0..MaxDisturbances /\ disturbed' # 0
    BY <2>1, DisturbanceCounted DEF TrafficInv
  <2> QED BY <2>1, <2>2, <2>3
      DEF TrafficInv, TrafficTypes, ReceivedAfterStart, LoadAccounted, LatestLoadObserved,
        AcceptedWhenProcessed
<1>5. ASSUME NEW s \in AppSpeeds, ReplaceContainer(s), UNCHANGED samplerVars PROVE TrafficInv'
  <2>1. /\ app' = [id |-> app.id + 1, speed |-> s, load |-> 0, updated |-> -1, accepted |-> 0,
                   born |-> clock]
        /\ Disturbance
        /\ UNCHANGED <<clock, buckets, passed, evicted, row, batch, stats, metric, sample, setBack, late>>
    BY <1>5 DEF ReplaceContainer, NewApp, samplerVars
  <2>2. clock \in Nat /\ app.id \in Nat \ {0} /\ s \in Nat /\ MaxLoad \in Nat
    BY TrafficAssumption DEF TrafficInv, TrafficTypes
  <2>3. app' \in [id : Nat \ {0}, speed : Nat, load : 0..MaxLoad, updated : Int, accepted : Nat,
                  born : Nat] /\ app'.born <= clock
    BY <2>1, <2>2
  <2>4. disturbed' \in 0..MaxDisturbances /\ disturbed' # 0
    BY <2>1, DisturbanceCounted DEF TrafficInv
  <2>5. ReceivedAfterStart'
    <3>1. \A b \in Batches : batch[b].to <= app.id /\ batch[b].to \in Nat
      BY DEF TrafficInv, ReceivedAfterStart, TrafficTypes, BatchRecords
    <3> QED BY <2>1, <2>2, <3>1 DEF ReceivedAfterStart
  <2>6. LoadAccounted' BY <2>1 DEF LoadAccounted
  <2>7. AcceptedWhenProcessed' /\ LatestLoadObserved'
    BY <2>1 DEF TrafficInv, AcceptedWhenProcessed, LatestLoadObserved
  <2>8. BucketBounds' /\ TokensGiven' BY <2>1 DEF TrafficInv, BucketBounds, TokensGiven
  <2>9. TrafficTypes' BY <2>1, <2>3, <2>4 DEF TrafficInv, TrafficTypes
  <2> QED BY <2>5, <2>6, <2>7, <2>8, <2>9 DEF TrafficInv
<1>6. ASSUME RecordContainer, UNCHANGED samplerVars PROVE TrafficInv'
  <2>1. /\ row' = [container |-> app.id, speed |-> app.speed]
        /\ UNCHANGED <<clock, buckets, passed, evicted, app, batch, stats, metric, sample, setBack,
                       late, disturbed>>
    BY <1>6 DEF RecordContainer, samplerVars
  <2>2. row' \in [container : Nat, speed : Nat] BY <2>1 DEF TrafficInv, TrafficTypes
  <2> QED BY <2>1, <2>2 DEF TrafficInv, TrafficTypes, BucketBounds, TokensGiven,
        ReceivedAfterStart, LoadAccounted, LatestLoadObserved,
        AcceptedWhenProcessed
<1>7. ASSUME ClockTick, UNCHANGED samplerVars PROVE TrafficInv'
  <2>1. /\ clock' = clock + 1 /\ clock < MaxClock
        /\ UNCHANGED <<buckets, passed, evicted, row, app, batch, stats, metric, sample, setBack,
                       late, disturbed>>
    BY <1>7 DEF ClockTick, samplerVars
  <2>2. clock \in Nat /\ clock' \in 0..MaxClock /\ \A t \in Int : t <= clock => t <= clock'
    BY <2>1, TrafficAssumption DEF TrafficInv, TrafficTypes
  <2>3. Rate * clock <= Rate * clock' /\ Rate * clock \in Int /\ Rate * clock' \in Int
    BY <2>1, <2>2, TrafficAssumption, Scaling
  <2>4. TokensGiven'
    BY <2>1, <2>3, TrafficAssumption DEF TrafficInv, TrafficTypes, TokensGiven
  <2>5. TrafficTypes'
    BY <2>1, <2>2 DEF TrafficInv, TrafficTypes, Buckets, BatchRecords
  <2>6. LoadAccounted' BY <2>1, <2>2 DEF TrafficInv, TrafficTypes, LoadAccounted
  <2>7. LatestLoadObserved'
    <3>1. MetricFreshness \in Nat /\ \A b \in Batches : batch[b].at \in Nat
      BY TrafficAssumption DEF TrafficInv, TrafficTypes, BatchRecords
    <3>2. \A t \in Nat : clock - t > MetricFreshness => clock' - t > MetricFreshness
      BY <2>1, <2>2, <3>1
    <3> QED BY <2>1, <3>1, <3>2 DEF TrafficInv, LatestLoadObserved
  <2> QED BY <2>1, <2>4, <2>5, <2>6, <2>7
      DEF TrafficInv, BucketBounds, ReceivedAfterStart, AcceptedWhenProcessed
<1>8. CASE UNCHANGED trafficVars
  BY <1>8 DEF trafficVars, samplerVars, TrafficInv, TrafficTypes, BucketBounds, TokensGiven,
    ReceivedAfterStart, LoadAccounted, LatestLoadObserved,
        AcceptedWhenProcessed
<1>9. CASE ListLab \/ SampleLoad \/ ForgetMetric BY <1>9, BalancerSteps
<1> QED BY <1>1, <1>2, <1>3, <1>4, <1>5, <1>6, <1>7, <1>8, <1>9 DEF TrafficNext

LEMMA TrafficInvariant == TrafficSpec => []TrafficInv
BY TrafficInvInit, TrafficInvInductive, PTL DEF TrafficSpec

\* For any rate and burst, Allow lets a user whose entry was not evicted pass
\* at most burst times and once per token the rate has given, although times
\* that reach the lock out of order refill backwards.
THEOREM LimiterKeepsTheRate == TrafficSpec => []PassedWithinRate
<1>1. TrafficInv => PassedWithinRate
  BY DEF TrafficInv, TokensGiven, PassedWithinRate
<1> QED BY <1>1, TrafficInvariant, PTL

\* For any speed, Process accepts no more than MaxLoad and what the container
\* has processed since its start, unless a batch was settled late.
THEOREM InstancesKeepTheirCapacity == TrafficSpec => []AcceptedWithinCapacity
<1>1. TrafficInv => AcceptedWithinCapacity
  <2> SUFFICES ASSUME TrafficInv, ~late
               PROVE  app.accepted <= MaxLoad + app.speed * (clock - app.born)
    BY DEF AcceptedWithinCapacity
  <2>1. /\ clock \in Nat /\ app.born \in Nat /\ app.speed \in Nat /\ app.accepted \in Nat
        /\ app.updated \in Int /\ app.load \in 0..MaxLoad /\ MaxLoad \in Nat /\ app.born <= clock
    BY TrafficAssumption DEF TrafficInv, TrafficTypes
  <2>2. CASE app.updated < 0
    <3>1. app.accepted = 0 BY <2>2 DEF TrafficInv, LoadAccounted
    <3>2. app.speed * (clock - app.born) \in Nat BY <2>1
    <3> QED BY <2>1, <3>1, <3>2
  <2>3. CASE app.updated >= 0
    <3>1. app.updated <= clock /\ app.accepted <= app.load + app.speed * (app.updated - app.born)
      BY <2>3 DEF TrafficInv, LoadAccounted
    <3>2. /\ app.speed * (app.updated - app.born) <= app.speed * (clock - app.born)
          /\ app.speed * (app.updated - app.born) \in Int /\ app.speed * (clock - app.born) \in Int
      BY <2>1, <3>1, Scaling
    <3> QED BY <2>1, <3>1, <3>2
  <2> QED BY <2>1, <2>2, <2>3
<1> QED BY <1>1, TrafficInvariant, PTL

\* For any freshness and speed: Observe keeps the newest of the loads that
\* answered batches reported, whatever the order in which their answers come
\* back, until a sample with an earlier time replaces it, and sample forgets no
\* observation while it is fresh.
THEOREM BalancerKnowsTheLatestLoad == TrafficSpec => []LatestLoadObserved
<1>1. TrafficInv => LatestLoadObserved BY DEF TrafficInv
<1> QED BY <1>1, TrafficInvariant, PTL
=============================================================================
