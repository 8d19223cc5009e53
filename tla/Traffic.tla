------------------------------- MODULE Traffic -------------------------------
(***************************************************************************)
(* Traffic batches of one user: the token bucket and the snapshot of       *)
(* platform-api, the lab's application instance that settles its load and  *)
(* records the batch, and the load the balancer is told of, which the      *)
(* balancer's samples also set and forget.  Other users share the limiter. *)
(* The instance's container may be replaced at any moment, the row of      *)
(* lab_instances following later.                                          *)
(*                                                                         *)
(* Limiter and processor read the clock before they take their lock, so    *)
(* batches may be handled out of the order of their times.  Load, units    *)
(* and time are integers; rounding and load states are left out.           *)
(***************************************************************************)
EXTENDS Integers, FiniteSets, FiniteSetsExt

CONSTANTS
  BatchCount,      \* batches of the user, each sent once
  Units,           \* request units of a batch
  MaxLoad,
  AppSpeeds,       \* processing speeds a container may have
  Burst, Rate, MaxEntries,   \* the limiter's configuration
  User, OtherUsers,
  MetricFreshness, \* of the balancer's configuration
  MaxClock,        \* bound: the clock
  MaxDisturbances  \* bound: lost answers, failing writes, replaced containers
                   \* and requests of other users, together

ASSUME TrafficAssumption ==
  /\ Units \subseteq Nat \ {0} /\ MaxLoad \in Nat \ {0}
  /\ AppSpeeds \subseteq Nat \ {0}
  /\ \E s \in AppSpeeds : \A t \in AppSpeeds : t <= s
  /\ Burst \in Nat \ {0} /\ Rate \in Nat \ {0} /\ MaxEntries \in Nat \ {0}
  /\ User \notin OtherUsers /\ MetricFreshness \in Nat \ {0}
  /\ BatchCount \in Nat /\ MaxClock \in Nat /\ MaxDisturbances \in Nat

VARIABLES
  clock,
  buckets,    \* the limiter's entries, by user
  passed,     \* how many requests of the user the limiter has let pass
  evicted,    \* whether the user's entry has been dropped
  row,        \* container and speed of the instance, as the platform knows them
  app,        \* the container in service: its processor
  batch,      \* the batches
  stats,      \* accepted units in order_stats
  metric,     \* the balancer's observation of the instance
  sample,     \* the row that a sample under way has listed, and when
  setBack,    \* whether a sample has replaced an observation of a later time
  late,       \* whether a batch was settled with an older time than another
  disturbed   \* number of disturbances

samplerVars == <<sample, setBack>>
trafficVars == <<clock, buckets, passed, evicted, row, app, batch, stats, metric,
                 samplerVars, late, disturbed>>

-----------------------------------------------------------------------------
Batches == 1..BatchCount
NewBatch == [pc |-> "new", at |-> 0, units |-> 0, seen |-> [container |-> 0, speed |-> 0],
             to |-> 0, speed |-> 0, accepted |-> 0, load |-> 0, waiting |-> TRUE]

NoMetric == [at |-> -1, container |-> 0, speed |-> 0, load |-> 0]
NoSample == [at |-> -1, container |-> 0, speed |-> 0]

\* A processor that has seen no batch has no lastUpdatedAt.
NewApp(id, speed) ==
  [id |-> id, speed |-> speed, load |-> 0, updated |-> -1, accepted |-> 0, born |-> clock]

TrafficInit ==
  /\ clock = 0
  /\ buckets = <<>> /\ passed = 0 /\ evicted = FALSE
  /\ app = NewApp(1, Max(AppSpeeds))
  /\ row = [container |-> 1, speed |-> Max(AppSpeeds)]
  /\ batch = [b \in Batches |-> NewBatch]
  /\ stats = 0 /\ metric = NoMetric
  /\ sample = NoSample /\ setBack = FALSE
  /\ late = FALSE /\ disturbed = 0

\* Types; the load of an instance never leaves its range and the limiter
\* never holds more entries than it may, whatever the order of the batches.
TrafficTypeOK ==
  /\ clock \in 0..MaxClock
  /\ Cardinality(DOMAIN buckets) <= MaxEntries
  /\ \A u \in DOMAIN buckets : buckets[u].tokens <= Burst
  /\ app.load \in 0..MaxLoad
  /\ \A b \in Batches : batch[b].pc \in
       {"new", "arrived", "refused", "sent", "received", "answered", "failed", "done"}
  /\ metric.load \in 0..MaxLoad /\ stats \in Nat /\ disturbed \in 0..MaxDisturbances

Disturbance == disturbed < MaxDisturbances /\ disturbed' = disturbed + 1

-----------------------------------------------------------------------------
(***************************************************************************)
(* The limiter.                                                            *)
(***************************************************************************)
Oldest == CHOOSE u \in DOMAIN buckets :
            \A v \in DOMAIN buckets : buckets[u].seen <= buckets[v].seen

\* Mutant: one entry too many is kept.
EvictionForOffByOne(u) ==
  IF u \notin DOMAIN buckets /\ Cardinality(DOMAIN buckets) > MaxEntries THEN {Oldest} ELSE {}

\* The entry that makes room for a new user.
EvictionFor(u) ==
  IF u \notin DOMAIN buckets /\ Cardinality(DOMAIN buckets) >= MaxEntries THEN {Oldest} ELSE {}

\* Mutant: the time of the last refill is kept.
RefilledKeepsTime(u, now) ==
  IF u \notin DOMAIN buckets THEN [tokens |-> Burst, updated |-> now, seen |-> now]
  ELSE [tokens |-> Min({Burst, buckets[u].tokens + (now - buckets[u].updated) * Rate}),
        updated |-> buckets[u].updated, seen |-> now]

\* The entry of the user at time now, before a token is taken.  A time before
\* the last one takes back what the last one gave.
Refilled(u, now) ==
  IF u \notin DOMAIN buckets THEN [tokens |-> Burst, updated |-> now, seen |-> now]
  ELSE [tokens |-> Min({Burst, buckets[u].tokens + (now - buckets[u].updated) * Rate}),
        updated |-> now, seen |-> now]

Allowed(u, now) == Refilled(u, now).tokens >= 1

Allow(u, now) ==
  LET entry == Refilled(u, now)
      spent == IF Allowed(u, now) THEN 1 ELSE 0
      kept == DOMAIN buckets \ EvictionFor(u)
  IN  /\ buckets' = [v \in kept \cup {u} |->
                       IF v = u THEN [entry EXCEPT !.tokens = @ - spent] ELSE buckets[v]]
      /\ passed' = IF u = User THEN passed + spent ELSE passed
      /\ evicted' = (evicted \/ User \in EvictionFor(u))

-----------------------------------------------------------------------------
(***************************************************************************)
(* A batch on its way.                                                     *)
(***************************************************************************)
Move(b, r) == batch' = [batch EXCEPT ![b] = r]

\* A batch that is over: what it has accepted, and when, and the load it left.
Over(b, pc) ==
  [NewBatch EXCEPT !.pc = pc, !.accepted = batch[b].accepted, !.at = batch[b].at,
                   !.load = batch[b].load]

\* A request arrives, and Allow reads the clock.  Batches are alike, so they
\* arrive in order.
Arrive(b, n) ==
  /\ batch[b].pc = "new" /\ \A c \in 1..(b - 1) : batch[c].pc # "new"
  /\ Move(b, [batch[b] EXCEPT !.pc = "arrived", !.at = clock, !.units = n])
  /\ UNCHANGED <<clock, buckets, passed, evicted, row, app, stats, metric, late,
                 disturbed>>

\* Submit: the limiter, and the snapshot of the lab.
Submit(b) ==
  /\ batch[b].pc = "arrived"
  /\ Allow(User, batch[b].at)
  /\ Move(b, IF Allowed(User, batch[b].at)
             THEN [batch[b] EXCEPT !.pc = "sent", !.seen = row]
             ELSE Over(b, "refused"))
  /\ UNCHANGED <<clock, row, app, stats, metric, late, disturbed>>

OtherSubmit(u) ==
  /\ Disturbance
  /\ Allow(u, clock)
  /\ UNCHANGED <<clock, row, app, batch, stats, metric, late>>

\* The gateway passes the batch on; Process reads the clock.
Deliver(b) ==
  /\ batch[b].pc = "sent"
  /\ Move(b, [batch[b] EXCEPT !.pc = "received", !.at = clock, !.to = app.id])
  /\ UNCHANGED <<clock, buckets, passed, evicted, row, app, stats, metric, late,
                 disturbed>>

Settled(now) ==
  LET elapsed == IF app.updated >= 0 /\ now > app.updated THEN now - app.updated ELSE 0
  IN  Max({0, app.load - app.speed * elapsed})

AcceptedUnits(b) == Min({batch[b].units, Max({0, MaxLoad - Settled(batch[b].at)})})

\* Mutant: the settled load is kept with the time of the batch before.
ProcessedKeepsTime(b) ==
  [app EXCEPT !.load = Settled(batch[b].at) + AcceptedUnits(b),
              !.updated = IF @ < 0 THEN batch[b].at ELSE @,
              !.accepted = @ + AcceptedUnits(b)]

\* The processor after the batch, also when its time is the older one.
Processed(b) ==
  [app EXCEPT !.load = Settled(batch[b].at) + AcceptedUnits(b),
              !.updated = batch[b].at,
              !.accepted = @ + AcceptedUnits(b)]

\* The answer, which nobody may be waiting for any more.
Answered(b) ==
  [batch[b] EXCEPT !.pc = IF batch[b].waiting THEN "answered" ELSE "failed",
                   !.accepted = AcceptedUnits(b), !.speed = app.speed,
                   !.load = Processed(b).load]

\* Mutant: the batch is answered although it was not recorded.
ProcessUnrecorded(b) ==
  /\ batch[b].pc = "received"
  /\ stats' \in {stats, stats + AcceptedUnits(b)}
  /\ app' = Processed(b)
  /\ Move(b, Answered(b))
  /\ UNCHANGED <<clock, buckets, passed, evicted, row, metric, late, disturbed>>

\* Under the processor's lock: the statistics are written first, and when that
\* fails (perhaps after it took effect) the load stays as it was.
Process(b) ==
  /\ batch[b].pc = "received"
  /\ \/ /\ batch[b].to = app.id
        /\ stats' = stats + AcceptedUnits(b)
        /\ app' = Processed(b)
        /\ late' = (late \/ batch[b].at < app.updated)
        /\ Move(b, Answered(b))
        /\ UNCHANGED disturbed
     \/ /\ batch[b].to = app.id
        /\ Disturbance
        /\ stats' \in {stats, stats + AcceptedUnits(b)}
        /\ Move(b, Over(b, "failed"))
        /\ UNCHANGED <<app, late>>
     \/ /\ batch[b].to # app.id
        /\ Move(b, Over(b, "failed"))
        /\ UNCHANGED <<stats, app, late, disturbed>>
  /\ UNCHANGED <<clock, buckets, passed, evicted, row, metric>>

\* Mutant: the last answer to arrive wins.
ObservedLast(b) ==
  [at |-> batch[b].at, container |-> batch[b].seen.container, speed |-> batch[b].speed,
   load |-> batch[b].load]

\* Observe, with the container the snapshot had.
Observed(b) ==
  IF batch[b].at < metric.at THEN metric
  ELSE [at |-> batch[b].at, container |-> batch[b].seen.container, speed |-> batch[b].speed,
        load |-> batch[b].load]

\* validResult, as far as it depends on the instance: the answer's load model
\* is the one of the snapshot.
ValidResult(b) == batch[b].speed = batch[b].seen.speed

\* The answer reaches Submit.
Return(b) ==
  /\ batch[b].pc = "answered"
  /\ Move(b, Over(b, IF ValidResult(b) THEN "done" ELSE "failed"))
  /\ metric' = IF ValidResult(b) THEN Observed(b) ELSE metric
  /\ UNCHANGED <<clock, buckets, passed, evicted, row, app, stats, late, disturbed>>

\* The client gives up; what it sent goes on.
GiveUp(b) ==
  /\ batch[b].pc \in {"sent", "received", "answered"} /\ batch[b].waiting
  /\ Disturbance
  /\ Move(b, IF batch[b].pc = "answered" THEN Over(b, "failed")
             ELSE [batch[b] EXCEPT !.waiting = FALSE])
  /\ UNCHANGED <<clock, buckets, passed, evicted, row, app, stats, metric, late>>

\* UPDATE_APP_CAPACITY replaces the container, and CompleteTopology the row.
ReplaceContainer(s) ==
  /\ row.container = app.id
  /\ Disturbance
  /\ app' = NewApp(app.id + 1, s)
  /\ UNCHANGED <<clock, buckets, passed, evicted, row, batch, stats, metric, late>>

RecordContainer ==
  /\ row.container # app.id
  /\ row' = [container |-> app.id, speed |-> app.speed]
  /\ UNCHANGED <<clock, buckets, passed, evicted, app, batch, stats, metric, late,
                 disturbed>>

ClockTick ==
  /\ clock < MaxClock
  /\ clock' = clock + 1
  /\ UNCHANGED <<buckets, passed, evicted, row, app, batch, stats, metric, late,
                 disturbed>>

-----------------------------------------------------------------------------
(***************************************************************************)
(* The balancer's samples.  ListAdaptiveLabs comes first; the clock is     *)
(* read later, and the lock is taken later still.                          *)
(***************************************************************************)
elsewhere == <<clock, buckets, passed, evicted, row, app, batch, stats, late, disturbed>>

ListLab ==
  /\ sample = NoSample
  /\ sample' = [at |-> clock, container |-> row.container, speed |-> row.speed]
  /\ UNCHANGED <<elsewhere, metric, setBack>>

\* An instance whose container or load model is not the one observed is taken
\* to be idle.  A lab whose adjustment is under way, or which is not eligible,
\* is passed over.
SampleLoad ==
  /\ sample # NoSample
  /\ sample' = NoSample
  /\ \/ \E now \in sample.at..clock :
          IF metric.container = sample.container /\ metric.speed = sample.speed
          THEN UNCHANGED <<metric, setBack>>
          ELSE /\ metric' = [at |-> now, container |-> sample.container,
                             speed |-> sample.speed, load |-> 0]
               /\ setBack' = (setBack \/ now < metric.at)
     \/ UNCHANGED <<metric, setBack>>
  /\ UNCHANGED elsewhere

\* Observations are forgotten once the instance has been idle for long: later
\* than the time it takes to process a full load, rounded up, and the freshness.
ForgetMetric ==
  /\ sample = NoSample
  /\ metric # NoMetric
  /\ metric.load <= metric.speed * (clock - metric.at)
  /\ MaxLoad <= metric.speed * (clock - metric.at - MetricFreshness - 1)
  /\ metric' = NoMetric
  /\ UNCHANGED <<elsewhere, samplerVars>>

TrafficNext ==
  \/ /\ \/ \E b \in Batches :
             \/ \E n \in Units : Arrive(b, n)
             \/ Submit(b) \/ Deliver(b) \/ Process(b) \/ Return(b) \/ GiveUp(b)
        \/ \E u \in OtherUsers : OtherSubmit(u)
        \/ \E s \in AppSpeeds : ReplaceContainer(s)
        \/ RecordContainer \/ ClockTick
     /\ UNCHANGED samplerVars
  \/ ListLab \/ SampleLoad \/ ForgetMetric

TrafficSpec == TrafficInit /\ [][TrafficNext]_trafficVars

-----------------------------------------------------------------------------
(***************************************************************************)
(* Properties.                                                             *)
(***************************************************************************)
\* The limiter lets a user pass at most as often as its bucket and rate allow,
\* also when requests reach the lock out of the order of their times; a user
\* whose entry was evicted starts with a new bucket.
PassedWithinRate ==
  ~evicted => passed <= Burst + Rate * clock

\* An instance accepts no more than its capacity and what it has processed
\* since it started, as long as batches take the lock in the order of their
\* times.  (A batch that is late sets lastUpdatedAt back, and the time in
\* between is settled once more.)
AcceptedWithinCapacity ==
  ~late => app.accepted <= MaxLoad + app.speed * (clock - app.born)

\* The units that answers have reported, each with its batch.
AnsweredUnits == UNION {{b} \X (1..batch[b].accepted) : b \in Batches}

\* Units are recorded in order_stats before they are answered, and without
\* failing writes nothing else is recorded.
RecordedBeforeAnswered ==
  /\ Cardinality(AnsweredUnits) <= stats
  /\ disturbed = 0 => Cardinality(AnsweredUnits) = stats

\* The balancer knows the latest load it was told of, in whatever order the
\* answers come back: while an answer is fresh, no observation is older than it;
\* and a load other than zero is one that an answer has reported for that very
\* time.  (A sample takes an instance with another container for idle, and it
\* may do so with a time before the last answer's; from then on the time of the
\* observation says nothing about earlier answers.)
LatestLoadObserved ==
  /\ ~setBack =>
       \A b \in Batches : batch[b].pc = "done" =>
         batch[b].at <= metric.at \/ clock - batch[b].at > MetricFreshness
  /\ metric.load # 0 =>
       \E b \in Batches :
         batch[b].pc = "done" /\ batch[b].at = metric.at /\ batch[b].load = metric.load
=============================================================================
