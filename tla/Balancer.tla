------------------------------ MODULE Balancer ------------------------------
(***************************************************************************)
(* The adaptive balancer of platform-api and one cluster lab: the          *)
(* controller's memory of the lab, the samples it takes, the weights it    *)
(* computes from processing speeds and smoothed loads, and the weight      *)
(* operations it queues beside those of the user.                          *)
(*                                                                         *)
(* Instance app-i is the number i; a container is the number of the user's *)
(* change that created it.  A metric is the smoothed load ratio of a       *)
(* container in twentieths, chosen by the environment: decay and smoothing *)
(* are left out.  A sample is two steps, the list it reads and what it     *)
(* does with it, and the user's operations may end in between.  Time is    *)
(* counted in sample intervals that remain until the next retry.           *)
(***************************************************************************)
EXTENDS Integers, Sequences, FiniteSets, FiniteSetsExt, Functions, TLC

CONSTANTS
  BalancerInstances,   \* the highest instance number
  Speeds,              \* processing speeds of instances
  Ratios,              \* smoothed load ratios, in twentieths
  FixedWeights,        \* weights a user may ask for
  StableSamples,
  FailureBackoff,      \* delays, in sample intervals
  MaxChanges,          \* bound: user operations
  MaxObservations,     \* bound: changes of the load
  MaxBalancerFaults    \* bound: failing calls, failing operations and restarts

RatioScale == 20

ASSUME BalancerAssumption ==
  /\ BalancerInstances \in Nat \ {0}
  /\ Speeds \subseteq Nat \ {0} /\ Ratios \subseteq 0..RatioScale /\ 0 \in Ratios
  /\ FixedWeights \subseteq 1..100 /\ StableSamples \in Nat \ {0}
  /\ Len(FailureBackoff) > 0 /\ Range(FailureBackoff) \subseteq Nat \ {0}
  /\ {MaxChanges, MaxObservations, MaxBalancerFaults} \subseteq Nat

VARIABLES
  balancing,   \* balancing_mode of the lab; "adaptive" labs in service are listed
  instances,   \* lab_instances, by instance
  queued,      \* the unfinished operation of the lab
  outcome,     \* status of the last adaptive operation
  control,     \* controlState of the lab
  sample,      \* the instances a sample has listed, until it is done
  metrics,     \* metricState, by instance
  changed,     \* whether an operation the controller does not wait for has
               \* ended since it compared the weights
  spent        \* what has been used of the bounds

balancerVars == <<balancing, instances, queued, outcome, control, sample,
                  metrics, changed, spent>>

-----------------------------------------------------------------------------
(***************************************************************************)
(* The algorithm.                                                          *)
(***************************************************************************)
\* Speed and smoothed load ratio of every instance of a lab.
LoadModels ==
  UNION {[S -> [speed : Speeds, ratio : Ratios]] :
           S \in SUBSET (1..BalancerInstances) \ {{}}}

\* The correction of an instance's speed by load, in multiples of
\* 1/(RatioScale * n), between a quarter and seven quarters.
Correction(model, i) ==
  LET n == Cardinality(DOMAIN model)
      ratios == {model[j].ratio : j \in DOMAIN model}
      total == SumFunction([j \in DOMAIN model |-> model[j].ratio])
      balanced == Max(ratios) - Min(ratios) <= RatioScale \div 20
      raw == RatioScale * n + total - n * model[i].ratio
  IN  IF balanced THEN RatioScale * n
      ELSE Min({(7 * RatioScale * n) \div 4, Max({(RatioScale * n) \div 4, raw})})

\* Mutant: the heavier loaded instance gets more weight.
ScoreReversed(model, i) ==
  model[i].speed *
    Correction([j \in DOMAIN model |-> [model[j] EXCEPT !.ratio = RatioScale - @]], i)

Score(model, i) == model[i].speed * Correction(model, i)

Scores == [model \in LoadModels |-> [i \in DOMAIN model |-> Score(model, i)]]

\* Percent of the best score, rounded.
Percentages ==
  [model \in LoadModels |->
     LET score == Scores[model]
         top == Max(Range(score))
     IN  [i \in DOMAIN model |-> Max({1, (200 * score[i] + top) \div (2 * top)})]]

Divided(weight) ==
  LET divisor == Max({d \in 1..100 : \A w \in Range(weight) : w % d = 0})
  IN  [i \in DOMAIN weight |-> weight[i] \div divisor]

TargetWeights == [model \in LoadModels |-> Divided(Percentages[model])]

WeightsOf(inst) == [i \in DOMAIN inst |-> inst[i].weight]

\* No share of the traffic differs by 3 percent or more.
WeightsWithinShareThreshold(weight, target) ==
  LET total == SumFunction(weight)
      goal == SumFunction(target)
  IN  /\ DOMAIN target = DOMAIN weight
      /\ \A i \in DOMAIN weight :
           100 * (weight[i] * goal - target[i] * total)
             \in (1 - 3 * total * goal)..(3 * total * goal - 1)

\* What identifies the instance set and its load model; with the weights it
\* identifies the topology.
Configuration(inst) == [i \in DOMAIN inst |-> <<inst[i].container, inst[i].speed>>]

\* A metric of another container counts as no load.
LoadModel(inst) ==
  [i \in DOMAIN inst |->
     [speed |-> inst[i].speed,
      ratio |-> IF metrics[i].container = inst[i].container THEN metrics[i].ratio ELSE 0]]

-----------------------------------------------------------------------------
(***************************************************************************)
(* State.                                                                  *)
(***************************************************************************)
NoControl == [known |-> FALSE, configuration |-> <<>>, samples |-> 0, stable |-> 0,
              status |-> "converging", target |-> <<>>, operation |-> FALSE,
              failures |-> 0, retry |-> 0]

NotSampling == [on |-> FALSE, seen |-> <<>>]
Nothing == [kind |-> "none", weights |-> <<>>, seen |-> <<>>]
Unspent == [changes |-> 0, observations |-> 0, faults |-> 0]

Row(speed, weight, container) ==
  [speed |-> speed, weight |-> weight, container |-> container]

BalancerInit ==
  /\ balancing \in {"fixed", "adaptive"}
  /\ instances = [i \in {1} |-> Row(Max(Speeds), 100, 0)]
  /\ queued = Nothing /\ outcome = "none"
  /\ control = NoControl /\ sample = NotSampling
  /\ metrics = [i \in 1..BalancerInstances |-> [container |-> 0, ratio |-> 0]]
  /\ changed = FALSE /\ spent = Unspent

\* The tables and the controller's memory are well-typed.
BalancerTypeOK ==
  /\ balancing \in {"fixed", "adaptive"}
  /\ DOMAIN instances \subseteq 1..BalancerInstances /\ instances # <<>>
  /\ \A i \in DOMAIN instances :
       instances[i] \in [speed : Speeds, weight : 1..100, container : 0..MaxChanges]
  /\ queued.kind \in {"none", "user", "adaptive"}
  /\ outcome \in {"none", "pending", "succeeded", "skipped", "failed"}
  /\ control.status \in {"converging", "stable", "degraded"}
  /\ control.samples \in 0..StableSamples /\ control.stable \in 0..StableSamples
  /\ control.failures \in 0..Len(FailureBackoff)
  /\ control.retry \in 0..Max(Range(FailureBackoff))
  /\ changed \in BOOLEAN

Spend(what, max) == spent[what] < max /\ spent' = [spent EXCEPT ![what] = @ + 1]

BalancerFault == Spend("faults", MaxBalancerFaults)

-----------------------------------------------------------------------------
(***************************************************************************)
(* The lab: the user's operations and its load.                            *)
(***************************************************************************)
UserRequest ==
  /\ queued = Nothing
  /\ Spend("changes", MaxChanges)
  /\ queued' = [Nothing EXCEPT !.kind = "user"]
  /\ UNCHANGED <<balancing, instances, outcome, control, sample, metrics, changed>>

\* What an operation of the user may have done to the rows when it ends.
UserChange ==
  \/ balancing' \in {"fixed", "adaptive"} /\ UNCHANGED instances
  \/ /\ UNCHANGED balancing
     /\ \/ \E i \in 1..BalancerInstances \ DOMAIN instances :
             instances' = (i :> Row(Max(Speeds), 100, spent.changes)) @@ instances
        \/ \E i \in DOMAIN instances :
             /\ Cardinality(DOMAIN instances) > 1
             /\ instances' = Restrict(instances, DOMAIN instances \ {i})
        \/ \E i \in DOMAIN instances, s \in Speeds :
             instances' = [instances EXCEPT ![i].speed = s, ![i].container = spent.changes]
        \/ \E i \in DOMAIN instances, w \in FixedWeights :
             balancing = "fixed" /\ instances' = [instances EXCEPT ![i].weight = w]

UserOperationEnds ==
  /\ queued.kind = "user"
  /\ UserChange
  /\ queued' = Nothing
  /\ changed' = TRUE
  /\ UNCHANGED <<outcome, control, sample, metrics, spent>>

\* A traffic answer of a container the instance has or had.
Observe(i, c, k) ==
  /\ Spend("observations", MaxObservations)
  /\ metrics' = [metrics EXCEPT ![i] = [container |-> c, ratio |-> k]]
  /\ UNCHANGED <<balancing, instances, queued, outcome, control, sample, changed>>

\* executeAdaptive and CompleteTopology: the operation is skipped when the
\* topology is not the one it was computed for.
AdjustmentEnds ==
  LET valid == balancing = "adaptive" /\ queued.seen = instances
  IN  /\ queued.kind = "adaptive"
      /\ \/ /\ outcome' = IF valid THEN "succeeded" ELSE "skipped"
            /\ instances' = IF valid THEN [i \in DOMAIN instances |->
                                 [instances[i] EXCEPT !.weight = queued.weights[i]]]
                            ELSE instances
            /\ UNCHANGED spent
         \/ BalancerFault /\ outcome' = "failed" /\ UNCHANGED instances
      /\ queued' = Nothing
      /\ changed' = (changed \/ ~control.operation)
      /\ UNCHANGED <<balancing, control, sample, metrics>>

-----------------------------------------------------------------------------
(***************************************************************************)
(* The controller.                                                         *)
(***************************************************************************)
\* A sample begins; a lab that is not listed is forgotten.
ListAdaptiveLabs ==
  /\ ~sample.on
  /\ IF balancing = "adaptive"
     THEN sample' = [on |-> TRUE, seen |-> instances] /\ UNCHANGED control
     ELSE control' = NoControl /\ UNCHANGED sample
  /\ UNCHANGED <<balancing, instances, queued, outcome, metrics, changed, spent>>

\* failureCount counts no further than the last delay.
Degraded(c) ==
  LET n == Min({c.failures + 1, Len(FailureBackoff)})
  IN  [c EXCEPT !.failures = n, !.retry = FailureBackoff[n], !.status = "degraded"]

\* Mutant: an operation that has succeeded stays the outstanding one.
ConcludedKeepsOperation(c) ==
  CASE outcome = "pending" -> [c EXCEPT !.status = "converging"]
    [] outcome = "succeeded" ->
         [c EXCEPT !.failures = 0, !.retry = 0,
                   !.stable = StableSamples, !.status = "stable"]
    [] outcome = "skipped" -> [c EXCEPT !.samples = 0, !.stable = 0]

\* What the controller makes of an operation that has not failed.
Concluded(c) ==
  CASE outcome = "pending" -> [c EXCEPT !.status = "converging"]
    [] outcome = "succeeded" ->
         [c EXCEPT !.operation = FALSE, !.failures = 0, !.retry = 0,
                   !.stable = StableSamples, !.status = "stable"]
    [] outcome = "skipped" ->
         [c EXCEPT !.operation = FALSE, !.failures = 0, !.retry = 0,
                   !.samples = 0, !.stable = 0, !.status = "converging"]

\* Mutant: samples of the same configuration are counted without end.
SampledUncapped(c, inst) ==
  LET new == Configuration(inst) # c.configuration
  IN  [c EXCEPT !.configuration = Configuration(inst),
                !.samples = IF new THEN 1 ELSE @ + 1,
                !.stable = IF new THEN 0 ELSE @,
                !.target = TargetWeights[LoadModel(inst)]]

\* The configuration is counted in, and the target computed.
Sampled(c, inst) ==
  LET new == Configuration(inst) # c.configuration
  IN  [c EXCEPT !.configuration = Configuration(inst),
                !.samples = IF new THEN 1 ELSE Min({@ + 1, StableSamples}),
                !.stable = IF new THEN 0 ELSE @,
                !.failures = IF new THEN 0 ELSE @,
                !.retry = IF new THEN 0 ELSE @,
                !.target = TargetWeights[LoadModel(inst)]]

Confirmed(c) ==
  [c EXCEPT !.stable = Min({@ + 1, StableSamples}), !.failures = 0, !.retry = 0,
            !.status = IF c.stable + 1 >= StableSamples THEN "stable" ELSE "converging"]

\* Mutant: the rows are not compared with the sample again.
EnqueueAdjustmentUnchecked(c) ==
  /\ control' = IF queued # Nothing THEN [c EXCEPT !.status = "converging"]
                ELSE [c EXCEPT !.status = "converging", !.operation = TRUE]
  /\ IF queued # Nothing THEN UNCHANGED <<queued, outcome>>
     ELSE /\ queued' = [kind |-> "adaptive", weights |-> c.target, seen |-> sample.seen]
          /\ outcome' = "pending"
  /\ UNCHANGED spent

\* Mutant: a busy lab is taken for one whose weights need no change.
EnqueueAdjustmentBusyStable(c) ==
  /\ control' = IF queued # Nothing
                THEN [c EXCEPT !.status = "stable", !.stable = StableSamples]
                ELSE [c EXCEPT !.samples = 0, !.status = "converging"]
  /\ UNCHANGED <<queued, outcome, spent>>

\* The transaction: ErrStale, ErrBusy, or a pending operation.  The target
\* passes validateAdjustmentWeights and is not the weights the rows have.  A
\* failing transaction may have been committed.
EnqueueAdjustment(c) ==
  LET busy == queued # Nothing
      stale == balancing # "adaptive" \/ (~busy /\ instances # sample.seen)
      insert == /\ queued' = [kind |-> "adaptive", weights |-> c.target,
                              seen |-> sample.seen]
                /\ outcome' = "pending"
  IN  \/ /\ stale
         /\ control' = [c EXCEPT !.samples = 0, !.status = "converging"]
         /\ UNCHANGED <<queued, outcome, spent>>
      \/ /\ ~stale /\ busy
         /\ control' = [c EXCEPT !.status = "converging"]
         /\ UNCHANGED <<queued, outcome, spent>>
      \/ /\ ~stale /\ ~busy
         /\ insert
         /\ control' = [c EXCEPT !.status = "converging", !.operation = TRUE]
         /\ UNCHANGED spent
      \/ /\ BalancerFault
         /\ control' = Degraded(c)
         /\ (~stale /\ ~busy /\ insert) \/ UNCHANGED <<queued, outcome>>

Decide(c) ==
  CASE c.samples < StableSamples ->
         /\ control' = [c EXCEPT !.status = "converging"]
         /\ UNCHANGED <<queued, outcome, changed, spent>>
    [] c.samples >= StableSamples /\ WeightsWithinShareThreshold(WeightsOf(sample.seen), c.target) ->
         /\ control' = Confirmed(c)
         /\ changed' = (sample.seen # instances)
         /\ UNCHANGED <<queued, outcome, spent>>
    [] OTHER ->
         /\ UNCHANGED changed
         /\ IF c.retry > 0
            THEN /\ control' = [c EXCEPT !.stable = 0, !.status = "degraded"]
                 /\ UNCHANGED <<queued, outcome, spent>>
            ELSE EnqueueAdjustment([c EXCEPT !.stable = 0])

\* sampleLab for what ListAdaptiveLabs has returned.  When the outstanding
\* operation cannot be read the controller keeps its memory.
SampleLab ==
  LET c == [control EXCEPT !.known = TRUE]
      failed == c.operation /\ outcome = "failed"
  IN  /\ sample.on
      /\ sample' = NotSampling
      /\ UNCHANGED <<balancing, instances, metrics>>
      /\ \/ /\ c.operation /\ ~failed
            /\ control' = Concluded(c)
            /\ UNCHANGED <<queued, outcome, changed, spent>>
         \/ /\ c.operation
            /\ BalancerFault
            /\ UNCHANGED <<control, queued, outcome, changed>>
         \/ /\ c.operation => failed
            /\ \E d \in {Sampled(IF failed THEN [Degraded(c) EXCEPT !.operation = FALSE]
                                ELSE c, sample.seen)} : Decide(d)

SampleInterval ==
  /\ control.retry > 0
  /\ control' = [control EXCEPT !.retry = @ - 1]
  /\ UNCHANGED <<balancing, instances, queued, outcome, sample, metrics, changed, spent>>

\* platform-api restarts: the operation stays, the memory is gone.
BalancerRestart ==
  /\ control # NoControl
  /\ BalancerFault
  /\ control' = NoControl /\ sample' = NotSampling
  /\ metrics' = [i \in DOMAIN metrics |-> [container |-> 0, ratio |-> 0]]
  /\ UNCHANGED <<balancing, instances, queued, outcome, changed>>

BalancerNext ==
  \/ UserRequest \/ UserOperationEnds \/ AdjustmentEnds
  \/ \E i \in DOMAIN instances, c \in 0..spent.changes, k \in Ratios : Observe(i, c, k)
  \/ ListAdaptiveLabs \/ SampleLab \/ SampleInterval \/ BalancerRestart

\* The sampling goroutine, the operation worker and time go on: a sample that
\* has begun ends (with SampleLab, or with the process), and another begins.
SampleEnds == sample.on /\ sample' = NotSampling

BalancerFairness ==
  /\ WF_balancerVars(ListAdaptiveLabs) /\ WF_sample(SampleEnds)
  /\ WF_balancerVars(AdjustmentEnds) /\ WF_balancerVars(UserOperationEnds)
  /\ WF_balancerVars(SampleInterval)

BalancerSpec == BalancerInit /\ [][BalancerNext]_balancerVars /\ BalancerFairness

-----------------------------------------------------------------------------
(***************************************************************************)
(* Properties.                                                             *)
(***************************************************************************)
\* A queued adjustment is about the topology the lab has, from the sample
\* until the worker has applied it: EnqueueAdjustment compares under the lock,
\* and the queue keeps the user's changes out.
PendingAdjustmentCurrent ==
  queued.kind = "adaptive" => balancing = "adaptive" /\ queued.seen = instances

\* What the algorithm computes for the instances and loads of any moment can
\* be queued (validateAdjustmentWeights), follows speed and load (a faster,
\* less loaded instance never gets less), and once applied counts as reached.
TargetsFollowLoad ==
  LET model == LoadModel(instances)
      target == TargetWeights[model]
  IN  /\ Range(target) \subseteq 1..100
      /\ WeightsWithinShareThreshold(target, target)
      /\ \A i, j \in DOMAIN instances :
           model[i].speed >= model[j].speed /\ model[i].ratio <= model[j].ratio
             => target[i] >= target[j]

\* The controller calls a lab stable only when the weights in service are
\* those of its target, up to the threshold, unless the user (or a forgotten
\* operation) has changed the lab since the weights were last compared.
StableMeansApplied ==
  control.known /\ control.status = "stable" /\ ~changed
    => WeightsWithinShareThreshold(WeightsOf(instances), control.target)

\* Once user, load and failures leave the lab alone, the weights in service
\* reach the target for the load, through stale samples, lost answers, failed
\* adjustments, their delays and restarts, and the controller says so.
AdaptiveLabsConverge ==
  <>[](balancing = "adaptive" =>
         /\ control.status = "stable"
         /\ WeightsWithinShareThreshold(
              WeightsOf(instances), TargetWeights[LoadModel(instances)]))
=============================================================================
