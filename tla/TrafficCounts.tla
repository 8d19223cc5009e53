--------------------------- MODULE TrafficCounts ----------------------------
(***************************************************************************)
(* Theorems about what is counted in Traffic: the entries of the limiter   *)
(* and the recorded units.                                                 *)
(***************************************************************************)
EXTENDS TrafficProofs, FiniteSetTheorems, WellFoundedInduction

\* A full limiter has an oldest entry.
LEMMA OldestIsAnEntry ==
  ASSUME TrafficTypes, DOMAIN buckets # {}
  PROVE  Oldest \in DOMAIN buckets
<1> DEFINE R == OpToRel(<, Nat)
           S == {buckets[u].seen : u \in DOMAIN buckets}
<1>1. IsWellFoundedOn(R, Nat) BY NatLessThanWellFounded
<1>2. S \subseteq Nat /\ S # {} BY DEF TrafficTypes, Buckets
<1>3. \A a, c \in Nat : a < c => <<a, c>> \in R BY DEF OpToRel
<1> HIDE DEF R
<1>4. PICK s \in S : \A t \in S : <<t, s>> \notin R BY <1>1, <1>2, WFMin
<1>5. PICK u \in DOMAIN buckets : buckets[u].seen = s BY <1>4
<1>6. ASSUME NEW v \in DOMAIN buckets PROVE buckets[u].seen <= buckets[v].seen
  <2>1. buckets[v].seen \in S BY <1>6
  <2>2. ~(buckets[v].seen < s) BY <1>2, <1>3, <1>4, <2>1
  <2> QED BY <1>2, <1>4, <1>5, <2>1, <2>2
<1> QED BY <1>5, <1>6 DEF Oldest

\* A new entry displaces another when there is no room for it.
EntriesBounded ==
  IsFiniteSet(DOMAIN buckets) /\ Cardinality(DOMAIN buckets) <= MaxEntries

LEMMA AllowKeepsBound ==
  ASSUME TrafficTypes, EntriesBounded, NEW u, NEW now, Allow(u, now)
  PROVE  EntriesBounded'
<1>1. MaxEntries \in Nat /\ MaxEntries >= 1 BY TrafficAssumption
<1>2. DOMAIN buckets' = (DOMAIN buckets \ EvictionFor(u)) \cup {u} BY DEF Allow
<1>3. IsFiniteSet(DOMAIN buckets) /\ Cardinality(DOMAIN buckets) \in Nat
      /\ Cardinality(DOMAIN buckets) <= MaxEntries
  BY FS_CardinalityType DEF EntriesBounded
<1>4. CASE u \in DOMAIN buckets
  <2>1. DOMAIN buckets' = DOMAIN buckets BY <1>2, <1>4 DEF EvictionFor
  <2> QED BY <1>3, <2>1 DEF EntriesBounded
<1>5. CASE u \notin DOMAIN buckets /\ Cardinality(DOMAIN buckets) < MaxEntries
  <2>1. DOMAIN buckets' = DOMAIN buckets \cup {u} BY <1>1, <1>2, <1>3, <1>5 DEF EvictionFor
  <2>2. IsFiniteSet(DOMAIN buckets') /\ Cardinality(DOMAIN buckets') = Cardinality(DOMAIN buckets) + 1
    BY <1>3, <1>5, <2>1, FS_AddElement
  <2> QED BY <1>1, <1>3, <1>5, <2>2 DEF EntriesBounded
<1>6. CASE u \notin DOMAIN buckets /\ Cardinality(DOMAIN buckets) >= MaxEntries
  <2>1. DOMAIN buckets # {} BY <1>1, <1>3, <1>6, FS_EmptySet
  <2>2. Oldest \in DOMAIN buckets BY <2>1, OldestIsAnEntry
  <2> DEFINE rest == DOMAIN buckets \ {Oldest}
  <2>3. DOMAIN buckets' = rest \cup {u} BY <1>2, <1>6 DEF EvictionFor
  <2>4. IsFiniteSet(rest) /\ Cardinality(rest) = Cardinality(DOMAIN buckets) - 1
    BY <1>3, <2>2, FS_RemoveElement
  <2>5. u \notin rest BY <1>6
  <2> HIDE DEF rest
  <2>6. IsFiniteSet(DOMAIN buckets') /\ Cardinality(DOMAIN buckets') = Cardinality(rest) + 1
    BY <2>3, <2>4, <2>5, FS_AddElement
  <2> QED BY <1>3, <2>4, <2>6 DEF EntriesBounded
<1> QED BY <1>1, <1>3, <1>4, <1>5, <1>6

LEMMA EntriesInvariant == TrafficSpec => []EntriesBounded
<1>1. TrafficInit => EntriesBounded
  <2> SUFFICES ASSUME TrafficInit PROVE EntriesBounded
    OBVIOUS
  <2>1. DOMAIN buckets = {} BY DEF TrafficInit
  <2> QED BY <2>1, FS_EmptySet, TrafficAssumption DEF EntriesBounded
<1>2. TrafficInv /\ EntriesBounded /\ [TrafficNext]_trafficVars => EntriesBounded'
  <2> SUFFICES ASSUME TrafficTypes, EntriesBounded, [TrafficNext]_trafficVars PROVE EntriesBounded'
    BY DEF TrafficInv
  <2>1. (\E u, now : Allow(u, now)) \/ buckets' = buckets
    BY DEF TrafficNext, Arrive, Submit, Deliver, Process, Return, GiveUp, OtherSubmit,
           ReplaceContainer, RecordContainer, ClockTick, ListLab, SampleLoad, ForgetMetric,
           elsewhere, trafficVars
  <2>2. CASE buckets' = buckets BY <2>2 DEF EntriesBounded
  <2> QED BY <2>1, <2>2, AllowKeepsBound
<1> QED BY <1>1, <1>2, TrafficInvariant, PTL DEF TrafficSpec

LEMMA UnitsFinite ==
  ASSUME TrafficTypes
  PROVE  IsFiniteSet(AnsweredUnits) /\ Cardinality(AnsweredUnits) \in Nat
<1>1. IsFiniteSet(Batches) /\ IsFiniteSet(1..MaxLoad)
  BY TrafficAssumption, FS_Interval DEF Batches
<1>2. IsFiniteSet(Batches \X (1..MaxLoad)) BY <1>1, FS_Product
<1>3. ASSUME NEW b \in Batches PROVE {b} \X (1..batch[b].accepted) \subseteq Batches \X (1..MaxLoad)
  BY TrafficAssumption DEF TrafficTypes, BatchRecords
<1>4. AnsweredUnits \subseteq Batches \X (1..MaxLoad) BY <1>3 DEF AnsweredUnits
<1>5. IsFiniteSet(AnsweredUnits) BY <1>2, <1>4, FS_Subset
<1> QED BY <1>5, FS_CardinalityType

\* An answer adds the units it reports.
LEMMA UnitsAdded ==
  ASSUME TrafficTypes, NEW b \in Batches, batch[b].accepted = 0,
         NEW n \in Nat, batch'[b].accepted = n,
         \A c \in Batches \ {b} : batch'[c] = batch[c]
  PROVE  Cardinality(AnsweredUnits') = Cardinality(AnsweredUnits) + n
<1> DEFINE new == {b} \X (1..n)
<1>1. AnsweredUnits' = AnsweredUnits \cup new
  <2>1. ASSUME NEW x PROVE x \in AnsweredUnits' <=> x \in AnsweredUnits \cup new
    <3>1. x \in AnsweredUnits' <=> \E c \in Batches : x \in {c} \X (1..batch'[c].accepted)
      BY DEF AnsweredUnits
    <3>2. x \in AnsweredUnits <=> \E c \in Batches : x \in {c} \X (1..batch[c].accepted)
      BY DEF AnsweredUnits
    <3>3. {b} \X (1..batch[b].accepted) = {} OBVIOUS
    <3> QED BY <3>1, <3>2, <3>3
  <2> QED BY <2>1
<1>2. AnsweredUnits \cap new = {}
  BY DEF AnsweredUnits
<1>3. IsFiniteSet(new) /\ Cardinality(new) = n
  <2>1. IsFiniteSet({b}) /\ Cardinality({b}) = 1 BY FS_Singleton
  <2>2. IsFiniteSet(1..n) /\ Cardinality(1..n) = n BY FS_Interval
  <2> DEFINE one == {b}
             many == 1..n
  <2>3. IsFiniteSet(one) /\ Cardinality(one) = 1 /\ IsFiniteSet(many) /\ Cardinality(many) = n
    BY <2>1, <2>2
  <2> HIDE DEF one, many
  <2>4. IsFiniteSet(one \X many) /\ Cardinality(one \X many) = Cardinality(one) * Cardinality(many)
    BY <2>3, FS_Product
  <2> QED BY <2>3, <2>4 DEF one, many
<1>4. IsFiniteSet(AnsweredUnits) /\ Cardinality(AnsweredUnits) \in Nat BY UnitsFinite
<1> HIDE DEF new
<1>5. Cardinality(AnsweredUnits \cup new)
        = Cardinality(AnsweredUnits) + Cardinality(new) - Cardinality(AnsweredUnits \cap new)
  BY <1>3, <1>4, FS_Union
<1>6. Cardinality(AnsweredUnits \cap new) = 0 BY <1>2, FS_EmptySet
<1> QED BY <1>1, <1>3, <1>4, <1>5, <1>6

\* Every step but an answer leaves the units that answers have reported alone.
LEMMA RecordedInductive ==
  TrafficInv /\ RecordedBeforeAnswered /\ [TrafficNext]_trafficVars => RecordedBeforeAnswered'
<1> SUFFICES ASSUME TrafficInv, RecordedBeforeAnswered, [TrafficNext]_trafficVars
             PROVE  RecordedBeforeAnswered'
  OBVIOUS
<1>1. TrafficTypes /\ AcceptedWhenProcessed /\ disturbed \in Nat /\ stats \in Nat
  BY DEF TrafficInv, TrafficTypes
<1>2. Cardinality(AnsweredUnits) \in Nat BY <1>1, UnitsFinite
<1>3. ASSUME \A c \in Batches : batch'[c].accepted = batch[c].accepted,
             stats' \in Nat, stats' >= stats, disturbed' \in Nat,
             disturbed' = 0 => stats' = stats /\ disturbed = 0
      PROVE  RecordedBeforeAnswered'
  <2>1. AnsweredUnits' = AnsweredUnits BY <1>3 DEF AnsweredUnits
  <2> QED BY <1>1, <1>2, <1>3, <2>1 DEF RecordedBeforeAnswered
<1>4. ASSUME NEW b \in Batches, NEW r, Move(b, r), r.accepted = batch[b].accepted
      PROVE  \A c \in Batches : batch'[c].accepted = batch[c].accepted
  BY <1>1, <1>4 DEF Move, TrafficTypes
<1>5. ASSUME NEW b \in Batches, Process(b) PROVE RecordedBeforeAnswered'
  <2>1. batch[b].pc = "received" /\ batch[b].accepted = 0
    BY <1>1, <1>5 DEF Process, AcceptedWhenProcessed
  <2> DEFINE n == AcceptedUnits(b)
  <2>2. n \in Nat BY SettledLoad DEF TrafficInv
  <2> HIDE DEF n
  <2>3. CASE Move(b, Answered(b)) /\ stats' = stats + n /\ disturbed' = disturbed
    <3>1. batch'[b].accepted = n /\ \A c \in Batches \ {b} : batch'[c] = batch[c]
      BY <1>1, <2>3 DEF Move, Answered, TrafficTypes, BatchRecords, n
    <3>2. Cardinality(AnsweredUnits') = Cardinality(AnsweredUnits) + n
      BY <1>1, <2>1, <2>2, <3>1, UnitsAdded
    <3> QED BY <1>1, <1>2, <2>2, <2>3, <3>2 DEF RecordedBeforeAnswered
  <2>4. CASE Move(b, Over(b, "failed")) /\ \/ Disturbance /\ stats' \in {stats, stats + n}
                                           \/ UNCHANGED <<stats, disturbed>>
    <3>1. \A c \in Batches : batch'[c].accepted = batch[c].accepted
      BY <1>1, <1>4, <2>4, OverRecord
    <3>2. stats' \in Nat /\ stats' >= stats /\ disturbed' \in Nat
          /\ (disturbed' = 0 => stats' = stats /\ disturbed = 0)
      BY <1>1, <2>2, <2>4 DEF Disturbance
    <3> QED BY <1>3, <3>1, <3>2
  <2> QED BY <1>5, <2>3, <2>4 DEF Process, n
<1>6. ASSUME NEW b \in Batches,
             (\E n \in Units : Arrive(b, n)) \/ Submit(b) \/ Deliver(b) \/ Return(b) \/ GiveUp(b)
      PROVE  RecordedBeforeAnswered'
  <2>1. batch[b] \in BatchRecords BY <1>1 DEF TrafficTypes
  <2>2. \A pc \in {"refused", "failed", "done"} : Over(b, pc).accepted = batch[b].accepted
    BY OverRecord
  <2>3. PICK r : Move(b, r) /\ r.accepted = batch[b].accepted
    <3>1. ASSUME NEW n \in Units, Arrive(b, n) PROVE \E r : Move(b, r) /\ r.accepted = batch[b].accepted
      <4> DEFINE r == [batch[b] EXCEPT !.pc = "arrived", !.at = clock, !.units = n]
      <4>1. Move(b, r) /\ r.accepted = batch[b].accepted BY <2>1, <3>1 DEF Arrive, BatchRecords
      <4> HIDE DEF r
      <4> QED BY <4>1
    <3>2. ASSUME Submit(b) PROVE \E r : Move(b, r) /\ r.accepted = batch[b].accepted
      <4> DEFINE sent == [batch[b] EXCEPT !.pc = "sent", !.seen = row]
                 r == IF Allowed(User, batch[b].at) THEN sent ELSE Over(b, "refused")
      <4>1. sent.accepted = batch[b].accepted BY <2>1 DEF BatchRecords
      <4>2. Move(b, r) /\ r.accepted = batch[b].accepted BY <2>2, <3>2, <4>1 DEF Submit
      <4> HIDE DEF r
      <4> QED BY <4>2
    <3>3. ASSUME Deliver(b) PROVE \E r : Move(b, r) /\ r.accepted = batch[b].accepted
      <4> DEFINE r == [batch[b] EXCEPT !.pc = "received", !.at = clock, !.to = app.id]
      <4>1. Move(b, r) /\ r.accepted = batch[b].accepted BY <2>1, <3>3 DEF Deliver, BatchRecords
      <4> HIDE DEF r
      <4> QED BY <4>1
    <3>4. ASSUME Return(b) PROVE \E r : Move(b, r) /\ r.accepted = batch[b].accepted
      BY <2>2, <3>4 DEF Return
    <3>5. ASSUME GiveUp(b) PROVE \E r : Move(b, r) /\ r.accepted = batch[b].accepted
      BY <2>1, <2>2, <3>5 DEF GiveUp, BatchRecords
    <3> QED BY <1>6, <3>1, <3>2, <3>3, <3>4, <3>5
  <2>4. stats' = stats /\ (disturbed' = disturbed \/ disturbed' = disturbed + 1)
    BY <1>6 DEF Arrive, Submit, Deliver, Return, GiveUp, Disturbance
  <2> QED BY <1>1, <1>3, <1>4, <2>3, <2>4
<1>7. ASSUME batch' = batch, stats' = stats, disturbed' = disturbed \/ disturbed' = disturbed + 1
      PROVE  RecordedBeforeAnswered'
  BY <1>1, <1>3, <1>7
<1>8. CASE ListLab \/ SampleLoad \/ ForgetMetric
  BY <1>7, <1>8 DEF ListLab, SampleLoad, ForgetMetric, elsewhere
<1> QED
  BY <1>5, <1>6, <1>7, <1>8
  DEF TrafficNext, OtherSubmit, ReplaceContainer, RecordContainer, ClockTick, Disturbance, trafficVars

\* Types; in whatever order batches and users come, the limiter never holds
\* more entries than MaxEntries nor a bucket more tokens than Burst, and the
\* load of an instance stays between 0 and MaxLoad.
THEOREM TrafficWellTyped == TrafficSpec => []TrafficTypeOK
<1>1. TrafficInv /\ EntriesBounded => TrafficTypeOK
  BY DEF TrafficInv, TrafficTypes, BucketBounds, EntriesBounded, TrafficTypeOK, BatchRecords,
         Metrics
<1> QED BY <1>1, TrafficInvariant, EntriesInvariant, PTL

\* Process writes order_stats before it answers: whatever write fails, answer
\* is lost or client gives up, the table has at least the units that answers
\* have reported, and exactly those as long as nothing of this happens.
THEOREM AnswersAreRecorded == TrafficSpec => []RecordedBeforeAnswered
<1>1. TrafficInit => RecordedBeforeAnswered
  <2> SUFFICES ASSUME TrafficInit PROVE RecordedBeforeAnswered
    OBVIOUS
  <2>1. \A b \in Batches : 1..batch[b].accepted = {} BY DEF TrafficInit, NewBatch
  <2>2. AnsweredUnits = {} BY <2>1 DEF AnsweredUnits
  <2> QED BY <2>2, FS_EmptySet DEF RecordedBeforeAnswered, TrafficInit
<1> QED BY <1>1, RecordedInductive, TrafficInvariant, PTL DEF TrafficSpec

=============================================================================
