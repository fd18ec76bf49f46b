----------------------------- MODULE PacketMetrics -----------------------------
(***************************************************************************)
(* From packets heard to the numbers on the dashboard: the counters of     *)
(* ServiceHealth, the samples MetricsSampler writes once per interval, the *)
(* pruning, and the queries over the samples.                              *)
(*                                                                         *)
(* The unit of time is the sample interval.  A process may die at any time *)
(* and begins again with counters at zero; the samples are in SQLite.      *)
(***************************************************************************)
EXTENDS MqttPublish

CONSTANTS
  Codes, BucketOf(_),         \* packet types, and the display bucket of each
  Buckets,
  RetentionMs, OneDayMs,
  Ladder, MaxBuckets,         \* BUCKET_WIDTH_LADDER_MS, maxChartBuckets
  NoSnapshot,
  MaxTime,
  MaxFaults    \* bound on failed writes and restarts together

Snapshots == [received : Nat, byType : [Codes -> Nat], deliveries : [Brokers -> [Outcomes -> Nat]]]

ASSUME MetricsAssumption ==
  /\ \A c \in Codes : BucketOf(c) \in Buckets
  /\ IsFiniteSet(Codes) /\ IsFiniteSet(Buckets)
  /\ RetentionMs \in Nat /\ OneDayMs \in Nat \ {0} /\ MaxBuckets \in Nat \ {0}
  /\ IsFiniteSet(Ladder) /\ Ladder \subseteq Nat
  /\ NoSnapshot \notin Snapshots

SampleIntervalMs == 1

VARIABLES
  now,
  packetsReceived, packetsByType,   \* the counters of this process
  lastSnapshot,
  lastPrunedAt,                     \* -1 for null
  samples,                          \* the rows in the store
  pruneFailed,                      \* history: did the last pruning fail?
  truth,                            \* history: packets received in all
  unsaved,                          \* history: of these, lost with a process or a failed write
  saved,                            \* history: every sample ever written
  faults

healthVars == <<packetsReceived, packetsByType, truth>>
sampleVars == <<lastSnapshot, lastPrunedAt, samples, pruneFailed, unsaved, saved, faults>>
vars == <<publishVars, healthVars, sampleVars, now>>

Init ==
  /\ PublishInit
  /\ now = 0
  /\ packetsReceived = 0 /\ packetsByType = [c \in Codes |-> 0]
  /\ lastSnapshot = NoSnapshot /\ lastPrunedAt = -1 /\ samples = {}
  /\ pruneFailed = FALSE /\ faults = 0
  /\ truth = 0 /\ unsaved = 0 /\ saved = {}

-----------------------------------------------------------------------------
SumOver(f) == MapThenSumSet(LAMBDA x : f[x], DOMAIN f)

\* A raw packet; it decodes to a packet of type c and is published.
Hear(p, c) ==
  /\ IsNext(p) /\ \E connected \in SUBSET Brokers : Publish(p, connected)
  /\ packetsReceived' = packetsReceived + 1 /\ truth' = truth + 1
  /\ packetsByType' = [packetsByType EXCEPT ![c] = @ + 1]
  /\ UNCHANGED <<sampleVars, now>>

\* A raw packet that does not decode; it takes one of the bounded packets.
HearNoise(p) ==
  /\ IsNext(p) /\ attempt' = [attempt EXCEPT ![p] = Over]
  /\ packetsReceived' = packetsReceived + 1 /\ truth' = truth + 1
  /\ UNCHANGED <<recorded, deliveries, packetsByType, sampleVars, now>>

Delivered ==
  /\ \E p \in Packets : Record(p)
  /\ UNCHANGED <<healthVars, sampleVars, now>>

Snapshot == [received |-> packetsReceived, byType |-> packetsByType, deliveries |-> deliveries]

Zero == [received |-> 0, byType |-> [c \in Codes |-> 0], deliveries |-> NoDeliveries]

\* Mutation of Previous: the first deltas of a process leave out what came in
\* before the first sample.
PreviousOrSame == IF lastSnapshot = NoSnapshot THEN Snapshot ELSE lastSnapshot

Previous == IF lastSnapshot = NoSnapshot THEN Zero ELSE lastSnapshot

\* bucketPacketsByType: types that share a bucket are added up.
BucketSum(byType, b) == SumOver([c \in {c \in Codes : BucketOf(c) = b} |-> byType[c]])

ComputeSampleDelta(at) ==
  LET byType == [c \in Codes |-> packetsByType[c] - Previous.byType[c]]
  IN [sampleAt |-> at,
      received |-> packetsReceived - Previous.received,
      decoded |-> SumOver(packetsByType) - SumOver(Previous.byType),
      byType |-> [b \in Buckets |-> BucketSum(byType, b)],
      deliveries |-> [b \in Brokers |-> [o \in Outcomes |->
                        deliveries[b][o] - Previous.deliveries[b][o]]]]

\* Mutation of PruneTime: every look at the clock counts as a pruning.
PruneLooked(at, due) == at

PruneTime(at, due) == IF due THEN at ELSE lastPrunedAt

\* At most once a day, also when it fails.
PruneDue(at) == RetentionMs > 0 /\ (lastPrunedAt = -1 \/ at - lastPrunedAt >= OneDayMs)

Kept(rows, at) == {row \in rows : row.sampleAt >= at - RetentionMs}

\* One firing of the interval: sample, prune, remember the snapshot.  Either
\* write is a transaction and may fail as a whole; the deltas of a sample that
\* could not be written are not tried again.
SampleTick(wrote, swept) ==
  LET at == now + 1
      due == PruneDue(at)
      sample == ComputeSampleDelta(at)
      rows == IF wrote THEN samples \cup {sample} ELSE samples
  IN /\ at <= MaxTime /\ now' = at
     /\ faults' = faults + (IF wrote THEN 0 ELSE 1) + (IF swept THEN 0 ELSE 1)
     /\ faults' <= MaxFaults /\ (due \/ swept)
     /\ samples' = IF due /\ swept THEN Kept(rows, at) ELSE rows
     /\ saved' = IF wrote THEN saved \cup {sample} ELSE saved
     /\ unsaved' = unsaved + (IF wrote THEN 0 ELSE sample.received)
     /\ pruneFailed' = IF due THEN ~swept ELSE pruneFailed
     /\ lastPrunedAt' = PruneTime(at, due)
     /\ lastSnapshot' = Snapshot
     /\ UNCHANGED <<publishVars, healthVars>>

\* The process ends, with or without shutdown() (which takes no last sample
\* either), and another one begins some time later.
Restart(pause) ==
  /\ faults < MaxFaults /\ now + pause <= MaxTime
  /\ faults' = faults + 1 /\ now' = now + pause
  /\ Forget
  /\ packetsReceived' = 0 /\ packetsByType' = [c \in Codes |-> 0]
  /\ unsaved' = unsaved + packetsReceived - Previous.received
  /\ lastSnapshot' = NoSnapshot /\ lastPrunedAt' = -1 /\ pruneFailed' = FALSE
  /\ UNCHANGED <<truth, samples, saved>>

Next ==
  \/ \E p \in Packets : HearNoise(p) \/ \E c \in Codes : Hear(p, c)
  \/ Delivered
  \/ \E wrote, swept \in BOOLEAN : SampleTick(wrote, swept)
  \/ \E pause \in 0 .. MaxTime : Restart(pause)

Spec == Init /\ [][Next]_vars

-----------------------------------------------------------------------------
(* The queries over [start, end).                                           *)

Within(rows, start, end) == {row \in rows : start <= row.sampleAt /\ row.sampleAt < end}

Received(rows) == SumOver([row \in rows |-> row.received])

Decoded(rows) == SumOver([row \in rows |-> row.decoded])

OfBucket(rows, b) == SumOver([row \in rows |-> row.byType[b]])

DeliveriesOf(rows, b, o) == SumOver([row \in rows |-> row.deliveries[b][o]])

QueryPacketTotals(start, end) ==
  LET rows == Within(samples, start, end)
  IN [received |-> Received(rows), decoded |-> Decoded(rows)]

QueryPacketTypeTotals(start, end) ==
  [b \in Buckets |-> OfBucket(Within(samples, start, end), b)]

\* queryBrokerDeliveryTotals() with the zeros of #queryDashboardBrokers().
QueryDashboardBrokers(rows) ==
  [b \in Brokers |-> [o \in Outcomes |-> DeliveriesOf(rows, b, o)]]

\* The largest rung below which the number of buckets stays in bounds, or
\* the next multiple of the last rung.
Rungs == {SampleIntervalMs} \cup {rung \in Ladder : rung > SampleIntervalMs}

\* Mutation of WideEnough: compares with the number of whole rungs.
WideRounded(rung, range) == rung >= range \div MaxBuckets

WideEnough(rung, range) == rung * MaxBuckets >= range

ResolveBucketWidth(range) ==
  LET fitting == {rung \in Rungs : WideEnough(rung, range)}
      share == Max(Rungs) * MaxBuckets
  IN IF fitting # {} THEN Min(fitting)
     ELSE ((range + share - 1) \div share) * Max(Rungs)

\* GROUP BY bucket_idx: for each bucket that has a sample, its totals.
QueryPacketHistory(start, end) ==
  LET width == ResolveBucketWidth(end - start)
      rows == Within(samples, start, end)
      Index(row) == (row.sampleAt - start) \div width
  IN [i \in {Index(row) : row \in rows} |->
        LET mine == {row \in rows : Index(row) = i}
        IN [received |-> Received(mine), decoded |-> Decoded(mine),
            byType |-> [b \in Buckets |-> OfBucket(mine, b)]]]

\* The numbers of the overview over [start, end), from whatever rows.
Numbers(rows, start, end) ==
  LET mine == Within(rows, start, end)
      brokers == QueryDashboardBrokers(mine)
      All(o) == SumOver([b \in Brokers |-> brokers[b][o]])
  IN [received |-> Received(mine), decoded |-> Decoded(mine),
      brokerSent |-> All("sent"), brokerFailed |-> All("failed")]

Change(rows, start, end) ==
  LET previous == Numbers(rows, start - (end - start), start)
      current == Numbers(rows, start, end)
  IN [n \in DOMAIN current |-> current[n] - previous[n]]

EarliestSampleAt == Min({row.sampleAt : row \in samples})

\* Mutation of IsCompared: the window itself is covered by samples.
WindowIsCovered(start, end) == samples # {} /\ start >= EarliestSampleAt

\* #handleDashboard: the period before the window begins with a sample or
\* later.  (The range "all" is not compared.)
IsCompared(start, end) == samples # {} /\ start - (end - start) >= EarliestSampleAt

\* #queryDashboardView of the overview: its trends, if there are any.
Trends(start, end) == IF IsCompared(start, end) THEN {Change(samples, start, end)} ELSE {}

-----------------------------------------------------------------------------
(* Properties.                                                              *)

\* Every packet heard was counted in exactly one place: in a sample that was
\* saved, with a process or a failed write, or in the one that is due next.
EveryPacketOnce ==
  truth = Received(saved) + unsaved + (packetsReceived - Previous.received)

\* Unless pruning failed, no sample outlives the retention by more than the
\* day between two prunings, also after the observer was down for longer.
OldSamplesGo ==
  RetentionMs > 0 /\ lastSnapshot # NoSnapshot /\ ~pruneFailed =>
    \A row \in samples : now - row.sampleAt < RetentionMs + OneDayMs

\* The chart, the pie and the totals of a window tell the same numbers, and
\* the chart has at most maxChartBuckets buckets.
Agree(start, end) ==
  LET history == QueryPacketHistory(start, end)
      totals == QueryPacketTotals(start, end)
      types == QueryPacketTypeTotals(start, end)
  IN /\ DOMAIN history \subseteq 0 .. MaxBuckets - 1
     /\ SumOver([i \in DOMAIN history |-> history[i].received]) = totals.received
     /\ SumOver(types) = totals.decoded
     /\ \A b \in Buckets : SumOver([i \in DOMAIN history |-> history[i].byType[b]]) = types[b]

\* That is so of any window that ends when it is asked for, which is before the
\* next sample; it may begin before the first one.  (EveryWindowAgrees proves
\* it of windows that end earlier as well.)
ChartsAgree == \A start \in -1 .. now : Agree(start, now + 1)

\* A trend compares with a period of which nothing has been pruned: it is the
\* change in all that was ever saved, whenever the pruning ran or failed and
\* for however long the observer was down.
TrendsAreComplete ==
  \A start \in 0 .. now : \A end \in start + 1 .. now :
    \A trend \in Trends(start, end) : trend = Change(saved, start, end)
=============================================================================
