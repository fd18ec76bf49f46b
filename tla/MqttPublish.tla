------------------------------ MODULE MqttPublish ------------------------------
(***************************************************************************)
(* MqttManager#publish: one packet to every broker, independently; and the *)
(* outcomes that ServiceHealth counts per broker.  A broker is connected   *)
(* or not (TokenBroker says how it comes to be); here it only matters that *)
(* this changes while packets are on their way.                            *)
(***************************************************************************)
EXTENDS Integers, FiniteSets, FiniteSetsExt

CONSTANTS NumBrokers, NumPackets

Brokers == 1 .. NumBrokers   \* the configured list
Packets == 1 .. NumPackets   \* bound on packets
Outcomes == {"sent", "skipped", "failed"}

ASSUME PublishAssumption == NumBrokers \in Nat \ {0} /\ NumPackets \in Nat

VARIABLES
  attempt,      \* per packet and broker: "none", "skipped", "pending", "fulfilled",
                \* "rejected"; "over" for packets never published or of an earlier process
  recorded,     \* packets whose outcomes ServiceHealth has
  deliveries    \* #brokerDeliveries

publishVars == <<attempt, recorded, deliveries>>

NoDeliveries == [b \in Brokers |-> [o \in Outcomes |-> 0]]

PublishInit ==
  /\ attempt = [p \in Packets |-> [b \in Brokers |-> "none"]]
  /\ recorded = {}
  /\ deliveries = NoDeliveries

\* The packets come in order.
IsNext(p) == \A q \in Packets : attempt[q][1] = "none" <=> q >= p

\* Every attempt starts at once; a broker that is not connected gets none.
Publish(p, connected) ==
  /\ attempt' = [attempt EXCEPT ![p] =
                   [b \in Brokers |-> IF b \in connected THEN "pending" ELSE "skipped"]]
  /\ UNCHANGED <<recorded, deliveries>>

Started(row) == {b \in Brokers : row[b] # "skipped"}

\* What Promise.allSettled returns: the started attempts, in order.
SettledOf(row) ==
  [k \in 1 .. Cardinality(Started(row)) |->
     row[CHOOSE b \in Started(row) : Cardinality({c \in Started(row) : c <= b}) = k]]

\* Mutation of SettledIndex: it is not moved on.
IndexStays(row, b) == 1

\* settledIndex is moved on by every started attempt before this one.
SettledIndex(row, b) == Cardinality({c \in Started(row) : c < b}) + 1

Outcome(row, b) ==
  IF row[b] = "skipped" THEN "skipped"
  ELSE IF SettledOf(row)[SettledIndex(row, b)] = "rejected" THEN "failed" ELSE "sent"

\* A packet that is not published, or belongs to a process that is gone.
Over == [b \in Brokers |-> "over"]

Forget ==
  /\ attempt' = [p \in Packets |-> IF \E b \in Brokers : attempt[p][b] # "none" THEN Over ELSE attempt[p]]
  /\ recorded' = {} /\ deliveries' = NoDeliveries

\* All have settled, each in its way: the outcomes are counted in one go.
Record(p) ==
  /\ \E b \in Brokers : attempt[p][b] \notin {"none", "over"}
  /\ p \notin recorded
  /\ \E result \in [Brokers -> {"fulfilled", "rejected"}] :
       LET row == [b \in Brokers |-> IF attempt[p][b] = "pending" THEN result[b] ELSE attempt[p][b]]
       IN /\ attempt' = [attempt EXCEPT ![p] = row]
          /\ deliveries' = [b \in Brokers |-> [deliveries[b] EXCEPT ![Outcome(row, b)] = @ + 1]]
  /\ recorded' = recorded \cup {p}

-----------------------------------------------------------------------------
Ended == [sent |-> "fulfilled", skipped |-> "skipped", failed |-> "rejected"]

\* What is counted for a broker is what happened at that broker, although the
\* outcomes of a packet come as one list without the skipped ones.
DeliveriesAreTrue ==
  \A b \in Brokers, o \in Outcomes :
    deliveries[b][o] = Cardinality({p \in recorded : attempt[p][b] = Ended[o]})
=============================================================================
