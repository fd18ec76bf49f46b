----------------------------- MODULE ReplyDelivery -----------------------------
(***************************************************************************)
(* What the reply queue promises, with the queue left out: a reply waits,  *)
(* may be transmitted while it waits, and gets one final outcome.  The     *)
(* number of transmissions is limited by the faults that happened.         *)
(* ReplyQueue implements it (ReplyQueue!Delivery).                         *)
(***************************************************************************)
EXTENDS Naturals

CONSTANT Replies

VARIABLES outcome,   \* per reply: "none", "pending" or how it ended
          copies,    \* per reply: transmissions
          faults     \* crashes and failed writes so far

vars == <<outcome, copies, faults>>

Waiting == {r \in Replies : outcome[r] = "pending"}

Init ==
  /\ outcome = [r \in Replies |-> "none"]
  /\ copies = [r \in Replies |-> 0]
  /\ faults = 0

Queue(r) ==
  /\ outcome[r] = "none"
  /\ outcome' = [outcome EXCEPT ![r] = "pending"]
  /\ UNCHANGED <<copies, faults>>

\* The first transmission is free, each further one costs a fault.
Transmit(r) ==
  /\ r \in Waiting
  /\ copies[r] <= faults
  /\ copies' = [copies EXCEPT ![r] = @ + 1]
  /\ UNCHANGED <<outcome, faults>>

\* Only a transmitted reply is reported as sent.
Conclude(r, how) ==
  /\ r \in Waiting
  /\ how = "sent" => copies[r] > 0
  /\ outcome' = [outcome EXCEPT ![r] = how]
  /\ UNCHANGED <<copies, faults>>

\* Without faults only replies that never went out expire.
Expire(late) ==
  /\ late # {} /\ late \subseteq Waiting
  /\ \A r \in late : copies[r] <= faults
  /\ outcome' = [r \in Replies |-> IF r \in late THEN "expired" ELSE outcome[r]]
  /\ UNCHANGED <<copies, faults>>

Fault ==
  /\ faults' = faults + 1
  /\ UNCHANGED <<outcome, copies>>

Next ==
  \/ \E r \in Replies : Queue(r) \/ Transmit(r)
  \/ \E r \in Replies, how \in {"sent", "failed"} : Conclude(r, how)
  \/ \E late \in SUBSET Replies : Expire(late)
  \/ Fault

Spec == Init /\ [][Next]_vars
=============================================================================
