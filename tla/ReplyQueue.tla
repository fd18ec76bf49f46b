------------------------------ MODULE ReplyQueue ------------------------------
(***************************************************************************)
(* ReplyQueue together with the bot_replies table it polls.  The table     *)
(* survives a process; the timer, the #sending guard and #stopped do not.  *)
(*                                                                         *)
(* A tick is one run of the setInterval callback up to its first await:    *)
(* JavaScript runs it without interleaving.  What follows the await of the *)
(* transmission is ReplySettle, a step of its own, so packets, clock       *)
(* ticks, new replies, ticks of others and a crash fall in between.        *)
(***************************************************************************)
EXTENDS AirtimeCoordinator

CONSTANTS Replies,     \* row ids of bot_replies
          NoReply,     \* "nothing is being dispatched"
          TtlMs        \* botReplyQueue.ttlMs

ASSUME ReplyAssumption ==
  /\ NoReply \notin Replies
  /\ TtlMs \in Nat /\ TtlMs >= QuietMs

VARIABLES
  rows,           \* bot_replies, "none" for an id not inserted yet
  replyTimer,     \* is the poll interval armed?
  replySending,   \* #sending of the queue (not of the coordinator)
  replyStopped,   \* #stopped
  dispatching,    \* the row whose dispatch() has not settled, or NoReply
  onAir,          \* has the Companion taken that dispatch's message?
  copies          \* history: transmissions of each reply

queueVars == <<rows, replyTimer, replySending, replyStopped, dispatching, onAir>>
replyVars == <<queueVars, copies>>

Outcome == {"sent", "failed", "expired"}
Row == [status : {"none", "pending"} \cup Outcome, enqueuedAt : Nat, expiresAt : Nat]

ReplyTypeOK ==
  /\ rows \in [Replies -> Row]
  /\ replyTimer \in BOOLEAN /\ replySending \in BOOLEAN /\ replyStopped \in BOOLEAN
  /\ dispatching \in Replies \cup {NoReply} /\ onAir \in BOOLEAN
  /\ copies \in [Replies -> Nat]

ReplyInit ==
  /\ rows = [r \in Replies |-> [status |-> "none", enqueuedAt |-> 0, expiresAt |-> 0]]
  /\ replyTimer = FALSE /\ replySending = FALSE /\ replyStopped = FALSE
  /\ dispatching = NoReply /\ onAir = FALSE
  /\ copies = [r \in Replies |-> 0]

-----------------------------------------------------------------------------
(* The statements of MetricsStore on bot_replies.                           *)

Pending(t) == {r \in Replies : t[r].status = "pending"}

TakeExpired(t, at) ==
  [r \in Replies |-> IF t[r].status = "pending" /\ t[r].expiresAt <= at
                     THEN [t[r] EXCEPT !.status = "expired"] ELSE t[r]]

\* Mutation of Oldest: the ORDER BY is missing.
AnyPending(t) == Pending(t)

\* ORDER BY enqueued_at LIMIT 1 leaves the choice among equals open.
Oldest(t) == {r \in Pending(t) : \A s \in Pending(t) : t[r].enqueuedAt <= t[s].enqueuedAt}

\* Mutation of Resolve: failed sends stay queued for another try.
RetryFailures(t, r, outcome) ==
  IF outcome = "failed" THEN t ELSE [t EXCEPT ![r].status = outcome]

\* By id alone: the statement does not ask whether the row is pending.
Resolve(t, r, outcome) == [t EXCEPT ![r].status = outcome]

-----------------------------------------------------------------------------
ReplyEnqueue(r) ==
  /\ up /\ ~replyStopped
  /\ rows[r].status = "none"
  /\ now + TtlMs <= MaxTime          \* every deadline lies in modelled time
  /\ rows' = [rows EXCEPT ![r] =
       [status |-> "pending", enqueuedAt |-> now, expiresAt |-> now + TtlMs]]
  /\ replyTimer' = TRUE
  /\ UNCHANGED <<replySending, replyStopped, dispatching, onAir, copies, faults>>
  /\ UNCHANGED airVars

\* Mutation of TickRuns: a tick does not wait for the earlier one.
TickOverlaps == up /\ replyTimer

\* The timer fires and no earlier tick is still waiting for its send.
TickRuns == up /\ replyTimer /\ ~replySending

\* Everything left had expired, or the table was empty: the timer is cleared.
ReplyTickDrained ==
  /\ TickRuns
  /\ rows' = TakeExpired(rows, now)
  /\ Pending(rows') = {}
  /\ replyTimer' = FALSE
  /\ UNCHANGED <<replySending, replyStopped, dispatching, onAir, copies, faults>>
  /\ UNCHANGED airVars

\* tryRunWhenQuiet returned null: the next tick tries again.
ReplyTickWaits ==
  /\ TickRuns
  /\ rows' = TakeExpired(rows, now)
  /\ Pending(rows') # {}
  /\ ~Available
  /\ UNCHANGED <<replyTimer, replySending, replyStopped, dispatching, onAir, copies, faults>>
  /\ UNCHANGED airVars

ReplyTickDispatches ==
  /\ TickRuns
  /\ rows' = TakeExpired(rows, now)
  /\ dispatching' \in Oldest(rows')
  /\ Acquire
  /\ replySending' = TRUE
  /\ onAir' = FALSE
  /\ UNCHANGED <<replyTimer, replyStopped, copies, faults>>

ReplyTick == ReplyTickDrained \/ ReplyTickWaits \/ ReplyTickDispatches

\* The Companion takes the channel message of the running dispatch.
ReplyTransmit ==
  /\ up /\ dispatching # NoReply /\ ~onAir
  /\ onAir' = TRUE
  /\ copies' = [copies EXCEPT ![dispatching] = @ + 1]
  /\ UNCHANGED <<rows, replyTimer, replySending, replyStopped, dispatching, faults>>
  /\ UNCHANGED airVars

\* The awaited transmission settles.  It fulfils only if the message went out;
\* it rejects for an unknown bot, a missing connection or a device error.
\* A write that fails is caught and leaves the row as it is.
ReplySettle(ok, stored) ==
  /\ up /\ dispatching # NoReply
  /\ ok => onAir
  /\ Release
  /\ Counted(stored)
  /\ rows' = IF stored THEN Resolve(rows, dispatching, IF ok THEN "sent" ELSE "failed") ELSE rows
  /\ replySending' = FALSE
  /\ replyTimer' = (replyTimer /\ Pending(rows') # {})
  /\ dispatching' = NoReply /\ onAir' = FALSE
  /\ UNCHANGED <<replyStopped, copies>>

ReplyStop ==
  /\ up /\ ~replyStopped
  /\ replyStopped' = TRUE
  /\ replyTimer' = FALSE
  /\ UNCHANGED <<rows, replySending, dispatching, onAir, copies, faults>>
  /\ UNCHANGED airVars

\* Mutation of ReplyStart: resumed rows do not arm the timer.
ReplyStartIdle ==
  /\ replyTimer' = FALSE
  /\ replySending' = FALSE /\ replyStopped' = FALSE
  /\ dispatching' = NoReply /\ onAir' = FALSE
  /\ UNCHANGED <<rows, copies>>

\* A new process: a new queue object, then start().
ReplyStart ==
  /\ replyTimer' = (Pending(rows) # {})
  /\ replySending' = FALSE /\ replyStopped' = FALSE
  /\ dispatching' = NoReply /\ onAir' = FALSE
  /\ UNCHANGED <<rows, copies>>

\* The process ends and takes the volatile state along.
ReplyGone ==
  /\ replyTimer' = FALSE /\ replySending' = FALSE /\ replyStopped' = FALSE
  /\ dispatching' = NoReply /\ onAir' = FALSE
  /\ UNCHANGED <<rows, copies>>
-----------------------------------------------------------------------------
(* The queue on its own, the only user of the coordinator.                  *)

Start == ProcessStart /\ ReplyStart

\* stop() has been awaited: nothing is in flight any more.
Exit == replyStopped /\ ~replySending /\ ProcessEnd(TRUE) /\ ReplyGone

Crash == ProcessEnd(FALSE) /\ ReplyGone

Heard == PacketHeard /\ UNCHANGED replyVars

Tick == ClockTick /\ UNCHANGED replyVars

vars == <<airVars, replyVars, faults>>

Init == AirInit /\ ReplyInit

Settles == \E ok, stored \in BOOLEAN : ReplySettle(ok, stored)

Next ==
  \/ Start \/ Exit \/ Crash \/ Heard \/ Tick
  \/ \E r \in Replies : ReplyEnqueue(r)
  \/ ReplyTick \/ ReplyTransmit \/ Settles \/ ReplyStop

Spec == Init /\ [][Next]_vars

\* The interval fires again and again and time passes.  Nothing obliges the
\* device to answer: no timeout guards a dispatch.
FairSpec == Spec /\ WF_vars(ReplyTick) /\ WF_vars(Tick)

-----------------------------------------------------------------------------
(* Properties.                                                              *)

\* A row that got its outcome keeps it: although resolveReplyItem updates by
\* id alone, it never overwrites an expiry or an earlier outcome.
OutcomeIsFinal ==
  [][\A r \in Replies : rows[r].status \in Outcome => rows'[r] = rows[r]]_vars

\* No lost wakeup: while the process runs and is not stopping, rows that wait
\* have a timer that will look at them, whatever order enqueues, ticks and
\* settlements came in.
PendingIsPolled == up /\ ~replyStopped /\ Pending(rows) # {} => replyTimer

\* Replies go out in the order they were queued: nothing newer is in flight
\* or was sent or failed while something older still waits, also across
\* restarts and failed writes.
NoOvertaking ==
  \A r, s \in Replies :
    /\ rows[r].status = "pending"
    /\ s = dispatching \/ rows[s].status \in {"sent", "failed"}
    => rows[s].enqueuedAt <= rows[r].enqueuedAt

\* Every repeated transmission of one reply is paid for by a fault (a crash
\* or a failed write): without faults a reply is sent at most once.
DuplicatesNeedFaults ==
  \A r \in Replies : copies[r] <= faults + 1

\* A reply reported as expired was not transmitted, unless a fault hid that.
ExpiredWasNotSent ==
  \A r \in Replies : rows[r].status = "expired" /\ faults = 0 => copies[r] = 0

\* A reply reported as sent was transmitted.
SentWasTransmitted ==
  \A r \in Replies : rows[r].status = "sent" => copies[r] > 0

Resolved(r) == rows[r].status \in Outcome \/ ~up \/ replyStopped

\* If no dispatch hangs for good, every queued reply gets an outcome, unless
\* the process goes away.
EveryReplyResolves ==
  []<>(dispatching = NoReply) =>
    \A r \in Replies : rows[r].status = "pending" ~> Resolved(r)

\* What the README promises: the TTL bounds how long a reply is queued.  It
\* does not say "if the device answers every command".
TtlBoundsTheQueue == \A r \in Replies : rows[r].status = "pending" ~> Resolved(r)

Delivery == INSTANCE ReplyDelivery WITH outcome <- [r \in Replies |-> rows[r].status]

\* The queue implements the abstract delivery: one transmission for free and
\* one more per fault, no report of "sent" without one, one final outcome.
ImplementsDelivery == Delivery!Spec

\* What the README promises: one message gets at most one reply.
AtMostOneReply == \A r \in Replies : copies[r] <= 1

\* What the README says of a shutdown: a reply not sent before it is cancelled.
ShutdownCancels == [][Exit => Pending(rows') = {}]_vars
=============================================================================
