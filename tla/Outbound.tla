-------------------------------- MODULE Outbound --------------------------------
(***************************************************************************)
(* Everything that transmits, put together as index.js does: one           *)
(* AirtimeCoordinator, the ReplyQueue and the FloodAdvertScheduler over    *)
(* one store, started together, shut down in index.js's order, and crashed *)
(* together.                                                               *)
(***************************************************************************)
EXTENDS ReplyQueue, FloodAdvertScheduler

outVars == <<airVars, replyVars, advVars, faults>>

OutInit == AirInit /\ ReplyInit /\ AdvertInit

OutTypeOK == AirTypeOK /\ ReplyTypeOK /\ AdvertTypeOK

\* main() up to floodAdvertScheduler.start(), without an await in between.
OutStart == ProcessStart /\ ReplyStart /\ AdvertStart

\* await floodAdvertScheduler.stop() has returned before replyQueue.stop().
OutReplyStop == ~advRunning /\ ~advBusy /\ ReplyStop

OutExit == replyStopped /\ ~replySending /\ ProcessEnd(TRUE) /\ ReplyGone /\ AdvertGone

\* A crash, a kill, or the forced exit ten seconds into shutdown.
OutCrash == ProcessEnd(FALSE) /\ ReplyGone /\ AdvertGone

ReplyStep ==
  \/ \E r \in Replies : ReplyEnqueue(r)
  \/ ReplyTick \/ ReplyTransmit \/ Settles \/ OutReplyStop

AdvertSettles == \E stored \in BOOLEAN : AdvertSettle(stored)

AdvertStep ==
  AdvertOnConnected \/ AdvertOnDisconnected \/ AdvertTick \/ AdvertSettles \/ AdvertStop

OutNext ==
  \/ OutStart \/ OutExit \/ OutCrash
  \/ PacketHeard /\ UNCHANGED <<replyVars, advVars>>
  \/ ClockTick /\ UNCHANGED <<replyVars, advVars>>
  \/ ReplyStep /\ UNCHANGED advVars
  \/ AdvertStep /\ UNCHANGED replyVars

OutSpec == OutInit /\ [][OutNext]_outVars

\* Both poll intervals keep firing and time passes.
OutFairSpec ==
  /\ OutSpec
  /\ WF_outVars(ClockTick /\ UNCHANGED <<replyVars, advVars>>)
  /\ WF_outVars(ReplyTick /\ UNCHANGED advVars)
  /\ WF_outVars(AdvertTick /\ UNCHANGED replyVars)
-----------------------------------------------------------------------------
(* Properties.                                                              *)

\* The reservation is held exactly while one of the two sends, and never for
\* both: a leaked reservation would silence the observer for good, a shared
\* one would collide on the air.
ReservationHasOneOwner ==
  /\ sending <=> (dispatching # NoReply \/ advBusy)
  /\ ~(dispatching # NoReply /\ advBusy)

Holder == IF dispatching # NoReply THEN "reply" ELSE IF advBusy THEN "advert" ELSE "nobody"

Airtime == INSTANCE SharedAirtime
  WITH Senders <- {"reply", "advert"}, Nobody <- "nobody", holder <- Holder

\* The whole of it implements the abstract airtime: one sender at a time, and
\* a quiet window before every start, whichever component started last, and
\* also across a restart that forgot the activity before it.
ImplementsSharedAirtime == Airtime!Spec

\* Once the air stays quiet and free, an advert that is pending and due within
\* the modelled time is attempted, unless the link or the scheduler goes away:
\* neither a busy window nor a deferral ever loses it.
PendingAdvertIsAttempted ==
  <>[]Available =>
    (adv.status = "pending" /\ advConnected /\ adv.nextDueAt <= MaxTime
       ~> adv.status # "pending" \/ ~advConnected \/ ~advRunning)
-----------------------------------------------------------------------------
(* The inductive invariant behind the theorems of OutboundProofs.           *)

\* Who holds the reservation, and that the coordinator's idea of the last
\* activity is never older than the real one.
AirInv ==
  /\ ReservationHasOneOwner
  /\ ~up => dispatching = NoReply /\ ~advBusy
  /\ lastActivityAt <= now /\ lastHeardAt <= now /\ lastStartAt <= now
  /\ up => lastHeardAt <= lastActivityAt /\ lastStartAt <= lastActivityAt

\* The queue's guard, the row in flight, and the armed timer.
DispatchInv ==
  /\ replySending <=> dispatching # NoReply
  /\ dispatching # NoReply => rows[dispatching].status = "pending"
  /\ onAir => dispatching # NoReply
  /\ PendingIsPolled

\* Rows were queued in the past and leave in order.
OrderInv ==
  /\ \A r \in Replies : rows[r].enqueuedAt <= now
  /\ NoOvertaking

\* A reply that may still be transmitted has used no more copies than faults.
CopiesOf(r) ==
  /\ copies[r] <= faults + 1
  /\ rows[r].status \in {"none", "pending"} /\ ~(r = dispatching /\ onAir)
       => copies[r] <= faults
  /\ rows[r].status = "none" => copies[r] = 0
  /\ rows[r].status = "sent" \/ (r = dispatching /\ onAir) => copies[r] > 0
  /\ rows[r].status = "expired" /\ faults = 0 => copies[r] = 0

CopiesInv == \A r \in Replies : CopiesOf(r)

\* What the row remembers of the last issued command.
AdvertInv ==
  /\ uncertainAt <= lastIssueAt /\ lastIssueAt <= now
  /\ advBusy => adv.status = "sending"
  /\ adv.status = "sending" => lastIssueAt # Null /\ adv.attemptStartedAt = lastIssueAt
                               /\ uncertainAt # lastIssueAt
  /\ adv.status # "sending" /\ lastIssueAt # Null =>
       /\ adv.nextDueAt # Null
       /\ adv.nextDueAt >= lastIssueAt + IntervalMs
       /\ uncertainAt = lastIssueAt => adv.nextDueAt >= lastIssueAt + RetryAfter

IInv == OutTypeOK /\ AirInv /\ DispatchInv /\ OrderInv /\ CopiesInv /\ AdvertInv
=============================================================================
