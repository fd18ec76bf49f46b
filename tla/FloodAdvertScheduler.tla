------------------------- MODULE FloodAdvertScheduler -------------------------
(***************************************************************************)
(* FloodAdvertScheduler and its one durable row, flood_advert_state.  The  *)
(* poll timer is armed from start() to stop() and is not a variable of its *)
(* own: a tick is possible while advRunning.                               *)
(*                                                                         *)
(* A tick claims the row, takes the reservation and issues the command in  *)
(* one run of the event loop (the closure given to tryRunWhenQuiet starts  *)
(* as a microtask of the same callback), so AdvertTickClaims is one step.  *)
(* The command's answer arrives in AdvertSettle.                           *)
(***************************************************************************)
EXTENDS AirtimeCoordinator

CONSTANTS IntervalMs,     \* floodAdvert.intervalHours, 0 when disabled
          UncertainMs     \* the 47 hours after an interrupted attempt

ASSUME AdvertAssumption == IntervalMs \in Nat /\ UncertainMs \in Nat \ {0}

Null == -1

VARIABLES
  adv,               \* the row: status, attemptStartedAt, nextDueAt
  advRunning,        \* #running
  advConnected,      \* #connected
  startupRequested,  \* #startupRequested
  advBusy,           \* #busy: an attempt of this process is in flight
  lastIssueAt,       \* history: when the last advert command was issued
  uncertainAt        \* history: issue time of the last interrupted attempt

schedVars == <<adv, advRunning, advConnected, startupRequested, advBusy>>
advVars == <<schedVars, lastIssueAt, uncertainAt>>

AdvertRow == [status : {"idle", "pending", "sending"},
              attemptStartedAt : Nat \cup {Null}, nextDueAt : Nat \cup {Null}]

AdvertTypeOK ==
  /\ adv \in AdvertRow
  /\ advRunning \in BOOLEAN /\ advConnected \in BOOLEAN
  /\ startupRequested \in BOOLEAN /\ advBusy \in BOOLEAN
  /\ lastIssueAt \in Nat \cup {Null} /\ uncertainAt \in Nat \cup {Null}

\* The row migration 7 inserts.
AdvertInit ==
  /\ adv = [status |-> "idle", attemptStartedAt |-> Null, nextDueAt |-> Null]
  /\ advRunning = FALSE /\ advConnected = FALSE
  /\ startupRequested = FALSE /\ advBusy = FALSE
  /\ lastIssueAt = Null /\ uncertainAt = Null

-----------------------------------------------------------------------------
(* The statements of MetricsStore on flood_advert_state.                    *)

Request(row) == IF row.status = "idle" THEN [row EXCEPT !.status = "pending"] ELSE row

StartAttempt(row, at) == [row EXCEPT !.status = "sending", !.attemptStartedAt = at]

ResolveAttempt(row, at) ==
  [row EXCEPT !.status = "idle", !.attemptStartedAt = Null, !.nextDueAt = at + IntervalMs]

RetryAfter == IF IntervalMs > UncertainMs THEN IntervalMs ELSE UncertainMs

Interrupted(row) == row.status = "sending" /\ row.attemptStartedAt # Null

\* Mutation of RecoverAttempt: an interrupted attempt counts as an ordinary one.
RecoverSoon(row) ==
  IF Interrupted(row)
  THEN [status |-> "idle", attemptStartedAt |-> Null,
        nextDueAt |-> row.attemptStartedAt + IntervalMs]
  ELSE row

RecoverAttempt(row) ==
  IF Interrupted(row)
  THEN [status |-> "idle", attemptStartedAt |-> Null,
        nextDueAt |-> row.attemptStartedAt + RetryAfter]
  ELSE row

-----------------------------------------------------------------------------
AdvertStart ==
  /\ adv' = RecoverAttempt(adv)
  /\ advRunning' = TRUE
  /\ advConnected' = FALSE /\ startupRequested' = FALSE /\ advBusy' = FALSE
  /\ uncertainAt' = IF Interrupted(adv) THEN lastIssueAt ELSE uncertainAt
  /\ UNCHANGED lastIssueAt

\* radio.connected; the first one of a process requests an advert.
AdvertOnConnected ==
  /\ up /\ advRunning
  /\ advConnected' = TRUE
  /\ startupRequested' = TRUE
  /\ adv' = IF startupRequested THEN adv ELSE Request(adv)
  /\ UNCHANGED <<advRunning, advBusy, lastIssueAt, uncertainAt, faults>>
  /\ UNCHANGED airVars

AdvertOnDisconnected ==
  /\ up /\ advRunning
  /\ advConnected' = FALSE
  /\ UNCHANGED <<adv, advRunning, startupRequested, advBusy, lastIssueAt, uncertainAt, faults>>
  /\ UNCHANGED airVars

AdvertTickRuns == up /\ advRunning /\ ~advBusy

\* The row after the cadence part of a tick.
Polled ==
  IF IntervalMs > 0 /\ adv.nextDueAt # Null /\ now >= adv.nextDueAt
  THEN Request(adv) ELSE adv

\* Mutation of MayAttempt: an advert without a due time never becomes due.
OnlyWhenDue ==
  /\ advConnected
  /\ Polled.status = "pending"
  /\ Polled.nextDueAt # Null /\ now >= Polled.nextDueAt

MayAttempt ==
  /\ advConnected
  /\ Polled.status = "pending"
  /\ Polled.nextDueAt # Null => now >= Polled.nextDueAt

\* The tick returns early, or tryRunWhenQuiet returned null.
AdvertTickHolds ==
  /\ AdvertTickRuns
  /\ ~(MayAttempt /\ Available)
  /\ adv' = Polled
  /\ UNCHANGED <<advRunning, advConnected, startupRequested, advBusy, lastIssueAt, uncertainAt, faults>>
  /\ UNCHANGED airVars

AdvertTickClaims ==
  /\ AdvertTickRuns /\ MayAttempt
  /\ Acquire
  /\ adv' = StartAttempt(Polled, now)
  /\ advBusy' = TRUE
  /\ lastIssueAt' = now
  /\ UNCHANGED <<advRunning, advConnected, startupRequested, uncertainAt, faults>>

\* The claim itself throws: the reservation was taken for nothing.
AdvertTickClaimFails ==
  /\ AdvertTickRuns /\ MayAttempt
  /\ AcquireAndReject
  /\ Counted(FALSE)
  /\ adv' = Polled
  /\ UNCHANGED <<advRunning, advConnected, startupRequested, advBusy, lastIssueAt, uncertainAt>>

AdvertTick == AdvertTickHolds \/ AdvertTickClaims \/ AdvertTickClaimFails

\* The command settled, well or badly: both resolve the row the same way.  If
\* every attempt to write that fails, the row stays "sending".
AdvertSettle(stored) ==
  /\ up /\ advBusy
  /\ Release
  /\ Counted(stored)
  /\ adv' = IF stored THEN ResolveAttempt(adv, now) ELSE adv
  /\ advBusy' = FALSE
  /\ UNCHANGED <<advRunning, advConnected, startupRequested, lastIssueAt, uncertainAt>>

AdvertStop ==
  /\ up /\ advRunning
  /\ advRunning' = FALSE
  /\ UNCHANGED <<adv, advConnected, startupRequested, advBusy, lastIssueAt, uncertainAt, faults>>
  /\ UNCHANGED airVars

AdvertGone ==
  /\ advRunning' = FALSE /\ advConnected' = FALSE
  /\ startupRequested' = FALSE /\ advBusy' = FALSE
  /\ UNCHANGED <<adv, lastIssueAt, uncertainAt>>
-----------------------------------------------------------------------------
(* Properties.                                                              *)

\* What the next attempt must wait for: the configured interval, or the long
\* one if a crash interrupted this attempt and the radio may have sent it.
Distance == IF uncertainAt = lastIssueAt THEN RetryAfter ELSE IntervalMs

\* Two advert commands are never issued closer together than that, whatever
\* restarts, failed writes and disconnects fall between.
AdvertsKeepTheirDistance ==
  [][lastIssueAt' # lastIssueAt /\ lastIssueAt # Null
       => lastIssueAt' >= lastIssueAt + Distance]_<<airVars, advVars, faults>>
=============================================================================
