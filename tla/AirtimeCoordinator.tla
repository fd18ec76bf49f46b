-------------------------- MODULE AirtimeCoordinator --------------------------
(***************************************************************************)
(* The one AirtimeCoordinator of a process: a reservation flag and the     *)
(* time of the last activity, shared by everything that transmits (the     *)
(* reply queue and the flood-advert scheduler).  The modules that model    *)
(* those two extend this one and use its operators inside their handlers.  *)
(*                                                                         *)
(* Date.now() is a clock that only moves forward and is capped at MaxTime. *)
(* `up` says whether a process, and with it a coordinator, exists.         *)
(***************************************************************************)
EXTENDS Integers

CONSTANTS QuietMs,   \* the quiet window every transmission waits for
          MaxTime,   \* bound of the clock
          MaxFaults  \* bound on crashes and failed store writes

ASSUME AirtimeAssumption ==
  QuietMs \in Nat /\ MaxTime \in Nat /\ MaxFaults \in Nat

VARIABLES
  now,              \* the clock
  up,               \* does the process run?
  sending,          \* the reservation
  lastActivityAt,   \* what the coordinator believes about the channel
  lastHeardAt,      \* history: when a packet was last heard
  lastStartAt,      \* history: when a transmission was last started
  faults            \* history: crashes and failed store writes so far

\* Everything but `faults`, which the users of the store count.
airVars == <<now, up, sending, lastActivityAt, lastHeardAt, lastStartAt>>

AirTypeOK ==
  /\ now \in Nat
  /\ up \in BOOLEAN /\ sending \in BOOLEAN
  /\ lastActivityAt \in Nat /\ lastHeardAt \in Nat /\ lastStartAt \in Nat
  /\ faults \in Nat

AirInit ==
  /\ now = 0 /\ up = FALSE /\ sending = FALSE
  /\ lastActivityAt = 0 /\ lastHeardAt = 0 /\ lastStartAt = 0
  /\ faults = 0

-----------------------------------------------------------------------------
(* The operators the owners of the reservation call.                        *)

\* Mutation of Construct: a new process takes the channel for quiet.
ConstructQuiet == sending' = FALSE /\ lastActivityAt' = 0

Construct ==
  /\ sending' = FALSE
  /\ lastActivityAt' = now

NoteActivity == lastActivityAt' = now

Available == ~sending /\ now - lastActivityAt >= QuietMs

\* The synchronous half of tryRunWhenQuiet when it does not return null.
Acquire ==
  /\ Available
  /\ sending' = TRUE
  /\ NoteActivity
  /\ lastStartAt' = now
  /\ UNCHANGED <<now, up, lastHeardAt>>

\* The finally of the promise tryRunWhenQuiet returned.
Release ==
  /\ sending' = FALSE
  /\ UNCHANGED <<now, up, lastActivityAt, lastHeardAt, lastStartAt>>

\* A reservation whose operation rejects before it transmits anything.
AcquireAndReject ==
  /\ Available
  /\ NoteActivity
  /\ UNCHANGED <<now, up, sending, lastHeardAt, lastStartAt>>

-----------------------------------------------------------------------------
\* What goes well is not counted, a fault is, up to the bound.
Counted(well) ==
  /\ ~well => faults < MaxFaults
  /\ faults' = IF well THEN faults ELSE faults + 1

-----------------------------------------------------------------------------
(* Steps of the environment.                                                *)

\* One radio.packet event.
PacketHeard ==
  /\ up
  /\ NoteActivity
  /\ lastHeardAt' = now
  /\ UNCHANGED <<now, up, sending, lastStartAt, faults>>

ClockTick ==
  /\ now < MaxTime
  /\ now' = now + 1
  /\ UNCHANGED <<up, sending, lastActivityAt, lastHeardAt, lastStartAt, faults>>

ProcessStart ==
  /\ ~up
  /\ up' = TRUE
  /\ Construct
  /\ UNCHANGED <<now, lastHeardAt, lastStartAt, faults>>

\* Any end but a clean one is a fault.
ProcessEnd(clean) ==
  /\ up
  /\ up' = FALSE
  /\ sending' = FALSE
  /\ Counted(clean)
  /\ UNCHANGED <<now, lastActivityAt, lastHeardAt, lastStartAt>>
=============================================================================
