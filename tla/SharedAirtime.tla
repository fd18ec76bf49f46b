----------------------------- MODULE SharedAirtime -----------------------------
(***************************************************************************)
(* What the senders of one radio promise each other and the mesh: at most  *)
(* one of them transmits, and none starts within QuietMs of the last heard *)
(* packet or of the last start.  Restarts and crashes are no excuse: the   *)
(* specification does not know processes at all.  Outbound implements it.  *)
(***************************************************************************)
EXTENDS Integers

CONSTANTS Senders, Nobody, QuietMs

VARIABLES now, holder, lastHeardAt, lastStartAt

vars == <<now, holder, lastHeardAt, lastStartAt>>

Init == now = 0 /\ holder = Nobody /\ lastHeardAt = 0 /\ lastStartAt = 0

Begin(s) ==
  /\ holder = Nobody
  /\ now - lastHeardAt >= QuietMs
  /\ now - lastStartAt >= QuietMs
  /\ holder' = s
  /\ lastStartAt' = now
  /\ UNCHANGED <<now, lastHeardAt>>

End ==
  /\ holder # Nobody
  /\ holder' = Nobody
  /\ UNCHANGED <<now, lastHeardAt, lastStartAt>>

Hear ==
  /\ lastHeardAt' = now
  /\ UNCHANGED <<now, holder, lastStartAt>>

Advance ==
  /\ now' = now + 1
  /\ UNCHANGED <<holder, lastHeardAt, lastStartAt>>

Next == Hear \/ Advance \/ End \/ \E s \in Senders : Begin(s)

Spec == Init /\ [][Next]_vars
=============================================================================
