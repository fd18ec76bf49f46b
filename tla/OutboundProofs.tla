----------------------------- MODULE OutboundProofs -----------------------------
(***************************************************************************)
(* Proofs about Outbound, for every set of replies and every value of the  *)
(* times.  The inductive invariant IInv is the conjunction of the parts    *)
(* Outbound names; a lemma per part shows that each action keeps it.       *)
(***************************************************************************)
EXTENDS Outbound, TLAPS

\* Every step is one of the named ones: the case split all lemmas use.
LEMMA StepCases ==
  ASSUME [OutNext]_outVars
  PROVE  \/ OutStart \/ OutExit \/ OutCrash
         \/ PacketHeard /\ UNCHANGED <<replyVars, advVars>>
         \/ ClockTick /\ UNCHANGED <<replyVars, advVars>>
         \/ (\E r \in Replies : ReplyEnqueue(r)) /\ UNCHANGED advVars
         \/ ReplyTickDrained /\ UNCHANGED advVars
         \/ ReplyTickWaits /\ UNCHANGED advVars
         \/ ReplyTickDispatches /\ UNCHANGED advVars
         \/ ReplyTransmit /\ UNCHANGED advVars
         \/ (\E ok, stored \in BOOLEAN : ReplySettle(ok, stored)) /\ UNCHANGED advVars
         \/ OutReplyStop /\ UNCHANGED advVars
         \/ AdvertOnConnected /\ UNCHANGED replyVars
         \/ AdvertOnDisconnected /\ UNCHANGED replyVars
         \/ AdvertTickHolds /\ UNCHANGED replyVars
         \/ AdvertTickClaims /\ UNCHANGED replyVars
         \/ AdvertTickClaimFails /\ UNCHANGED replyVars
         \/ (\E stored \in BOOLEAN : AdvertSettle(stored)) /\ UNCHANGED replyVars
         \/ AdvertStop /\ UNCHANGED replyVars
         \/ UNCHANGED outVars
  BY DEF OutNext, ReplyStep, AdvertStep, ReplyTick, AdvertTick, Settles, AdvertSettles

-----------------------------------------------------------------------------
(* Type correctness.                                                        *)

\* Counting keeps the fault count a natural number that never decreases.
LEMMA CountedFaults ==
  ASSUME NEW well, faults \in Nat, Counted(well)
  PROVE  faults' \in Nat /\ faults' >= faults
<1>1. faults' = faults \/ faults' = faults + 1  BY Zenon DEF Counted
<1>2. QED  BY <1>1

\* The coordinator's variables keep their types.
LEMMA AirTypeStep == AirTypeOK /\ [OutNext]_outVars => AirTypeOK'
<1> SUFFICES ASSUME AirTypeOK, [OutNext]_outVars PROVE AirTypeOK'
  OBVIOUS
<1> USE DEF AirTypeOK, airVars, NoteActivity, Acquire, Release
<1>1. CASE OutStart  BY <1>1 DEF OutStart, ProcessStart, Construct
<1>2. CASE OutExit \/ OutCrash
  BY <1>2, CountedFaults DEF OutExit, OutCrash, ProcessEnd
<1>3. CASE PacketHeard \/ ClockTick  BY <1>3 DEF PacketHeard, ClockTick
<1>4. CASE \E r \in Replies : ReplyEnqueue(r)  BY <1>4 DEF ReplyEnqueue
<1>5. CASE ReplyTickDrained \/ ReplyTickWaits \/ ReplyTickDispatches
  BY <1>5 DEF ReplyTickDrained, ReplyTickWaits, ReplyTickDispatches
<1>6. CASE ReplyTransmit \/ OutReplyStop
  BY <1>6 DEF ReplyTransmit, OutReplyStop, ReplyStop
<1>7. CASE \E ok, stored \in BOOLEAN : ReplySettle(ok, stored)  BY <1>7, CountedFaults DEF ReplySettle
<1>8. CASE AdvertOnConnected \/ AdvertOnDisconnected \/ AdvertStop
  BY <1>8 DEF AdvertOnConnected, AdvertOnDisconnected, AdvertStop
<1>9. CASE AdvertTickHolds \/ AdvertTickClaims \/ AdvertTickClaimFails
  BY <1>9, CountedFaults
  DEF AdvertTickHolds, AdvertTickClaims, AdvertTickClaimFails, AcquireAndReject
<1>10. CASE \E stored \in BOOLEAN : AdvertSettle(stored)  BY <1>10, CountedFaults DEF AdvertSettle
<1>11. CASE UNCHANGED outVars  BY <1>11 DEF outVars
<1>12. QED
  BY <1>1, <1>2, <1>3, <1>4, <1>5, <1>6, <1>7, <1>8, <1>9, <1>10, <1>11, StepCases

\* The queue's variables keep their types.
LEMMA ReplyTypeStep ==
  AirTypeOK /\ ReplyTypeOK /\ [OutNext]_outVars => ReplyTypeOK'
<1> SUFFICES ASSUME AirTypeOK, ReplyTypeOK, [OutNext]_outVars PROVE ReplyTypeOK'
  OBVIOUS
<1> USE ReplyAssumption, AirtimeAssumption
    DEF AirTypeOK, ReplyTypeOK, replyVars, queueVars, Row, Outcome
<1>1. CASE OutStart  BY <1>1 DEF OutStart, ReplyStart
<1>2. CASE OutExit \/ OutCrash  BY <1>2 DEF OutExit, OutCrash, ReplyGone
<1>3. CASE UNCHANGED replyVars  BY <1>3
<1>4. CASE \E r \in Replies : ReplyEnqueue(r)  BY <1>4 DEF ReplyEnqueue
<1>5. CASE ReplyTickDrained  BY <1>5 DEF ReplyTickDrained, TakeExpired
<1>6. CASE ReplyTickWaits  BY <1>6 DEF ReplyTickWaits, TakeExpired
<1>7. CASE ReplyTickDispatches
  <2>1. rows' \in [Replies -> Row]  BY <1>7 DEF ReplyTickDispatches, TakeExpired
  <2>2. dispatching' \in Replies  BY <1>7 DEF ReplyTickDispatches, Oldest, Pending
  <2>3. QED  BY <1>7, <2>1, <2>2 DEF ReplyTickDispatches
<1>8. CASE ReplyTransmit  BY <1>8 DEF ReplyTransmit
<1>9. CASE \E ok, stored \in BOOLEAN : ReplySettle(ok, stored)
  <2> PICK ok \in BOOLEAN, stored \in BOOLEAN : ReplySettle(ok, stored)  BY <1>9
  <2>1. rows' \in [Replies -> Row]  BY DEF ReplySettle, Resolve
  <2>2. QED  BY <2>1 DEF ReplySettle
<1>10. CASE OutReplyStop  BY <1>10 DEF OutReplyStop, ReplyStop
<1>11. QED
  BY <1>1, <1>2, <1>3, <1>4, <1>5, <1>6, <1>7, <1>8, <1>9, <1>10, StepCases DEF outVars

\* The deferral after an interrupted attempt is at least both intervals.
LEMMA RetryAfterBound ==
  RetryAfter \in Nat /\ RetryAfter >= IntervalMs /\ RetryAfter >= UncertainMs
  BY AdvertAssumption DEF RetryAfter

\* The statements on flood_advert_state yield a row again.
LEMMA RowStatements ==
  ASSUME NEW row \in AdvertRow, NEW at \in Nat
  PROVE  /\ Request(row) \in AdvertRow
         /\ StartAttempt(row, at) \in AdvertRow
         /\ ResolveAttempt(row, at) \in AdvertRow
         /\ RecoverAttempt(row) \in AdvertRow
<1>1. Request(row) \in AdvertRow
  <2>1. CASE row.status = "idle"
    <3>1. Request(row) = [row EXCEPT !.status = "pending"]  BY <2>1 DEF Request
    <3>2. QED  BY <3>1 DEF AdvertRow
  <2>2. CASE row.status # "idle"
    BY <2>2 DEF Request
  <2>3. QED  BY <2>1, <2>2
<1>2. StartAttempt(row, at) \in AdvertRow  BY DEF AdvertRow, StartAttempt
<1>3. ResolveAttempt(row, at) \in AdvertRow
  <2>1. at + IntervalMs \in Nat  BY AdvertAssumption
  <2>2. QED  BY <2>1 DEF AdvertRow, ResolveAttempt
<1>4. RecoverAttempt(row) \in AdvertRow
  <2>1. CASE Interrupted(row)
    <3>1. row.attemptStartedAt + RetryAfter \in Nat
      BY <2>1, RetryAfterBound DEF Interrupted, AdvertRow, Null
    <3>2. QED  BY <2>1, <3>1 DEF RecoverAttempt, AdvertRow
  <2>2. CASE ~Interrupted(row)  BY <2>2 DEF RecoverAttempt
  <2>3. QED  BY <2>1, <2>2
<1>5. QED  BY <1>1, <1>2, <1>3, <1>4

\* The scheduler's variables keep their types.
LEMMA AdvertTypeStep ==
  AirTypeOK /\ AdvertTypeOK /\ [OutNext]_outVars => AdvertTypeOK'
<1> SUFFICES ASSUME AirTypeOK, AdvertTypeOK, [OutNext]_outVars PROVE AdvertTypeOK'
  OBVIOUS
<1> USE RowStatements DEF AirTypeOK, AdvertTypeOK, advVars, schedVars
<1>1. CASE OutStart  BY <1>1 DEF OutStart, AdvertStart
<1>2. CASE OutExit \/ OutCrash  BY <1>2 DEF OutExit, OutCrash, AdvertGone
<1>3. CASE UNCHANGED advVars  BY <1>3
<1>4. CASE AdvertOnConnected \/ AdvertOnDisconnected \/ AdvertStop
  BY <1>4 DEF AdvertOnConnected, AdvertOnDisconnected, AdvertStop
<1>5. Polled \in AdvertRow  BY DEF Polled
<1>6. CASE AdvertTickHolds \/ AdvertTickClaimFails
  BY <1>5, <1>6 DEF AdvertTickHolds, AdvertTickClaimFails
<1>7. CASE AdvertTickClaims  BY <1>5, <1>7 DEF AdvertTickClaims, Acquire
<1>8. CASE \E stored \in BOOLEAN : AdvertSettle(stored)
  <2> PICK stored \in BOOLEAN : AdvertSettle(stored)  BY <1>8
  <2>1. adv' \in AdvertRow  BY DEF AdvertSettle
  <2>2. QED  BY <2>1 DEF AdvertSettle
<1>9. QED
  BY <1>1, <1>2, <1>3, <1>4, <1>6, <1>7, <1>8, StepCases DEF outVars

\* Types hold initially.
LEMMA TypeInit == OutInit => OutTypeOK
<1> SUFFICES ASSUME OutInit PROVE OutTypeOK
  OBVIOUS
<1>1. AirTypeOK  BY DEF OutInit, AirInit, AirTypeOK
<1>2. ReplyTypeOK  BY DEF OutInit, ReplyInit, ReplyTypeOK, Row
<1>3. AdvertTypeOK  BY DEF OutInit, AdvertInit, AdvertTypeOK, AdvertRow, Null
<1>4. QED  BY <1>1, <1>2, <1>3 DEF OutTypeOK

\* Every variable of the outbound side keeps its type in every behaviour.
THEOREM TypeCorrect == OutSpec => []OutTypeOK
<1>1. OutTypeOK /\ [OutNext]_outVars => OutTypeOK'
  BY AirTypeStep, ReplyTypeStep, AdvertTypeStep DEF OutTypeOK
<1>2. QED  BY TypeInit, <1>1, PTL DEF OutSpec

-----------------------------------------------------------------------------
(* The reservation and the quiet window.                                    *)

\* Each step keeps one owner per reservation and the activity time current.
LEMMA AirStep ==
  OutTypeOK /\ AirInv /\ [OutNext]_outVars => AirInv'
<1> SUFFICES ASSUME OutTypeOK, AirInv, [OutNext]_outVars PROVE AirInv'
  OBVIOUS
<1> USE ReplyAssumption
    DEF OutTypeOK, AirTypeOK, ReplyTypeOK, AdvertTypeOK, AirInv, ReservationHasOneOwner,
        airVars, replyVars, queueVars, advVars, schedVars, NoteActivity, Acquire, Release
<1>1. CASE OutStart
  BY <1>1 DEF OutStart, ProcessStart, Construct, ReplyStart, AdvertStart
<1>2. CASE OutExit \/ OutCrash
  BY <1>2 DEF OutExit, OutCrash, ProcessEnd, ReplyGone, AdvertGone
<1>3. CASE PacketHeard /\ UNCHANGED <<replyVars, advVars>>  BY <1>3 DEF PacketHeard
<1>4. CASE ClockTick /\ UNCHANGED <<replyVars, advVars>>  BY <1>4 DEF ClockTick
<1>5. CASE (\E r \in Replies : ReplyEnqueue(r)) /\ UNCHANGED advVars
  BY <1>5 DEF ReplyEnqueue
<1>6. CASE (ReplyTickDrained \/ ReplyTickWaits) /\ UNCHANGED advVars
  BY <1>6 DEF ReplyTickDrained, ReplyTickWaits
<1>7. CASE ReplyTickDispatches /\ UNCHANGED advVars
  <2>1. dispatching' \in Replies  BY <1>7 DEF ReplyTickDispatches, Oldest, Pending
  <2>2. up  BY <1>7 DEF ReplyTickDispatches, TickRuns
  <2>3. ~sending /\ sending'  BY <1>7 DEF ReplyTickDispatches, Available
  <2>4. lastActivityAt' = now /\ lastStartAt' = now /\ UNCHANGED <<now, up, lastHeardAt>>
    BY <1>7 DEF ReplyTickDispatches
  <2>5. QED  BY <1>7, <2>1, <2>2, <2>3, <2>4
<1>8. CASE ReplyTransmit /\ UNCHANGED advVars  BY <1>8 DEF ReplyTransmit
<1>9. CASE (\E ok, stored \in BOOLEAN : ReplySettle(ok, stored)) /\ UNCHANGED advVars
  BY <1>9 DEF ReplySettle
<1>10. CASE OutReplyStop /\ UNCHANGED advVars  BY <1>10 DEF OutReplyStop, ReplyStop
<1>11. CASE (AdvertOnConnected \/ AdvertOnDisconnected \/ AdvertStop) /\ UNCHANGED replyVars
  BY <1>11 DEF AdvertOnConnected, AdvertOnDisconnected, AdvertStop
<1>12. CASE AdvertTickHolds /\ UNCHANGED replyVars  BY <1>12 DEF AdvertTickHolds
<1>13. CASE AdvertTickClaims /\ UNCHANGED replyVars
  BY <1>13 DEF AdvertTickClaims, AdvertTickRuns, Available
<1>14. CASE AdvertTickClaimFails /\ UNCHANGED replyVars
  BY <1>14 DEF AdvertTickClaimFails, AcquireAndReject
<1>15. CASE (\E stored \in BOOLEAN : AdvertSettle(stored)) /\ UNCHANGED replyVars
  BY <1>15 DEF AdvertSettle
<1>16. CASE UNCHANGED outVars  BY <1>16 DEF outVars
<1>17. QED
  BY <1>1, <1>2, <1>3, <1>4, <1>5, <1>6, <1>7, <1>8, <1>9, <1>10, <1>11, <1>12, <1>13,
     <1>14, <1>15, <1>16, StepCases

\* The reservation invariant holds in every behaviour.
LEMMA AirCorrect == OutSpec => []AirInv
<1>1. OutInit => AirInv
  BY DEF OutInit, AirInit, ReplyInit, AdvertInit, AirInv, ReservationHasOneOwner
<1>2. QED  BY <1>1, AirStep, TypeCorrect, PTL DEF OutSpec

\* At any time at most one of the two components sends, and the reservation is
\* held exactly then, for every set of replies, every interval and every fault.
THEOREM OneOwner == OutSpec => []ReservationHasOneOwner
<1>1. AirInv => ReservationHasOneOwner  BY DEF AirInv
<1>2. QED  BY <1>1, AirCorrect, PTL

\* Outbound implements the abstract airtime: every send starts a quiet window
\* after the last packet heard and after the last start, across restarts.
THEOREM AirtimeRefinement == OutSpec => ImplementsSharedAirtime
<1> USE ReplyAssumption
    DEF OutTypeOK, AirTypeOK, ReplyTypeOK, AdvertTypeOK, AirInv, ReservationHasOneOwner,
        Holder, airVars, replyVars, queueVars, advVars, schedVars
<1>1. OutInit => Airtime!Init
  BY DEF OutInit, AirInit, ReplyInit, AdvertInit, Airtime!Init
<1>2. OutTypeOK /\ AirInv /\ AirInv' /\ [OutNext]_outVars => [Airtime!Next]_Airtime!vars
  <2> SUFFICES ASSUME OutTypeOK, AirInv, AirInv', [OutNext]_outVars
               PROVE  Airtime!Next \/ UNCHANGED Airtime!vars
    OBVIOUS
  <2> USE DEF Airtime!Next, Airtime!vars
  <2>1. CASE OutStart
    BY <2>1 DEF OutStart, ProcessStart, ReplyStart, AdvertStart
  <2>2. CASE OutExit \/ OutCrash
    BY <2>2 DEF OutExit, OutCrash, ProcessEnd, ReplyGone, AdvertGone, Airtime!End
  <2>3. CASE PacketHeard /\ UNCHANGED <<replyVars, advVars>>
    BY <2>3 DEF PacketHeard, Airtime!Hear
  <2>4. CASE ClockTick /\ UNCHANGED <<replyVars, advVars>>
    BY <2>4 DEF ClockTick, Airtime!Advance
  <2>5. CASE (\E r \in Replies : ReplyEnqueue(r)) /\ UNCHANGED advVars
    BY <2>5 DEF ReplyEnqueue
  <2>6. CASE (ReplyTickDrained \/ ReplyTickWaits) /\ UNCHANGED advVars
    BY <2>6 DEF ReplyTickDrained, ReplyTickWaits
  <2>7. CASE ReplyTickDispatches /\ UNCHANGED advVars
    <3>1. dispatching' \in Replies  BY <2>7 DEF ReplyTickDispatches, Oldest, Pending
    <3>2. dispatching = NoReply /\ ~advBusy
      BY <2>7 DEF ReplyTickDispatches, Acquire, Available
    <3>3. Holder = "nobody" /\ Holder' = "reply"  BY <3>1, <3>2
    <3>4. now - lastActivityAt >= QuietMs /\ up
      BY <2>7 DEF ReplyTickDispatches, Acquire, Available, TickRuns
    <3>5. now - lastHeardAt >= QuietMs /\ now - lastStartAt >= QuietMs
      BY <3>4, AirtimeAssumption
    <3>6. lastStartAt' = now /\ UNCHANGED <<now, lastHeardAt>>
      BY <2>7 DEF ReplyTickDispatches, Acquire
    <3>7. Airtime!Begin("reply")  BY <3>3, <3>5, <3>6 DEF Airtime!Begin
    <3>8. QED  BY <3>7
  <2>8. CASE ReplyTransmit /\ UNCHANGED advVars  BY <2>8 DEF ReplyTransmit
  <2>9. CASE (\E ok, stored \in BOOLEAN : ReplySettle(ok, stored)) /\ UNCHANGED advVars
    BY <2>9 DEF ReplySettle, Release, Airtime!End
  <2>10. CASE OutReplyStop /\ UNCHANGED advVars  BY <2>10 DEF OutReplyStop, ReplyStop
  <2>11. CASE (AdvertOnConnected \/ AdvertOnDisconnected \/ AdvertStop) /\ UNCHANGED replyVars
    BY <2>11 DEF AdvertOnConnected, AdvertOnDisconnected, AdvertStop
  <2>12. CASE AdvertTickHolds /\ UNCHANGED replyVars  BY <2>12 DEF AdvertTickHolds
  <2>13. CASE AdvertTickClaims /\ UNCHANGED replyVars
    <3>1. dispatching = NoReply /\ dispatching' = NoReply /\ ~advBusy /\ advBusy'
      BY <2>13 DEF AdvertTickClaims, Acquire, Available
    <3>2. now - lastActivityAt >= QuietMs /\ up
      BY <2>13 DEF AdvertTickClaims, Acquire, Available, AdvertTickRuns
    <3>3. now - lastHeardAt >= QuietMs /\ now - lastStartAt >= QuietMs
      BY <3>2, AirtimeAssumption
    <3>4. lastStartAt' = now /\ UNCHANGED <<now, lastHeardAt>>
      BY <2>13 DEF AdvertTickClaims, Acquire
    <3>5. Airtime!Begin("advert")  BY <3>1, <3>3, <3>4 DEF Airtime!Begin
    <3>6. QED  BY <3>5
  <2>14. CASE AdvertTickClaimFails /\ UNCHANGED replyVars
    BY <2>14 DEF AdvertTickClaimFails, AcquireAndReject
  <2>15. CASE (\E stored \in BOOLEAN : AdvertSettle(stored)) /\ UNCHANGED replyVars
    BY <2>15 DEF AdvertSettle, Release, Airtime!End
  <2>16. CASE UNCHANGED outVars  BY <2>16 DEF outVars
  <2>17. QED
    BY <2>1, <2>2, <2>3, <2>4, <2>5, <2>6, <2>7, <2>8, <2>9, <2>10, <2>11, <2>12, <2>13,
       <2>14, <2>15, <2>16, StepCases
<1>3. QED
  BY <1>1, <1>2, TypeCorrect, AirCorrect, PTL
  DEF OutSpec, ImplementsSharedAirtime, Airtime!Spec

-----------------------------------------------------------------------------
(* The advert row.                                                          *)

\* The clock moves forward by single steps.
LEMMA ClockStep ==
  ASSUME [OutNext]_outVars
  PROVE  now' = now \/ now' = now + 1
<1> USE DEF airVars, Acquire, Release
<1>1. CASE OutStart \/ OutExit \/ OutCrash
  BY <1>1 DEF OutStart, ProcessStart, OutExit, OutCrash, ProcessEnd
<1>2. CASE PacketHeard \/ ClockTick  BY <1>2 DEF PacketHeard, ClockTick
<1>3. CASE (\E r \in Replies : ReplyEnqueue(r)) \/ ReplyTransmit \/ OutReplyStop
  BY <1>3 DEF ReplyEnqueue, ReplyTransmit, OutReplyStop, ReplyStop
<1>4. CASE ReplyTickDrained \/ ReplyTickWaits \/ ReplyTickDispatches
  BY <1>4 DEF ReplyTickDrained, ReplyTickWaits, ReplyTickDispatches
<1>5. CASE \E ok, stored \in BOOLEAN : ReplySettle(ok, stored)  BY <1>5 DEF ReplySettle
<1>6. CASE AdvertOnConnected \/ AdvertOnDisconnected \/ AdvertStop
  BY <1>6 DEF AdvertOnConnected, AdvertOnDisconnected, AdvertStop
<1>7. CASE AdvertTickHolds \/ AdvertTickClaims \/ AdvertTickClaimFails
  BY <1>7 DEF AdvertTickHolds, AdvertTickClaims, AdvertTickClaimFails, AcquireAndReject
<1>8. CASE \E stored \in BOOLEAN : AdvertSettle(stored)  BY <1>8 DEF AdvertSettle
<1>9. QED
  BY <1>1, <1>2, <1>3, <1>4, <1>5, <1>6, <1>7, <1>8, StepCases DEF outVars

\* What the row remembers of the last command survives every step.
LEMMA AdvertInvStep ==
  OutTypeOK /\ AdvertInv /\ [OutNext]_outVars => AdvertInv'
<1> SUFFICES ASSUME OutTypeOK, AdvertInv, [OutNext]_outVars PROVE AdvertInv'
  OBVIOUS
<1> USE AdvertAssumption, RetryAfterBound
    DEF OutTypeOK, AirTypeOK, AdvertTypeOK, AdvertInv, AdvertRow, Null,
        advVars, schedVars, airVars
<1>1. CASE OutStart
  <2>1. UNCHANGED <<now, lastIssueAt>> /\ ~advBusy'
    BY <1>1 DEF OutStart, ProcessStart, AdvertStart
  <2>2. CASE Interrupted(adv)
    <3>1. /\ adv' = [status |-> "idle", attemptStartedAt |-> Null,
                     nextDueAt |-> lastIssueAt + RetryAfter]
          /\ uncertainAt' = lastIssueAt
      BY <1>1, <2>2 DEF OutStart, AdvertStart, RecoverAttempt, Interrupted
    <3>2. lastIssueAt \in Nat  BY <2>2 DEF Interrupted
    <3>3. QED  BY <2>1, <3>1, <3>2
  <2>3. CASE ~Interrupted(adv)
    <3>1. adv' = adv /\ uncertainAt' = uncertainAt /\ adv.status # "sending"
      BY <1>1, <2>3 DEF OutStart, AdvertStart, RecoverAttempt, Interrupted
    <3>2. QED  BY <2>1, <3>1
  <2>4. QED  BY <2>2, <2>3
<1>2. CASE OutExit \/ OutCrash  BY <1>2 DEF OutExit, OutCrash, ProcessEnd, AdvertGone
<1>3. CASE UNCHANGED advVars  BY <1>3, ClockStep
<1>4. Request(adv).status \in {adv.status, "pending"}
      /\ (adv.status = "sending" => Request(adv) = adv)
      /\ (adv.status # "sending" => Request(adv).status # "sending")
      /\ Request(adv).attemptStartedAt = adv.attemptStartedAt
      /\ Request(adv).nextDueAt = adv.nextDueAt
  BY DEF Request
<1>5. CASE (AdvertOnConnected \/ AdvertOnDisconnected \/ AdvertStop) /\ UNCHANGED replyVars
  BY <1>4, <1>5 DEF AdvertOnConnected, AdvertOnDisconnected, AdvertStop
<1>6. CASE (AdvertTickHolds \/ AdvertTickClaimFails) /\ UNCHANGED replyVars
  <2>1. adv' \in {adv, Request(adv)}
    BY <1>6 DEF AdvertTickHolds, AdvertTickClaimFails, Polled
  <2>2. UNCHANGED <<now, advBusy, lastIssueAt, uncertainAt>>
    BY <1>6 DEF AdvertTickHolds, AdvertTickClaimFails, AcquireAndReject
  <2>3. QED  BY <1>4, <2>1, <2>2
<1>7. CASE AdvertTickClaims /\ UNCHANGED replyVars
  <2>1. lastIssueAt' = now /\ UNCHANGED <<now, uncertainAt>> /\ advBusy'
    BY <1>7 DEF AdvertTickClaims, Acquire
  <2>2. Polled \in AdvertRow  BY RowStatements DEF Polled
  <2>3. adv'.status = "sending" /\ adv'.attemptStartedAt = now
    BY <1>7, <2>2 DEF AdvertTickClaims, StartAttempt
  <2>4. uncertainAt # now
    <3>1. adv.status # "sending"  BY <1>4, <1>7 DEF AdvertTickClaims, MayAttempt, Polled
    <3>2. adv.nextDueAt # Null => now >= adv.nextDueAt
      BY <1>4, <1>7 DEF AdvertTickClaims, MayAttempt, Polled
    <3>3. uncertainAt <= lastIssueAt /\ lastIssueAt <= now  OBVIOUS
    <3>4. QED  BY <3>1, <3>2, <3>3
  <2>5. QED  BY <2>1, <2>3, <2>4
<1>8. CASE (\E stored \in BOOLEAN : AdvertSettle(stored)) /\ UNCHANGED replyVars
  <2> PICK stored \in BOOLEAN : AdvertSettle(stored)  BY <1>8
  <2>1. UNCHANGED <<now, lastIssueAt, uncertainAt>> /\ ~advBusy' /\ advBusy
    BY DEF AdvertSettle, Release
  <2>2. CASE stored
    BY <2>1, <2>2 DEF AdvertSettle, ResolveAttempt
  <2>3. CASE ~stored
    BY <2>1, <2>3 DEF AdvertSettle
  <2>4. QED  BY <2>2, <2>3
<1>9. QED
  BY <1>1, <1>2, <1>3, <1>5, <1>6, <1>7, <1>8, StepCases DEF outVars

\* The remembered times are right in every behaviour.
LEMMA AdvertInvCorrect == OutSpec => []AdvertInv
<1>1. OutInit => AdvertInv
  BY DEF OutInit, AirInit, AdvertInit, AdvertInv, Null
<1>2. QED  BY <1>1, AdvertInvStep, TypeCorrect, PTL DEF OutSpec

\* A step that issues a command is a claim, and the row it claims is due.
LEMMA IssueIsDue ==
  ASSUME OutTypeOK, AdvertInv, [OutNext]_outVars, lastIssueAt' # lastIssueAt
  PROVE  /\ lastIssueAt' = now
         /\ adv.status # "sending"
         /\ adv.nextDueAt # Null => now >= adv.nextDueAt
<1> USE DEF advVars, schedVars
<1>1. AdvertTickClaims
  BY StepCases DEF OutStart, AdvertStart, OutExit, OutCrash, AdvertGone, AdvertOnConnected,
    AdvertOnDisconnected, AdvertStop, AdvertTickHolds, AdvertTickClaimFails, AdvertSettle, outVars
<1>2. lastIssueAt' = now  BY <1>1 DEF AdvertTickClaims
<1>3. Polled.status = "pending" /\ (Polled.nextDueAt # Null => now >= Polled.nextDueAt)
  BY <1>1 DEF AdvertTickClaims, MayAttempt
<1>4. adv.status # "sending" /\ Polled.nextDueAt = adv.nextDueAt
  BY <1>3 DEF Polled, Request, OutTypeOK, AdvertTypeOK, AdvertRow
<1>5. QED  BY <1>2, <1>3, <1>4

\* Consecutive advert commands are at least the configured interval apart, and
\* after an attempt a crash interrupted the long deferral, for every interval
\* and through every crash, failed write and reconnect.
THEOREM AdvertSpacing == OutSpec => AdvertsKeepTheirDistance
<1>1. OutTypeOK /\ AdvertInv /\ [OutNext]_outVars
        => [lastIssueAt' # lastIssueAt /\ lastIssueAt # Null
              => lastIssueAt' >= lastIssueAt + Distance]_<<airVars, advVars, faults>>
  <2> SUFFICES ASSUME OutTypeOK, AdvertInv, [OutNext]_outVars,
                      lastIssueAt' # lastIssueAt, lastIssueAt # Null
               PROVE  lastIssueAt' >= lastIssueAt + Distance
    OBVIOUS
  <2>1. /\ lastIssueAt' = now /\ adv.status # "sending"
        /\ adv.nextDueAt # Null => now >= adv.nextDueAt
    BY IssueIsDue
  <2>2. CASE uncertainAt = lastIssueAt
    BY <2>1, <2>2, RetryAfterBound
    DEF AdvertInv, Distance, OutTypeOK, AirTypeOK, AdvertTypeOK, AdvertRow, Null
  <2>3. CASE uncertainAt # lastIssueAt
    BY <2>1, <2>3, AdvertAssumption
    DEF AdvertInv, Distance, OutTypeOK, AirTypeOK, AdvertTypeOK, AdvertRow, Null
  <2>4. QED  BY <2>2, <2>3
<1>2. QED
  BY <1>1, TypeCorrect, AdvertInvCorrect, PTL DEF OutSpec, AdvertsKeepTheirDistance

-----------------------------------------------------------------------------
(* The reply queue.                                                         *)

\* Expiring rows only ever turns pending rows into expired ones.
LEMMA ExpiryIsLocal ==
  ASSUME ReplyTypeOK, NEW r \in Replies
  PROVE  LET t == TakeExpired(rows, now) IN
         /\ t[r].enqueuedAt = rows[r].enqueuedAt
         /\ t[r].status \in {rows[r].status, "expired"}
         /\ t[r].status # rows[r].status => rows[r].status = "pending"
         /\ rows[r].status # "pending" => t[r] = rows[r]
  BY DEF ReplyTypeOK, TakeExpired, Row, Outcome

\* A tick's row, after expiry, is among the oldest that wait.
LEMMA DispatchedIsOldest ==
  ASSUME ReplyTypeOK, ReplyTickDispatches
  PROVE  /\ dispatching' \in Replies
         /\ rows'[dispatching'].status = "pending"
         /\ \A s \in Replies : rows'[s].status = "pending"
              => rows'[dispatching'].enqueuedAt <= rows'[s].enqueuedAt
  BY DEF ReplyTickDispatches, Oldest, Pending

\* Each step keeps the queue's guard, the row in flight and the timer in step.
LEMMA DispatchStep ==
  OutTypeOK /\ AirInv /\ DispatchInv /\ [OutNext]_outVars => DispatchInv'
<1> SUFFICES ASSUME OutTypeOK, AirInv, DispatchInv, [OutNext]_outVars PROVE DispatchInv'
  OBVIOUS
<1> USE ReplyAssumption
    DEF OutTypeOK, ReplyTypeOK, AirInv, DispatchInv, PendingIsPolled,
        airVars, replyVars, queueVars
<1>1. CASE OutStart
  BY <1>1 DEF OutStart, ProcessStart, ReplyStart, Pending
<1>2. CASE OutExit \/ OutCrash  BY <1>2 DEF OutExit, OutCrash, ProcessEnd, ReplyGone
<1>3. CASE UNCHANGED <<replyVars, up>>  BY <1>3 DEF Pending
<1>4. CASE \E r \in Replies : ReplyEnqueue(r)
  <2> PICK r \in Replies : ReplyEnqueue(r)  BY <1>4
  <2>1. \A s \in Replies : s # r => rows'[s] = rows[s]  BY DEF ReplyEnqueue
  <2>2. dispatching # r  BY DEF ReplyEnqueue
  <2>3. QED  BY <2>1, <2>2 DEF ReplyEnqueue
<1>5. CASE ReplyTickDrained
  BY <1>5 DEF ReplyTickDrained, TickRuns
<1>6. CASE ReplyTickWaits
  BY <1>6 DEF ReplyTickWaits, TickRuns
<1>7. CASE ReplyTickDispatches
  BY <1>7, DispatchedIsOldest DEF ReplyTickDispatches, TickRuns
<1>8. CASE ReplyTransmit  BY <1>8 DEF ReplyTransmit, Pending
<1>9. CASE \E ok, stored \in BOOLEAN : ReplySettle(ok, stored)
  <2> PICK ok \in BOOLEAN, stored \in BOOLEAN : ReplySettle(ok, stored)  BY <1>9
  <2>1. replyTimer' <=> replyTimer /\ Pending(rows') # {}  BY Zenon DEF ReplySettle
  <2>2. dispatching \in Pending(rows)  BY DEF ReplySettle, Pending
  <2>3. UNCHANGED <<up, replyStopped>> /\ ~replySending' /\ dispatching' = NoReply /\ ~onAir'
    BY DEF ReplySettle, Release
  <2>4. QED  BY <2>1, <2>2, <2>3 
<1>10. CASE OutReplyStop  BY <1>10 DEF OutReplyStop, ReplyStop
<1>11. UNCHANGED replyVars /\ [OutNext]_outVars /\ ~OutStart /\ ~OutExit /\ ~OutCrash
         => up' = up
  <2> USE DEF Acquire, Release
  <2>1. CASE PacketHeard \/ ClockTick  BY <2>1 DEF PacketHeard, ClockTick
  <2>2. CASE ~(PacketHeard \/ ClockTick)
    BY <2>2, StepCases
    DEF ReplyEnqueue, ReplyTickDrained, ReplyTickWaits, ReplyTickDispatches, ReplyTransmit,
        ReplySettle, OutReplyStop, ReplyStop, AdvertOnConnected, AdvertOnDisconnected,
        AdvertTickHolds, AdvertTickClaims, AdvertTickClaimFails, AcquireAndReject,
        AdvertSettle, AdvertStop, outVars
  <2>3. QED  BY <2>1, <2>2
<1>12. QED
  BY <1>1, <1>2, <1>3, <1>4, <1>5, <1>6, <1>7, <1>8, <1>9, <1>10, <1>11, StepCases DEF outVars

\* The queue's guard, row in flight and timer agree in every behaviour.
LEMMA DispatchCorrect == OutSpec => []DispatchInv
<1>1. OutInit => DispatchInv
  BY DEF OutInit, AirInit, ReplyInit, DispatchInv, PendingIsPolled
<1>2. QED  BY <1>1, DispatchStep, TypeCorrect, AirCorrect, PTL DEF OutSpec

\* No lost wakeup, for every set of replies: what waits is polled.
THEOREM NoLostWakeup == OutSpec => []PendingIsPolled
<1>1. DispatchInv => PendingIsPolled  BY DEF DispatchInv
<1>2. QED  BY <1>1, DispatchCorrect, PTL

\* A recorded outcome never changes, although the statement that records it
\* does not ask for a pending row.
THEOREM FinalOutcomes == OutSpec => OutcomeIsFinal
<1>1. OutTypeOK /\ DispatchInv /\ [OutNext]_outVars
        => [\A r \in Replies : rows[r].status \in Outcome => rows'[r] = rows[r]]_vars
  <2> SUFFICES ASSUME OutTypeOK, DispatchInv, [OutNext]_outVars,
                      NEW r \in Replies, rows[r].status \in Outcome
               PROVE  rows'[r] = rows[r]
    OBVIOUS
  <2> USE DEF OutTypeOK, ReplyTypeOK, Outcome, replyVars, queueVars
  <2>1. CASE UNCHANGED rows  BY <2>1
  <2>2. CASE \E s \in Replies : ReplyEnqueue(s)  BY <2>2 DEF ReplyEnqueue
  <2>3. CASE ReplyTickDrained \/ ReplyTickWaits \/ ReplyTickDispatches
    BY <2>3, ExpiryIsLocal DEF ReplyTickDrained, ReplyTickWaits, ReplyTickDispatches
  <2>4. CASE \E ok, stored \in BOOLEAN : ReplySettle(ok, stored)
    <3>1. dispatching # r  BY <2>4 DEF ReplySettle, DispatchInv
    <3>2. QED  BY <2>4, <3>1 DEF ReplySettle, Resolve
  <2>5. QED
    BY <2>1, <2>2, <2>3, <2>4, StepCases
    DEF outVars, OutStart, ReplyStart, OutExit, OutCrash, ReplyGone, ReplyTransmit,
        OutReplyStop, ReplyStop
<1>2. QED
  BY <1>1, TypeCorrect, DispatchCorrect, PTL DEF OutSpec, OutcomeIsFinal

\* Nothing newer is sent or in flight while something older waits: kept by
\* every step.
LEMMA OrderStep ==
  OutTypeOK /\ DispatchInv /\ OrderInv /\ [OutNext]_outVars => OrderInv'
<1> SUFFICES ASSUME OutTypeOK, DispatchInv, OrderInv, [OutNext]_outVars PROVE OrderInv'
  OBVIOUS
<1> USE ReplyAssumption
    DEF OutTypeOK, AirTypeOK, ReplyTypeOK, Row, OrderInv, NoOvertaking, airVars, replyVars, queueVars
<1>1. CASE OutStart \/ OutExit \/ OutCrash
  BY <1>1 DEF OutStart, ProcessStart, ReplyStart, OutExit, OutCrash, ProcessEnd, ReplyGone
<1>2. CASE UNCHANGED <<rows, dispatching>>  BY <1>2, ClockStep
<1>3. CASE \E r \in Replies : ReplyEnqueue(r)
  <2> PICK r \in Replies : ReplyEnqueue(r)  BY <1>3
  <2>1. UNCHANGED <<now, dispatching>>  BY DEF ReplyEnqueue
  <2>2. \A s \in Replies : s # r => rows'[s] = rows[s]  BY DEF ReplyEnqueue
  <2>3. rows'[r].status = "pending" /\ rows'[r].enqueuedAt = now  BY DEF ReplyEnqueue
  <2>4. dispatching # r  BY DEF ReplyEnqueue, DispatchInv
  <2>5. \A s \in Replies : rows'[s].enqueuedAt <= now  BY <2>2, <2>3
  <2>6. NoOvertaking'
    <3> SUFFICES ASSUME NEW p \in Replies, NEW s \in Replies, rows'[p].status = "pending",
                        s = dispatching \/ rows'[s].status \in {"sent", "failed"}
                 PROVE  rows'[s].enqueuedAt <= rows'[p].enqueuedAt
      BY <2>1
    <3>1. s # r  BY <2>3, <2>4
    <3>2. CASE p = r  BY <3>2, <2>3, <2>5
    <3>3. CASE p # r  BY <3>1, <3>3, <2>2
    <3>4. QED  BY <3>2, <3>3
  <2>7. QED  BY <2>1, <2>5, <2>6
<1>4. CASE ReplyTickDrained \/ ReplyTickWaits
  <2>1. UNCHANGED <<now, dispatching>> /\ rows' = TakeExpired(rows, now)
    BY <1>4 DEF ReplyTickDrained, ReplyTickWaits
  <2>2. dispatching = NoReply
    BY <1>4 DEF ReplyTickDrained, ReplyTickWaits, TickRuns, DispatchInv
  <2>3. QED  BY <2>1, <2>2, ExpiryIsLocal
<1>5. CASE ReplyTickDispatches
  <2>1. UNCHANGED now /\ rows' = TakeExpired(rows, now)
    BY <1>5 DEF ReplyTickDispatches, Acquire
  <2>2. \A r \in Replies : rows'[r].enqueuedAt = rows[r].enqueuedAt
                           /\ rows'[r].status \in {rows[r].status, "expired"}
    BY <2>1, ExpiryIsLocal
  <2>3. QED  BY <1>5, <2>1, <2>2, DispatchedIsOldest
<1>6. CASE \E ok, stored \in BOOLEAN : ReplySettle(ok, stored)
  <2> PICK ok \in BOOLEAN, stored \in BOOLEAN : ReplySettle(ok, stored)  BY <1>6
  <2>1. UNCHANGED now /\ dispatching' = NoReply  BY DEF ReplySettle, Release
  <2>2. \A s \in Replies : /\ rows'[s].enqueuedAt = rows[s].enqueuedAt
                           /\ s # dispatching => rows'[s] = rows[s]
    BY DEF ReplySettle, Resolve
  <2>3. rows'[dispatching].status = "pending" => rows' = rows
    BY DEF ReplySettle, Resolve
  <2>4. QED  BY <2>1, <2>2, <2>3
<1>7. QED
  BY <1>1, <1>2, <1>3, <1>4, <1>5, <1>6, StepCases
  DEF outVars, ReplyTransmit, OutReplyStop, ReplyStop

\* The order of replies is right in every behaviour.
LEMMA OrderCorrect == OutSpec => []OrderInv
<1>1. OutInit => OrderInv
  BY ReplyAssumption DEF OutInit, AirInit, ReplyInit, OrderInv, NoOvertaking
<1>2. QED  BY <1>1, OrderStep, TypeCorrect, DispatchCorrect, PTL DEF OutSpec

\* Replies leave in the order they were queued, for every set of replies and
\* across restarts, crashes and failed writes.
THEOREM Fifo == OutSpec => []NoOvertaking
<1>1. OrderInv => NoOvertaking  BY DEF OrderInv
<1>2. QED  BY <1>1, OrderCorrect, PTL

\* The fault count never decreases; it grows when a process ends with a reply
\* in flight and when a settled reply is not written.
LEMMA FaultsGrow ==
  ASSUME OutTypeOK, [OutNext]_outVars
  PROVE  faults' \in Nat /\ faults' >= faults
<1> USE CountedFaults DEF OutTypeOK, AirTypeOK
<1>1. CASE UNCHANGED faults  BY <1>1
<1>2. CASE OutExit \/ OutCrash  BY <1>2 DEF OutExit, OutCrash, ProcessEnd
<1>3. CASE \E ok, stored \in BOOLEAN : ReplySettle(ok, stored)  BY <1>3 DEF ReplySettle
<1>4. CASE AdvertTickClaimFails  BY <1>4 DEF AdvertTickClaimFails
<1>5. CASE \E stored \in BOOLEAN : AdvertSettle(stored)  BY <1>5 DEF AdvertSettle
<1>6. QED
  BY <1>1, <1>2, <1>3, <1>4, <1>5, StepCases
  DEF outVars, OutStart, ProcessStart, PacketHeard, ClockTick, ReplyEnqueue, ReplyTickDrained,
      ReplyTickWaits, ReplyTickDispatches, ReplyTransmit, OutReplyStop, ReplyStop,
      AdvertOnConnected, AdvertOnDisconnected, AdvertTickHolds, AdvertTickClaims, AdvertStop

\* Each step keeps the account of copies and faults.
LEMMA CopiesStep ==
  OutTypeOK /\ AirInv /\ DispatchInv /\ CopiesInv /\ [OutNext]_outVars => CopiesInv'
<1> SUFFICES ASSUME OutTypeOK, AirInv, DispatchInv, CopiesInv, [OutNext]_outVars,
                    NEW r \in Replies
             PROVE  CopiesOf(r)'
  BY DEF CopiesInv
<1>0. CopiesOf(r) /\ faults \in Nat /\ faults' \in Nat /\ faults' >= faults /\ copies[r] \in Nat
  BY FaultsGrow DEF CopiesInv, OutTypeOK, AirTypeOK, ReplyTypeOK
<1> USE <1>0, ReplyAssumption DEF CopiesOf, OutTypeOK, ReplyTypeOK, DispatchInv, replyVars, queueVars
<1>1. CASE OutStart
  BY <1>1 DEF OutStart, ProcessStart, ReplyStart, AirInv
<1>2. CASE OutCrash
  <2>1. faults' = faults + 1  BY <1>2, Zenon DEF OutCrash, ProcessEnd, Counted
  <2>2. QED  BY <1>2, <2>1 DEF OutCrash, ReplyGone
<1>3. CASE OutExit  BY <1>3 DEF OutExit, ReplyGone
<1>4. CASE UNCHANGED <<rows, copies, dispatching, onAir>>  BY <1>4
<1>5. CASE \E s \in Replies : ReplyEnqueue(s)
  <2> PICK s \in Replies : ReplyEnqueue(s)  BY <1>5
  <2>1. UNCHANGED <<copies, dispatching, onAir, faults>>  BY DEF ReplyEnqueue
  <2>2. CASE r = s  BY <2>1, <2>2 DEF ReplyEnqueue
  <2>3. CASE r # s  BY <2>1, <2>3 DEF ReplyEnqueue
  <2>4. QED  BY <2>2, <2>3
<1>6. CASE ReplyTickDrained \/ ReplyTickWaits
  <2>1. UNCHANGED <<copies, dispatching, onAir, faults>> /\ rows' = TakeExpired(rows, now)
    BY <1>6 DEF ReplyTickDrained, ReplyTickWaits
  <2>2. dispatching = NoReply
    BY <1>6 DEF ReplyTickDrained, ReplyTickWaits, TickRuns
  <2>3. QED  BY <2>1, <2>2, ExpiryIsLocal
<1>7. CASE ReplyTickDispatches
  <2>1. UNCHANGED <<copies, faults>> /\ ~onAir' /\ rows' = TakeExpired(rows, now)
    BY <1>7 DEF ReplyTickDispatches
  <2>2. ~onAir  BY <1>7 DEF ReplyTickDispatches, TickRuns
  <2>3. QED  BY <2>1, <2>2, ExpiryIsLocal
<1>8. CASE ReplyTransmit
  <2>1. UNCHANGED <<rows, dispatching, faults>> /\ onAir' /\ ~onAir /\ dispatching # NoReply
    BY <1>8 DEF ReplyTransmit
  <2>2. copies' = [copies EXCEPT ![dispatching] = @ + 1]  BY <1>8 DEF ReplyTransmit
  <2>3. QED  BY <2>1, <2>2
<1>9. CASE \E ok, stored \in BOOLEAN : ReplySettle(ok, stored)
  <2> PICK ok \in BOOLEAN, stored \in BOOLEAN : ReplySettle(ok, stored)  BY <1>9
  <2>1. UNCHANGED copies /\ dispatching' = NoReply /\ ~onAir' /\ dispatching \in Replies
    BY DEF ReplySettle
  <2>2. CASE ~stored
    <3>1. faults' = faults + 1  BY <2>2, Zenon DEF ReplySettle, Counted
    <3>2. rows'[r] = rows[r] /\ copies'[r] = copies[r]  BY <2>2 DEF ReplySettle
    <3>3. QED  BY <2>1, <3>1, <3>2
  <2>3. CASE stored /\ r # dispatching
    <3>1. rows'[r] = rows[r]  BY <2>3 DEF ReplySettle, Resolve
    <3>2. QED  BY <2>1, <2>3, <3>1
  <2>4. CASE stored /\ r = dispatching
    <3>1. rows'[r].status = IF ok THEN "sent" ELSE "failed"  BY <2>4 DEF ReplySettle, Resolve
    <3>2. ok => onAir  BY DEF ReplySettle
    <3>3. QED  BY <2>1, <2>4, <3>1, <3>2
  <2>5. QED  BY <2>2, <2>3, <2>4
<1>10. QED
  BY <1>1, <1>2, <1>3, <1>4, <1>5, <1>6, <1>7, <1>8, <1>9, StepCases
  DEF outVars, OutReplyStop, ReplyStop

\* The account of copies and faults is right in every behaviour.
LEMMA CopiesCorrect == OutSpec => []CopiesInv
<1>1. OutInit => CopiesInv
  BY DEF OutInit, AirInit, ReplyInit, CopiesInv, CopiesOf
<1>2. QED  BY <1>1, CopiesStep, TypeCorrect, AirCorrect, DispatchCorrect, PTL DEF OutSpec

\* Without faults a reply is sent at most once, and each further copy is paid
\* for by a crash or a failed write.
THEOREM BoundedDuplicates == OutSpec => []DuplicatesNeedFaults
<1>1. CopiesInv => DuplicatesNeedFaults  BY DEF CopiesInv, CopiesOf, DuplicatesNeedFaults
<1>2. QED  BY <1>1, CopiesCorrect, PTL

\* What is reported as sent was transmitted.
THEOREM SentMeansTransmitted == OutSpec => []SentWasTransmitted
<1>1. CopiesInv => SentWasTransmitted  BY DEF CopiesInv, CopiesOf, SentWasTransmitted
<1>2. QED  BY <1>1, CopiesCorrect, PTL

\* What is reported as expired was not transmitted, unless a fault hid it.
THEOREM ExpiryMeansSilence == OutSpec => []ExpiredWasNotSent
<1>1. CopiesInv => ExpiredWasNotSent  BY DEF CopiesInv, CopiesOf, ExpiredWasNotSent
<1>2. QED  BY <1>1, CopiesCorrect, PTL

\* All of it together: the inductive invariant holds in every behaviour.
THEOREM InvariantHolds == OutSpec => []IInv
<1>1. OutTypeOK /\ AirInv /\ DispatchInv /\ OrderInv /\ CopiesInv /\ AdvertInv => IInv
  BY DEF IInv
<1>2. QED
  BY <1>1, TypeCorrect, AirCorrect, DispatchCorrect, OrderCorrect, CopiesCorrect,
     AdvertInvCorrect, PTL

\* Outbound implements the abstract delivery of replies.
THEOREM DeliveryRefinement == OutSpec => ImplementsDelivery
<1> DEFINE state == [r \in Replies |-> rows[r].status]
<1>1. OutInit => Delivery!Init
  BY DEF OutInit, AirInit, ReplyInit, Delivery!Init
<1>2. OutTypeOK /\ AirInv /\ DispatchInv /\ CopiesInv /\ [OutNext]_outVars
        => [Delivery!Next]_Delivery!vars
  <2> SUFFICES ASSUME OutTypeOK, AirInv, DispatchInv, CopiesInv, [OutNext]_outVars
               PROVE  Delivery!Next \/ UNCHANGED <<state, copies, faults>>
    BY DEF Delivery!vars
  <2> USE DEF OutTypeOK, AirTypeOK, ReplyTypeOK, Row, Outcome, replyVars, queueVars, airVars
  <2>0. faults' \in Nat  BY FaultsGrow
  <2>1. CASE UNCHANGED <<rows, copies>> /\ (faults' = faults \/ faults' = faults + 1)
    BY <2>1 DEF Delivery!Next, Delivery!Fault
  <2>2. CASE \E r \in Replies : ReplyEnqueue(r)
    <3> PICK r \in Replies : ReplyEnqueue(r)  BY <2>2
    <3>1. state[r] = "none" /\ state' = [state EXCEPT ![r] = "pending"]  BY DEF ReplyEnqueue
    <3>2. UNCHANGED <<copies, faults>>  BY DEF ReplyEnqueue
    <3>3. QED  BY <3>1, <3>2 DEF Delivery!Next, Delivery!Queue
  <2>3. CASE ReplyTickDrained \/ ReplyTickWaits \/ ReplyTickDispatches
    <3> DEFINE late == {r \in Replies : rows[r].status = "pending" /\ rows[r].expiresAt <= now}
    <3>1. rows' = TakeExpired(rows, now) /\ UNCHANGED <<copies, faults>>
      BY <2>3 DEF ReplyTickDrained, ReplyTickWaits, ReplyTickDispatches
    <3>2. state' = [r \in Replies |-> IF r \in late THEN "expired" ELSE state[r]]
      BY <3>1 DEF TakeExpired
    <3>3. CASE late = {}  BY <3>1, <3>2, <3>3
    <3>4. CASE late # {}
      <4>1. dispatching = NoReply
        BY <2>3 DEF ReplyTickDrained, ReplyTickWaits, ReplyTickDispatches, TickRuns, DispatchInv
      <4>2. \A r \in late : copies[r] <= faults
        BY <4>1, ReplyAssumption DEF CopiesInv, CopiesOf
      <4>3. \A r \in late : state[r] = "pending"  OBVIOUS
      <4>4. late \subseteq Delivery!Waiting  BY <4>3 DEF Delivery!Waiting
      <4> PICK set \in SUBSET Replies : set = late  OBVIOUS
      <4>5. Delivery!Expire(set)  BY <3>1, <3>2, <3>4, <4>2, <4>4 DEF Delivery!Expire
      <4>6. QED  BY <4>5 DEF Delivery!Next
    <3>5. QED  BY <3>3, <3>4
  <2>4. CASE ReplyTransmit
    <3>1. dispatching \in Replies /\ rows[dispatching].status = "pending" /\ ~onAir
      BY <2>4 DEF ReplyTransmit, DispatchInv
    <3>2. copies[dispatching] <= faults  BY <3>1 DEF CopiesInv, CopiesOf
    <3>3. copies' = [copies EXCEPT ![dispatching] = @ + 1] /\ UNCHANGED <<state, faults>>
      BY <2>4 DEF ReplyTransmit
    <3>4. Delivery!Transmit(dispatching)
      BY <3>1, <3>2, <3>3 DEF Delivery!Transmit, Delivery!Waiting
    <3>5. QED  BY <3>1, <3>4 DEF Delivery!Next
  <2>5. CASE \E ok, stored \in BOOLEAN : ReplySettle(ok, stored)
    <3> PICK ok \in BOOLEAN, stored \in BOOLEAN : ReplySettle(ok, stored)  BY <2>5
    <3> DEFINE how == IF ok THEN "sent" ELSE "failed"
    <3>1. dispatching \in Replies /\ rows[dispatching].status = "pending"
      BY DEF ReplySettle, DispatchInv
    <3>2. CASE stored
      <4>1. state' = [state EXCEPT ![dispatching] = how]
        BY <3>1, <3>2 DEF ReplySettle, Resolve
      <4>2. UNCHANGED faults  BY <3>2, Zenon DEF ReplySettle, Counted
      <4>3. UNCHANGED copies  BY DEF ReplySettle
      <4>4. ok => copies[dispatching] > 0
        BY <3>1 DEF ReplySettle, CopiesInv, CopiesOf
      <4>5. how = "sent" => copies[dispatching] > 0  BY <4>4
      <4>6. Delivery!Conclude(dispatching, how)
        BY <3>1, <4>1, <4>2, <4>3, <4>5 DEF Delivery!Conclude, Delivery!Waiting
      <4>7. how \in {"sent", "failed"}  OBVIOUS
      <4>8. QED  BY <3>1, <4>6, <4>7 DEF Delivery!Next
    <3>3. CASE ~stored
      <4>1. faults' = faults + 1  BY <3>3, Zenon DEF ReplySettle, Counted
      <4>2. UNCHANGED <<rows, copies>>  BY <3>3 DEF ReplySettle
      <4>3. QED  BY <2>1, <4>1, <4>2
    <3>4. QED  BY <3>2, <3>3
  <2>6. CASE OutExit \/ OutCrash
    <3>1. faults' = faults \/ faults' = faults + 1
      BY <2>6, Zenon DEF OutExit, OutCrash, ProcessEnd, Counted
    <3>2. QED  BY <2>1, <2>6, <3>1 DEF OutExit, OutCrash, ReplyGone
  <2>7. CASE \/ AdvertTickClaimFails /\ UNCHANGED replyVars
             \/ (\E stored \in BOOLEAN : AdvertSettle(stored)) /\ UNCHANGED replyVars
    <3>1. faults' = faults \/ faults' = faults + 1
      BY <2>7, Zenon DEF AdvertTickClaimFails, AdvertSettle, Counted
    <3>2. QED  BY <2>1, <2>7, <3>1
  <2>8. CASE \/ OutStart
             \/ (PacketHeard \/ ClockTick) /\ UNCHANGED replyVars
             \/ OutReplyStop
             \/ (\/ AdvertOnConnected \/ AdvertOnDisconnected
                 \/ AdvertTickHolds \/ AdvertTickClaims \/ AdvertStop) /\ UNCHANGED replyVars
             \/ UNCHANGED outVars
    BY <2>1, <2>8
    DEF OutStart, ProcessStart, ReplyStart, PacketHeard, ClockTick, OutReplyStop, ReplyStop,
        AdvertOnConnected, AdvertOnDisconnected, AdvertTickHolds, AdvertTickClaims, AdvertStop,
        outVars
  <2>9. QED  BY <2>2, <2>3, <2>4, <2>5, <2>6, <2>7, <2>8, StepCases
<1>3. QED
  BY <1>1, <1>2, TypeCorrect, AirCorrect, DispatchCorrect, CopiesCorrect, PTL
  DEF OutSpec, ImplementsDelivery, Delivery!Spec
=============================================================================
