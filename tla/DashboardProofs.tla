--------------------------- MODULE DashboardProofs ---------------------------
(***************************************************************************)
(* Proofs about the dashboard page, for every set of views, ranges and     *)
(* searches and any number of requests, clicks, faults and samples: there  *)
(* is a single current request, the page tells the truth when nothing is   *)
(* in flight, and the table shows what was asked for as long as its        *)
(* requests do not overlap.                                                *)
(***************************************************************************)
EXTENDS NodesTable, SequenceTheorems, TLAPS

\* The current request is the one whose slot and generation are remembered;
\* every other one that is still under way has been aborted.
FlightInv ==
  /\ active # 0 => InFlight(active) /\ ~flight[active].aborted /\ newest = active
  /\ SingleFlight

\* What is asked for, or was drawn last, is what the user chose.
ChoiceInv ==
  /\ active # 0 /\ ~unasked => flight[active].view = view /\ flight[active].query = Query
  /\ StatusIsTrue

RangeInv == RangeTypeOK /\ FlightInv /\ ChoiceInv

AQuery == Queries \cup {NoQuery}

Answer == Samples \cup {Unanswered}

FlightRecord == [view : Views, query : Queries, sample : Answer, aborted : BOOLEAN]
-----------------------------------------------------------------------------
(* Requests.                                                                *)

LEMMA QueryType ==
  ASSUME NEW r \in Presets \cup {"custom"}, NEW c \in Customs \cup {NoQuery}
  PROVE  QueryOf(r, c) \in AQuery
BY DEF QueryOf, AQuery, Queries

LEMMA RequestType ==
  ASSUME NEW v \in Views, NEW q \in Queries
  PROVE  /\ Request(v, q) \in FlightRecord /\ Request(v, q) # Free
         /\ Request(v, q).view = v /\ Request(v, q).query = q
         /\ ~Request(v, q).aborted
BY PageAssumption DEF Request, FlightRecord, Answer, Free

\* What is in flight is a record, and stays one when it is aborted or answered.
LEMMA InFlightType ==
  ASSUME RangeTypeOK, NEW s \in Slots, InFlight(s)
  PROVE  flight[s] \in FlightRecord
BY DEF RangeTypeOK, InFlight, FlightRecord, Answer

LEMMA RecordUpdates ==
  ASSUME NEW f \in FlightRecord, NEW n \in Answer
  PROVE  /\ f # Free
         /\ [f EXCEPT !.aborted = TRUE] \in FlightRecord
         /\ [f EXCEPT !.aborted = TRUE].aborted
         /\ [f EXCEPT !.sample = n] \in FlightRecord
         /\ [f EXCEPT !.sample = n].aborted = f.aborted
         /\ [f EXCEPT !.sample = n].view = f.view
         /\ [f EXCEPT !.sample = n].query = f.query
<1>1. f # Free
  BY PageAssumption DEF FlightRecord, Free
<1>2. [f EXCEPT !.aborted = TRUE] \in FlightRecord
  BY DEF FlightRecord
<1>3. [f EXCEPT !.aborted = TRUE].aborted
  BY DEF FlightRecord
<1>4. /\ [f EXCEPT !.sample = n] \in FlightRecord
      /\ [f EXCEPT !.sample = n].view = f.view
      /\ [f EXCEPT !.sample = n].query = f.query
  BY DEF FlightRecord
<1>5. [f EXCEPT !.sample = n].aborted = f.aborted
  BY DEF FlightRecord
<1>6. QED  BY <1>1, <1>2, <1>3, <1>4, <1>5

LEMMA FreeSlotIsFree ==
  ASSUME \E s \in Slots : ~InFlight(s)
  PROVE  FreeSlot \in Slots /\ ~InFlight(FreeSlot)
BY DEF FreeSlot

\* A new request is the current one; the one it supersedes is aborted.
LEMMA SendsIsCurrent ==
  ASSUME RangeTypeOK, FlightInv, NEW v \in Views, NEW q \in Queries,
         \E s \in Slots : ~InFlight(s), Sends(FreeSlot, v, q)
  PROVE  /\ active' \in Slots /\ newest' = active'
         /\ flight' \in [Slots -> {Free} \cup FlightRecord]
         /\ FlightInv'
         /\ flight'[active'].view = v /\ flight'[active'].query = q
         /\ status' = [kind |-> "loading", view |-> v]
<1> DEFINE s == FreeSlot
<1>1. s \in Slots /\ ~InFlight(s)
  BY FreeSlotIsFree
<1>2. /\ active' = s /\ newest' = s /\ status' = [kind |-> "loading", view |-> v]
      /\ flight' = [t \in Slots |-> IF t = s THEN Request(v, q)
                                    ELSE IF t = active THEN [flight[t] EXCEPT !.aborted = TRUE]
                                    ELSE flight[t]]
  BY DEF Sends
<1>3. 0 \notin Slots
  BY DEF Slots
<1>4. ASSUME NEW t \in Slots, t # s, t = active
      PROVE  flight'[t] \in FlightRecord /\ flight'[t].aborted
  <2>1. flight[t] \in FlightRecord
    BY <1>3, <1>4, InFlightType DEF FlightInv
  <2>2. flight'[t] = [flight[t] EXCEPT !.aborted = TRUE]
    BY <1>2, <1>4
  <2>3. Unanswered \in Answer
    BY DEF Answer
  <2>4. [flight[t] EXCEPT !.aborted = TRUE] \in FlightRecord
        /\ [flight[t] EXCEPT !.aborted = TRUE].aborted
    BY <2>1, <2>3, RecordUpdates
  <2>5. QED  BY <2>2, <2>4, Zenon
<1>5. ASSUME NEW t \in Slots, t # s, t # active
      PROVE  flight'[t] = flight[t] /\ (flight[t] # Free => flight[t].aborted)
  BY <1>2, <1>5 DEF FlightInv, SingleFlight, InFlight
<1>6. /\ flight'[s] = Request(v, q) /\ flight'[s] \in FlightRecord
      /\ flight'[s] # Free /\ ~flight'[s].aborted
      /\ flight'[s].view = v /\ flight'[s].query = q
  BY <1>1, <1>2, RequestType
<1>7. flight' \in [Slots -> {Free} \cup FlightRecord]
  <2>1. ASSUME NEW t \in Slots PROVE flight'[t] \in {Free} \cup FlightRecord
    <3>1. flight[t] \in {Free} \cup FlightRecord
      BY DEF RangeTypeOK, FlightRecord, Answer
    <3>2. QED  BY <1>4, <1>5, <1>6, <3>1
  <2>2. QED  BY <1>2, <2>1
<1>8. SingleFlight'
  BY <1>1, <1>2, <1>4, <1>5, <1>6 DEF SingleFlight, InFlight
<1>9. QED
  BY <1>1, <1>2, <1>6, <1>7, <1>8 DEF FlightInv, InFlight

-----------------------------------------------------------------------------
(* Steps.                                                                   *)

LEMMA RangeInitHolds == RangeInit => RangeInv
<1> SUFFICES ASSUME RangeInit PROVE RangeInv
  OBVIOUS
<1>1. /\ 1 \in Slots /\ 0 \notin Slots
      /\ 0 \in 0 .. MaxClicks /\ 0 \in 0 .. MaxFaults /\ 0 \in Samples
  BY PageAssumption DEF Slots, Samples
<1>2. view \in Views /\ range \in Queries
  BY DEF RangeInit, Queries
<1>3. /\ flight = [s \in Slots |-> IF s = 1 THEN Request(view, range) ELSE Free]
      /\ flight[1] = Request(view, range)
  BY <1>1 DEF RangeInit
<1>4. /\ Request(view, range) \in FlightRecord /\ Request(view, range) # Free
      /\ ~Request(view, range).aborted
      /\ Request(view, range).view = view /\ Request(view, range).query = range
  BY <1>2, RequestType
<1>5. flight \in [Slots -> {Free} \cup FlightRecord]
  BY <1>3, <1>4
<1>6. RangeTypeOK
  <2>1. shown \in [Views -> [query : Queries \cup {NoQuery}, sample : Samples \cup {Unanswered}]]
    BY DEF RangeInit
  <2>2. status \in [kind : Kinds, view : Views]
    BY DEF RangeInit, Kinds
  <2>3. QED
    BY <1>1, <1>5, <2>1, <2>2 DEF RangeInit, RangeTypeOK, FlightRecord, Answer
<1>7. FlightInv
  BY <1>1, <1>3, <1>4 DEF RangeInit, FlightInv, SingleFlight, InFlight
<1>8. Query = range
  BY PageAssumption DEF Query, QueryOf, RangeInit
<1>9. ChoiceInv
  BY <1>3, <1>4, <1>8 DEF RangeInit, ChoiceInv, StatusIsTrue
<1>10. QED  BY <1>6, <1>7, <1>9 DEF RangeInv

\* The typed variables that a request or a choice may change.
LEMMA TypeFrom ==
  ASSUME RangeTypeOK,
         view' \in Views, range' \in Presets \cup {"custom"}, custom' \in Customs \cup {NoQuery},
         shown' \in [Views -> [query : Queries \cup {NoQuery}, sample : Answer]],
         status' \in [kind : Kinds, view : Views],
         active' \in Slots \cup {0}, newest' \in Slots, queued' \in BOOLEAN,
         flight' \in [Slots -> {Free} \cup FlightRecord],
         unasked' \in BOOLEAN, open' \in BOOLEAN, sample' \in Samples, wire' \in Nat,
         clicks' \in 0 .. MaxClicks, faults' \in 0 .. MaxFaults
  PROVE  RangeTypeOK'
BY DEF RangeTypeOK, FlightRecord, Answer, Free

LEMMA FlightType ==
  RangeTypeOK => flight \in [Slots -> {Free} \cup FlightRecord]
BY DEF RangeTypeOK, FlightRecord, Answer

\* refreshRangeData() keeps a single current request; if it had a query and
\* was not put off, the request is for that view and that query.
LEMMA RefreshStep ==
  ASSUME RangeTypeOK, FlightInv, NEW supersede \in BOOLEAN,
         NEW v \in Views, NEW q \in AQuery, Refreshes(supersede, v, q)
  PROVE  /\ FlightInv'
         /\ flight' \in [Slots -> {Free} \cup FlightRecord]
         /\ active' \in Slots \cup {0} /\ newest' \in Slots /\ queued' \in BOOLEAN
         /\ status' \in [kind : Kinds, view : Views]
         /\ \/ /\ UNCHANGED <<active, flight, status>>
               /\ q = NoQuery \/ (active # 0 /\ ~supersede)
            \/ /\ q # NoQuery /\ active' # 0
               /\ flight'[active'].view = v /\ flight'[active'].query = q
               /\ status' = [kind |-> "loading", view |-> v]
<1>1. CASE UNCHANGED <<active, newest, flight, status>> /\ queued' \in BOOLEAN
           /\ (q = NoQuery \/ (active # 0 /\ ~supersede))
  BY <1>1, FlightType DEF FlightInv, SingleFlight, InFlight, RangeTypeOK
<1>2. CASE /\ q # NoQuery
           /\ \E s \in Slots : ~InFlight(s)
           /\ Sends(FreeSlot, v, q)
           /\ UNCHANGED queued
  <2>1. q \in Queries
    BY <1>2 DEF AQuery
  <2>2. /\ active' \in Slots /\ newest' = active'
        /\ flight' \in [Slots -> {Free} \cup FlightRecord]
        /\ FlightInv'
        /\ flight'[active'].view = v /\ flight'[active'].query = q
        /\ status' = [kind |-> "loading", view |-> v]
    BY <1>2, <2>1, SendsIsCurrent
  <2>3. queued' \in BOOLEAN /\ 0 \notin Slots
    BY <1>2 DEF RangeTypeOK, Slots
  <2>4. status' \in [kind : Kinds, view : Views]
    BY <2>2 DEF Kinds
  <2>5. QED  BY <1>2, <2>2, <2>3, <2>4
<1>3. QED
  BY <1>1, <1>2 DEF Refreshes, Coalesces, requestVars, RangeTypeOK

\* The end of a request: one that was superseded leaves the current one alone,
\* the current one makes way for nothing, or for a request of what is chosen.
LEMMA SettlesStep ==
  ASSUME RangeTypeOK, FlightInv, NEW s \in Slots, InFlight(s),
         NEW st \in [kind : Kinds, view : Views], Settles(s, st)
  PROVE  /\ FlightInv'
         /\ flight' \in [Slots -> {Free} \cup FlightRecord]
         /\ active' \in Slots \cup {0} /\ newest' \in Slots /\ queued' \in BOOLEAN
         /\ unasked' \in BOOLEAN
         /\ status' \in [kind : Kinds, view : Views]
         /\ \/ /\ flight[s].aborted
               /\ UNCHANGED <<active, unasked>> /\ status' = st
               /\ active # 0 => flight'[active] = flight[active]
            \/ /\ ~flight[s].aborted /\ active = s
               /\ active' = 0 /\ status' = st /\ unasked' = unasked
            \/ /\ ~flight[s].aborted /\ active = s /\ active' # 0
               /\ flight'[active'].view = view /\ flight'[active'].query = Query
               /\ status' = [kind |-> "loading", view |-> view]
<1>1. 0 \notin Slots
  BY DEF Slots
<1>2. flight \in [Slots -> {Free} \cup FlightRecord]
  BY FlightType
<1>3. CASE ~Owns(s)
  <2>1. /\ flight' = [flight EXCEPT ![s] = Free] /\ status' = st
        /\ UNCHANGED <<active, newest, queued, unasked>>
    BY <1>3 DEF Settles
  <2>2. active # s /\ flight[s].aborted
    BY <1>3 DEF Owns, FlightInv, SingleFlight
  <2>3. flight' \in [Slots -> {Free} \cup FlightRecord]
    BY <1>2, <2>1
  <2>4. \A t \in Slots : t # s => flight'[t] = flight[t]
    BY <1>2, <2>1
  <2>5. flight'[s] = Free
    BY <1>2, <2>1
  <2>6. FlightInv'
    BY <1>1, <2>1, <2>2, <2>4, <2>5 DEF FlightInv, SingleFlight, InFlight, RangeTypeOK
  <2>7. active # 0 => flight'[active] = flight[active]
    BY <2>2, <2>4 DEF RangeTypeOK
  <2>8. QED
    BY <2>1, <2>2, <2>3, <2>6, <2>7 DEF RangeTypeOK
<1>4. CASE Owns(s) /\ (queued => Query = NoQuery)
  <2>1. /\ flight' = [flight EXCEPT ![s] = Free] /\ status' = st
        /\ active' = 0 /\ queued' = FALSE
        /\ UNCHANGED <<newest, unasked>>
    BY <1>4 DEF Settles
  <2>2. active = s /\ ~flight[s].aborted
    BY <1>1, <1>4 DEF Owns, FlightInv
  <2>3. flight' \in [Slots -> {Free} \cup FlightRecord]
    BY <1>2, <2>1
  <2>4. \A t \in Slots : t # s => flight'[t] = flight[t]
    BY <1>2, <2>1
  <2>5. flight'[s] = Free
    BY <1>2, <2>1
  <2>6. FlightInv'
    BY <2>1, <2>2, <2>4, <2>5 DEF FlightInv, SingleFlight, InFlight
  <2>7. QED
    BY <2>1, <2>2, <2>3, <2>6 DEF RangeTypeOK
<1>5. CASE Owns(s) /\ queued /\ Query # NoQuery
  <2>1. /\ flight' = [flight EXCEPT ![s] = Request(view, Query)]
        /\ active' = s /\ newest' = s /\ queued' = FALSE /\ unasked' = FALSE
        /\ status' = [kind |-> "loading", view |-> view]
    BY <1>5 DEF Settles
  <2>2. active = s /\ ~flight[s].aborted
    BY <1>1, <1>5 DEF Owns, FlightInv
  <2>3. view \in Views /\ Query \in Queries
    BY <1>5, QueryType DEF RangeTypeOK, Query, AQuery
  <2>4. /\ Request(view, Query) \in FlightRecord /\ Request(view, Query) # Free
        /\ ~Request(view, Query).aborted
        /\ Request(view, Query).view = view /\ Request(view, Query).query = Query
    BY <2>3, RequestType
  <2>5. flight' \in [Slots -> {Free} \cup FlightRecord]
    BY <1>2, <2>1, <2>4
  <2>6. \A t \in Slots : t # s => flight'[t] = flight[t]
    BY <1>2, <2>1
  <2>7. flight'[s] = Request(view, Query)
    BY <1>2, <2>1
  <2>8. FlightInv'
    BY <2>1, <2>2, <2>4, <2>6, <2>7 DEF FlightInv, SingleFlight, InFlight
  <2>9. status' \in [kind : Kinds, view : Views]
    BY <2>1, <2>3 DEF Kinds
  <2>10. QED
    BY <1>1, <2>1, <2>2, <2>4, <2>5, <2>7, <2>8, <2>9
<1>6. QED
  BY <1>3, <1>4, <1>5

LEMMA ChoiceStep ==
  ASSUME RangeInv, NEW v \in Views, NEW r \in Presets \cup {"custom"},
         NEW c \in Customs \cup {NoQuery}, Chooses(v, r, c)
  PROVE  RangeInv'
<1> DEFINE q == QueryOf(r, c)
<1> USE DEF RangeInv
<1>1. q \in AQuery
  BY QueryType
<1>2. /\ view' = v /\ range' = r /\ custom' = c /\ Query' = q
      /\ unasked' = (q = NoQuery) /\ Refreshes(TRUE, v, q)
      /\ clicks < MaxClicks /\ clicks' = clicks + 1
      /\ UNCHANGED <<shown, streamVars, faults>>
  BY DEF Chooses, Clicks, Query
<1>3. /\ FlightInv'
      /\ flight' \in [Slots -> {Free} \cup FlightRecord]
      /\ active' \in Slots \cup {0} /\ newest' \in Slots /\ queued' \in BOOLEAN
      /\ status' \in [kind : Kinds, view : Views]
      /\ \/ UNCHANGED <<active, flight, status>> /\ q = NoQuery
         \/ /\ q # NoQuery /\ active' # 0
            /\ flight'[active'].view = v /\ flight'[active'].query = q
            /\ status' = [kind |-> "loading", view |-> v]
  BY <1>1, <1>2, RefreshStep
<1>4. clicks' \in 0 .. MaxClicks
  BY <1>2, PageAssumption DEF RangeTypeOK
<1>5. RangeTypeOK'
  BY <1>2, <1>3, <1>4, TypeFrom DEF RangeTypeOK, Answer, streamVars
<1>6. ChoiceInv'
  <2>1. CASE UNCHANGED <<active, flight, status>> /\ q = NoQuery
    <3>1. unasked' /\ (status'.kind = "error" => faults' > 0)
      BY <1>2, <2>1 DEF ChoiceInv, StatusIsTrue
    <3>2. QED  BY <3>1 DEF ChoiceInv, StatusIsTrue
  <2>2. CASE /\ q # NoQuery /\ active' # 0
             /\ flight'[active'].view = v /\ flight'[active'].query = q
             /\ status' = [kind |-> "loading", view |-> v]
    <3>1. flight'[active'].view = view' /\ flight'[active'].query = Query'
      BY <1>2, <2>2
    <3>2. status'.kind = "loading"
      BY <2>2
    <3>3. QED  BY <2>2, <3>1, <3>2 DEF ChoiceInv, StatusIsTrue
  <2>3. QED  BY <1>3, <2>1, <2>2
<1>7. QED  BY <1>3, <1>5, <1>6

LEMMA ToggleStep == RangeInv /\ ToggleCustom => RangeInv'
<1> SUFFICES ASSUME RangeInv, ToggleCustom PROVE RangeInv'
  OBVIOUS
<1> USE DEF RangeInv
<1>1. /\ range' = "custom" /\ unasked' = (unasked \/ range # "custom")
      /\ clicks < MaxClicks /\ clicks' = clicks + 1
      /\ UNCHANGED <<view, custom, shown, status, requestVars, streamVars, faults>>
  BY DEF ToggleCustom, Clicks
<1>2. clicks' \in 0 .. MaxClicks
  BY <1>1, PageAssumption DEF RangeTypeOK
<1>3. RangeTypeOK'
  BY <1>1, <1>2, FlightType, TypeFrom DEF RangeTypeOK, Answer, requestVars, streamVars
<1>4. FlightInv'
  BY <1>1 DEF FlightInv, SingleFlight, InFlight, requestVars
<1>5. ~unasked' => Query' = Query /\ ~unasked
  BY <1>1 DEF Query
<1>6. ChoiceInv'
  BY <1>1, <1>5 DEF ChoiceInv, StatusIsTrue, requestVars
<1>7. QED  BY <1>3, <1>4, <1>6

LEMMA ServedStep == ASSUME RangeInv, NEW s \in Slots, Served(s) PROVE RangeInv'
<1> USE DEF RangeInv
<1>1. /\ flight' = [flight EXCEPT ![s] = [flight[s] EXCEPT !.sample = sample]]
      /\ InFlight(s)
      /\ UNCHANGED <<choiceVars, shown, status, active, newest, queued, streamVars, clicks, faults>>
  BY DEF Served
<1>2. flight[s] \in FlightRecord /\ sample \in Answer
  BY <1>1, InFlightType DEF RangeTypeOK, Answer
<1>3. /\ flight'[s] \in FlightRecord /\ flight'[s] # Free
      /\ flight'[s].aborted = flight[s].aborted
      /\ flight'[s].view = flight[s].view /\ flight'[s].query = flight[s].query
  BY <1>1, <1>2, FlightType, RecordUpdates
<1>4. \A t \in Slots : t # s => flight'[t] = flight[t]
  BY <1>1, FlightType
<1>5. flight' \in [Slots -> {Free} \cup FlightRecord]
  BY <1>1, <1>3, FlightType
<1>6. RangeTypeOK'
  BY <1>1, <1>5, TypeFrom DEF RangeTypeOK, Answer, choiceVars, streamVars
<1>7. FlightInv'
  BY <1>1, <1>3, <1>4 DEF FlightInv, SingleFlight, InFlight, RangeTypeOK
<1>8. active # 0 => /\ flight'[active].view = flight[active].view
                    /\ flight'[active].query = flight[active].query
  BY <1>3, <1>4 DEF RangeTypeOK
<1>9. ChoiceInv'
  BY <1>1, <1>8 DEF ChoiceInv, StatusIsTrue, choiceVars, Query
<1>10. QED  BY <1>6, <1>7, <1>9

\* An answer is drawn only if it is for what is chosen, and it is announced
\* only then.
LEMMA AnsweredStep == ASSUME RangeInv, NEW s \in Slots, Answered(s) PROVE RangeInv'
<1> USE DEF RangeInv
<1> DEFINE v == flight[s].view
           old == flight[s]
<1>1. /\ InFlight(s) /\ flight[s].sample # Unanswered
      /\ UNCHANGED <<view, range, custom, streamVars, clicks, faults>>
  BY DEF Answered
<1>2. flight[s] \in FlightRecord
  BY <1>1, InFlightType
<1>3. Query' = Query
  BY <1>1 DEF Query
<1>4. CASE Outdated(s)
  <2>1. UNCHANGED shown /\ Settles(s, status)
    BY <1>4 DEF Answered
  <2>2. status \in [kind : Kinds, view : Views]
    BY DEF RangeTypeOK
  <2>3. flight[s].aborted
    BY <1>1, <1>4 DEF Outdated, FlightInv, SingleFlight, Slots
  <2>4. /\ FlightInv'
        /\ flight' \in [Slots -> {Free} \cup FlightRecord]
        /\ active' \in Slots \cup {0} /\ newest' \in Slots /\ queued' \in BOOLEAN
        /\ unasked' \in BOOLEAN
        /\ status' \in [kind : Kinds, view : Views]
        /\ UNCHANGED <<active, unasked>> /\ status' = status
        /\ active # 0 => flight'[active] = flight[active]
    BY <1>1, <2>1, <2>2, <2>3, SettlesStep
  <2>5. RangeTypeOK'
    BY <1>1, <2>1, <2>4, TypeFrom DEF RangeTypeOK, Answer, streamVars
  <2>6. ChoiceInv'
    BY <1>1, <1>3, <2>1, <2>4 DEF ChoiceInv, StatusIsTrue
  <2>7. QED  BY <2>4, <2>5, <2>6
<1>5. CASE ~Outdated(s)
  <2>1. /\ shown' = [shown EXCEPT ![v] = [query |-> old.query, sample |-> old.sample]]
        /\ Settles(s, [kind |-> "ready", view |-> v])
    BY <1>5 DEF Answered
  <2>2. [kind |-> "ready", view |-> v] \in [kind : Kinds, view : Views]
    BY <1>2 DEF Kinds, FlightRecord
  <2>3. ~flight[s].aborted
    BY <1>5 DEF Outdated
  <2>4. /\ FlightInv'
        /\ flight' \in [Slots -> {Free} \cup FlightRecord]
        /\ active' \in Slots \cup {0} /\ newest' \in Slots /\ queued' \in BOOLEAN
        /\ unasked' \in BOOLEAN
        /\ status' \in [kind : Kinds, view : Views]
        /\ active = s
        /\ \/ active' = 0 /\ status' = [kind |-> "ready", view |-> v] /\ unasked' = unasked
           \/ /\ active' # 0
              /\ flight'[active'].view = view /\ flight'[active'].query = Query
              /\ status' = [kind |-> "loading", view |-> view]
    BY <1>1, <2>1, <2>2, <2>3, SettlesStep
  <2>5. v \in Views /\ old.query \in Queries /\ old.sample \in Answer
    BY <1>2 DEF FlightRecord
  <2>6. shown' \in [Views -> [query : Queries \cup {NoQuery}, sample : Answer]]
    BY <2>1, <2>5 DEF RangeTypeOK, Answer
  <2>7. shown'[v].query = old.query
    BY <2>1, <2>5 DEF RangeTypeOK
  <2>8. RangeTypeOK'
    BY <1>1, <2>4, <2>6, TypeFrom DEF RangeTypeOK, streamVars
  <2>9. active # 0
    BY <2>4 DEF Slots
  <2>10. ChoiceInv'
    <3>1. CASE active' = 0 /\ status' = [kind |-> "ready", view |-> v] /\ unasked' = unasked
      <4>1. status'.kind = "ready" /\ status'.view = v
      BY <3>1
      <4>2. ~unasked => v = view /\ old.query = Query
      BY <2>4, <2>9 DEF ChoiceInv
      <4>3. ~unasked' => status'.view = view' /\ shown'[view'].query = Query'
      BY <1>1, <1>3, <2>7, <3>1, <4>1, <4>2
      <4>4. QED  BY <3>1, <4>1, <4>3 DEF ChoiceInv, StatusIsTrue
    <3>2. CASE /\ active' # 0
                /\ flight'[active'].view = view /\ flight'[active'].query = Query
                /\ status' = [kind |-> "loading", view |-> view]
      <4>1. status'.kind = "loading"
      BY <3>2
      <4>2. QED  BY <1>1, <1>3, <3>2, <4>1 DEF ChoiceInv, StatusIsTrue
    <3>3. QED  BY <2>4, <3>1, <3>2
  <2>11. QED  BY <2>4, <2>8, <2>10
<1>6. QED  BY <1>4, <1>5

\* A request that fails is reported only if it was the current one.
LEMMA FailsStep == ASSUME RangeInv, NEW s \in Slots, Fails(s) PROVE RangeInv'
<1> USE DEF RangeInv
<1> DEFINE v == flight[s].view
           err == [kind |-> "error", view |-> v]
<1>1. /\ InFlight(s)
      /\ faults' = IF flight[s].aborted THEN faults ELSE faults + 1
      /\ faults' <= MaxFaults
      /\ Settles(s, IF Announces(s) THEN err ELSE status)
      /\ UNCHANGED <<view, range, custom, shown, streamVars, clicks>>
  BY DEF Fails
<1>2. flight[s] \in FlightRecord
  BY <1>1, InFlightType
<1>3. /\ err \in [kind : Kinds, view : Views] /\ err.kind = "error"
      /\ status \in [kind : Kinds, view : Views]
  BY <1>2 DEF Kinds, FlightRecord, RangeTypeOK
<1>4. faults' \in 0 .. MaxFaults /\ faults' >= faults
  BY <1>1, PageAssumption DEF RangeTypeOK
<1>5. Query' = Query
  BY <1>1 DEF Query
<1>6. CASE flight[s].aborted
  <2>1. Settles(s, status)
    BY <1>1, <1>6 DEF Announces
  <2>2. /\ FlightInv'
        /\ flight' \in [Slots -> {Free} \cup FlightRecord]
        /\ active' \in Slots \cup {0} /\ newest' \in Slots /\ queued' \in BOOLEAN
        /\ unasked' \in BOOLEAN
        /\ status' \in [kind : Kinds, view : Views]
        /\ UNCHANGED <<active, unasked>> /\ status' = status
        /\ active # 0 => flight'[active] = flight[active]
    BY <1>1, <1>3, <1>6, <2>1, SettlesStep
  <2>3. RangeTypeOK'
    BY <1>1, <1>4, <2>2, TypeFrom DEF RangeTypeOK, Answer, streamVars
  <2>4. ChoiceInv'
    BY <1>1, <1>5, <1>6, <2>2 DEF ChoiceInv, StatusIsTrue
  <2>5. QED  BY <2>2, <2>3, <2>4
<1>7. CASE ~flight[s].aborted
  <2>1. Settles(s, err) /\ faults' > 0
    BY <1>1, <1>7, PageAssumption DEF Announces, RangeTypeOK
  <2>2. /\ FlightInv'
        /\ flight' \in [Slots -> {Free} \cup FlightRecord]
        /\ active' \in Slots \cup {0} /\ newest' \in Slots /\ queued' \in BOOLEAN
        /\ unasked' \in BOOLEAN
        /\ status' \in [kind : Kinds, view : Views]
        /\ \/ active' = 0 /\ status' = err
           \/ /\ active' # 0
              /\ flight'[active'].view = view /\ flight'[active'].query = Query
              /\ status' = [kind |-> "loading", view |-> view]
    BY <1>1, <1>3, <1>7, <2>1, SettlesStep
  <2>3. RangeTypeOK'
    BY <1>1, <1>4, <2>2, TypeFrom DEF RangeTypeOK, Answer, streamVars
  <2>4. ChoiceInv'
    <3>1. active' # 0 => flight'[active'].view = view' /\ flight'[active'].query = Query'
      BY <1>1, <1>5, <2>2
    <3>2. status'.kind \in {"error", "loading"}
      BY <1>3, <2>2
    <3>3. QED  BY <2>1, <3>1, <3>2 DEF ChoiceInv, StatusIsTrue
  <2>5. QED  BY <2>2, <2>3, <2>4
<1>8. QED  BY <1>6, <1>7

\* A tick of the live stream asks for what is chosen, or is put off.
LEMMA SnapshotStep == RangeInv /\ SnapshotArrives => RangeInv'
<1> SUFFICES ASSUME RangeInv, SnapshotArrives PROVE RangeInv'
  OBVIOUS
<1> USE DEF RangeInv
<1>1. /\ wire > 0 /\ wire' = wire - 1
      /\ Refreshes(FALSE, view, Query)
      /\ unasked' = (unasked /\ (active # 0 \/ Query = NoQuery))
      /\ UNCHANGED <<view, range, custom, shown, sample, open, clicks, faults>>
  BY DEF SnapshotArrives
<1>2. wire' \in Nat
  BY <1>1 DEF RangeTypeOK
<1>3. view \in Views /\ Query \in AQuery /\ Query' = Query
  BY <1>1, QueryType DEF RangeTypeOK, Query
<1>4. /\ FlightInv'
      /\ flight' \in [Slots -> {Free} \cup FlightRecord]
      /\ active' \in Slots \cup {0} /\ newest' \in Slots /\ queued' \in BOOLEAN
      /\ status' \in [kind : Kinds, view : Views]
      /\ \/ /\ UNCHANGED <<active, flight, status>>
            /\ Query = NoQuery \/ active # 0
         \/ /\ Query # NoQuery /\ active' # 0
            /\ flight'[active'].view = view /\ flight'[active'].query = Query
            /\ status' = [kind |-> "loading", view |-> view]
  BY <1>1, <1>3, RefreshStep
<1>5. RangeTypeOK'
  <2>1. unasked' \in BOOLEAN
    BY <1>1
  <2>2. QED  BY <1>1, <1>2, <1>4, <2>1, TypeFrom DEF RangeTypeOK, Answer
<1>6. ChoiceInv'
  <2>1. CASE UNCHANGED <<active, flight, status>> /\ (Query = NoQuery \/ active # 0)
    BY <1>1, <1>3, <2>1 DEF ChoiceInv, StatusIsTrue
  <2>2. CASE /\ Query # NoQuery /\ active' # 0
             /\ flight'[active'].view = view /\ flight'[active'].query = Query
             /\ status' = [kind |-> "loading", view |-> view]
    <3>1. status'.kind = "loading"
      BY <2>2
    <3>2. QED  BY <1>1, <1>3, <2>2, <3>1 DEF ChoiceInv, StatusIsTrue
  <2>3. QED  BY <1>4, <2>1, <2>2
<1>7. QED  BY <1>4, <1>5, <1>6

\* Samples, connects and losses of the stream, and what the table does, leave
\* requests and choices alone.
LEMMA QuietStep ==
  ASSUME RangeInv,
         UNCHANGED <<choiceVars, shown, status, requestVars>>,
         open' \in BOOLEAN, sample' \in Samples, wire' \in Nat,
         clicks' \in 0 .. MaxClicks, faults' \in 0 .. MaxFaults, faults' >= faults
  PROVE  RangeInv'
<1> USE DEF RangeInv
<1>1. RangeTypeOK'
  BY FlightType, TypeFrom DEF RangeTypeOK, Answer, choiceVars, requestVars
<1>2. FlightInv'
  BY DEF FlightInv, SingleFlight, InFlight, requestVars
<1>3. faults > 0 => faults' > 0
  BY DEF RangeTypeOK
<1>4. ChoiceInv'
  BY <1>3 DEF ChoiceInv, StatusIsTrue, Query, choiceVars, requestVars
<1>5. QED  BY <1>1, <1>2, <1>4

\* The two parts of the page together.
LEMMA PageStep == RangeInv /\ [PageNext]_pageVars => RangeInv'
<1> SUFFICES ASSUME RangeInv, [PageNext]_pageVars PROVE RangeInv'
  OBVIOUS
<1>1. RangeTypeOK
  BY DEF RangeInv
<1>2. ASSUME NEW p \in Presets, SelectPresetRange(p) PROVE RangeInv'
  BY <1>1, <1>2, ChoiceStep DEF SelectPresetRange, RangeTypeOK
<1>3. ASSUME NEW c \in Customs, ApplyCustomRange(c) PROVE RangeInv'
  BY <1>3, ChoiceStep, <1>1 DEF ApplyCustomRange, RangeTypeOK
<1>4. ASSUME NEW v \in Views, ShowDashboardView(v) PROVE RangeInv'
  BY <1>1, <1>4, ChoiceStep DEF ShowDashboardView, RangeTypeOK
<1>5. CASE StreamStep
  <2>1. CASE Sampled
    BY <1>1, <2>1, QuietStep, PageAssumption
    DEF Sampled, RangeTypeOK, Samples, choiceVars, requestVars
  <2>2. CASE StreamOpens
    BY <1>1, <2>2, QuietStep DEF StreamOpens, RangeTypeOK, choiceVars, requestVars
  <2>3. CASE StreamDrops
    <3>1. faults' \in 0 .. MaxFaults /\ faults' >= faults
      BY <1>1, <2>3, PageAssumption DEF StreamDrops, RangeTypeOK
    <3>2. open' \in BOOLEAN /\ sample' \in Samples /\ wire' \in Nat
      BY <1>1, <2>3 DEF StreamDrops, RangeTypeOK
    <3>3. clicks' \in 0 .. MaxClicks
      BY <1>1, <2>3 DEF StreamDrops, RangeTypeOK
    <3>4. UNCHANGED <<choiceVars, shown, status, requestVars>>
      BY <2>3 DEF StreamDrops
    <3>5. QED  BY <3>1, <3>2, <3>3, <3>4, QuietStep DEF choiceVars, requestVars
  <2>4. QED  BY <1>5, <2>1, <2>2, <2>3, SnapshotStep DEF StreamStep
<1>6. ASSUME NEW s \in Slots, RequestStep(s) PROVE RangeInv'
  BY <1>6, ServedStep, AnsweredStep, FailsStep DEF RequestStep
<1>7. CASE \/ UNCHANGED rangeVars
           \/ AtTable
           \/ \E i \in DOMAIN lists : ListFails(i)
  <2>1. /\ UNCHANGED <<choiceVars, shown, status, requestVars, streamVars>>
        /\ \/ UNCHANGED <<clicks, faults>>
           \/ clicks < MaxClicks /\ clicks' = clicks + 1 /\ UNCHANGED faults
           \/ faults < MaxFaults /\ faults' = faults + 1 /\ UNCHANGED clicks
    BY <1>7 DEF rangeVars, AtTable, Clicks, ListFails
  <2>2. clicks' \in 0 .. MaxClicks /\ faults' \in 0 .. MaxFaults /\ faults' >= faults
    BY <1>1, <2>1, PageAssumption DEF RangeTypeOK
  <2>3. open' \in BOOLEAN /\ sample' \in Samples /\ wire' \in Nat
    BY <1>1, <2>1 DEF RangeTypeOK, streamVars
  <2>4. QED  BY <2>1, <2>2, <2>3, QuietStep
<1>8. QED
  BY <1>2, <1>3, <1>4, <1>5, <1>6, <1>7, ToggleStep
  DEF PageNext, RangeStep, RangeChoice, ShowView, Types, Searches, Prev, Next,
      ListAnswered, pageVars

THEOREM RangeInvHolds == PageSpec => []RangeInv
<1>1. PageInit => RangeInv
  BY RangeInitHolds DEF PageInit
<1>2. QED  BY <1>1, PageStep, PTL DEF PageSpec

\* Of all requests that are under way only the current one may still change
\* the page, for any number of slots, clicks and lost answers.
THEOREM OneCurrentRequest == PageSpec => []SingleFlight
<1>1. RangeInv => SingleFlight
  BY DEF RangeInv, FlightInv
<1>2. QED  BY <1>1, RangeInvHolds, PTL

\* When nothing is in flight the status names the view on the screen, which
\* shows the chosen range; and an abort is never reported as a failure.
THEOREM LatestWins == PageSpec => []StatusIsTrue
<1>1. RangeInv => StatusIsTrue
  BY DEF RangeInv, ChoiceInv
<1>2. QED  BY <1>1, RangeInvHolds, PTL

-----------------------------------------------------------------------------
(* The table.                                                               *)

OneIsOut == "overlap" \notin disturbed => Len(lists) <= 1

\* The newest request that is out is for what is to be shown, and it is the last
\* one to be answered.
AskedForThis ==
  "overtaken" \notin disturbed =>
    /\ lists # <<>> => lists[Len(lists)] = [search |-> search, offset |-> offset]
    /\ Settled => RowsAsAsked

\* The buttons go by the rows on the screen, which are those asked for.
OnAPage ==
  disturbed = {} =>
    /\ offset = 0 \/ offset < Total[search]
    /\ RowsExist
    /\ lists = <<>> /\ table.drawn => RowsAsAsked
    /\ view = "repeaters" /\ ~table.drawn => lists # <<>>

TableInv == TableTypeOK /\ OneIsOut /\ AskedForThis /\ OnAPage

LEMMA RemovesOne ==
  ASSUME NEW S, NEW s \in Seq(S), NEW i \in DOMAIN s
  PROVE  RemoveAt(s, i) \in Seq(S) /\ Len(RemoveAt(s, i)) = Len(s) - 1
<1>1. i \in 1 .. Len(s)
  OBVIOUS
<1>2. SubSeq(s, 1, i - 1) \in Seq(S) /\ Len(SubSeq(s, 1, i - 1)) = i - 1
  BY <1>1, SubSeqProperties
<1>3. SubSeq(s, i + 1, Len(s)) \in Seq(S) /\ Len(SubSeq(s, i + 1, Len(s))) = Len(s) - i
  BY <1>1, SubSeqProperties
<1> DEFINE a == SubSeq(s, 1, i - 1)
           b == SubSeq(s, i + 1, Len(s))
<1>4. a \in Seq(S) /\ b \in Seq(S) /\ Len(a) = i - 1 /\ Len(b) = Len(s) - i
  BY <1>2, <1>3
<1> HIDE DEF a, b
<1>5. a \o b \in Seq(S) /\ Len(a \o b) = Len(a) + Len(b)
  BY <1>4, ConcatProperties
<1>6. RemoveAt(s, i) = a \o b
  BY DEF RemoveAt, a, b
<1>7. QED  BY <1>1, <1>4, <1>5, <1>6

\* What is last stays last when the first is taken away.
LEMMA LastStays ==
  ASSUME NEW S, NEW s \in Seq(S), Len(s) > 1
  PROVE  RemoveAt(s, 1)[Len(s) - 1] = s[Len(s)]
<1> DEFINE a == SubSeq(s, 1, 0)
           b == SubSeq(s, 2, Len(s))
<1>1. Len(s) \in Nat
  OBVIOUS
<1>2. a \in Seq(S) /\ Len(a) = 0
  BY SubSeqProperties
<1>3. b \in Seq(S) /\ Len(b) = Len(s) - 1 /\ b[Len(s) - 1] = s[Len(s)]
  BY <1>1, SubSeqProperties
<1>4. RemoveAt(s, 1) = a \o b
  BY DEF RemoveAt
<1> HIDE DEF a, b
<1>5. a = <<>>
  BY <1>2
<1>6. a \o b = b
  BY <1>3, <1>5
<1>7. QED  BY <1>3, <1>4, <1>6

LEMMA TableInitHolds == PageInit => TableInv
<1> SUFFICES ASSUME PageInit PROVE TableInv
  OBVIOUS
<1>1. [search |-> NoText, offset |-> 0] \in ListRequest
  BY TableAssumption DEF ListRequest
<1>2. lists \in Seq(ListRequest) /\ Len(lists) <= 1
  BY <1>1 DEF PageInit
<1>3. TableTypeOK
  BY <1>2, TableAssumption DEF PageInit, TableTypeOK, Kinds
<1>4. OneIsOut
  BY <1>2 DEF OneIsOut
<1>5. AskedForThis
  BY <1>2 DEF PageInit, AskedForThis, Settled
<1>6. OnAPage
  BY DEF PageInit, OnAPage, RowsExist
<1>7. QED  BY <1>3, <1>4, <1>5, <1>6 DEF TableInv

\* A request goes out for a page that exists as far as the page knows.
LEMMA ListsStep ==
  ASSUME TableInv, NEW q \in Texts, NEW o \in Nat, Lists(q, o),
         box' \in Texts, typing' \in BOOLEAN, UNCHANGED table,
         disturbed = {} /\ lists = <<>> => o = 0 \/ o < Total[q]
  PROVE  TableInv'
<1> DEFINE r == [search |-> q, offset |-> o]
<1>1. r \in ListRequest /\ lists \in Seq(ListRequest)
  BY DEF ListRequest, TableInv, TableTypeOK
<1>2. /\ lists' \in Seq(ListRequest) /\ Len(lists') = Len(lists) + 1
      /\ lists' # <<>> /\ lists'[Len(lists')] = r
  BY <1>1 DEF Lists
<1>3. disturbed' \in SUBSET {"overlap", "overtaken", "failure"}
  BY DEF Lists, TableInv, TableTypeOK
<1>4. TableTypeOK'
  BY <1>2, <1>3 DEF Lists, TableInv, TableTypeOK, Kinds
<1>5. "overlap" \notin disturbed' => lists = <<>>
  BY DEF Lists
<1>6. OneIsOut' /\ AskedForThis'
  BY <1>2, <1>5 DEF Lists, OneIsOut, AskedForThis, Settled
<1>7. OnAPage'
  <2> SUFFICES ASSUME disturbed' = {} PROVE OnAPage'
    BY DEF OnAPage
  <2>1. disturbed = {} /\ lists = <<>>
    BY <1>5 DEF Lists
  <2>2. RowsExist'
    BY <2>1 DEF TableInv, OnAPage, RowsExist
  <2>3. QED  BY <1>2, <2>1, <2>2 DEF OnAPage, Lists
<1>8. QED  BY <1>4, <1>6, <1>7 DEF TableInv

LEMMA ListAnsweredStep ==
  ASSUME TableInv, NEW i \in DOMAIN lists, ListAnswered(i)
  PROVE  TableInv'
<1>1. lists[i] \in ListRequest /\ i \in 1 .. Len(lists) /\ lists \in Seq(ListRequest)
  BY DEF TableInv, TableTypeOK
<1>2. lists' \in Seq(ListRequest) /\ Len(lists') = Len(lists) - 1
  BY <1>1, RemovesOne DEF ListAnswered
<1>3. TableTypeOK'
  <2>1. disturbed' \in SUBSET {"overlap", "overtaken", "failure"}
    BY DEF ListAnswered, Overtakes, TableInv, TableTypeOK
  <2>2. QED  BY <1>1, <1>2, <2>1 DEF ListAnswered, TableInv, TableTypeOK, ListRequest, Kinds
<1>4. ASSUME "overtaken" \notin disturbed'
      PROVE  i = 1 /\ "overtaken" \notin disturbed
  BY <1>4 DEF ListAnswered, Overtakes
<1>5. OneIsOut'
  BY <1>1, <1>2 DEF ListAnswered, TableInv, OneIsOut, Overtakes
<1>6. ASSUME "overtaken" \notin disturbed', lists' = <<>>
      PROVE  RowsAsAsked'
  <2>1. Len(lists) = 1 /\ lists # <<>>
    BY <1>1, <1>2, <1>6
  <2>2. lists[i] = [search |-> search, offset |-> offset]
    BY <1>4, <1>6, <2>1 DEF TableInv, AskedForThis
  <2>3. QED  BY <2>2 DEF ListAnswered, RowsAsAsked
<1>7. AskedForThis'
  <2> SUFFICES ASSUME "overtaken" \notin disturbed' PROVE AskedForThis'
    BY DEF AskedForThis
  <2>1. lists' # <<>> => lists'[Len(lists')] = lists[Len(lists)]
    <3> SUFFICES ASSUME lists' # <<>> PROVE lists'[Len(lists')] = lists[Len(lists)]
      OBVIOUS
    <3>1. Len(lists) > 1
      BY <1>1, <1>2
    <3>2. QED  BY <1>1, <1>2, <1>4, <3>1, LastStays DEF ListAnswered
  <2>2. lists # <<>> /\ "overtaken" \notin disturbed
    BY <1>1, <1>4
  <2>3. QED
    BY <1>6, <2>1, <2>2 DEF ListAnswered, TableInv, AskedForThis, Settled
<1>8. OnAPage'
  <2> SUFFICES ASSUME disturbed' = {} PROVE OnAPage'
    BY DEF OnAPage
  <2>1. disturbed = {}
    BY DEF ListAnswered
  <2>2. Len(lists) = 1
    <3>1. Len(lists) <= 1 /\ Len(lists) \in Nat
      BY <1>1, <2>1, LenProperties DEF TableInv, OneIsOut
    <3>2. \A n \in Nat : n <= 1 /\ i \in 1 .. n => n = 1
      OBVIOUS
    <3>3. QED  BY <1>1, <3>1, <3>2
  <2>3. lists' = <<>>
    BY <1>2, <2>2
  <2>4. RowsAsAsked' /\ offset' = offset /\ search' = search /\ table'.drawn
    BY <1>6, <2>3 DEF ListAnswered
  <2>5. offset = 0 \/ offset < Total[search]
    BY <2>1 DEF TableInv, OnAPage
  <2>6. QED  BY <2>4, <2>5 DEF OnAPage, RowsExist, RowsAsAsked
<1>9. QED  BY <1>3, <1>5, <1>7, <1>8 DEF TableInv

LEMMA ListFailsStep ==
  ASSUME TableInv, NEW i \in DOMAIN lists, ListFails(i)
  PROVE  TableInv'
<1>1. i \in 1 .. Len(lists) /\ lists \in Seq(ListRequest)
  BY DEF TableInv, TableTypeOK
<1>2. lists' \in Seq(ListRequest) /\ Len(lists') = Len(lists) - 1
  BY <1>1, RemovesOne DEF ListFails
<1>3. TableTypeOK'
  <2>1. disturbed' \in SUBSET {"overlap", "overtaken", "failure"}
    BY DEF ListFails, Overtakes, TableInv, TableTypeOK
  <2>2. QED  BY <1>2, <2>1 DEF ListFails, TableInv, TableTypeOK, Kinds
<1>4. OneIsOut'
  BY <1>1, <1>2 DEF ListFails, TableInv, OneIsOut, Overtakes
<1>5. AskedForThis'
  <2> SUFFICES ASSUME "overtaken" \notin disturbed', lists' # <<>>
      PROVE  lists'[Len(lists')] = [search |-> search, offset |-> offset]
    BY DEF ListFails, AskedForThis, Settled
  <2>1. i = 1 /\ "overtaken" \notin disturbed
    BY DEF ListFails, Overtakes
  <2>2. Len(lists) > 1 /\ lists # <<>>
    BY <1>1, <1>2
  <2>3. lists'[Len(lists')] = lists[Len(lists)]
    BY <1>1, <1>2, <2>1, <2>2, LastStays DEF ListFails
  <2>4. QED  BY <2>1, <2>2, <2>3 DEF TableInv, AskedForThis
<1>6. OnAPage'
  BY DEF ListFails, OnAPage
<1>7. QED  BY <1>3, <1>4, <1>5, <1>6 DEF TableInv

\* Away from the table, and while the user types.
LEMMA TableRests ==
  ASSUME TableInv, UNCHANGED <<view, search, offset, lists, table, listStatus, disturbed>>,
         box' \in Texts, typing' \in BOOLEAN
  PROVE  TableInv'
BY DEF TableInv, TableTypeOK, OneIsOut, AskedForThis, OnAPage, Settled, RowsAsAsked, RowsExist

LEMMA TableStep == RangeInv /\ TableInv /\ [PageNext]_pageVars => TableInv'
<1> SUFFICES ASSUME RangeInv, TableInv, [PageNext]_pageVars PROVE TableInv'
  OBVIOUS
<1>1. TableTypeOK
  BY DEF TableInv
<1>2. CASE RangeStep /\ UNCHANGED tableVars
  <2>1. view' = view
    BY <1>2 DEF RangeStep, RangeChoice, StreamStep, RequestStep, SelectPresetRange,
       ApplyCustomRange, Chooses, ToggleCustom, Sampled, StreamOpens, StreamDrops,
       SnapshotArrives, Served, Answered, Fails, choiceVars
  <2>2. QED  BY <1>1, <1>2, <2>1, TableRests DEF tableVars, TableTypeOK
<1>3. ASSUME NEW v \in Views, ShowView(v) PROVE TableInv'
  <2>1. CASE v = "repeaters"
    BY <1>1, <1>3, <2>1, ListsStep DEF ShowView, TableInv, TableTypeOK, OnAPage
  <2>2. CASE v # "repeaters"
    <3>1. view' = v /\ UNCHANGED tableVars
      BY <1>3, <2>2 DEF ShowView, ShowDashboardView, Chooses
    <3>2. QED
      BY <2>2, <3>1 DEF tableVars, TableInv, TableTypeOK, OneIsOut, AskedForThis, OnAPage,
         Settled, RowsAsAsked, RowsExist
  <2>3. QED  BY <2>1, <2>2
<1>4. ASSUME NEW t \in Texts, Types(t) PROVE TableInv'
  BY <1>1, <1>4, TableRests DEF Types, AtTable, choiceVars, TableTypeOK
<1>5. CASE Searches
  BY <1>1, <1>5, ListsStep DEF Searches, FirstPage, TableTypeOK
<1>6. CASE Prev
  <2>1. (IF offset > PageSize THEN offset - PageSize ELSE 0) \in Nat
    BY <1>1, TableAssumption DEF TableTypeOK
  <2>2. disturbed = {} =>
          \/ (IF offset > PageSize THEN offset - PageSize ELSE 0) = 0
          \/ (IF offset > PageSize THEN offset - PageSize ELSE 0) < Total[search]
    BY <1>1, TableAssumption DEF TableInv, TableTypeOK, OnAPage
  <2>3. QED  BY <1>1, <1>6, <2>1, <2>2, ListsStep DEF Prev, TableTypeOK
<1>7. CASE Next
  <2>1. offset + PageSize \in Nat
    BY <1>1, TableAssumption DEF TableTypeOK
  <2>2. disturbed = {} /\ lists = <<>> => offset + PageSize < Total[search]
    BY <1>7 DEF Next, AtTable, TableInv, OnAPage, RowsAsAsked
  <2>3. QED  BY <1>1, <1>7, <2>1, <2>2, ListsStep DEF Next, TableTypeOK
<1>8. CASE UNCHANGED pageVars
  BY <1>1, <1>8, TableRests DEF pageVars, rangeVars, choiceVars, tableVars, TableTypeOK
<1>9. QED
  BY <1>2, <1>3, <1>4, <1>5, <1>6, <1>7, <1>8, ListAnsweredStep, ListFailsStep DEF PageNext

\* As long as no request of the table is overtaken by a newer one, it shows what
\* was asked for last; and as long as none overlaps another or fails, it is never
\* past its end: for every page size, every number of repeaters and every set of
\* searches.
THEOREM TableShowsWhatWasAsked == PageSpec => []TableIsTrue
<1>1. TableInv => TableIsTrue
  BY DEF TableInv, AskedForThis, OnAPage, TableIsTrue
<1>2. PageInit => RangeInv /\ TableInv
  BY RangeInitHolds, TableInitHolds DEF PageInit
<1>3. RangeInv /\ TableInv /\ [PageNext]_pageVars => (RangeInv /\ TableInv)'
  BY PageStep, TableStep
<1>4. QED  BY <1>1, <1>2, <1>3, PTL DEF PageSpec
=============================================================================
