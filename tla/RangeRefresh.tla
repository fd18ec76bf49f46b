----------------------------- MODULE RangeRefresh -----------------------------
(***************************************************************************)
(* The range data of the dashboard page: refreshRangeData() and everything *)
(* that calls it (client/dashboard.js), with the live stream that tells    *)
(* the page of new samples and the server that answers it                  *)
(* (metrics-server.js).                                                    *)
(*                                                                         *)
(* A request is a slot of flight, from the fetch() until its finally has   *)
(* run.  Aborting a request does not take it away: its coroutine goes on,  *)
(* with an AbortError or with an answer that had arrived already.          *)
(***************************************************************************)
EXTENDS Integers

CONSTANTS
  Views,        \* DASHBOARD_VIEWS
  Presets,      \* values of RANGE_PRESETS
  Customs,      \* windows that can be picked as custom ranges
  NoQuery,      \* resolveRangeQuery() = null
  NumSlots,     \* bound on requests whose coroutine is not over
  MaxClicks,    \* bound on what the user does
  MaxFaults,    \* bound on failed requests and lost streams
  MaxSamples    \* bound on samples taken while the page is open

Queries == Presets \cup Customs
Slots == 1 .. NumSlots
Samples == 0 .. MaxSamples
Unanswered == -1

ASSUME PageAssumption ==
  /\ NoQuery \notin Queries /\ "custom" \notin Presets
  /\ Views # {} /\ Presets # {}
  /\ NumSlots \in Nat \ {0} /\ MaxClicks \in Nat
  /\ MaxFaults \in Nat /\ MaxSamples \in Nat

VARIABLES
  view, range, custom,   \* currentView, currentRange, customStartMs and customEndMs
  shown,     \* per view: the query and the sample its section was rendered from
  status,    \* #range-data-status and the view it names
  active,    \* slot of activeRangeRefresh and activeRangeController, 0 for null
  newest,    \* slot whose generation is rangeRefreshGeneration
  queued,    \* rangeRefreshQueued
  flight,    \* per slot: a request or Free
  unasked,   \* history: was the choice changed without a request for it?
  sample,    \* the newest sample in the store
  open,      \* is the EventSource connected?
  wire,      \* snapshots on their way to the page
  clicks, faults

choiceVars == <<view, range, custom, unasked>>
requestVars == <<active, newest, queued, flight>>
streamVars == <<sample, open, wire>>
rangeVars == <<choiceVars, shown, status, requestVars, streamVars, clicks, faults>>

Free == [view |-> NoQuery, query |-> NoQuery, sample |-> Unanswered, aborted |-> FALSE]

Request(v, q) == [view |-> v, query |-> q, sample |-> Unanswered, aborted |-> FALSE]

Kinds == {"loading", "ready", "error"}

RangeTypeOK ==
  /\ view \in Views /\ range \in Presets \cup {"custom"} /\ custom \in Customs \cup {NoQuery}
  /\ shown \in [Views -> [query : Queries \cup {NoQuery}, sample : Samples \cup {Unanswered}]]
  /\ status \in [kind : Kinds, view : Views]
  /\ active \in Slots \cup {0} /\ newest \in Slots /\ queued \in BOOLEAN
  /\ flight \in [Slots -> {Free} \cup
       [view : Views, query : Queries, sample : Samples \cup {Unanswered}, aborted : BOOLEAN]]
  /\ unasked \in BOOLEAN /\ open \in BOOLEAN
  /\ sample \in Samples /\ wire \in Nat
  /\ clicks \in 0 .. MaxClicks /\ faults \in 0 .. MaxFaults

-----------------------------------------------------------------------------
\* resolveRangeQuery: null for a custom range that was never applied.
QueryOf(r, c) == IF r = "custom" THEN c ELSE r

Query == QueryOf(range, custom)

InFlight(s) == flight[s] # Free

\* The bound: a new request needs a free slot.
FreeSlot == CHOOSE s \in Slots : ~InFlight(s)

Sends(s, v, q) ==
  /\ flight' = [t \in Slots |-> IF t = s THEN Request(v, q)
                                ELSE IF t = active THEN [flight[t] EXCEPT !.aborted = TRUE]
                                ELSE flight[t]]
  /\ active' = s /\ newest' = s
  /\ status' = [kind |-> "loading", view |-> v]

\* Mutation of Coalesces: the tick is dropped.
TickDropped == UNCHANGED queued

Coalesces == queued' = TRUE

\* refreshRangeData({ supersede }) with v and q as the view and the query.
Refreshes(supersede, v, q) ==
  \/ q = NoQuery /\ UNCHANGED <<requestVars, status>>
  \/ /\ q # NoQuery /\ active # 0 /\ ~supersede
     /\ Coalesces
     /\ UNCHANGED <<active, newest, flight, status>>
  \/ /\ q # NoQuery /\ (active # 0 => supersede)
     /\ \E s \in Slots : ~InFlight(s)
     /\ Sends(FreeSlot, v, q)
     /\ UNCHANGED queued

\* bootstrap() up to its end: the stream is opened and the first view shown.
RangeInit ==
  /\ view \in Views /\ range \in Presets /\ custom = NoQuery
  /\ shown = [v \in Views |-> [query |-> NoQuery, sample |-> Unanswered]]
  /\ status = [kind |-> "loading", view |-> view]
  /\ active = 1 /\ newest = 1 /\ queued = FALSE
  /\ flight = [s \in Slots |-> IF s = 1 THEN Request(view, range) ELSE Free]
  /\ unasked = FALSE
  /\ sample = 0 /\ open = FALSE /\ wire = 0
  /\ clicks = 0 /\ faults = 0

-----------------------------------------------------------------------------
Clicks == clicks < MaxClicks /\ clicks' = clicks + 1

\* What the user chose is asked for, unless there is no query yet.
Chooses(v, r, c) ==
  /\ Clicks
  /\ view' = v /\ range' = r /\ custom' = c
  /\ Refreshes(TRUE, v, QueryOf(r, c))
  /\ unasked' = (QueryOf(r, c) = NoQuery)
  /\ UNCHANGED <<shown, streamVars, faults>>

SelectPresetRange(p) == Chooses(view, p, custom)

ApplyCustomRange(c) == Chooses(view, "custom", c)

ShowDashboardView(v) == Chooses(v, range, custom)

\* The button that opens the two date fields selects the custom range, and
\* asks for nothing.
ToggleCustom ==
  /\ Clicks
  /\ range' = "custom"
  /\ unasked' = (unasked \/ range # "custom")
  /\ UNCHANGED <<view, custom, shown, status, requestVars, streamVars, faults>>

-----------------------------------------------------------------------------
\* The server answers from the store as it is when it handles the request.
Served(s) ==
  /\ InFlight(s) /\ flight[s].sample = Unanswered
  /\ flight' = [flight EXCEPT ![s].sample = sample]
  /\ UNCHANGED <<choiceVars, shown, status, active, newest, queued, streamVars, clicks, faults>>

\* Mutation of Outdated: an answer is rendered whenever it comes.
NeverOutdated(s) == FALSE

Outdated(s) == flight[s].aborted \/ s # newest

\* Mutation of Owns: the finally of every request clears the active one.
OwnsAlways(s) == TRUE

Owns(s) == active = s

\* The finally of the request in slot s, with st as the status so far: its
\* follow-up takes over the slot.
Settles(s, st) ==
  \/ /\ ~Owns(s)
     /\ flight' = [flight EXCEPT ![s] = Free]
     /\ status' = st
     /\ UNCHANGED <<active, newest, queued, unasked>>
  \/ /\ Owns(s) /\ (queued => Query = NoQuery)
     /\ flight' = [flight EXCEPT ![s] = Free]
     /\ active' = 0 /\ queued' = FALSE
     /\ status' = st
     /\ UNCHANGED <<newest, unasked>>
  \/ /\ Owns(s) /\ queued /\ Query # NoQuery
     /\ flight' = [flight EXCEPT ![s] = Request(view, Query)]
     /\ active' = s /\ newest' = s /\ queued' = FALSE
     /\ status' = [kind |-> "loading", view |-> view]
     /\ unasked' = FALSE

\* The answer is there and is rendered, unless the request is outdated.
Answered(s) ==
  /\ InFlight(s) /\ flight[s].sample # Unanswered
  /\ LET v == flight[s].view IN
       IF Outdated(s)
       THEN UNCHANGED shown /\ Settles(s, status)
       ELSE /\ shown' = [shown EXCEPT ![v] = [query |-> flight[s].query, sample |-> flight[s].sample]]
            /\ Settles(s, [kind |-> "ready", view |-> v])
  /\ UNCHANGED <<view, range, custom, streamVars, clicks, faults>>

\* Mutation of Announces: an AbortError is reported like any other error.
AnnouncesAll(s) == TRUE

Announces(s) == ~flight[s].aborted

\* fetch() or json() rejects: with an AbortError, or because the request failed.
Fails(s) ==
  /\ InFlight(s)
  /\ faults' = IF flight[s].aborted THEN faults ELSE faults + 1
  /\ faults' <= MaxFaults
  /\ Settles(s, IF Announces(s) THEN [kind |-> "error", view |-> flight[s].view] ELSE status)
  /\ UNCHANGED <<view, range, custom, shown, streamVars, clicks>>

-----------------------------------------------------------------------------
\* A tick of the sampler: the sample is stored, then every client of the
\* stream gets a snapshot.
Sampled ==
  /\ sample < MaxSamples
  /\ sample' = sample + 1
  /\ wire' = IF open THEN wire + 1 ELSE wire
  /\ UNCHANGED <<open, choiceVars, shown, status, requestVars, clicks, faults>>

\* The EventSource connects, again after a loss, and gets a snapshot at once.
StreamOpens ==
  /\ ~open
  /\ open' = TRUE /\ wire' = 1
  /\ UNCHANGED <<sample, choiceVars, shown, status, requestVars, clicks, faults>>

StreamDrops ==
  /\ open
  /\ faults < MaxFaults /\ faults' = faults + 1
  /\ open' = FALSE /\ wire' = 0
  /\ UNCHANGED <<sample, choiceVars, shown, status, requestVars, clicks>>

\* source.onmessage.
SnapshotArrives ==
  /\ wire > 0 /\ wire' = wire - 1
  /\ Refreshes(FALSE, view, Query)
  /\ unasked' = (unasked /\ (active # 0 \/ Query = NoQuery))
  /\ UNCHANGED <<view, range, custom, shown, sample, open, clicks, faults>>

RequestStep(s) == Served(s) \/ Answered(s) \/ Fails(s)

RangeChoice ==
  \/ \E p \in Presets : SelectPresetRange(p)
  \/ \E c \in Customs : ApplyCustomRange(c)
  \/ ToggleCustom

StreamStep == Sampled \/ StreamOpens \/ StreamDrops \/ SnapshotArrives

RangeNext ==
  \/ RangeChoice \/ StreamStep
  \/ \E v \in Views : ShowDashboardView(v)
  \/ \E s \in Slots : RequestStep(s)

RangeSpec == RangeInit /\ [][RangeNext]_rangeVars

\* The server answers, the browser delivers and the EventSource reconnects.
RangeFairness ==
  /\ WF_rangeVars(StreamOpens) /\ WF_rangeVars(SnapshotArrives)
  /\ \A s \in Slots : WF_rangeVars(RequestStep(s))

RangeFairSpec == RangeSpec /\ RangeFairness
-----------------------------------------------------------------------------
(* Properties.                                                              *)

\* Single flight: a request that may still change the page is the one the
\* next tick waits for and the next choice aborts, however answers, ticks and
\* choices interleave.
SingleFlight == \A s \in Slots : InFlight(s) /\ ~flight[s].aborted => s = active

\* Latest wins: when nothing is in flight and the page claims to be up to
\* date, it shows the chosen view for the chosen range, whichever answer came
\* last; and an aborted request is never reported as a failure.
StatusIsTrue ==
  /\ active = 0 /\ status.kind = "ready" /\ ~unasked =>
       status.view = view /\ shown[view].query = Query
  /\ status.kind = "error" => faults > 0

\* A sample that arrives during a slow refresh is not forgotten: the view on
\* the screen comes to show it, unless the last request failed, or the custom
\* range was selected and not applied.
SampleIsShown ==
  \A n \in 1 .. MaxSamples :
    sample >= n ~> shown[view].sample >= n \/ status.kind = "error" \/ unasked

\* What the plan of the dashboard asks for without a condition: data for a
\* former range does not replace data for the current one.
FormerRangeStaysAway ==
  [][Query' = Query /\ Query # NoQuery =>
       \A v \in Views : shown[v].query = Query => shown'[v].query = Query]_rangeVars
=============================================================================
