# Meshcore Observer in TLA+

Meshcore Observer is a Node.js process attached to a MeshCore Companion radio.
It captures the packets the radio hears, publishes them to MQTT brokers, answers
commands on mesh channels through bots, keeps metrics in SQLite and shows them
on a web dashboard. This directory models the parts of it whose difficulty is
in order and time: what may be sent on the one radio and when, what survives a
crash, and what happens when two asynchronous operations meet.

Source paths are relative to the root of the repository: `src/...` is the
program, `test/...` its tests, `docs/...` and `README.md` its documentation.
(In `PROJECT.json` they carry the prefix of the checkout, as in `src/src/...`.)

Contents: [1 The system](#1-the-system) · [2 The plan](#2-the-plan) ·
[3 Modules and code](#3-modules-and-code) · [4 Runs](#4-runs) ·
[5 Fairness](#5-fairness) · [6 Proofs](#6-proofs) ·
[7 Where code and documentation disagree](#7-where-code-and-documentation-disagree) ·
[8 What is not modelled](#8-what-is-not-modelled)

To check a run, `tlc -workers 2 -config <file>.cfg <module>`; to check the
proofs, `tlapm <module>.tla` for OutboundProofs, RadioProofs, ChannelProofs,
BotProofs, StatusProofs, MetricsProofs, StoreProofs and DashboardProofs.

## 1 The system

### 1.1 Components

| component | state it keeps | operations | correct when |
|---|---|---|---|
| **AirtimeCoordinator** `radio/airtime-coordinator.js` | one reservation flag, time of the last activity | noteActivity, tryRunWhenQuiet | one sender at a time; nobody starts within the quiet window of the last packet or the last start |
| **ReplyQueue** `bots/reply-queue.js`, `reply-dispatcher.js` | table `bot_replies` (durable); timer, `#sending`, `#stopped` | start, enqueue, tick, settlement, stop | order kept; no reply forgotten; outcomes true and final; repeated sends only after faults |
| **FloodAdvertScheduler** `radio/flood-advert-scheduler.js` | row `flood_advert_state` (durable); running, connected, startup request, busy | start with recovery, on connected / disconnected, tick, settlement, stop | interval kept across restarts; an attempt of unknown outcome waits the long interval; a pending advert is attempted |
| **CommandQueue** `radio/command-queue.js` | a promise chain | run | strictly serial; a failure does not stop it |
| **RadioManager** `radio/radio-manager.js`, `backoff.js`, `clock-sync.js` | running, attempt, timer, connection | start, stop, attemptConnect (7 awaits), retry, disconnect, runCommand | one connect loop; always connected, connecting or waiting; no leaked links; the retry limit |
| **Channel setup** `bots/channel-setup.js` | channel table of the device; `#channelIdx`, `#ready` of each bot | list and create as two device commands | a ready bot replies on its own channel; no channel is overwritten |
| **ChannelBot** `bots/channel-bot.js` with **PacketDeduplicator** and **RepeatCheckTracker** | packet cache (TTL, capacity), repeat checks per text (TTL, capacity), counters | onPacket, onReplySent, sweep, stop | the cache forgets exactly what it should; every sent reply is accounted for once |
| **MqttBroker**, **TokenRefreshLoop**, **LetsMesh auth** `mqtt/*.js` | client, state, stopping; current token and expiry | connect, close, publish, renew | never two clients; state true; tokens renewed and presented |
| **ObserverPublisher** with the status topic `publisher/observer-publisher.js`, `index.js` | none here; the broker keeps one retained status and the will of each session | announce at every connect, goodbye at shutdown | the retained status says whether the observer is there, also after lost links, renewals and crashes |
| **MqttManager**, **ServiceHealth**, **MetricsSampler** | counters in memory, samples in SQLite, time of last pruning | publish to all, record, sample, prune, chart queries | deliveries attributed to the right broker; every packet counted once; charts agree; trends compare whole periods; old rows go |
| **MetricsStore** `metrics/store.js` | SQLite file, `user_version` | eight migrations; all statements | no reply lost or doubled by an upgrade that is cut off anywhere; the upgrade can always go on |
| **NodeRegistry** `nodes/*.js` and the bot commands `lookup`, `stats` | table `nodes` | advert, verification, upsert, prefix search, list of the dashboard, counts | answers, lists and counts equal to what all adverts say |
| **Dashboard server** `web/metrics-server.js` | open event streams | HTTP routes, server-sent events | the queries tell the numbers of the store; every new sample reaches every open page |
| **Dashboard page** `web/client/dashboard.js` | view, range, current request with its generation and follow-up; search, offset, rows of the repeaters | choose view or range, refresh, live ticks, search, page | one current request; what is shown is what was chosen last; a new sample is shown |
| **Bootstrap** `index.js` | — | wiring, start, shutdown | everything stops, in order, within a bound |
| **Transports** `transports/*.js` | none between two connects | open the serial candidates in turn, or the TCP host | a port that does not open is closed and the next one is tried |
| Packet decoding, formatting of topics and payloads, channel cryptography, configuration, logging, markup and drawing of the page | none between two calls | pure functions | out of scope (section 8) |

### 1.2 How they interact

    device ── transport ── RadioManager ── CommandQueue ◄── bots, dispatcher,
                              │  events                     adverts, signing
            radio.connected / disconnected / packet
                              │
        ┌──────────────┬──────┴───────┬──────────────────┐
    PacketPipeline  ChannelBot   FloodAdvert         TokenRefresh
        │  │  │        │  ▲         │                    │
        │  │  │     ReplyQueue      │                MqttBroker
        │  │  │        └── AirtimeCoordinator ──┘         ▲
        │  │  └ NodeRegistry                              │
        │  └ ServiceHealth ◄── MqttManager.publish ───────┘
        │        └ MetricsSampler ─► MetricsStore (SQLite) ◄── all tables
        └ AirtimeCoordinator.noteActivity      │      └─► !stats, !lookup
                                               ▼
                       status topic   MetricsServer ── routes, event stream ──► page
                 (retained, with will) ◄── MqttBroker, announce and goodbye

Everything runs on one JavaScript thread, so code between two awaits is one
step; what makes the program hard lies in the awaits:

* **One device, one chain.** Every command of every component goes through one
  promise chain. It serialises commands, not the sequences of commands the
  components believe in (channel setup), and it is only as alive as the command
  that runs (a command on a lost link).
* **A crash between two writes.** Replies and adverts are transmitted between
  two writes to SQLite. After a crash nobody knows whether they went out; the
  queue sends again, the scheduler waits the long interval.
* **Coroutines are not cancelled.** A lost link, a shutdown and a reconnect do
  not stop a `#attemptConnect`, a setup or a renewal that is awaiting; it goes
  on later in a world that has changed.
* **Timers and late answers.** TTLs, poll intervals, sweeps, renewals and
  retries race with the settlement of what they watch.
* **Caches with two limits.** The packet cache and the repeat tracker evict by
  age and by capacity, with scans that stop early.
* **A page that asks while it waits.** Every click and every sample asks the
  server again; answers come late, in another order, or not at all. The range
  data aborts and numbers its requests, the table of repeaters does neither.
* **Words left with a stranger.** The retained status and the will stay with the
  MQTT broker, which publishes them when the observer is no longer there to
  correct them.
* **Summaries of a history.** Two timestamps per node and one sample per
  interval stand for all that was heard.

`hazards` in `PROJECT.json` lists these places one by one, at their lines, with
the properties that cover them or the reason why none does.

## 2 The plan

Order: what may be transmitted comes first (it is where a mistake is heard by
the whole mesh), then the link it needs, then what decides what is transmitted,
then MQTT and the store.

| step | modules | state |
|---|---|---|
| 1 Outbound airtime, proved | AirtimeCoordinator, ReplyQueue, FloodAdvertScheduler, Outbound, SharedAirtime, ReplyDelivery, OutboundProofs | done |
| 2 Device commands and link | CommandQueue, RadioManager, ChannelSetup | done |
| 3 Bots | PacketDeduplicator, RepeatCheckTracker, ChannelBot | done |
| 4 MQTT with tokens | TokenBroker, MqttPublish | done |
| 5 Metrics and store | PacketMetrics, MetricsStore, NodeRegistry | done |
| 6 Status topic, will, goodbye and forced exit over the connections of TokenBroker | ObserverStatus | done |
| 7 Dashboard page, proved | RangeRefresh, NodesTable, DashboardProofs | done |
| 8 Transports: the loop over serial ports | RadioManager | done |
| 9 Connect loop and links of the radio manager, and its command queue, proved | RadioProofs | done |
| 10 Channel setup, packet cache, repeat checks, broker with status topic, deliveries, samples and charts, upgrade of the store and registry of the nodes, proved | ChannelProofs, BotProofs, StatusProofs, MetricsProofs, StoreProofs | done |
| 11 What the command queue promises, proved of the queue inside RadioManager, where `SettleAndRun` joins two of its steps: serial (`RadioIsSerial`), each command once (`CommandsSettleOnce`), on a connection (`CommandsAreBound`) | RadioProofs | done |
| 12 Dashboard server: start, stop and the timers of its streams; the shutdown of `index.js` over all components | MetricsServer, Shutdown | open |
| 13 The same of the commands of ChannelSetup | ChannelProofs | done |

How the modules are built on each other:

    SharedAirtime ◄─refines─ Outbound ── EXTENDS ─► ReplyQueue ─refines─► ReplyDelivery
                                │                      └──► AirtimeCoordinator
                                └─────► FloodAdvertScheduler ──► AirtimeCoordinator
    QuietWindow ──► ReplyQueue            OutboundProofs ──► Outbound
    RadioProofs ──► RadioManager ──► CommandQueue ◄── ChannelSetup
    ChannelProofs ──► ChannelSetup        DashboardProofs ──► NodesTable ──► RangeRefresh
    BotProofs ──► ChannelBot ──► PacketDeduplicator, RepeatCheckTracker
    StatusProofs ──► ObserverStatus ──► TokenBroker
    MetricsProofs ──► PacketMetrics ──► MqttPublish
    StoreProofs ──► NodeRegistry ──► MetricsStore

The modules named `MC...` supply the constants of the runs. A definition whose
comment begins with "Mutation of" is a variant of the definition beside it: it
says what a plausible mistake in that place would look like, and `mutants` in
`PROJECT.json` names the property that notices it. Nothing else uses it.

## 3 Modules and code

Conventions. A handler is one action up to its first await; what follows the
await is another action, which finds whatever state there is by then. Time is a
counter that only moves forward (`Date.now()` is assumed not to jump back); the
unit is the smallest distance that matters to a component. Histories (variables
called so in their declaration) are written and never read by the actions.
`faults` counts what goes wrong — crashes, failed writes, lost links, refused
commands — and bounds it. `map` in `PROJECT.json` gives the lines of every
definition.

### 3.1 Outbound airtime

`AirtimeCoordinator` holds `sending` and `lastActivityAt`. `Acquire` is the
synchronous half of `tryRunWhenQuiet`, `Release` its `finally`, `NoteActivity`
the listener of `radio.packet`. A new process begins with `lastActivityAt` at
the time of its construction, which is what keeps the quiet window across a
restart although nothing of it is stored.

`ReplyQueue` is the queue and its table. `ReplyEnqueue` inserts a row and arms
the timer. The callback of the timer has four ways: another tick is awaiting
(no step), nothing is left (`ReplyTickDrained` clears the timer), the air is
busy (`ReplyTickWaits`; expiry is written all the same), or `ReplyTickDispatches`
takes the oldest row. `ReplyTransmit` is the moment the Companion takes the
message, `ReplySettle` everything after the await: the outcome is written, or
the write fails and the row stays pending, and the timer is cleared if the table
is empty. `Start`, `Exit` and `Crash` are the life of the process; `dispatching`
and `onAir` are lost with it, the rows are not. `ReplyDelivery` is the same
without queue, timer and time: a reply is transmitted once for free and once
more per fault, and gets one final outcome. `QuietWindow` adds the history of when the last send
ended.

`FloodAdvertScheduler` is the scheduler with its row: `AdvertStart` recovers a
row left in "sending" (deferred by the 47 hours, or by the interval if that is
longer), `AdvertOnConnected` requests the startup advert once, `AdvertTickClaims`
claims the row, takes the reservation and issues the command in one run of the
event loop, `AdvertSettle` writes what became of it.

`Outbound` puts both on one coordinator, as `index.js` constructs, starts and
stops them. `SharedAirtime` is what they promise together, without processes.

### 3.2 Radio

`CommandQueue` gives each command a state (not yet, waiting, running, fulfilled,
rejected) and a place in the chain; `Run` starts the command whose predecessor
has settled either way.

`RadioManager` gives every `#attemptConnect` a connection object and a stage,
the await it is at. Opening is the loop of the serial transport: `PortFails`
closes a candidate that does not open and goes on with the next one,
`OpenFails` is the last one (a TCP host is a single candidate). A lost link (`LinkLost`) can fall on any of them; the
coroutine is not cancelled, but goes on and finds its command rejected, or
hanging, or another connection current. Listeners of `radio.connected` may throw
(`MaxThrows`), which makes the attempt fail after the connection became current.
`runCommand` binds a client's command to the connection that is current when it
is called.

`ChannelSetup` runs `ensureChannel` of several bots, whose two commands are in
the same chain, over connects, reconnects and stops. `TableChanges` is somebody
else who sets up the Companion while the observer is away, so that a reconnect may
find another table; `missing` remembers every wanted channel that was on none of
the tables the observer came upon. A creation that is under way when the link goes
may have been written (`Disconnect`).

### 3.3 Bots

`PacketDeduplicator` is `isDuplicate` with both evictions on a Map in insertion
order. `RepeatCheckTracker` is the Map from reply text to its list of checks.
`ChannelBot` lets messages be heard again and again with any number of hops and
follows a reply from its acceptance over the (abstract) queue to the repeat that
confirms it. The insert of an accepted reply may fail: `enqueue()` throws then,
after the message has been remembered (`HearTrigger`). A restart empties the memory and keeps the queue. Decryption and
the matching of a trigger are the choice of a message, rendering the choice of a
text.

### 3.4 MQTT

`TokenBroker` is one broker with token credentials. `connect()` and the renewals
are tasks with the stages of their awaits: a signature of the radio, or the end
of the old client. Events of MQTT.js clients come in any order, also from a
client that has been replaced. The shutdown clears the interval and then calls
`closeAll`, as `index.js` does. `MqttPublish` is `MqttManager.publish`: which
broker is asked, which answer arrives, and how the results of
`Promise.allSettled` get back to their brokers: `SettledOf` is its list without
the brokers that were skipped, `SettledIndex` the index that is moved on over it.

`ObserverStatus` puts the status topic on these connections. `Accepted` is
CONNACK with the announcement of `broker.connected`; a status waits in the
`outbox` of its client until `Delivered`, or is lost with the link (`Dropped`).
The broker publishes the will of a lost session when it notices (`WillFires`) or
when the client connects again. `Replaced` is the renewal's end of the old
client, whose DISCONNECT discards the will. `NothingToSay`, `SaysGoodbye`,
`GoodbyeSettles` and `Closed` are the MQTT part of `shutdown()` between its
awaits, `ForcedExit` its timer, `Crash` a process that dies anywhere. The
history `mishaps` names the three orders of events after which the retained
status can be wrong, so that the properties hold outside of exactly these.

### 3.5 Metrics and store

`PacketMetrics` follows a packet from the counters of `ServiceHealth` through
the samples of `MetricsSampler` to the queries behind charts and totals. A
failed write or a restart loses an interval, which the model books as `unsaved`;
`samples` is the set of rows in the store (no two have the same `sampleAt`),
`saved` that of every sample ever written, pruned or not. `ResolveBucketWidth` takes the
ladder of widths as a set. `Trends` is the overview
with its changes against the period before, which `IsCompared` suppresses when
that period began before the first sample that is left.

`MetricsStore` has the eight migrations as lists of statements over tables
(functions from names to sets of rows) and begins with a database of any version
that can exist. The process can end at every statement; the transaction is gone
then and the next process starts over. A row keeps the columns that decide what
becomes of a reply: its status and what its command handler needs to restore it.

`NodeRegistry` adds the table `nodes`: an advert is received, its signature is
verified asynchronously and the row is upserted. Adverts may overtake each other
while they are verified; the program takes the moment of the upsert as that of the
hearing, and so does the history (section 8). A query is a sequence of digits, one
of which may be no hexadecimal digit. `Lookup`, `CountActiveNodesInRange`,
`QueryNodes`, `QueryNodeTotals` and `TrendUpdated` are what `!lookup`, `!stats` and the dashboard read from it;
the properties compare them with `hearings`, which keeps every verified advert.

### 3.6 Dashboard page

`RangeRefresh` is `refreshRangeData()` with everything that calls it: the choice
of a view, a preset or custom dates (`Chooses`), the button that only opens the
date fields (`ToggleCustom`), and the snapshots of the event stream
(`SnapshotArrives`). A request is a slot of `flight` until its `finally` has
run. `Sends` aborts the one before and takes its place as `active` and `newest`
(the generation); an aborted request goes on, with an AbortError (`Fails`) or
with an answer that had arrived already (`Answered`). `Settles` is the
`finally`, with the follow-up of a coalesced tick, which reads the choice of
that moment. `Sampled`, `StreamOpens` and `StreamDrops` are server and browser.

`NodesTable` adds the table of repeaters: the search box with its delay
(`Types`, `Searches`), `Prev`, `Next`, and `refreshNodesList()`, whose answers
may come in any order (`ListAnswered`, `ListFails`). The history `disturbed` tells
whether requests overlapped, whether one was answered before an older one
(`Overtakes`), and whether one failed.

## 4 Runs

Nine runs pass; each property of them is broken by the mutant `PROJECT.json`
lists for it. Every bound is a constant of the configuration, and is part of
the guard of the action it bounds.

| run | asks | bounds, and why they are enough |
|---|---|---|
| `reply_queue` | Are replies kept in order, resolved and copied no more than faults allow; does the queue implement `ReplyDelivery`? | 3 replies (one in flight, one waiting, one newer), quiet window 2, TTL 3, time 5, 1 fault: expiry, the window and a second transmission after a crash or failed write all fit |
| `outbound` | Do both senders implement `SharedAirtime`; do adverts keep their distance; is a pending advert attempted; does the inductive invariant `IInv` hold? | 1 reply, interval 2, long interval 3, time 6, 1 fault: two adverts with an interrupted one between them and a reply that competes |
| `radio_manager` | One connect loop, no link without an owner, and that the radio comes back if no command hangs | 4 connection objects, 2 serial candidates, 1 client command, 1 retry, 1 fault, 1 throwing listener: enough for two connect loops at once, for the second port and for giving up |
| `channel_setup` | Do ready bots own their slot when setups overlap and the table changes between connections? | 2 bots, 3 channels, 2 slots, 2 connections: a full table, a taken slot, a setup left over from the connection before, and any table at the second one |
| `channel_bot` | Is the cache exact, do the accounts balance, does every check end? | 3 messages with 2 texts, cache and tracker of 2, TTL and timeout 2, time 3, 3 acceptances, 1 restart: both evictions and two checks of one text |
| `observer_status` | One client, a true state, renewed and presented tokens; does the retained status tell whether the observer is there; does a shutdown end? | 4 tasks, 3 tokens, 1 failed signature, 2 announcements and the goodbye waiting in a client: a connect and three renewals, which may overlap, and one of which may cross the shutdown; a token that ages while the old client is being ended, so that the connect after it signs again, and may fail; one renewal is left to fail and two to get the other tokens, so none is missing because of the bound. Lost links, wills and crashes are not bounded |
| `packet_metrics` | Is each packet counted once, each delivery attributed to its broker, each window reported alike, each trend complete? | 2 brokers, 2 packets, 2 types that share a bucket, retention 1, day 2, time 4, 1 fault; a ladder with one width and at most 2 buckets, so that it is climbed and left at its end; windows that end when they are asked for. The proofs have any types, buckets and windows |
| `store_and_nodes` | Does every reply survive every upgrade; do lookup, list and counts match what was heard? | versions 0–8, 1 reply of any kind and status, 1 process that dies at any statement; 2 keys, 2 names, 2 types, 3 adverts, time 2, a second page of one row and a first page of two |
| `dashboard` | One current request; is what is shown what was chosen; is a new sample shown; are the rows those asked for? | 2 views, 2 presets, 1 custom window, 2 requests under way, 2 clicks, 1 fault, 1 sample, 2 searches, pages of one row: an aborted request beside the current one, a tick coalesced into it, a second page. The proofs lift the bounds |

What they show, property by property:

* **Reply queue.** `NoOvertaking`: nothing newer is in flight or done while
  something older waits, also after restarts. `DuplicatesNeedFaults`,
  `ExpiredWasNotSent`: what the outcome in the table says about the air.
  `ImplementsDelivery`: among other things that no outcome is overwritten,
  although `resolveReplyItem` updates by id alone. `EveryReplyResolves`: if no
  dispatch hangs.
* **Adverts.** `AdvertsKeepTheirDistance`: the interval, and the long one after
  an attempt of unknown outcome, hold over any order of crash, failed write,
  disconnect and restart. `PendingAdvertIsAttempted`: neither a busy window nor
  a deferral loses an advert.
* **Radio.** `OneConnectLoop`: connected, connecting or waiting — exactly one,
  once, plus one per listener that threw. `LinksAreOwned`: a link that is up
  belongs to the current connection, to an attempt, or to a throwing listener;
  commands are serial. `Reconnects`: a
  missing link is replaced, if no command hangs (section 7 shows that the
  condition is needed).
* **Channels.** `ReadyBotsOwnTheirSlot` and `ChannelsAreKept` as long as at most
  one channel had to be created (see section 7 for two), also when a reconnect
  finds another table. While a bot looks again it is not ready; a reply that was
  queued before goes out on the former index all the same (section 7).
* **Bots.** `CacheIsExact`: a duplicate exactly if less than the TTL ago and
  fewer other messages than the limit since. `OnlyAcceptedIsRemembered`: a
  delivery with too few hops does not use the message up. `AccountsBalance`,
  `NothingOverdueStays`, `EveryCheckEnds`.
* **MQTT.** `NoStrayClient` and `StateIsTrue` while renewals and shutdown do not
  cross (section 7 shows why the condition is needed); `TokenIsRenewed` and
  `TokenIsPresented` if no signature hangs (section 5).
* **Status.** `OnlineWhileServing`: once the announcement is through, the broker
  says "online", also after lost links with their wills and after renewals.
  `GoneIsOffline`: when the process is over and the broker has noticed, it does
  not. `ShutdownEnds`: with the forced exit, wherever the shutdown is stuck.
* **Metrics.** `EveryPacketOnce`, `DeliveriesAreTrue`, `OldSamplesGo`,
  `ChartsAgree` for every window that ends now (`EveryWindowAgrees` proves it of
  all others), `TrendsAreComplete`: no trend is computed
  against a period that has partly been pruned.
* **Store and nodes.** `RepliesSurviveUpgrade`, `UpgradeNeverSticks`,
  `PendingRepliesRestore`. `CountsMatchHistory`: nodes added in any window, nodes
  updated or active in one that ends now, as `!stats` and the presets ask for it;
  of a custom range that ends in the past the updated ones are not true
  (`TrendComparesPeriods`, section 7). `ReadsMatchHistory`.
* **Dashboard page.** `SingleFlight`: at most one request may still change the
  page. `StatusIsTrue`: when the page says it is up to date, it shows the view
  and range chosen last. `TableIsTrue`: the same of the rows, also when
  requests of the table overlap or fail, as long as none is answered before an older
  one (section 7); and a page asked for exists, if they neither overlap nor fail. `SampleIsShown`: a tick that
  is coalesced, aborted or comes with a new connection is not forgotten.

Deadlock is checked in the runs of the reply queue and of the outbound parts.
The configurations of the other runs say `CHECK_DEADLOCK FALSE`: there the
bounded things (connections, packets, tokens, time) run out and end the model,
not the program, or the modelled part has an end of its own (`stop()`,
`closeAll()`).

Only `packet_metrics` uses symmetry, over the packet types: it checks safety
properties only, and the types are in the same bucket, so that nothing tells
them apart.

## 5 Fairness

Only what the scheduling of the code justifies is assumed fair, and all of it is
weak fairness:

* **Intervals fire and time passes.** `ReplyTick`, `AdvertTick`, `Sweep` and
  `RefreshFires` are callbacks of `setInterval`, `Tick` and `ClockTick` are the
  clock. The intervals are armed for as long as the model says so.
* **No one is obliged to answer a dispatch.** No timeout guards the transmission
  of a reply or an advert (`docs/plans/v2.2.0/feat-scheduled-flood-advert.md:97`
  says so of the advert). `EveryReplyResolves` therefore has the premise that
  dispatches settle again and again, `PendingAdvertIsAttempted` the one that the
  air stays free. Without its premise the former is refuted (`MCReplyQueueHang`).
* **The radio manager** (`FairSpec`): queued tasks are called and timers fire,
  which are that of the retry and those that bound the opening of a port and
  `getSelfInfo`. No other command is obliged to settle: `getDeviceTime` and
  `deviceQuery` have no timeout (`radio/clock-sync.js:8`,
  `radio/radio-manager.js:160`). That none hangs is the premise `CommandsSettle` of
  `Reconnects`; without it, `RecoversAutomatically` is refuted (`MCRadioManagerHang`).
* **The status topic** (`StatusFairSpec`), with the tokens: the interval fires,
  MQTT.js ends a client it was told to end, a link that is up carries what is
  written to it, and the timer of the shutdown fires. The broker may take any time
  to notice a dead session. The radio is not obliged to sign:
  `mqtt/letsmesh-auth.js:84` waits without a timeout, and a signature that hangs
  also blocks every later one behind it in the chain, so that no later renewal makes
  up for it. That signatures settle while the loop runs is the premise
  `SignaturesSettle` of `TokenIsRenewed` and `TokenIsPresented`, both of which are
  refuted without it.
* **The dashboard page** (`PageFairSpec`): a request is answered or fails, the
  EventSource reconnects and delivers. Nothing is assumed of the user, nor of
  the requests of the table.
* Crashes, faults, losses of the link, packets and adverts are never fair: they
  may happen or not.

`ChannelSetup`, `PacketMetrics` and `NodeRegistry` have safety properties only.

## 6 Proofs

`OutboundProofs` (927 obligations), `RadioProofs` (1771), `ChannelProofs` (955),
`BotProofs` (1911), `StatusProofs` (881), `MetricsProofs` (1750), `StoreProofs`
(2482) and `DashboardProofs` (869) are checked by TLAPS for every value of the constants: any set of replies, any quiet window, TTL and interval,
any number of faults, any bound on time; any number of serial ports and of
connections, any retry limit; any number of bots, channels and slots; any
messages, any TTL and limit of the packet cache, any timeout and limit of the
repeat checks; any number of renewals, tokens
and statuses; any number of brokers and packets, any finite set of packet types
and buckets, any ladder of bucket widths, any retention; any set of replies in a database of any version, and any number of
processes that die while they upgrade it; any adverts, queries, searches and
pages; any number of views, ranges, requests,
clicks and samples, any page size and any number of repeaters.

Assumptions, each in the module that declares the constants: `AirtimeAssumption`
(the quiet window is a natural number; 0 is a legal setting), `ReplyAssumption` (`TtlMs >= QuietMs`, which the
configuration schema and loader enforce; no row id is `NoReply`),
`AdvertAssumption` (the interval is a natural number, 0 meaning disabled),
`RadioAssumption` (there is a port to try, a client's command is none of a
handshake's, and the model has more connection
objects than faults and throwing listeners can use up),
`SetupAssumption` (finitely many bots, at least one slot; an empty slot is no
channel),
`DedupAssumption`, `RepeatAssumption` and `BotAssumption` (limits and the TTL of
the cache are positive, the least number of hops is one a packet can have),
`BrokerAssumption` and `StatusAssumption` (bounds are natural numbers),
`PublishAssumption` (there is a broker), `MetricsAssumption` (packet types,
buckets and the ladder are finite, every type has a bucket; a day and the limit
of buckets are positive, a retention of 0 is legal; "no snapshot" is not one),
`StoreAssumption` (NULL is none of the texts that occur),
`RegistryAssumption` (there are finitely many keys, all of the length of the
longest query; a query is a sequence of digits, a page has at least one row),
`PageAssumption` and `TableAssumption` (there is a view and a preset, a preset
is not called "custom", a page has at least one row).

For the outbound parts the argument is one inductive invariant in six named parts, `IInv` in
`Outbound`; the run `outbound` checks it, `InvariantHolds` proves it.

| part | says | needed because |
|---|---|---|
| `OutTypeOK` | types | everything compares times |
| `AirInv` | the reservation has exactly one owner; a dead process owns nothing; `lastActivityAt` is not older than the last packet heard and the last start while a process runs | the quiet window of the abstract airtime is about the real times, the code's is about what the coordinator remembers |
| `DispatchInv` | `#sending` is true exactly while a row is in flight; that row is pending; what is pending is polled | `Resolve` writes by id alone: that it never overwrites an outcome rests on the row still being pending |
| `OrderInv` | rows were queued in the past; nothing newer overtook | a new row is never older than one in flight |
| `CopiesInv` | a row that may still be sent has used no more copies than faults | `DuplicatesNeedFaults` alone is not inductive: the step that transmits again needs one copy less |
| `AdvertInv` | what the row remembers of the last command issued, also while it is in flight or its outcome is unknown | `nextDueAt` must already be late enough before anyone looks at the clock |

| theorem | for every value of the constants |
|---|---|
| `TypeCorrect`, `InvariantHolds` | the type invariant and the whole inductive invariant |
| `OneOwner` | the reservation is held exactly while one of the two sends |
| `AirtimeRefinement` | Outbound implements `SharedAirtime`: a step of the queue or the scheduler is a step of one sender or stutters, across restarts |
| `AdvertSpacing` | the distances between advert commands, the ordinary and the long one |
| `NoLostWakeup` | what is pending is polled |
| `FinalOutcomes`, `Fifo` | outcomes are final, replies leave in order |
| `BoundedDuplicates`, `SentMeansTransmitted`, `ExpiryMeansSilence` | what an outcome says about the air |
| `DeliveryRefinement` | Outbound implements `ReplyDelivery` |
| `RadioInvHolds`, `NeverAsleep`, `NoForgottenLink` | the radio manager: its inductive invariant, one connect loop plus one per listener that threw, and no link without an owner |
| `RangeInvHolds`, `OneCurrentRequest`, `LatestWins` | the range data of the page: its inductive invariant, one current request, and that what the page calls up to date is what was chosen last |
| `TableShowsWhatWasAsked` | the table shows the page and the search asked for last, unless one request overtook another; that page exists, unless requests overlapped or failed |
| `ReadyIsOwn`, `NothingIsOverwritten` | a ready bot owns its slot and no channel is overwritten, if at most one had to be created, whatever table a reconnect finds |
| `BotInvHolds`, `TheCacheIsExact`, `OnlyAcceptedIsInTheCache` | the packet cache: its inductive invariant, that it forgets exactly what it should, and that what is in it was accepted |
| `ChecksInvHolds`, `EveryReplyIsCounted`, `OverdueGoes` | the repeat checks: their inductive invariant, every registered reply is awaited or counted exactly once as what became of it, and nothing overdue stays after a prune |
| `BrokerKeepsOneClient`, `NoClientIsLeftOver`, `ConnectedIsTrue` | one client and a true state, of the broker alone and with the status topic, unless a renewal crosses the shutdown |
| `ServingIsOnline`, `OverIsOffline` | the retained status says whether the observer is there, outside of the orders of events `mishaps` names |
| `StoreInvHolds`, `NoUpgradeSticks`, `RepliesOutliveUpgrades`, `WhatWaitsCanBeSent` | the database: its inductive invariant, every upgrade can go on, every reply is there once with its status, what is pending can be restored |
| `RegistryInvHolds`, `CountsAgreeWithHistory`, `ReadsAgreeWithHistory` | the table of the nodes: its inductive invariant, and that counts (those of nodes updated or active up to now), lookups and pages answer what the whole history of hearings says |
| `MetricsInvHolds`, `DeliveriesCounted`, `PacketsCountedOnce` | deliveries and samples: their inductive invariant, every outcome is counted at its broker, every packet is counted once |
| `OldSamplesPruned`, `TrendsCompareAll`, `ChartsAddUp` | no sample outlives the retention by a day, a trend compares whole periods, and chart, pie and totals of every window agree |
| `EveryWindowAgrees` | the same of every window, also of one that ends in the past |
| `QueueIsSerial`, `RadioIsSerial`, `SetupIsSerial` | the command queue starts nothing before all earlier commands have settled, for any set of commands; so under the radio manager, and with the setups of any number of bots |
| `CommandsSettleOnce`, `CommandsAreBound` | under the radio manager a command is submitted, called and settled once and in this order, the chain only grows, and what a client has on it belongs to a connection |
| `RadioTypeCorrect`, `SetupTypeCorrect` | types |

`OutboundProofs` states the queue's properties (`NoOvertaking` and so on) over
the composition, in which another sender competes; the run `reply_queue` checks
them on the queue alone, with three replies. `NoLostWakeup`, `FinalOutcomes` and
`SentMeansTransmitted` state parts of `IInv` and of `ReplyDelivery` that no run
lists by themselves, and so do the theorems about commands (`RadioIsSerial`,
`SetupIsSerial`, `CommandsSettleOnce`, `CommandsAreBound`): what commands a device
has at a time is what the runs of the radio and the channels build on, not one of
their questions.

`RadioProofs` strengthens `OneConnectLoop` and `LinksAreOwned` to `RadioInv`.
`LoopInv` bounds the loops from above also while the manager is stopped, since a
connect that went on over `stop()` must not be one too many later. `OwnerInv`
adds that the current connection is past its handshake, so that no failing
attempt can close it. `BudgetInv` counts connection objects: each was paid for by
the start, a fault or a throwing listener, and an attempt whose link is gone has
paid for the retry it will schedule when its timeout tells it. It shows that the
bound on connections never keeps an attempt from being made. `LinksAreOwned` needs `LoopInv` in its turn:
a second loop would replace a live connection and leave its link open.

That the commands are serial is proved three times, with the setups (below), of `CommandQueue` alone
(`ChainInv`) and of `RadioManager`, whose step settles a command and submits the
next of the handshake in one. There `QueueInv` adds `HandshakeInOrder`: a
connection has not submitted what its handshake has yet to come to, so that
nothing is submitted twice. `BudgetInv` is needed for it: the connection a launch takes
has not been used before. `CommandsSettleOnce` is the action property that goes
with it: serial alone would not exclude that a command runs a second time. It is
what is left of a refinement of `CommandQueue`, which `RadioManager` does not
refine step by step, and rests on `RadioInv` for the stages and on `QueueInv` for
what is still idle. `BindingInv` says that a client's command on the chain has a
connection; the handshakes do not touch it, and `runCommand` binds it in the step
that submits it.

`DashboardProofs` has two inductive invariants. `RangeInv` adds to the types
`FlightInv` (the current request is in flight, not aborted, and the newest; all
others under way are aborted) and `ChoiceInv` (unless something was chosen
without a request, the current request asks for what was chosen):
`StatusIsTrue` alone is not inductive, because an answer turns what a request
asked for into what is shown. `TableInv` adds `AskedForThis` (as long as none was
overtaken, the newest request that is out asks for the search and the offset of the
moment; answers come in order, so that it is the last one to be shown), `OneIsOut`
(as long as nothing overlapped it is the only one) and `OnAPage` (as long as nothing
failed either, that offset is one the buttons could lead to, so that rows exist
there). Abort and generation are what
the first argument rests on; the table has neither, hence its conditions.

`ChannelProofs`: `SetupInv` follows a setup between its two commands. What is
chosen is of another moment than what is written; it stays right because as long
as the link is there the chosen slot is empty or already holds the channel, and the channel is the one
that was missing (`ChosenAreSafe`), while every other bot's channel is on every
table the observer comes upon (`WantedAreThere`). A slot chosen on a former
connection may hold anything by now; it is not written any more, since its command
is bound to a link that is gone, and no slot is chosen for a connection to come
(`ChosenInTime`). `SetupsInOrder` says that a setup of an
older connection cannot begin any more, `ReadyBotsAreDone` that a ready bot has
nothing under way that could change its index.

`ChainInv` puts the chain of commands on top of it: it is serial, and whatever has
not been submitted is idle. `Connect` submits the lists of all bots at once, and
nothing of that connection was on the chain before, since setups begin in the
order of the connections (`SetupsInOrder`); a list that misses its channel submits
the create of the same setup, which nobody else does.

`BotProofs`: that the answer for one message is right needs the whole cache to be
right. `Tells` says that it is ordered by the time of the last hearing, and that
behind each entry stand exactly the messages heard since; then the position of an
entry counts them, eviction from the front by limit takes messages with at least
that many behind them, and the age scan may stop at the first young entry.
`Forgets` says the rest: what is not in the cache is too old or was pushed out.

The second invariant of `BotProofs`, `ChecksInv`, is about the table of the
repeat checks. A text has one row, no row is empty, and the entries of a row are
in the order of their expiry, so that pruning a row from its front reaches all
that are overdue and a repeat is credited to the oldest. The counters equal what
was registered less what waits; since a registration adds one entry to a table
that was not above its limit, one eviction is enough. `NothingOverdueStays` makes
an exception for a timeout of zero, which the schema allows: an entry
registered in this very millisecond is overdue as soon as it is there.

`StatusProofs`: `StatusInv` is stated of the behaviours without a crossing (a
renewal that overlaps the shutdown), and no step takes a crossing back.
`TasksInOrder` makes the tasks follow one another, from which `OneClient` derives where the
connection is: the client's own, or the one the single renewal or the shutdown
is ending. The status rests on the last word of a client (the end of its outbox,
or what is retained): `SaysOnline` while running, `SaysOffline` after the
goodbye, and `WillIsThere`, that a retained "online" belongs to a session which
will be taken back by its will.

`StoreProofs`: between migrations the database is `Sound`: it has the tables of
its version with one row for each reply, the true status, and columns or state
as the command leaves them. Inside a migration the invariant is about the
statements that are left: `Leads` says that each of them fits the tables it finds
and that they end in a sound database of the next version. Per migration one
lemma shows this of its first statement; every statement executed keeps it, and a
crash needs nothing, since the transaction is gone with the process.

The nodes are an invariant on top of it. `RegistryInv` says that the hearings are
in the order of their times, and that the table has one row per key that was
heard, with the times of its first and last hearing and what the last one said;
that no statement left of a migration touches the rows (`Spares`) carries it over
the upgrade. The nodes added follow from the first hearing, for any
window; the others since a window that ends now and has any hearing after the first
has the last one; the pages, since the i-th row of a sorted list
has fewer than i later ones. The two prefix lemmas say that more digits of a key
still are a prefix of it and begin with the query.

`MetricsProofs` begins with sums, since every number of the dashboard is one. The fold
of the community modules is defined by a choice of a function on all subsets of
a set; `FoldExists` shows that there is one, `FoldUnique` that there is no other,
both by a least counterexample, and `PartTake` that any element may be taken out
first. From this follow the sum of two functions value by value (`SumPlus`), of
the groups of a grouping (`SumGroups`, for the buckets of the chart and those of
packet types) and of the columns of a table (`SumSwap`, because the totals add up
samples and the pie adds up types).

`MetricsInv` is the invariant. `SettledTogether` says that a packet is settled
at all brokers or at none, so that counting it once counts all its outcomes; that
each is the broker's own rests on `PlaceOf`: the k-th broker that was started has
k - 1 started ones before it. `SamplesGoBack` says that no sample is of the
future, so that a new one is not yet in the sum of `EveryPacketOnce`, and that
the store has every saved sample from its earliest one on, which is what the
check for trends looks at. `PruningIsKept` remembers when pruning was last due,
and what it may have left behind. That the chart stays
within its limit is arithmetic about the width of a bucket (`WidthFits`).

These invariants were checked by TLC before they were proved, on 4621662
(SetupInv and ChainInv), 816362 (BotInv and ChecksInv, with four acceptances), 651584
(StatusInv), 397584 (StoreInv, with two replies and two crashes), 2106664
(RegistryInv), 692001 (MetricsInv, without symmetry) and 1285172 (QueueInv) distinct
states.

Only model-checked:

* liveness, under the premises of section 5 (`EveryReplyResolves`, `PendingAdvertIsAttempted`, `Reconnects`,
  `EveryCheckEnds`, `TokenIsRenewed`, `TokenIsPresented`, `ShutdownEnds`,
  `SampleIsShown`): the prover has no
  rules for fairness and ENABLED;
* the setups of two bots whose channels are both missing, and what becomes of the
  broker after a renewal has crossed the shutdown: there the properties fail
  (section 7).

## 7 Where code and documentation disagree

Three runs are expected to be violated. Each checks one sentence of the
documentation.

| run | property | what happens |
|---|---|---|
| `channel_setup_two` | `EveryBotItsChannel` | Two bots whose channels are both missing list the slots before either writes, and pick the same one. `bots/channel-bot.js:37-38`: "A deployment can run any number of these, each bound to a different channel/command set". |
| `token_shutdown` | `ShutdownClosesMqtt` | A renewal that awaits its signature or the end of the old client when the loop is stopped connects again after `closeAll()`; the client is never ended and the timer of the forced exit is cleared. Section 22 of the project plan: MQTT is disconnected before exit. |
| `repeater_trend` | `TrendComparesPeriods` | A repeater heard in the previous period and again in this one has moved its only `last_heard_at`, and is missing from the previous period: steady traffic shows as growth. `web/client/dashboard.js:419`: "Compared with the immediately preceding period of the same duration." |

### Further counterexamples

These are run by hand: a configuration that is kept for it, or the one of a run
with another property in place of its own and the constants named. Each is
violated; they are milder, because the statement is a summary and the code a considered choice, or
because they vary one of the above.

| configuration | property | statement |
|---|---|---|
| `MCRadioManagerHang` | `RecoversAutomatically` | `docs/project_plan.spec.md:1133`: unplugging and reconnecting recovers automatically; a command in flight when the link drops never settles, the chain stops, and the handshake of every later connection waits behind it: its timeout only starts with its turn |
| `MCNodesTableLate` | `TableShowsTheSearch` | the comment in `web/client/dashboard-logic.js:128-133` and `docs/plans/v2.2.0/feat-dashboard-ui-performance.md:35` (latest request wins, late responses are ignored); a late answer of the table replaces newer rows and labels them with the newer offset; after a failed Next the offset has moved on, so that another one skips a page |
| `MCNodesTableToggle` | `FormerRangeStaysAway` | the same plan, line 75: a slower response for a former range cannot replace current-range data; the button of the date fields selects the custom range without aborting the request of the former one |
| `MCObserverStatusLoss` | `StatusTellsTheLoss`; `StatusTellsTheLife` in its place | `README.md:142`: retained, with a Last Will for abrupt disconnects. The DISCONNECT of a renewal discards the will: a crash before the next CONNACK leaves "online" for ever. For the second, the will of a half-open session that was replaced arrives after the new "online" |
| `MCReplyQueueTwice` | `AtMostOneReply`; `PROPERTY ShutdownCancels` in its place | `README.md:204` says at most one reply; a crash between the transmission and the write repeats it. `README.md:323-325` says a pending reply is cancelled at shutdown; the row stays and is resumed |
| `MCReplyQueueHang` | `TtlBoundsTheQueue` | `README.md:300-304`: the TTL bounds the time in the queue; a dispatch that hangs keeps the queue from expiring anything |
| `MCQuietWindow` | `FreshQuietWindow` | `README.md:316-318`: each reply needs a fresh quiet window; the window begins with the start of the previous send, not with its end |
| `MCRadioManager`, no faults, `SPECIFICATION Spec` | `INVARIANT NoConnectionLeaks` | project plan, 1231: no leaked connections; a listener that throws leaves one open |
| `MCChannelSetup` | `INVARIANT RepliesGoToTheChannel` | a reply goes to the channel of its bot; one that was queued before a reconnect that finds another table is sent on the former index, since `sendQueuedReply` does not look at the readiness of the bot (`bots/channel-bot.js:473`) |
| `MCChannelSetup` | `INVARIANT StoppedIsNotReady` | the comment on `ChannelBot.stop()`; a setup under way makes the bot ready again |
| `MCChannelBot`, time 4, `SPECIFICATION Spec` | `INVARIANT OneReplyPerMessage` | `README.md:592`; a message heard again after the TTL, or after a full cache, gets a second reply |
| `MCChannelBot`, repeat timeout 3, time 5, `SPECIFICATION Spec` | `PROPERTY EvictsTheOldest` | the comment on `RepeatCheckTracker`; the first key of the Map need not have the oldest check |

### Seen in the code, outside of the models

* `MetricsServer.start()` registers its listener on the sampler before it
  binds; if binding fails the listener stays (`web/metrics-server.js:128-145`).
* `shutdown()` awaits `metricsServer.stop()`, and `server.close()` waits for
  connections that were opened without a request, and rejects while the server
  is still binding.
* In `waitForConnection` of the transports nobody handles the promise if
  `connect()` itself rejects first (`transports/serial-transport.js:30-32`).

## 8 What is not modelled

* **Bytes and strings**: packet decoding and normalisation, hashes, topics and
  payloads of the publisher, templates of replies, key derivation and
  decryption. They keep nothing between two calls and are covered by unit tests.
  Where a model depends on their result it chooses one.
* **Configuration, schemas, logging**: read once, or output only. What the
  configuration guarantees is in the assumptions.
* **Drawing of the dashboard page**: charts, tables, markup and styles. A section
  is the query and the sample it was rendered from.
* **Libraries**: meshcore.js and MQTT.js appear as the environment's steps, as
  the code in `src/` uses them: a command settles or not, a client comes online
  or goes. SQLite transactions are atomic and durable.
* **Inside one opening of a port**: the events and the timer that race in
  `waitForConnection` are one step with three outcomes.
* **Dashboard server**: routing, validation of parameters, error responses, start
  and stop, and the timers of the event streams (step 12). Its queries are in
  PacketMetrics and NodeRegistry, its stream in RangeRefresh.
* **The shutdown as a whole**: the outbound parts and MQTT are modelled with it,
  the health timer, the dashboard and the store are not.
* **Parts of modelled components** left out because their state is only shown
  to people: request and send times in `flood_advert_state`, status strings and
  bot counters of the health snapshot, the history queries on `bot_replies`.
* **The order of verification.** Two adverts of one node may be verified in another
  order than they were received; the table then keeps the name and the time of the
  one verified last. The code says nothing of it, and no property does: the history
  is that of the upserts.
* **Wildcards.** A `%` or `_` in the search box of the dashboard matches more than
  itself (`metrics/store.js:922`); texts of the model have none. A query of
  `!lookup` has hexadecimal digits only.
* **The clock** never jumps back. `Date.now()` may; a jump stretches TTLs and
  windows by its length and is outside every model here.
