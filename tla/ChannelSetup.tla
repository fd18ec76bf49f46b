----------------------------- MODULE ChannelSetup -----------------------------
(***************************************************************************)
(* The setup of the channel bots: on every radio.connected each bot lists  *)
(* the channel slots of the Companion, and if its channel is not there     *)
(* creates it in the first empty slot.  The list and the creation are two  *)
(* device commands; other setups' commands run in between, and so may a    *)
(* reconnect, which starts another setup of the same bot.  While the       *)
(* observer is away somebody else may have changed the table of channels.  *)
(*                                                                         *)
(* Here a command on a lost link is rejected (RadioManager is about the    *)
(* case that it is not).                                                   *)
(***************************************************************************)
EXTENDS CommandQueue, FiniteSets, FiniteSetsExt, SequencesExt

CONSTANTS
  Bots, NumSlots,
  Channels,        \* channel names, compared without case
  Blank,           \* the name of an empty slot
  MaxConnects      \* bound on connections

Slots == 1 .. NumSlots
Setups == Bots \X (1 .. MaxConnects)
SetupCommands == Setups \X {"list", "set"}

ASSUME SetupAssumption ==
  /\ Commands = SetupCommands
  /\ Blank \notin Channels
  /\ IsFiniteSet(Bots)
  /\ NumSlots \in Nat \ {0} /\ MaxConnects \in Nat

VARIABLES
  wanted,      \* #channelName of each bot
  slots,       \* the channel table of the device
  epoch,       \* how many connections there have been
  connected,
  chosen,      \* per setup: the empty slot it will write, 0 before
  subscribed,  \* per bot: are its listeners on?
  ready,       \* per bot: #ready
  channelIdx,  \* per bot: #channelIdx, 0 for null
  missing      \* history: wanted channels that were not on a table the observer came upon

setupVars == <<wanted, slots, epoch, connected, chosen, subscribed, ready, channelIdx, missing>>
vars == <<queueVars, setupVars>>

TypeOK ==
  /\ QueueTypeOK
  /\ wanted \in [Bots -> Channels]
  /\ slots \in [Slots -> Channels \cup {Blank}]
  /\ epoch \in 0 .. MaxConnects /\ connected \in BOOLEAN
  /\ chosen \in [Setups -> 0 .. NumSlots]
  /\ subscribed \in [Bots -> BOOLEAN] /\ ready \in [Bots -> BOOLEAN]
  /\ channelIdx \in [Bots -> 0 .. NumSlots]

Named(name) == {s \in Slots : slots[s] = name}

\* A table has no name twice.
IsTable == \A s, t \in Slots : slots[s] = slots[t] => s = t \/ slots[s] = Blank

MissingNow == {wanted[b] : b \in Bots} \ {slots[s] : s \in Slots}

\* Any table; bots may share a channel.
Init ==
  /\ QueueInit
  /\ wanted \in [Bots -> Channels]
  /\ slots \in [Slots -> Channels \cup {Blank}]
  /\ IsTable
  /\ epoch = 0 /\ connected = FALSE
  /\ chosen = [x \in Setups |-> 0]
  /\ subscribed = [b \in Bots |-> TRUE]
  /\ ready = [b \in Bots |-> FALSE]
  /\ channelIdx = [b \in Bots |-> 0]
  /\ missing = MissingNow

-----------------------------------------------------------------------------
Write(x) == slots' = [slots EXCEPT ![chosen[x]] = wanted[x[1]]]

\* The link is there that the setup started on, and its command went out on.
OnItsLink(x) == connected /\ epoch = x[2]

\* Mutation of Starts: a reconnect leaves the bot ready while it looks again.
StartsReady(r) == r

\* #setup begins with #ready = false.
Starts(r) == [b \in Bots |-> r[b] /\ ~subscribed[b]]

\* radio.connected: every subscribed bot calls #setup, in some fixed order.
Connect ==
  /\ ~connected /\ epoch < MaxConnects
  /\ connected' = TRUE /\ epoch' = epoch + 1
  /\ LET lists == {<<<<b, epoch + 1>>, "list">> : b \in {b \in Bots : subscribed[b]}}
     IN /\ cmd' = [x \in Commands |-> IF x \in lists THEN "waiting" ELSE cmd[x]]
        /\ \E order \in SetToSeqs(lists) : chain' = chain \o order
  /\ ready' = Starts(ready)
  /\ UNCHANGED <<wanted, slots, chosen, subscribed, channelIdx, missing>>

\* A creation that is under way may have been written, unanswered.
Disconnect ==
  /\ connected
  /\ connected' = FALSE
  /\ \/ UNCHANGED slots
     \/ \E x \in Setups : cmd[<<x, "set">>] = "running" /\ OnItsLink(x) /\ Write(x)
  /\ UNCHANGED <<queueVars, wanted, epoch, chosen, subscribed, ready, channelIdx, missing>>

\* Somebody else sets up the Companion before the observer is back.
TableChanges ==
  /\ ~connected /\ epoch \in 1 .. MaxConnects - 1
  /\ UNCHANGED <<queueVars, wanted, epoch, connected, chosen, subscribed, ready, channelIdx>>
  /\ slots' \in [Slots -> Channels \cup {Blank}] /\ IsTable'
  /\ missing' = missing \cup MissingNow'

BecomesReady(b, slot) ==
  /\ ready' = [ready EXCEPT ![b] = TRUE]
  /\ channelIdx' = [channelIdx EXCEPT ![b] = slot]

\* Mutation of Candidates: any slot will do.
AllSlots == Slots

Candidates == Named(Blank)

\* The channel is there already.
ListFinds(x) ==
  /\ cmd[<<x, "list">>] = "running" /\ OnItsLink(x)
  /\ Named(wanted[x[1]]) # {}
  /\ Settle(<<x, "list">>, "ok")
  /\ BecomesReady(x[1], Min(Named(wanted[x[1]])))
  /\ UNCHANGED <<wanted, slots, epoch, connected, chosen, subscribed, missing>>

\* It is not, and an empty slot of the list is picked.
ListMisses(x) ==
  /\ cmd[<<x, "list">>] = "running" /\ OnItsLink(x)
  /\ Named(wanted[x[1]]) = {} /\ Candidates # {}
  /\ chosen' = [chosen EXCEPT ![x] = Min(Candidates)]
  /\ SettleAndRun(<<x, "list">>, "ok", <<x, "set">>)
  /\ UNCHANGED <<wanted, slots, epoch, connected, subscribed, ready, channelIdx, missing>>

\* The list fails, or there is no empty slot: replies stay disabled.
ListEnds(x) ==
  /\ cmd[<<x, "list">>] = "running"
  /\ \E outcome \in Settled :
       /\ outcome = "ok" => OnItsLink(x) /\ Named(wanted[x[1]]) = {} /\ Candidates = {}
       /\ Settle(<<x, "list">>, outcome)
  /\ UNCHANGED setupVars

SetSucceeds(x) ==
  /\ cmd[<<x, "set">>] = "running" /\ OnItsLink(x)
  /\ Settle(<<x, "set">>, "ok")
  /\ Write(x)
  /\ BecomesReady(x[1], chosen[x])
  /\ UNCHANGED <<wanted, epoch, connected, chosen, subscribed, missing>>

\* The device refuses, its answer does not come, or the link is gone.
SetFails(x) ==
  /\ cmd[<<x, "set">>] = "running"
  /\ Settle(<<x, "set">>, "err")
  /\ (OnItsLink(x) /\ Write(x)) \/ UNCHANGED slots
  /\ UNCHANGED <<wanted, epoch, connected, chosen, subscribed, ready, channelIdx, missing>>

\* stop(): the listeners go, a setup that is under way does not.
BotStop(b) ==
  /\ subscribed[b]
  /\ subscribed' = [subscribed EXCEPT ![b] = FALSE]
  /\ ready' = [ready EXCEPT ![b] = FALSE]
  /\ UNCHANGED <<queueVars, wanted, slots, epoch, connected, chosen, channelIdx, missing>>

Next ==
  \/ Connect \/ Disconnect \/ TableChanges \/ (BeginNext /\ UNCHANGED setupVars)
  \/ \E x \in Setups :
       ListFinds(x) \/ ListMisses(x) \/ ListEnds(x) \/ SetSucceeds(x) \/ SetFails(x)
  \/ \E b \in Bots : BotStop(b)

Spec == Init /\ [][Next]_vars
-----------------------------------------------------------------------------
(* Properties.                                                              *)

OwnsSlot(b) == slots[channelIdx[b]] = wanted[b]

LooksAgain(b) ==
  connected /\ subscribed[b] /\ cmd[<<<<b, epoch>>, "list">>] \in {"waiting", "running"}

Serves(b) == connected /\ subscribed[b]

\* A bot that is ready replies on its own channel, also when a reconnect made
\* two of its setups overlap or brought another table of channels, provided that
\* only one channel ever had to be created; and it is not ready while it looks
\* for its channel on the present connection, where the index of the previous
\* one may be wrong.
ReadyBotsOwnTheirSlot ==
  \A b \in Bots : ready[b] => /\ Serves(b) /\ Cardinality(missing) <= 1 => OwnsSlot(b)
                              /\ ~LooksAgain(b)

\* Under the same condition the observer overwrites no channel of the device.
ChannelsAreKept ==
  [][connected /\ Cardinality(missing) <= 1 =>
       \A s \in Slots : slots[s] # Blank => slots'[s] = slots[s]]_vars

\* What the class comment of ChannelBot promises: any number of bots, each
\* bound to a channel of its own.
EveryBotItsChannel == \A b \in Bots : ready[b] /\ Serves(b) => OwnsSlot(b)

\* What a reader of the class expects of a queued reply, which is sent on the
\* index of the bot without a look at its readiness.
RepliesGoToTheChannel ==
  \A b \in Bots : Serves(b) /\ channelIdx[b] # 0 /\ Cardinality(missing) <= 1 => OwnsSlot(b)

\* What the comment on stop() promises: a stopped bot is marked not ready.
StoppedIsNotReady == \A b \in Bots : ~subscribed[b] => ~ready[b]
=============================================================================
