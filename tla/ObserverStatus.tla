---------------------------- MODULE ObserverStatus ----------------------------
(***************************************************************************)
(* What the status topic says of the observer: the announcement at every   *)
(* connect and the will that goes with it (index.js,                       *)
(* observer-publisher.js), the goodbye and the bounded shutdown, over the  *)
(* connections of TokenBroker, and a process that may die at any time.     *)
(*                                                                         *)
(* The MQTT broker is external.  It keeps one retained status, and         *)
(* publishes the will of a session whose link was lost without a           *)
(* DISCONNECT: when it notices, or when the same client connects again.    *)
(* MQTT.js is external too: it hands over what is published in order,      *)
(* keeps what is published without a link, may lose what is under way when *)
(* a link is lost, and writes what is left before it sends DISCONNECT.     *)
(***************************************************************************)
EXTENDS TokenBroker, SequencesExt

CONSTANT MaxOutbox   \* bound on statuses that wait in a client

ASSUME StatusAssumption == MaxOutbox \in Nat \ {0}

VARIABLES
  lost,        \* clients whose session the broker still takes for alive
  outbox,      \* per client: statuses on their way to the broker
  retained,    \* the status the broker has, or "none"
  goodbye,     \* the final publishStatus: "no", "sent" or "over"
  goodbyeTo,   \* the client it was handed to, 0 for null
  ended,       \* is the process over?
  mishaps      \* history: "late" when online was announced after the goodbye,
               \* "lingered" when a client was replaced while its session was
               \* lost, "bare" from the DISCONNECT of a renewal to the next CONNACK

statusVars == <<lost, outbox, retained, goodbye, goodbyeTo, ended, mishaps>>
allVars == <<vars, statusVars>>

StatusInit ==
  /\ Init
  /\ lost = {} /\ outbox = [c \in Tasks |-> <<>>] /\ retained = "none"
  /\ goodbye = "no" /\ goodbyeTo = 0 /\ ended = FALSE
  /\ mishaps = {}

-----------------------------------------------------------------------------
\* MqttBroker#publish: #client may be null, or another one than has connected.
Publishes(s) ==
  outbox' = IF client = 0 THEN outbox ELSE [outbox EXCEPT ![client] = Append(@, s)]

\* Mutation of Announces: only the first connect is announced.
AnnouncesOnce(c) == IF retained = "none" THEN Publishes("online") ELSE UNCHANGED outbox

\* The listener of broker.connected.
Announces(c) == Publishes("online")

\* The will of an earlier session of this client comes first.
Accepted(c) ==
  /\ GoesOnline(c)
  /\ client # 0 => Len(outbox[client]) < MaxOutbox
  /\ Announces(c)
  /\ lost' = lost \ {c}
  /\ retained' = IF c \in lost THEN "offline" ELSE retained
  /\ mishaps' = (mishaps \ {"bare"}) \cup (IF goodbye = "no" THEN {} ELSE {"late"})
  /\ UNCHANGED <<goodbye, goodbyeTo, ended>>

\* The link is lost, perhaps with what was under way.
LosesLink(c) ==
  /\ lost' = lost \cup {c}
  /\ \E left \in {outbox[c], <<>>} : outbox' = [outbox EXCEPT ![c] = left]
  /\ UNCHANGED <<retained, goodbye, goodbyeTo, ended, mishaps>>

Dropped(c) == GoesOffline(c) /\ LosesLink(c)

\* Nobody looks at the events of a client that is being ended.
DroppedAtEnd(c) ==
  /\ c \in online \cap Ending
  /\ online' = online \ {c}
  /\ LosesLink(c)
  /\ UNCHANGED <<state, stopping, client, password, live, tokenVars, taskVars>>

Delivered(c) ==
  /\ c \in online /\ outbox[c] # <<>>
  /\ retained' = Head(outbox[c])
  /\ outbox' = [outbox EXCEPT ![c] = Tail(@)]
  /\ UNCHANGED <<lost, goodbye, goodbyeTo, ended, mishaps, vars>>

\* Mutation of WillStatus: the will repeats the status of the moment.
WillAsBefore == retained

\* offlinePayload, fixed when the radio was first connected.
WillStatus == "offline"

\* The broker notices that a session is dead, also after the process is over.
WillFires(c) ==
  /\ c \in lost
  /\ lost' = lost \ {c} /\ retained' = WillStatus
  /\ UNCHANGED <<outbox, goodbye, goodbyeTo, ended, mishaps, vars>>

\* end() calls back: DISCONNECT after everything else, if there is a link.
Ended(c) ==
  /\ c \in online => outbox[c] = <<>>
  /\ outbox' = [outbox EXCEPT ![c] = <<>>]
  /\ UNCHANGED <<lost, retained, goodbye, goodbyeTo, ended>>

Replaced(t) ==
  /\ RefreshEnded(t)
  /\ Ended(ends[t])
  /\ mishaps' = mishaps \cup (IF ends[t] \in online THEN {"bare"} ELSE {})
                        \cup (IF ends[t] \in lost THEN {"lingered"} ELSE {})

Closed == AllClosed /\ Ended(lastEnd) /\ UNCHANGED mishaps

-----------------------------------------------------------------------------
\* shutdown(), after everything that comes before MQTT has been awaited.
NothingToSay ==
  /\ goodbye = "no" /\ state # "connected"
  /\ CloseAll
  /\ goodbye' = "over"
  /\ UNCHANGED <<lost, outbox, retained, goodbyeTo, ended, mishaps>>

\* Mutation of Goodbye: closing the brokers is taken to be enough.
NoGoodbye == UNCHANGED outbox

Goodbye == Publishes("offline")

SaysGoodbye ==
  /\ phase = "stopping" /\ goodbye = "no" /\ state = "connected"
  /\ goodbye' = "sent" /\ goodbyeTo' = client
  /\ Goodbye
  /\ UNCHANGED <<lost, retained, ended, mishaps, vars>>

\* The publish settles: rejected at once, written to the link, or dropped
\* with its client; then closeAll().
GoodbyeSettles ==
  /\ goodbye = "sent"
  /\ goodbyeTo # 0 => goodbyeTo \in online \/ ~Contains(outbox[goodbyeTo], "offline")
  /\ CloseAll
  /\ goodbye' = "over"
  /\ UNCHANGED <<lost, outbox, retained, goodbyeTo, ended, mishaps>>

\* The process is over, and with it what it knew and the links it still had.
Ends ==
  /\ ~ended /\ ended' = TRUE /\ phase' = "closed"
  /\ state' = "disconnected" /\ stopping' = FALSE /\ client' = 0
  /\ lost' = lost \cup online /\ online' = {} /\ live' = {}
  /\ outbox' = [c \in Tasks |-> <<>>]
  /\ stage' = [t \in Tasks |-> "done"]
  /\ UNCHANGED <<password, tokenVars, ends, lastEnd, crossed,
                 retained, goodbye, goodbyeTo, mishaps>>

\* Mutation of TimerRuns: the timer is cleared before closeAll() is awaited.
TimerUntilClosing == phase = "stopping"

TimerRuns == phase \in {"stopping", "closing"}

ForcedExit == TimerRuns /\ Ends

\* Nothing keeps the event loop alive any more.
FinishedExit == phase = "closed" /\ live = {} /\ Ends

Crash == phase # "closed" /\ Ends

TokenStep ==
  \/ RadioReady \/ StopLoops
  \/ ~ended /\ Ages
  \/ \E t \in Tasks : RefreshFires(t) \/ SignatureSettles(t)
  \/ \E c \in DOMAIN password : Retries(c)

StatusNext ==
  \/ TokenStep /\ UNCHANGED statusVars
  \/ \E t \in Tasks : Replaced(t)
  \/ \E c \in DOMAIN password :
       Accepted(c) \/ Dropped(c) \/ DroppedAtEnd(c) \/ Delivered(c) \/ WillFires(c)
  \/ NothingToSay \/ SaysGoodbye \/ GoodbyeSettles \/ Closed
  \/ ForcedExit \/ FinishedExit \/ Crash

StatusSpec == StatusInit /\ [][StatusNext]_allVars

\* The interval of the loop and the timer of the shutdown fire, MQTT.js ends what
\* it was told to, and a link that is up carries what is written to it.  That a
\* signature settles is no part of it: nothing in the code bounds the wait.
StatusFairSpec ==
  /\ StatusSpec
  /\ WF_allVars(ForcedExit \/ FinishedExit)
  /\ \A t \in Tasks :
       /\ WF_allVars(RefreshFires(t) /\ UNCHANGED statusVars)
       /\ WF_allVars(Replaced(t)) /\ WF_allVars(Delivered(t))
-----------------------------------------------------------------------------
(* Properties.                                                              *)

\* While the observer runs and its client is connected, the status says
\* online as soon as the announcement is through: also after any number of
\* lost links, each with its will, and after a renewal, as long as no client
\* was replaced while its session was lost.
OnlineWhileServing ==
  /\ phase = "running" /\ ~ended /\ client \in online /\ outbox[client] = <<>>
  /\ "lingered" \notin mishaps /\ ~crossed
  => retained = "online"

\* When the process is over, by a shutdown, its timer or a crash, and the
\* broker has noticed, the status does not say online; unless a renewal or a
\* reconnect came across the shutdown, or it ended between the DISCONNECT of a
\* renewal and the next connection, when no will is left with the broker.
GoneIsOffline ==
  ended /\ lost = {} /\ ~crossed /\ mishaps \subseteq {"lingered"} => retained # "online"

\* A shutdown ends the process, wherever it gets stuck.
ShutdownEnds == phase = "stopping" ~> ended \/ crossed

\* What the README and the project plan say of the status without a condition.
StatusTellsTheLoss == ended /\ lost = {} => retained # "online"

StatusTellsTheLife ==
  /\ phase = "running" /\ ~ended /\ client \in online /\ outbox[client] = <<>>
  /\ lost = {} /\ ~crossed
  => retained = "online"

=============================================================================
