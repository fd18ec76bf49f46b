----------------------------- MODULE StatusProofs -----------------------------
(***************************************************************************)
(* Proofs about ObserverStatus and the TokenBroker below it, for every     *)
(* number of tasks, tokens, faults and statuses: as long as renewals and   *)
(* the shutdown do not cross, the broker has one client, its state is      *)
(* true, and the retained status says whether the observer is there.       *)
(*                                                                         *)
(* The inductive invariant speaks of the runs without a crossing, and no   *)
(* step takes a crossing back.  Then tasks follow one another, so that     *)
(* every connection is either the broker's own or the one that a renewal   *)
(* or the shutdown is ending; and what a client has said last, in its      *)
(* outbox or retained, follows from what the process last announced.       *)
(***************************************************************************)
EXTENDS ObserverStatus, SequenceTheorems, TLAPS

States == {"disconnected", "connecting", "connected", "retrying", "failed"}
Stages == {"idle", "renewing", "ending", "signing", "done"}
Phases == {"waiting", "running", "stopping", "closing", "closed"}
Statuses == {"online", "offline"}

TokenTypes ==
  /\ state \in States /\ stopping \in BOOLEAN
  /\ password \in Seq(Nat) /\ client \in 0 .. Len(password)
  /\ live \subseteq 1 .. Len(password) /\ online \subseteq live
  /\ token \in Nat
  /\ stage \in [Tasks -> Stages] /\ ends \in [Tasks -> Nat]
  /\ phase \in Phases /\ lastEnd \in Nat

StatusTypes ==
  /\ lost \subseteq 1 .. Len(password)
  /\ outbox \in [Tasks -> Seq(Statuses)]
  /\ retained \in Statuses \cup {"none"}
  /\ goodbye \in {"no", "sent", "over"} /\ ended \in BOOLEAN

\* Nothing is underway before a task, and nothing has begun after one.
TasksInOrder ==
  \A s, t \in Tasks : s < t /\ stage[t] # "idle" => stage[s] = "done"

\* A task makes at most one client, so every client has an outbox.
RoomForClients ==
  /\ Len(password) <= NumTasks
  /\ \A t \in Tasks : stage[t] # "done" => Len(password) < t

Renewing == \E t \in Tasks : stage[t] = "ending"

\* Where the connection is, from the first connect to the end.
OneClient ==
  /\ phase = "waiting" => client = 0 /\ stopping = FALSE /\ \A t \in Tasks : stage[t] = "idle"
  /\ phase \in {"closing", "closed"} => client = 0 /\ \A t \in Tasks : ~UnderWay(t)
  /\ phase \notin {"closing", "closed"} => lastEnd = 0
  /\ phase = "closing" => live \subseteq {lastEnd} /\ stopping
  /\ phase # "closing" /\ ~Renewing => live \subseteq {client}
  /\ stopping => Renewing \/ phase \in {"closing", "closed"}
  /\ \A t \in Tasks : stage[t] = "ending" => client = 0 /\ live \subseteq {ends[t]} /\ stopping
  /\ \A t \in Tasks : stage[t] = "signing" => client = 0 /\ ~stopping

\* What the broker will have when the outbox of c is through.
LastWord(c) == IF outbox[c] = <<>> THEN retained ELSE outbox[c][Len(outbox[c])]

GoodbyeInOrder ==
  /\ phase \in {"waiting", "running"} => goodbye = "no"
  /\ phase = "closing" => goodbye = "over"
  /\ ended => phase = "closed"

\* Only clients that are still there have lost a session.
LostAreKnown ==
  /\ lost \cap online = {}
  /\ "lingered" \notin mishaps /\ phase \in {"waiting", "running"} => lost \subseteq live

\* While the observer runs, its connection speaks last.
SaysOnline ==
  phase = "running" /\ client \in online /\ "lingered" \notin mishaps
  => LastWord(client) = "online"

\* After the goodbye, nothing but an excused reconnect says anything else.
SaysOffline ==
  goodbye # "no" /\ mishaps \subseteq {"lingered"} /\ ~Renewing
  => \A c \in online : LastWord(c) = "offline"

\* An observer that is taken for online has a session that carries its will.
WillIsThere ==
  mishaps \subseteq {"lingered"} /\ retained = "online" => online \cup lost # {}

Truth == ~stopping => (state = "connected" <=> client \in online)

BrokerInv ==
  /\ TokenTypes /\ TasksInOrder /\ RoomForClients /\ OneClient /\ Truth

SessionInv ==
  /\ StatusTypes /\ GoodbyeInOrder /\ LostAreKnown
  /\ SaysOnline /\ SaysOffline /\ WillIsThere

StatusInv ==
  /\ crossed \in BOOLEAN
  /\ ~crossed => BrokerInv /\ SessionInv
-----------------------------------------------------------------------------
(* The broker.                                                             *)

LEMMA InitBroker == Init => BrokerInv
<1> SUFFICES ASSUME Init PROVE BrokerInv
  OBVIOUS
<1> USE BrokerAssumption DEF Init, Tasks
<1>1. TokenTypes
  <2>1. password \in Seq(Nat) /\ Len(password) = 0
    BY EmptySeq
  <2>2. stage \in [Tasks -> Stages] /\ ends \in [Tasks -> Nat]
    BY DEF Stages
  <2>3. client \in 0 .. Len(password) /\ live \subseteq 1 .. Len(password)
    BY <2>1
  <2>4. state \in States /\ stopping \in BOOLEAN /\ phase \in Phases
    BY DEF States, Phases
  <2>5. QED
    BY <2>1, <2>2, <2>3, <2>4 DEF TokenTypes
<1>2. TasksInOrder /\ RoomForClients
  BY DEF TasksInOrder, RoomForClients
<1>3. OneClient /\ Truth
  BY DEF OneClient, Truth, UnderWay
<1>4. QED
  BY <1>1, <1>2, <1>3 DEF BrokerInv

\* One connection at a time: what is not being ended is the broker's own.
LEMMA LiveIsOwn ==
  ASSUME BrokerInv
  PROVE  live \ Ending \subseteq {client}
  BY DEF BrokerInv, OneClient, TokenTypes, Ending, Renewing

\* A task that is underway is the only one, and the phase allows for it.
LEMMA OneUnderWay ==
  ASSUME BrokerInv, NEW t \in Tasks, UnderWay(t)
  PROVE  /\ phase \in {"running", "stopping"} /\ lastEnd = 0
         /\ \A s \in Tasks : s < t => stage[s] = "done"
         /\ \A s \in Tasks : s > t => stage[s] = "idle"
         /\ Len(password) < t
<1> USE BrokerAssumption DEF BrokerInv, UnderWay, Tasks
<1>1. phase \in {"running", "stopping"} /\ lastEnd = 0
  BY DEF OneClient, TokenTypes, Phases
<1>2. \A s \in Tasks : s < t => stage[s] = "done"
  BY DEF TasksInOrder
<1>3. \A s \in Tasks : s > t => stage[s] = "idle"
  BY DEF TasksInOrder
<1>4. Len(password) < t
  BY DEF RoomForClients
<1>5. QED
  BY <1>1, <1>2, <1>3, <1>4

\* A task that leaves its stage between done and idle ones keeps the order.
LEMMA StageMoves ==
  ASSUME BrokerInv, NEW t \in Tasks, NEW new \in Stages \ {"idle"}, Leads(t, new),
         \A s \in Tasks : s < t => stage[s] = "done",
         \A s \in Tasks : s > t => stage[s] = "idle"
  PROVE  /\ stage' \in [Tasks -> Stages] /\ TasksInOrder'
         /\ stage'[t] = new
         /\ \A s \in Tasks : s # t => stage'[s] = stage[s] /\ stage[s] \in {"done", "idle"}
<1> USE BrokerAssumption DEF BrokerInv, TokenTypes, Leads, Tasks
<1>1. stage' \in [Tasks -> Stages] /\ stage'[t] = new
  OBVIOUS
<1>2. \A s \in Tasks : s # t => stage'[s] = stage[s] /\ stage[s] \in {"done", "idle"}
  OBVIOUS
<1>3. TasksInOrder'
  BY <1>1, <1>2 DEF TasksInOrder
<1>4. QED
  BY <1>1, <1>2, <1>3

LEMMA ClientMade ==
  ASSUME password \in Seq(Nat), NEW tok \in Nat, password' = Append(password, tok)
  PROVE  password' \in Seq(Nat) /\ Len(password') = Len(password) + 1 /\ Len(password) \in Nat
  BY AppendProperties, LenProperties

\* connect() by the only task underway, when there is no client.
LEMMA ConnectsStep ==
  ASSUME BrokerInv, NEW t \in Tasks, Connects(t),
         \A s \in Tasks : s < t => stage[s] = "done",
         \A s \in Tasks : s > t => stage[s] = "idle",
         Len(password) < t, client = 0, live = {}, token' \in Nat,
         phase' \in {"running", "stopping"}, lastEnd = 0,
         UNCHANGED <<online, ends, lastEnd>>
  PROVE  BrokerInv'
<1> USE BrokerAssumption DEF BrokerInv, Connects
<1>1. CASE token' > 0 /\ life' = "fresh"
  <2> USE <1>1 DEF Creates
  <2>1. /\ stage' \in [Tasks -> Stages] /\ TasksInOrder' /\ stage'[t] = "done"
        /\ \A s \in Tasks : s # t => stage'[s] = stage[s] /\ stage[s] \in {"done", "idle"}
    BY StageMoves DEF Stages
  <2>2. password' \in Seq(Nat) /\ Len(password') = Len(password) + 1 /\ Len(password) \in Nat
    BY ClientMade DEF TokenTypes
  <2>9. client' \in 0 .. Len(password') /\ live' \subseteq 1 .. Len(password')
    BY <2>2
  <2>3. TokenTypes'
    BY <2>1, <2>2, <2>9 DEF TokenTypes, States, Phases
  <2>4. RoomForClients'
    BY <2>1, <2>2 DEF RoomForClients, Tasks
  <2>5. OneClient'
    BY <2>1, <2>2 DEF OneClient, Renewing, UnderWay
  <2>6. Truth'
    BY <2>2 DEF Truth, TokenTypes
  <2>7. QED
    BY <2>1, <2>3, <2>4, <2>5, <2>6
<1>2. CASE ~(token' > 0 /\ life' = "fresh")
  <2> USE <1>2
  <2>1. /\ stage' \in [Tasks -> Stages] /\ TasksInOrder' /\ stage'[t] = "signing"
        /\ \A s \in Tasks : s # t => stage'[s] = stage[s] /\ stage[s] \in {"done", "idle"}
    BY StageMoves DEF Stages
  <2>3. TokenTypes'
    BY <2>1 DEF TokenTypes, States, Phases
  <2>4. RoomForClients'
    BY <2>1 DEF RoomForClients, Tasks
  <2>5. OneClient'
    BY <2>1 DEF OneClient, Renewing, UnderWay
  <2>6. Truth'
    BY DEF Truth, TokenTypes
  <2>7. QED
    BY <2>1, <2>3, <2>4, <2>5, <2>6
<1>3. QED
  BY <1>1, <1>2

LEMMA RadioReadyStep ==
  ASSUME BrokerInv, RadioReady
  PROVE  BrokerInv'
<1> USE BrokerAssumption DEF BrokerInv, RadioReady, tokenVars
<1>1. 1 \in Tasks /\ \A t \in Tasks : stage[t] = "idle" /\ ~(t < 1)
  BY DEF Tasks, OneClient
<1>2. client = 0 /\ live = {} /\ lastEnd = 0
  BY <1>1 DEF OneClient, TokenTypes, Renewing
<1>3. Len(password) < 1
  BY <1>1 DEF RoomForClients
<1>4. QED
  BY <1>1, <1>2, <1>3, ConnectsStep DEF TokenTypes

\* Steps that leave the clients, the tasks and the phase alone.
LEMMA LinkStep ==
  ASSUME BrokerInv, state' \in States, online' \subseteq live, Truth',
         UNCHANGED <<stopping, client, password, live, token, stage, ends, phase, lastEnd>>
  PROVE  BrokerInv'
<1> USE DEF BrokerInv
<1>1. TokenTypes'
  BY DEF TokenTypes
<1>2. TasksInOrder' /\ RoomForClients' /\ OneClient'
  BY DEF TasksInOrder, RoomForClients, OneClient, Renewing, UnderWay
<1>3. QED
  BY <1>1, <1>2

LEMMA ClientStep ==
  ASSUME BrokerInv, NEW c \in DOMAIN password, GoesOnline(c) \/ GoesOffline(c) \/ Retries(c)
  PROVE  BrokerInv'
<1> USE DEF tokenVars, taskVars
<1>1. c \in live \ Ending
  BY DEF GoesOnline, GoesOffline, Retries, BrokerInv, TokenTypes
<1>2. c = client /\ client # 0
  BY <1>1, LiveIsOwn DEF BrokerInv, TokenTypes
<1>3. ~stopping
  BY <1>2 DEF BrokerInv, OneClient, Renewing
<1>4. state' \in States
  BY DEF GoesOnline, GoesOffline, Retries, OfflineState, States
<1>5. online' \subseteq live
  BY DEF GoesOnline, GoesOffline, Retries, BrokerInv, TokenTypes
<1>6. Truth'
  BY <1>2, <1>3 DEF GoesOnline, GoesOffline, Retries, OfflineState, Truth
<1>7. QED
  BY <1>4, <1>5, <1>6, LinkStep DEF GoesOnline, GoesOffline, Retries

LEMMA RefreshFiresStep ==
  ASSUME BrokerInv, NEW t \in Tasks, RefreshFires(t), ~crossed'
  PROVE  BrokerInv'
<1> USE BrokerAssumption DEF BrokerInv, RefreshFires, brokerVars, tokenVars
<1>1. \A s \in Tasks : ~UnderWay(s)
  BY DEF RefreshFires
<1>2. \A s \in Tasks : s < t => stage[s] = "done"
  BY <1>1 DEF UnderWay, TokenTypes, Stages
<1>3. \A s \in Tasks : s > t => stage[s] = "idle"
  BY DEF TasksInOrder
<1>4. /\ stage' \in [Tasks -> Stages] /\ TasksInOrder' /\ stage'[t] = "renewing"
      /\ \A s \in Tasks : s # t => stage'[s] = stage[s] /\ stage[s] \in {"done", "idle"}
  BY <1>2, <1>3, StageMoves DEF Stages
<1>5. TokenTypes' /\ Truth'
  BY <1>4 DEF TokenTypes, Truth
<1>6. RoomForClients'
  BY <1>4 DEF RoomForClients
<1>7. OneClient'
  BY <1>1, <1>4 DEF OneClient, Renewing, UnderWay
<1>8. QED
  BY <1>4, <1>5, <1>6, <1>7

\* A task that ends without a client: the stage is all that moves.
LEMMA TaskEnds ==
  ASSUME BrokerInv, NEW t \in Tasks, UnderWay(t), stage[t] # "ending", Leads(t, "done"),
         state' \in States, token' \in Nat, Truth',
         UNCHANGED <<stopping, client, password, live, online, ends, phase, lastEnd>>
  PROVE  BrokerInv'
<1> USE BrokerAssumption DEF BrokerInv
<1>1. /\ phase \in {"running", "stopping"}
      /\ \A s \in Tasks : s < t => stage[s] = "done"
      /\ \A s \in Tasks : s > t => stage[s] = "idle"
  BY OneUnderWay
<1>2. /\ stage' \in [Tasks -> Stages] /\ TasksInOrder' /\ stage'[t] = "done"
      /\ \A s \in Tasks : s # t => stage'[s] = stage[s] /\ stage[s] \in {"done", "idle"}
  BY <1>1, StageMoves DEF Stages
<1>3. TokenTypes'
  BY <1>2 DEF TokenTypes
<1>4. RoomForClients'
  BY <1>2 DEF RoomForClients
<1>5. OneClient'
  BY <1>1, <1>2 DEF OneClient, Renewing, UnderWay
<1>6. QED
  BY <1>2, <1>3, <1>4, <1>5

LEMMA ResolvedStep ==
  ASSUME BrokerInv, NEW t \in Tasks, Resolved(t)
  PROVE  BrokerInv'
<1> USE BrokerAssumption DEF BrokerInv, Resolved, Signs
<1>1. UnderWay(t) /\ token' \in Nat
  BY DEF UnderWay, TokenTypes
<1>2. /\ phase \in {"running", "stopping"} /\ lastEnd = 0 /\ Len(password) < t
      /\ \A s \in Tasks : s < t => stage[s] = "done"
      /\ \A s \in Tasks : s > t => stage[s] = "idle"
  BY <1>1, OneUnderWay
<1>3. client = 0 /\ ~stopping
  BY DEF OneClient
<1>4. /\ stage' \in [Tasks -> Stages] /\ TasksInOrder' /\ stage'[t] = "done"
      /\ \A s \in Tasks : s # t => stage'[s] = stage[s] /\ stage[s] \in {"done", "idle"}
  BY <1>2, StageMoves DEF Stages
<1>5. live = {} /\ online = {}
  BY <1>2, <1>3, <1>4 DEF OneClient, Renewing, TokenTypes
<1>6. Creates(token')
  BY <1>3
<1>7. password' \in Seq(Nat) /\ Len(password') = Len(password) + 1 /\ Len(password) \in Nat
  BY <1>1, <1>6, ClientMade DEF TokenTypes, Creates
<1>8. client' \in 0 .. Len(password') /\ live' \subseteq 1 .. Len(password')
  BY <1>5, <1>6, <1>7 DEF Creates
<1>9. TokenTypes'
  BY <1>1, <1>4, <1>5, <1>7, <1>8 DEF TokenTypes
<1>10. RoomForClients'
  BY <1>2, <1>4, <1>7 DEF RoomForClients, Tasks
<1>11. OneClient'
  BY <1>2, <1>3, <1>4, <1>5, <1>6 DEF OneClient, Renewing, UnderWay, Creates
<1>12. Truth'
  BY <1>3, <1>5 DEF Truth, TokenTypes
<1>13. QED
  BY <1>4, <1>9, <1>10, <1>11, <1>12

LEMMA ResolveFailsStep ==
  ASSUME BrokerInv, NEW t \in Tasks, ResolveFails(t)
  PROVE  BrokerInv'
<1> USE DEF BrokerInv, ResolveFails, Refuses
<1>1. UnderWay(t) /\ stage[t] # "ending"
  BY DEF UnderWay
<1>2. client = 0 /\ 0 \notin online
  BY DEF OneClient, TokenTypes
<1>3. Truth'
  BY <1>2 DEF Truth
<1>4. QED
  BY <1>1, <1>3, TaskEnds DEF States, TokenTypes

LEMMA RefreshFailsStep ==
  ASSUME BrokerInv, NEW t \in Tasks, RefreshFails(t)
  PROVE  BrokerInv'
<1> USE DEF BrokerInv, RefreshFails, Refuses, brokerVars
<1>1. UnderWay(t) /\ stage[t] # "ending"
  BY DEF UnderWay
<1>2. Truth'
  BY DEF Truth
<1>3. QED
  BY <1>1, <1>2, TaskEnds DEF TokenTypes

LEMMA RefreshSignedStep ==
  ASSUME BrokerInv, NEW t \in Tasks, RefreshSigned(t)
  PROVE  BrokerInv'
<1> USE BrokerAssumption DEF BrokerInv, RefreshSigned, Signs, Renewed
<1>1. UnderWay(t) /\ token' \in Nat
  BY DEF UnderWay, TokenTypes
<1>2. /\ phase \in {"running", "stopping"} /\ lastEnd = 0 /\ Len(password) < t
      /\ \A s \in Tasks : s < t => stage[s] = "done"
      /\ \A s \in Tasks : s > t => stage[s] = "idle"
  BY <1>1, OneUnderWay
<1>3. live \subseteq {client}
  BY <1>2 DEF OneClient, Renewing, Tasks
<1>4. CASE client = 0
  BY <1>1, <1>2, <1>3, <1>4, ConnectsStep DEF TokenTypes
<1>5. CASE client # 0
  <2>1. /\ stage' \in [Tasks -> Stages] /\ TasksInOrder' /\ stage'[t] = "ending"
        /\ \A s \in Tasks : s # t => stage'[s] = stage[s] /\ stage[s] \in {"done", "idle"}
    BY <1>2, <1>5, StageMoves DEF Stages
  <2>2. ends' \in [Tasks -> Nat] /\ ends'[t] = client
    BY <1>5 DEF TokenTypes
  <2>3. TokenTypes'
    <3>1. UNCHANGED <<state, password, live, online, phase, lastEnd>>
      BY <1>5
    <3>2. stopping' = TRUE /\ client' = 0
      BY <1>5
    <3>3. QED
      BY <1>1, <2>1, <2>2, <3>1, <3>2, SMTT(30) DEF TokenTypes
  <2>4. RoomForClients'
    BY <1>2, <1>5, <2>1 DEF RoomForClients
  <2>5. OneClient'
    BY <1>2, <1>3, <1>5, <2>1, <2>2 DEF OneClient, Renewing, UnderWay
  <2>6. Truth'
    BY <1>5 DEF Truth
  <2>7. QED
    BY <2>1, <2>3, <2>4, <2>5, <2>6
<1>6. QED
  BY <1>4, <1>5

LEMMA RefreshEndedStep ==
  ASSUME BrokerInv, NEW t \in Tasks, RefreshEnded(t)
  PROVE  BrokerInv'
<1> USE BrokerAssumption DEF BrokerInv, RefreshEnded, Gone, tokenVars
<1>1. UnderWay(t)
  BY DEF UnderWay
<1>2. /\ phase \in {"running", "stopping"} /\ lastEnd = 0 /\ Len(password) < t
      /\ \A s \in Tasks : s < t => stage[s] = "done"
      /\ \A s \in Tasks : s > t => stage[s] = "idle"
  BY <1>1, OneUnderWay
<1>3. client = 0 /\ live \ {ends[t]} = {} /\ online \ {ends[t]} = {}
  BY DEF OneClient, TokenTypes
<1>4. CASE life = "fresh"
  <2>1. /\ stage' \in [Tasks -> Stages] /\ TasksInOrder' /\ stage'[t] = "done"
        /\ \A s \in Tasks : s # t => stage'[s] = stage[s] /\ stage[s] \in {"done", "idle"}
    BY <1>2, <1>4, StageMoves DEF Stages
  <2>2. password' \in Seq(Nat) /\ Len(password') = Len(password) + 1 /\ Len(password) \in Nat
    BY <1>4, ClientMade DEF TokenTypes
  <2>3. client' = Len(password') /\ live' = {client'} /\ online' = {}
    BY <1>3, <1>4
  <2>4. client' \in 0 .. Len(password') /\ live' \subseteq 1 .. Len(password')
    BY <2>2, <2>3
  <2>5. TokenTypes'
    BY <2>1, <2>2, <2>3, <2>4 DEF TokenTypes, States
  <2>6. RoomForClients'
    BY <1>2, <2>1, <2>2 DEF RoomForClients, Tasks
  <2>7. OneClient'
    BY <1>2, <2>1, <2>3 DEF OneClient, Renewing, UnderWay
  <2>8. Truth'
    BY <2>3 DEF Truth
  <2>9. QED
    BY <2>1, <2>5, <2>6, <2>7, <2>8
<1>5. CASE life # "fresh"
  <2>1. /\ stage' \in [Tasks -> Stages] /\ TasksInOrder' /\ stage'[t] = "signing"
        /\ \A s \in Tasks : s # t => stage'[s] = stage[s] /\ stage[s] \in {"done", "idle"}
    BY <1>2, <1>5, StageMoves DEF Stages
  <2>2. UNCHANGED <<client, password>> /\ live' = {} /\ online' = {}
    BY <1>3, <1>5
  <2>3. TokenTypes'
    BY <2>1, <2>2 DEF TokenTypes, States
  <2>4. RoomForClients'
    BY <2>1, <2>2 DEF RoomForClients
  <2>5. OneClient'
    BY <1>2, <1>3, <2>1, <2>2 DEF OneClient, Renewing, UnderWay
  <2>6. Truth'
    BY <2>2 DEF Truth
  <2>7. QED
    BY <2>1, <2>3, <2>4, <2>5, <2>6
<1>6. QED
  BY <1>4, <1>5

LEMMA StopLoopsStep ==
  ASSUME BrokerInv, StopLoops
  PROVE  BrokerInv'
<1> USE DEF BrokerInv, StopLoops, brokerVars, tokenVars
<1>1. TokenTypes' /\ Truth'
  BY DEF TokenTypes, Phases, Truth
<1>2. TasksInOrder' /\ RoomForClients' /\ OneClient'
  BY DEF TasksInOrder, RoomForClients, OneClient, Renewing, UnderWay
<1>3. QED
  BY <1>1, <1>2

LEMMA CloseAllStep ==
  ASSUME BrokerInv, CloseAll, ~crossed'
  PROVE  BrokerInv' /\ \A t \in Tasks : ~UnderWay(t)
<1> USE DEF BrokerInv, CloseAll, tokenVars
<1>1. \A t \in Tasks : ~UnderWay(t)
  OBVIOUS
<1>2. ~Renewing
  BY <1>1 DEF Renewing, UnderWay
<1>3. TokenTypes' /\ Truth'
  BY DEF TokenTypes, Phases, States, Truth
<1>4. TasksInOrder' /\ RoomForClients'
  BY DEF TasksInOrder, RoomForClients
<1>5. OneClient'
  BY <1>1, <1>2 DEF OneClient, Renewing, UnderWay, TokenTypes
<1>6. QED
  BY <1>1, <1>3, <1>4, <1>5

LEMMA AllClosedStep ==
  ASSUME BrokerInv, AllClosed
  PROVE  BrokerInv' /\ live' = {}
<1> USE DEF BrokerInv, AllClosed, Gone, tokenVars
<1>1. live' = {} /\ online' = {} /\ client = 0 /\ stopping
  BY DEF OneClient, TokenTypes
<1>2. state' \in States /\ phase' \in Phases
  BY DEF States, Phases
<1>3. TokenTypes' /\ Truth'
  BY <1>1, <1>2 DEF TokenTypes, Truth
<1>4. TasksInOrder' /\ RoomForClients'
  BY DEF TasksInOrder, RoomForClients
<1>5. OneClient'
  BY <1>1 DEF OneClient, Renewing, UnderWay
<1>6. QED
  BY <1>1, <1>3, <1>4, <1>5

LEMMA BrokerStep ==
  ASSUME BrokerInv, Next, ~crossed'
  PROVE  BrokerInv'
<1>1. CASE RadioReady
  BY <1>1, RadioReadyStep
<1>2. CASE Ages
  BY <1>2, LinkStep DEF Ages, brokerVars, taskVars, BrokerInv, TokenTypes, Truth
<1>3. CASE StopLoops
  BY <1>3, StopLoopsStep
<1>4. CASE CloseAll
  BY <1>4, CloseAllStep
<1>5. CASE AllClosed
  BY <1>5, AllClosedStep
<1>6. ASSUME NEW t \in Tasks, RefreshFires(t) \/ SignatureSettles(t) \/ RefreshEnded(t)
      PROVE  BrokerInv'
  BY <1>6, RefreshFiresStep, ResolvedStep, ResolveFailsStep, RefreshSignedStep,
     RefreshFailsStep, RefreshEndedStep DEF SignatureSettles
<1>7. ASSUME NEW c \in DOMAIN password, GoesOnline(c) \/ GoesOffline(c) \/ Retries(c)
      PROVE  BrokerInv'
  BY <1>7, ClientStep
<1>8. QED
  BY <1>1, <1>2, <1>3, <1>4, <1>5, <1>6, <1>7 DEF Next

\* No step takes a crossing back.
LEMMA CrossingStays ==
  ASSUME Next, crossed \in BOOLEAN
  PROVE  crossed' \in BOOLEAN /\ (crossed => crossed')
<1>1. CASE RadioReady \/ Ages \/ StopLoops \/ CloseAll \/ AllClosed
  BY <1>1 DEF RadioReady, Ages, StopLoops, CloseAll, AllClosed, taskVars
<1>2. ASSUME NEW t \in Tasks, RefreshFires(t) \/ RefreshEnded(t)
      PROVE  crossed' \in BOOLEAN /\ (crossed => crossed')
  BY <1>2 DEF RefreshFires, RefreshEnded
<1>3. ASSUME NEW t \in Tasks, SignatureSettles(t)
      PROVE  crossed' = crossed
  BY <1>3 DEF SignatureSettles, Resolved, ResolveFails, RefreshSigned, RefreshFails
<1>4. ASSUME NEW c \in DOMAIN password, GoesOnline(c) \/ GoesOffline(c) \/ Retries(c)
      PROVE  crossed' = crossed
  BY <1>4 DEF GoesOnline, GoesOffline, Retries, taskVars
<1>5. QED
  BY <1>1, <1>2, <1>3, <1>4 DEF Next

-----------------------------------------------------------------------------
(* The broker by itself.                                                   *)

BrokerSafe == crossed \in BOOLEAN /\ (~crossed => BrokerInv)

\* The broker's invariant holds as long as nothing has crossed.
LEMMA BrokerIsSafe == Spec => []BrokerSafe
<1>1. Init => BrokerSafe
  BY InitBroker DEF Init, BrokerSafe
<1>2. BrokerSafe /\ [Next]_vars => BrokerSafe'
  <2> SUFFICES ASSUME BrokerSafe, [Next]_vars PROVE BrokerSafe'
    OBVIOUS
  <2>1. CASE Next
    BY <2>1, BrokerStep, CrossingStays DEF BrokerSafe
  <2>2. CASE UNCHANGED vars
    BY <2>2 DEF vars, brokerVars, tokenVars, taskVars, BrokerSafe, BrokerInv, TokenTypes,
        TasksInOrder, RoomForClients, OneClient, Truth, Renewing, UnderWay
  <2>3. QED
    BY <2>1, <2>2
<1>3. QED
  BY <1>1, <1>2, PTL DEF Spec

LEMMA BrokerProperties ==
  ASSUME BrokerInv
  PROVE  NoStrayClient /\ StateIsTrue
<1>1. phase = "closed" => live = {}
  BY DEF BrokerInv, OneClient, TokenTypes, Renewing, UnderWay
<1>2. QED
  BY <1>1, LiveIsOwn DEF NoStrayClient, StateIsTrue, BrokerInv, Truth

\* The broker by itself has one client at a time and knows whether it is
\* online, as long as nothing crosses: for any number of overlapping
\* signatures, reconnects and failures.
THEOREM BrokerKeepsOneClient == Spec => [](NoStrayClient /\ StateIsTrue)
<1>1. BrokerSafe => NoStrayClient /\ StateIsTrue
  BY BrokerProperties DEF BrokerSafe, NoStrayClient, StateIsTrue
<1>2. QED
  BY <1>1, BrokerIsSafe, PTL

-----------------------------------------------------------------------------
(* The status topic.                                                       *)

LEMMA LastOfAppend ==
  ASSUME NEW q \in Seq(Statuses), NEW s \in Statuses
  PROVE  /\ Append(q, s) \in Seq(Statuses) /\ Append(q, s) # <<>>
         /\ Append(q, s)[Len(Append(q, s))] = s
  BY AppendProperties, LenProperties, EmptySeq

LEMMA LastOfTail ==
  ASSUME NEW q \in Seq(Statuses), q # <<>>
  PROVE  /\ Head(q) \in Statuses /\ Tail(q) \in Seq(Statuses)
         /\ Tail(q) = <<>> => Head(q) = q[Len(q)]
         /\ Tail(q) # <<>> => Tail(q)[Len(Tail(q))] = q[Len(q)]
<1> DEFINE rest == Tail(q)
<1>1. /\ Head(q) \in Statuses /\ Head(q) = q[1] /\ Len(q) \in Nat
      /\ rest \in Seq(Statuses) /\ Len(rest) = Len(q) - 1
      /\ \A i \in 1 .. Len(rest) : rest[i] = q[i + 1]
  BY HeadTailProperties, LenProperties
<1>2. rest = <<>> <=> Len(rest) = 0
  BY <1>1, EmptySeq
<1> HIDE DEF rest
<1>3. rest = <<>> => Head(q) = q[Len(q)]
  BY <1>1, <1>2
<1>4. ASSUME rest # <<>> PROVE rest[Len(rest)] = q[Len(q)]
  <2>1. Len(rest) \in 1 .. Len(rest) /\ Len(rest) + 1 = Len(q)
    BY <1>1, <1>2, <1>4, LenProperties
  <2>2. QED
    BY <1>1, <2>1
<1>5. QED
  BY <1>1, <1>3, <1>4 DEF rest

LEMMA InitSession == StatusInit => SessionInv
  BY EmptySeq DEF StatusInit, Init, SessionInv, StatusTypes, GoodbyeInOrder, LostAreKnown,
    SaysOnline, SaysOffline, WillIsThere, Statuses

\* What a step of the broker alone does to the connection.
Quiet ==
  /\ online' = online /\ live \subseteq live' /\ Len(password) <= Len(password')
  /\ client' \in online => client' = client
  /\ \/ phase' = phase
     \/ phase = "waiting" /\ phase' = "running"
     \/ phase = "running" /\ phase' = "stopping"
  /\ Renewing => Renewing'

\* A new client is beyond all the others.
LEMMA CreatesQuietly ==
  ASSUME BrokerInv, NEW tok \in Nat, Creates(tok) \/ UNCHANGED <<client, password, live>>
  PROVE  /\ live \subseteq live' /\ Len(password) <= Len(password')
         /\ client' \in online => client' = client
<1>1. online \subseteq 1 .. Len(password) /\ Len(password) \in Nat /\ password \in Seq(Nat)
  BY LenProperties DEF BrokerInv, TokenTypes
<1>2. CASE Creates(tok)
  BY <1>1, <1>2, ClientMade DEF Creates
<1>3. CASE UNCHANGED <<client, password, live>>
  BY <1>1, <1>3
<1>4. QED
  BY <1>2, <1>3

LEMMA TaskIsQuiet ==
  ASSUME BrokerInv, NEW t \in Tasks, SignatureSettles(t)
  PROVE  Quiet
<1>1. UnderWay(t) /\ stage[t] # "ending"
  BY DEF SignatureSettles, Resolved, ResolveFails, RefreshSigned, RefreshFails, UnderWay
<1>2. ~Renewing
  BY <1>1, OneUnderWay, BrokerAssumption DEF Renewing, UnderWay, Tasks
<1>3. token \in Nat
  BY DEF BrokerInv, TokenTypes
<1>4. CASE Resolved(t)
  BY <1>2, <1>3, <1>4, CreatesQuietly DEF Resolved, Signs, Quiet
<1>5. CASE ResolveFails(t) \/ RefreshFails(t)
  BY <1>2, <1>3, <1>5, CreatesQuietly DEF ResolveFails, RefreshFails, brokerVars, Quiet
<1>6. CASE RefreshSigned(t)
  <2>1. /\ live \subseteq live' /\ Len(password) <= Len(password')
        /\ client' \in online => client' = client
    <3>1. CASE client # 0
      <4>1. UNCHANGED <<password, live>> /\ client' = 0
        BY <1>6, <3>1 DEF RefreshSigned, Renewed
      <4>2. 0 \notin online /\ Len(password) \in Nat
        BY LenProperties DEF BrokerInv, TokenTypes
      <4>3. QED
        BY <4>1, <4>2
    <3>2. CASE client = 0
      <4>1. token' \in Nat
        BY <1>3, <1>6 DEF RefreshSigned, Signs
      <4>2. Creates(token') \/ UNCHANGED <<client, password, live>>
        BY <1>6, <3>2 DEF RefreshSigned, Renewed, Connects
      <4>3. QED
        BY <4>1, <4>2, CreatesQuietly
    <3>3. QED
      BY <3>1, <3>2
  <2>2. online' = online /\ phase' = phase
    BY <1>6 DEF RefreshSigned, Renewed
  <2>3. QED
    BY <1>2, <2>1, <2>2 DEF Quiet
<1>7. QED
  BY <1>4, <1>5, <1>6 DEF SignatureSettles

LEMMA TokenStepIsQuiet ==
  ASSUME BrokerInv, TokenStep, ~crossed'
  PROVE  Quiet
<1> USE DEF tokenVars, brokerVars, taskVars
<1>1. CASE RadioReady
  <2>1. ~Renewing /\ token' \in Nat
    BY <1>1 DEF RadioReady, BrokerInv, OneClient, Renewing, TokenTypes
  <2>2. QED
    BY <1>1, <2>1, CreatesQuietly DEF RadioReady, Connects, Quiet
<1>2. CASE StopLoops \/ Ages
  BY <1>2, LenProperties DEF StopLoops, Ages, Renewing, Quiet, BrokerInv, TokenTypes
<1>3. ASSUME NEW t \in Tasks, RefreshFires(t)
      PROVE  Quiet
  <2>1. ~Renewing
    BY <1>3 DEF RefreshFires, Renewing, UnderWay
  <2>2. QED
    BY <1>3, <2>1, LenProperties DEF RefreshFires, Quiet, BrokerInv, TokenTypes
<1>4. ASSUME NEW t \in Tasks, SignatureSettles(t)
      PROVE  Quiet
  BY <1>4, TaskIsQuiet
<1>5. ASSUME NEW c \in DOMAIN password, Retries(c)
      PROVE  Quiet
  BY <1>5, LenProperties DEF Retries, Renewing, Quiet, BrokerInv, TokenTypes
<1>6. QED
  BY <1>1, <1>2, <1>3, <1>4, <1>5 DEF TokenStep

LEMMA QuietStep ==
  ASSUME BrokerInv, SessionInv, Quiet, UNCHANGED statusVars
  PROVE  SessionInv'
<1> USE DEF SessionInv, Quiet, statusVars
<1>1. StatusTypes' /\ GoodbyeInOrder'
  BY LenProperties DEF StatusTypes, GoodbyeInOrder, BrokerInv, TokenTypes
<1>2. LostAreKnown'
  BY DEF LostAreKnown
<1>3. SaysOnline'
  <2>1. phase = "waiting" => online = {}
    BY DEF BrokerInv, OneClient, TokenTypes, Renewing
  <2>2. QED
    BY <2>1 DEF SaysOnline, LastWord
<1>4. SaysOffline' /\ WillIsThere'
  BY DEF SaysOffline, WillIsThere, LastWord
<1>5. QED
  BY <1>1, <1>2, <1>3, <1>4

LEMMA ClientsHaveOutboxes ==
  ASSUME BrokerInv
  PROVE  /\ DOMAIN password \subseteq Tasks /\ live \subseteq Tasks
         /\ client # 0 => client \in Tasks
         /\ Len(password) \in Nat /\ DOMAIN password = 1 .. Len(password)
<1>1. Len(password) \in Nat /\ DOMAIN password = 1 .. Len(password)
  BY LenProperties DEF BrokerInv, TokenTypes
<1>2. QED
  BY <1>1, BrokerAssumption DEF BrokerInv, TokenTypes, RoomForClients, Tasks

LEMMA AcceptedStep ==
  ASSUME BrokerInv, SessionInv, NEW c \in DOMAIN password, Accepted(c)
  PROVE  BrokerInv' /\ SessionInv'
<1> USE DEF SessionInv, Accepted, GoesOnline, tokenVars, taskVars
<1>1. BrokerInv'
  BY ClientStep
<1>2. c \in live \ Ending
  BY DEF BrokerInv, TokenTypes
<1>3. c = client /\ client # 0 /\ c \in Tasks
  BY <1>2, LiveIsOwn, ClientsHaveOutboxes DEF BrokerInv, TokenTypes
<1>4. outbox' = [outbox EXCEPT ![c] = Append(@, "online")]
  BY <1>3 DEF Announces, Publishes
<1>5. outbox' \in [Tasks -> Seq(Statuses)] /\ outbox'[c] # <<>> /\ outbox'[c][Len(outbox'[c])] = "online"
  BY <1>3, <1>4, LastOfAppend DEF StatusTypes, Statuses
<1>6. StatusTypes' /\ GoodbyeInOrder'
  BY <1>5 DEF StatusTypes, GoodbyeInOrder, Statuses
<1>7. LostAreKnown'
  BY DEF LostAreKnown
<1>8. SaysOnline'
  BY <1>3, <1>5 DEF SaysOnline, LastWord
<1>9. SaysOffline' /\ WillIsThere'
  BY DEF SaysOffline, WillIsThere
<1>10. QED
  BY <1>1, <1>6, <1>7, <1>8, <1>9

\* A link is lost, and nothing else of the broker's changes.
LEMMA LosesLinkStep ==
  ASSUME BrokerInv, SessionInv, NEW c \in online, LosesLink(c),
         online' = online \ {c},
         UNCHANGED <<client, password, live, stage, phase>>
  PROVE  SessionInv'
<1> USE DEF SessionInv, LosesLink
<1>1. c \in Tasks /\ c \in live /\ c \in 1 .. Len(password)
  BY ClientsHaveOutboxes DEF BrokerInv, TokenTypes
<1>2. outbox' \in [Tasks -> Seq(Statuses)] /\ \A d \in Tasks : d # c => outbox'[d] = outbox[d]
  BY <1>1, EmptySeq DEF StatusTypes
<1>3. StatusTypes' /\ GoodbyeInOrder' /\ LostAreKnown'
  BY <1>1, <1>2 DEF StatusTypes, GoodbyeInOrder, LostAreKnown
<1>4. online \subseteq Tasks
  BY ClientsHaveOutboxes DEF BrokerInv, TokenTypes
<1>5. SaysOnline'
  BY <1>2, <1>4 DEF SaysOnline, LastWord
<1>6. SaysOffline' /\ WillIsThere'
  BY <1>2, <1>4 DEF SaysOffline, WillIsThere, LastWord, Renewing
<1>7. QED
  BY <1>3, <1>5, <1>6

LEMMA DroppedStep ==
  ASSUME BrokerInv, SessionInv, NEW c \in DOMAIN password, Dropped(c)
  PROVE  BrokerInv' /\ SessionInv'
<1>1. BrokerInv'
  BY ClientStep DEF Dropped
<1>2. QED
  BY <1>1, LosesLinkStep DEF Dropped, GoesOffline, taskVars

LEMMA DroppedAtEndStep ==
  ASSUME BrokerInv, SessionInv, NEW c \in DOMAIN password, DroppedAtEnd(c)
  PROVE  BrokerInv' /\ SessionInv'
<1> USE DEF DroppedAtEnd, tokenVars, taskVars
<1>1. ~stopping => c # client
  BY DEF BrokerInv, OneClient, TokenTypes, Ending, Phases
<1>2. Truth'
  BY <1>1 DEF Truth, BrokerInv
<1>3. BrokerInv'
  BY <1>2, LinkStep DEF BrokerInv, TokenTypes
<1>4. QED
  BY <1>3, LosesLinkStep

LEMMA DeliveredStep ==
  ASSUME BrokerInv, SessionInv, NEW c \in DOMAIN password, Delivered(c)
  PROVE  BrokerInv' /\ SessionInv'
<1> USE DEF SessionInv, Delivered, vars, brokerVars, tokenVars, taskVars
<1>1. BrokerInv'
  BY LinkStep DEF BrokerInv, TokenTypes, Truth
<1>2. c \in Tasks /\ outbox[c] \in Seq(Statuses)
  BY ClientsHaveOutboxes DEF StatusTypes
<1>3. /\ Head(outbox[c]) \in Statuses /\ Tail(outbox[c]) \in Seq(Statuses)
      /\ outbox'[c] = Tail(outbox[c]) /\ outbox' \in [Tasks -> Seq(Statuses)]
      /\ \A d \in Tasks : d # c => outbox'[d] = outbox[d]
  BY <1>2, LastOfTail DEF StatusTypes
<1>4. LastWord(c)' = LastWord(c)
  BY <1>2, <1>3, LastOfTail DEF LastWord
<1>5. \A d \in online : d = c
  BY DEF BrokerInv, TokenTypes, OneClient, Renewing
<1>6. StatusTypes' /\ GoodbyeInOrder' /\ LostAreKnown' /\ WillIsThere'
  BY <1>3 DEF StatusTypes, GoodbyeInOrder, LostAreKnown, WillIsThere
<1>7. SaysOnline' /\ SaysOffline'
  BY <1>4, <1>5 DEF SaysOnline, SaysOffline, Renewing
<1>8. QED
  BY <1>1, <1>6, <1>7

LEMMA WillFiresStep ==
  ASSUME BrokerInv, SessionInv, NEW c \in DOMAIN password, WillFires(c)
  PROVE  BrokerInv' /\ SessionInv'
<1> USE DEF SessionInv, WillFires, WillStatus, vars, brokerVars, tokenVars, taskVars
<1>1. BrokerInv'
  BY LinkStep DEF BrokerInv, TokenTypes, Truth
<1>2. StatusTypes' /\ GoodbyeInOrder' /\ LostAreKnown' /\ WillIsThere'
  BY DEF StatusTypes, GoodbyeInOrder, LostAreKnown, WillIsThere, Statuses
<1>3. SaysOnline'
  \* A session that is lost is that of the client itself, which is not online.
  <2>1. phase = "running" /\ client \in online /\ "lingered" \notin mishaps => c = client
    BY DEF LostAreKnown, BrokerInv, OneClient, TokenTypes, Renewing
  <2>2. QED
    BY <2>1 DEF SaysOnline, LostAreKnown
<1>4. SaysOffline'
  BY DEF SaysOffline, LastWord, Renewing
<1>5. QED
  BY <1>1, <1>2, <1>3, <1>4

LEMMA ReplacedStep ==
  ASSUME BrokerInv, SessionInv, NEW t \in Tasks, Replaced(t)
  PROVE  BrokerInv' /\ SessionInv'
<1> USE DEF SessionInv, Replaced, Ended
<1>1. BrokerInv'
  BY RefreshEndedStep
<1>2. UnderWay(t) /\ phase' = phase /\ client = 0
  BY DEF RefreshEnded, UnderWay, BrokerInv, OneClient
<1>3. live \subseteq {ends[t]} /\ online' = {} /\ online \subseteq live
  BY DEF RefreshEnded, BrokerInv, OneClient, TokenTypes
<1>4. Len(password) <= Len(password')
  BY CreatesQuietly, ClientMade, LenProperties DEF RefreshEnded, BrokerInv, TokenTypes, tokenVars
<1>5. StatusTypes' /\ GoodbyeInOrder'
  <2>1. outbox' \in [Tasks -> Seq(Statuses)]
    BY EmptySeq DEF StatusTypes
  <2>2. 1 .. Len(password) \subseteq 1 .. Len(password')
    BY <1>1, <1>4, LenProperties DEF BrokerInv, TokenTypes
  <2>3. QED
    BY <1>2, <2>1, <2>2 DEF StatusTypes, GoodbyeInOrder
<1>6. LostAreKnown'
  BY <1>2, <1>3 DEF LostAreKnown
<1>7. SaysOnline' /\ SaysOffline'
  BY <1>3 DEF SaysOnline, SaysOffline
<1>8. WillIsThere'
  BY <1>3 DEF WillIsThere
<1>9. QED
  BY <1>1, <1>5, <1>6, <1>7, <1>8

\* The DISCONNECT that ends the last session takes no will with it: by then
\* the goodbye has been retained.
LEMMA ClosedStep ==
  ASSUME BrokerInv, SessionInv, Closed
  PROVE  BrokerInv' /\ SessionInv'
<1> USE DEF SessionInv, Closed, Ended, AllClosed
<1>1. BrokerInv' /\ live' = {}
  BY AllClosedStep
<1>2. online \subseteq {lastEnd} /\ ~Renewing
  BY DEF BrokerInv, OneClient, TokenTypes, Renewing, UnderWay
<1>3. goodbye = "over" /\ online' = {}
  BY <1>2 DEF GoodbyeInOrder
<1>4. StatusTypes' /\ GoodbyeInOrder' /\ LostAreKnown'
  BY <1>3, EmptySeq DEF StatusTypes, GoodbyeInOrder, LostAreKnown
<1>5. SaysOnline' /\ SaysOffline'
  BY <1>3 DEF SaysOnline, SaysOffline
<1>6. WillIsThere'
  <2>1. mishaps \subseteq {"lingered"} /\ lastEnd \in online => retained = "offline"
    BY <1>2, <1>3 DEF SaysOffline, LastWord
  <2>2. QED
    BY <1>2, <2>1 DEF WillIsThere
<1>7. QED
  BY <1>1, <1>4, <1>5, <1>6

\* closeAll() after the goodbye, or without one.
LEMMA ClosingStep ==
  ASSUME BrokerInv, SessionInv, CloseAll, ~crossed', goodbye' = "over",
         goodbye = "no" => state # "connected",
         UNCHANGED <<lost, outbox, retained, ended, mishaps>>
  PROVE  BrokerInv' /\ SessionInv'
<1> USE DEF SessionInv, CloseAll, tokenVars
<1>1. BrokerInv' /\ \A t \in Tasks : ~UnderWay(t)
  BY CloseAllStep
<1>2. ~Renewing /\ ~stopping
  BY <1>1 DEF Renewing, UnderWay, BrokerInv, OneClient
<1>3. online \subseteq {client}
  BY <1>2 DEF BrokerInv, OneClient, TokenTypes
<1>4. goodbye = "no" => online = {}
  BY <1>2, <1>3 DEF BrokerInv, Truth
<1>5. StatusTypes' /\ GoodbyeInOrder' /\ LostAreKnown' /\ WillIsThere' /\ SaysOnline'
  BY DEF StatusTypes, GoodbyeInOrder, LostAreKnown, WillIsThere, SaysOnline
<1>6. SaysOffline'
  BY <1>2, <1>4 DEF SaysOffline, LastWord
<1>7. QED
  BY <1>1, <1>5, <1>6

LEMMA SaysGoodbyeStep ==
  ASSUME BrokerInv, SessionInv, SaysGoodbye
  PROVE  BrokerInv' /\ SessionInv'
<1> USE DEF SessionInv, SaysGoodbye, Goodbye, Publishes, vars, brokerVars, tokenVars, taskVars
<1>1. BrokerInv'
  BY LinkStep DEF BrokerInv, TokenTypes, Truth
<1>2. outbox' \in [Tasks -> Seq(Statuses)]
  BY ClientsHaveOutboxes, LastOfAppend DEF StatusTypes, Statuses
<1>3. StatusTypes' /\ GoodbyeInOrder' /\ LostAreKnown' /\ WillIsThere' /\ SaysOnline'
  BY <1>2 DEF StatusTypes, GoodbyeInOrder, LostAreKnown, WillIsThere, SaysOnline
<1>4. SaysOffline'
  <2> SUFFICES ASSUME ~Renewing, NEW c \in online PROVE LastWord(c)' = "offline"
    BY DEF SaysOffline, Renewing
  <2>1. c = client /\ client # 0
    BY DEF BrokerInv, OneClient, TokenTypes
  <2>2. outbox[c] \in Seq(Statuses) /\ outbox'[c] = Append(outbox[c], "offline")
    BY <2>1, ClientsHaveOutboxes DEF StatusTypes
  <2>3. QED
    BY <2>2, LastOfAppend DEF LastWord, Statuses
<1>5. QED
  BY <1>1, <1>3, <1>4

\* The process is over: the links it had are lost, and their wills remain.
LEMMA EndsStep ==
  ASSUME BrokerInv, SessionInv, Ends
  PROVE  BrokerInv' /\ SessionInv'
<1> USE DEF Ends, tokenVars
<1>1. BrokerInv'
  <2> USE DEF BrokerInv
  <2>1. stage' \in [Tasks -> Stages] /\ \A t \in Tasks : stage'[t] = "done"
    BY DEF Stages
  <2>2. client' \in 0 .. Len(password') /\ Len(password) \in Nat
    BY ClientsHaveOutboxes
  <2>3. TokenTypes'
    BY <2>1, <2>2 DEF TokenTypes, States, Phases
  <2>4. TasksInOrder' /\ RoomForClients' /\ Truth'
    BY <2>1 DEF TasksInOrder, RoomForClients, Truth
  <2>5. OneClient'
    BY <2>1 DEF OneClient, Renewing, UnderWay
  <2>6. QED
    BY <2>3, <2>4, <2>5
<1>2. SessionInv'
  <2> USE DEF SessionInv
  <2>1. outbox' \in [Tasks -> Seq(Statuses)]
    BY EmptySeq
  <2>2. online \subseteq 1 .. Len(password)
    BY DEF BrokerInv, TokenTypes
  <2>3. StatusTypes' /\ GoodbyeInOrder' /\ LostAreKnown'
    BY <2>1, <2>2 DEF StatusTypes, GoodbyeInOrder, LostAreKnown
  <2>4. SaysOnline' /\ SaysOffline' /\ WillIsThere'
    BY DEF SaysOnline, SaysOffline, WillIsThere
  <2>5. QED
    BY <2>3, <2>4
<1>3. QED
  BY <1>1, <1>2

LEMMA StatusStep ==
  ASSUME BrokerInv, SessionInv, StatusNext, ~crossed'
  PROVE  BrokerInv' /\ SessionInv'
<1>1. CASE TokenStep /\ UNCHANGED statusVars
  BY <1>1, TokenStepIsQuiet, QuietStep, BrokerStep DEF TokenStep, Next
<1>2. ASSUME NEW t \in Tasks, Replaced(t)
      PROVE  BrokerInv' /\ SessionInv'
  BY <1>2, ReplacedStep
<1>3. ASSUME NEW c \in DOMAIN password,
             Accepted(c) \/ Dropped(c) \/ DroppedAtEnd(c) \/ Delivered(c) \/ WillFires(c)
      PROVE  BrokerInv' /\ SessionInv'
  BY <1>3, AcceptedStep, DroppedStep, DroppedAtEndStep, DeliveredStep, WillFiresStep
<1>4. CASE NothingToSay
  BY <1>4, ClosingStep DEF NothingToSay
<1>5. CASE SaysGoodbye
  BY <1>5, SaysGoodbyeStep
<1>6. CASE GoodbyeSettles
  BY <1>6, ClosingStep DEF GoodbyeSettles
<1>7. CASE Closed
  BY <1>7, ClosedStep
<1>8. CASE ForcedExit \/ FinishedExit \/ Crash
  BY <1>8, EndsStep DEF ForcedExit, FinishedExit, Crash
<1>9. QED
  BY <1>1, <1>2, <1>3, <1>4, <1>5, <1>6, <1>7, <1>8 DEF StatusNext

LEMMA CrossingStaysHere ==
  ASSUME StatusNext, crossed \in BOOLEAN
  PROVE  crossed' \in BOOLEAN /\ (crossed => crossed')
<1>1. CASE TokenStep \/ (\E t \in Tasks : Replaced(t)) \/ NothingToSay \/ GoodbyeSettles \/ Closed
  BY <1>1, CrossingStays DEF TokenStep, Replaced, NothingToSay, GoodbyeSettles, Closed, Next
<1>2. ASSUME NEW c \in DOMAIN password,
             Accepted(c) \/ Dropped(c) \/ DroppedAtEnd(c) \/ Delivered(c) \/ WillFires(c)
      PROVE  crossed' = crossed
  BY <1>2 DEF Accepted, Dropped, DroppedAtEnd, Delivered, WillFires, GoesOnline, GoesOffline,
    taskVars, vars
<1>3. CASE SaysGoodbye \/ ForcedExit \/ FinishedExit \/ Crash
  BY <1>3 DEF SaysGoodbye, ForcedExit, FinishedExit, Crash, Ends, vars, taskVars
<1>4. QED
  BY <1>1, <1>2, <1>3 DEF StatusNext

LEMMA StatusIsSafe == StatusSpec => []StatusInv
<1>1. StatusInit => StatusInv
  BY InitBroker, InitSession DEF StatusInit, Init, StatusInv
<1>2. StatusInv /\ [StatusNext]_allVars => StatusInv'
  <2> SUFFICES ASSUME StatusInv, [StatusNext]_allVars PROVE StatusInv'
    OBVIOUS
  <2>1. CASE StatusNext
    BY <2>1, StatusStep, CrossingStaysHere DEF StatusInv
  <2>2. CASE UNCHANGED allVars
    <3> USE <2>2 DEF allVars, vars, brokerVars, tokenVars, taskVars, statusVars, StatusInv
    <3>1. BrokerInv => BrokerInv'
      BY DEF BrokerInv, TokenTypes, TasksInOrder, RoomForClients, OneClient, Truth, Renewing, UnderWay
    <3>2. SessionInv => SessionInv'
      BY DEF SessionInv, StatusTypes, GoodbyeInOrder, LostAreKnown, SaysOnline, SaysOffline,
        WillIsThere, LastWord, Renewing
    <3>3. QED
      BY <3>1, <3>2
  <2>3. QED
    BY <2>1, <2>2
<1>3. QED
  BY <1>1, <1>2, PTL DEF StatusSpec

\* Until a renewal and the shutdown cross, no client is left over beside the
\* broker's own and the one being ended: also with crashes and lost links.
THEOREM NoClientIsLeftOver == StatusSpec => []NoStrayClient
<1>1. StatusInv => NoStrayClient
  BY BrokerProperties DEF StatusInv, NoStrayClient
<1>2. QED
  BY <1>1, StatusIsSafe, PTL

\* What publishing relies on is true: connected means that the client is
\* online, and the other way round, except during a close().
THEOREM ConnectedIsTrue == StatusSpec => []StateIsTrue
<1>1. StatusInv => StateIsTrue
  BY BrokerProperties DEF StatusInv, StateIsTrue
<1>2. QED
  BY <1>1, StatusIsSafe, PTL

\* While the observer serves, the retained status says online once the
\* announcement is through, whatever links were lost and wills published.
THEOREM ServingIsOnline == StatusSpec => []OnlineWhileServing
<1>1. StatusInv => OnlineWhileServing
  BY DEF StatusInv, SessionInv, SaysOnline, LastWord, OnlineWhileServing
<1>2. QED
  BY <1>1, StatusIsSafe, PTL

\* When the process is over and the broker has noticed, the status does not
\* say online: by the goodbye, or by the will of the session that was lost.
THEOREM OverIsOffline == StatusSpec => []GoneIsOffline
<1>1. StatusInv => GoneIsOffline
  <2> SUFFICES ASSUME StatusInv, ended, lost = {}, ~crossed, mishaps \subseteq {"lingered"}
               PROVE  retained # "online"
    BY DEF GoneIsOffline
  <2>1. phase = "closed" /\ BrokerInv
    BY DEF StatusInv, SessionInv, GoodbyeInOrder
  <2>2. online = {}
    BY <2>1 DEF BrokerInv, OneClient, TokenTypes, Renewing, UnderWay
  <2>3. QED
    BY <2>2 DEF StatusInv, SessionInv, WillIsThere
<1>2. QED
  BY <1>1, StatusIsSafe, PTL

=============================================================================
