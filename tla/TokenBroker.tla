------------------------------ MODULE TokenBroker ------------------------------
(***************************************************************************)
(* One MQTT broker with token credentials: its state and its MQTT.js       *)
(* client (mqtt-broker.js), the token signed by the radio                  *)
(* (letsmesh-auth.js), the loop that renews it and then reconnects         *)
(* (token-refresh-loop.js), and the shutdown (index.js).                   *)
(*                                                                         *)
(* connect() and the renewals are tasks: asynchronous calls that wait for  *)
(* a signature or for a client to end, while anything else may happen.     *)
(* The radio serves signatures in the order they were asked for.  A token  *)
(* is the number of its signing; only the newest is known to be valid.     *)
(***************************************************************************)
EXTENDS Integers, Sequences

CONSTANTS
  NumTasks,    \* bound: the first connect() and the renewals
  MaxTokens,   \* bound: no token after this one grows old
  MaxFaults    \* bound on failed signatures

Tasks == 1 .. NumTasks

ASSUME BrokerAssumption == NumTasks \in Nat \ {0} /\ MaxTokens \in Nat /\ MaxFaults \in Nat

VARIABLES
  state, stopping, client,   \* #state, #stopping, #client (0 for null)
  password,   \* the clients made so far, each with the token it presents
  live,       \* those that have not ended
  online,     \* those the broker has accepted
  token,      \* #currentToken, 0 for null
  life,       \* "fresh", "due" within the threshold, or "expired"
  stage,      \* per task: "idle", "renewing", "ending", "signing", "done"
  ends,       \* per task: the client it waits for, 0 for none
  phase,      \* "waiting" for the radio, "running", "stopping", "closing", "closed"
  lastEnd,    \* the client closeAll() waits for
  faults,
  crossed     \* history: has a task or the shutdown begun during another task?

brokerVars == <<state, stopping, client, password, live, online>>
tokenVars == <<token, life, faults>>
taskVars == <<stage, ends, phase, lastEnd, crossed>>
vars == <<brokerVars, tokenVars, taskVars>>

Init ==
  /\ state = "disconnected" /\ stopping = FALSE /\ client = 0
  /\ password = <<>> /\ live = {} /\ online = {}
  /\ token = 0 /\ life = "fresh" /\ faults = 0
  /\ stage = [t \in Tasks |-> "idle"] /\ ends = [t \in Tasks |-> 0]
  /\ phase = "waiting" /\ lastEnd = 0 /\ crossed = FALSE

-----------------------------------------------------------------------------
UnderWay(t) == stage[t] \in {"renewing", "ending", "signing"}

Asks(t) == stage[t] \in {"renewing", "signing"}

\* The command queue serves the radio in order; after radioManager.stop() no
\* command settles.
Turn(t) == Asks(t) /\ phase # "closed" /\ \A s \in Tasks : s < t => ~Asks(s)

Leads(t, s) == stage' = [stage EXCEPT ![t] = s]

\* createClient: the client presents the password resolved for it.
Creates(tok) ==
  /\ password' = Append(password, tok)
  /\ client' = Len(password')
  /\ live' = live \cup {Len(password')}

\* connect() by task t, after its close(): #resolveOptions has the cached
\* token if that is still good for a while, or asks for a new signature.
Connects(t) ==
  /\ stopping' = FALSE /\ state' = "connecting"
  /\ IF token' > 0 /\ life' = "fresh"
     THEN Creates(token') /\ Leads(t, "done")
     ELSE Leads(t, "signing") /\ UNCHANGED <<client, password, live>>

\* The identity is known: connectAll() and the refresh loop.
RadioReady ==
  /\ phase = "waiting"
  /\ phase' = "running"
  /\ UNCHANGED tokenVars
  /\ Connects(1)
  /\ UNCHANGED <<online, ends, lastEnd, crossed>>

Signs == token' = token + 1 /\ life' = "fresh" /\ UNCHANGED faults

Refuses == faults < MaxFaults /\ faults' = faults + 1 /\ UNCHANGED <<token, life>>

\* The password of a connect() is there: a client, unless close() was called.
Resolved(t) ==
  /\ stage[t] = "signing" /\ Turn(t)
  /\ Signs /\ Leads(t, "done")
  /\ IF stopping THEN UNCHANGED <<client, password, live>> ELSE Creates(token')
  /\ UNCHANGED <<state, stopping, online, ends, phase, lastEnd, crossed>>

ResolveFails(t) ==
  /\ stage[t] = "signing" /\ Turn(t)
  /\ Refuses /\ Leads(t, "done")
  /\ state' = "failed"
  /\ UNCHANGED <<stopping, client, password, live, online, ends, phase, lastEnd, crossed>>

\* Mutation of NearExpiry: only the time before the expiry counts.
NotYetExpired == life = "due"

\* getExpiration() is there and within the threshold, or past.
NearExpiry == token > 0 /\ life # "fresh"

\* The interval of the loop; nothing keeps two renewals apart.
RefreshFires(t) ==
  /\ phase = "running" /\ NearExpiry
  /\ stage[t] = "idle" /\ \A s \in Tasks : s < t => stage[s] # "idle"
  /\ Leads(t, "renewing")
  /\ crossed' = (crossed \/ \E s \in Tasks : UnderWay(s))
  /\ UNCHANGED <<brokerVars, tokenVars, ends, phase, lastEnd>>

\* Mutation of Renewed: MQTT.js is left to reconnect by itself.
RenewedOnly(t) ==
  /\ Leads(t, "done")
  /\ UNCHANGED <<brokerVars, ends>>

\* The new token is there: close() the broker and, at once if there is no
\* client to end, connect() again.
Renewed(t) ==
  IF client # 0
  THEN /\ stopping' = TRUE /\ client' = 0
       /\ ends' = [ends EXCEPT ![t] = client] /\ Leads(t, "ending")
       /\ UNCHANGED <<state, password, live, online>>
  ELSE Connects(t) /\ UNCHANGED <<online, ends>>

RefreshSigned(t) ==
  /\ stage[t] = "renewing" /\ Turn(t)
  /\ Signs
  /\ Renewed(t)
  /\ UNCHANGED <<phase, lastEnd, crossed>>

RefreshFails(t) ==
  /\ stage[t] = "renewing" /\ Turn(t)
  /\ Refuses /\ Leads(t, "done")
  /\ UNCHANGED <<brokerVars, ends, phase, lastEnd, crossed>>

\* Mutation of Gone: the old client keeps running.
StillThere(c) == live

Gone(c) == live \ {c}

\* client.end() calls back.  The close() of a renewal is followed by connect().
RefreshEnded(t) ==
  /\ stage[t] = "ending"
  /\ UNCHANGED tokenVars
  /\ stopping' = FALSE /\ state' = "connecting"
  /\ online' = online \ {ends[t]}
  /\ IF life = "fresh"
     THEN /\ password' = Append(password, token) /\ client' = Len(password')
          /\ live' = Gone(ends[t]) \cup {client'} /\ Leads(t, "done")
     ELSE live' = Gone(ends[t]) /\ Leads(t, "signing") /\ UNCHANGED <<client, password>>
  /\ UNCHANGED <<ends, phase, lastEnd, crossed>>

-----------------------------------------------------------------------------
\* MQTT.js.  Clients that are being ended are only waited for.
Ending == {ends[t] : t \in {s \in Tasks : stage[s] = "ending"}} \cup {lastEnd}

\* Also after the token has been replaced, unless it has expired.
GoesOnline(c) ==
  /\ c \in live \ (online \cup Ending)
  /\ password[c] = token => life # "expired"
  /\ online' = online \cup {c}
  /\ state' = "connected"
  /\ UNCHANGED <<stopping, client, password, live, tokenVars, taskVars>>

\* Mutation of OfflineState: nothing is done on 'offline'.
OfflineIgnored == state

OfflineState == IF stopping THEN "disconnected" ELSE "retrying"

\* 'close' and 'offline'.
GoesOffline(c) ==
  /\ c \in online \ Ending
  /\ online' = online \ {c}
  /\ state' = OfflineState
  /\ UNCHANGED <<stopping, client, password, live, tokenVars, taskVars>>

\* 'reconnect', while the client tries again.
Retries(c) ==
  /\ c \in live \ (online \cup Ending)
  /\ state' = "retrying"
  /\ UNCHANGED <<stopping, client, password, live, online, tokenVars, taskVars>>

Ages ==
  /\ token \in 1 .. MaxTokens - 1
  /\ \/ life = "fresh" /\ life' = "due"
     \/ life = "due" /\ life' = "expired"
  /\ UNCHANGED <<token, faults, brokerVars, taskVars>>

-----------------------------------------------------------------------------
\* shutdown(): the loop is cleared; other parts of the program are awaited.
StopLoops ==
  /\ phase = "running"
  /\ phase' = "stopping"
  /\ UNCHANGED <<brokerVars, tokenVars, stage, ends, lastEnd, crossed>>

CloseAll ==
  /\ phase = "stopping"
  /\ phase' = IF client = 0 THEN "closed" ELSE "closing"
  /\ state' = IF client = 0 THEN "disconnected" ELSE state
  /\ stopping' = TRUE /\ client' = 0 /\ lastEnd' = client
  /\ crossed' = (crossed \/ \E t \in Tasks : UnderWay(t))
  /\ UNCHANGED <<password, live, online, tokenVars, stage, ends>>

\* The last client has ended, and the radio is stopped.
AllClosed ==
  /\ phase = "closing"
  /\ phase' = "closed"
  /\ state' = "disconnected"
  /\ live' = Gone(lastEnd) /\ online' = online \ {lastEnd}
  /\ UNCHANGED <<stopping, client, password, tokenVars, stage, ends, lastEnd, crossed>>

SignatureSettles(t) == Resolved(t) \/ ResolveFails(t) \/ RefreshSigned(t) \/ RefreshFails(t)

Next ==
  \/ RadioReady \/ Ages \/ StopLoops \/ CloseAll \/ AllClosed
  \/ \E t \in Tasks : RefreshFires(t) \/ SignatureSettles(t) \/ RefreshEnded(t)
  \/ \E c \in DOMAIN password : GoesOnline(c) \/ GoesOffline(c) \/ Retries(c)

Spec == Init /\ [][Next]_vars
-----------------------------------------------------------------------------
(* Properties.                                                              *)

\* As long as renewals and the shutdown do not cross, there is never a client
\* besides the broker's own and the one it is ending, and after the shutdown
\* there is none.
NoStrayClient ==
  ~crossed => /\ live \ Ending \subseteq {client}
              /\ phase = "closed" => live = {}

\* Then, too, the state that publishing relies on is true: it says connected
\* exactly while the client is online, except during a close().
StateIsTrue ==
  ~crossed /\ ~stopping => (state = "connected" <=> client \in online)

\* While the loop runs, every signature it has asked the radio for settles.  The
\* code does not see to it: sign waits without a timeout, and behind whatever is
\* ahead of it in the queue.
SignaturesSettle == \A t \in Tasks : []<>(~Asks(t) \/ phase # "running")

\* A token that comes close to its end, or passes it, is renewed although
\* signatures may fail and renewals may overlap, provided that none hangs.
TokenIsRenewed ==
  SignaturesSettle => (NearExpiry ~> life = "fresh" \/ phase # "running")

\* The newest token reaches a client in the end, on the same condition: a broker
\* that failed on the way is taken up again by a later renewal.
TokenIsPresented ==
  SignaturesSettle =>
    (token > 0 ~> (client # 0 /\ password[client] = token) \/ phase # "running")

\* What the shutdown section of the project plan asks for: MQTT is
\* disconnected before the program ends.  A client that is left over keeps the
\* process alive, and the timer for the forced exit is cleared by then.
ShutdownClosesMqtt == phase = "closed" => live \subseteq Ending
=============================================================================
