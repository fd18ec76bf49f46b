----------------------------- MODULE RadioManager -----------------------------
(***************************************************************************)
(* RadioManager with its CommandQueue: connecting, the handshake, the loss *)
(* of the link, reconnecting and stop().                                   *)
(*                                                                         *)
(* Every call of #attemptConnect is a coroutine with a connection object   *)
(* of its own; stage[c] is where the coroutine of connection c awaits.  A  *)
(* coroutine is not cancelled when its link is lost.                       *)
(*                                                                         *)
(* meshcore.js is external.  A command may be answered, be rejected or     *)
(* never settle; only getSelfInfo is sure to, because it alone has a       *)
(* timeout (docs/plans/v2.2.0 notes the missing ones).                     *)
(***************************************************************************)
EXTENDS CommandQueue, FiniteSets

CONSTANTS
  MaxConns,      \* bound: connection objects are 1 .. MaxConns
  Clients,       \* device commands of the rest of the program
  NumPorts,      \* candidates for the transport: serialPorts, or the one TCP address
  MaxRetries,    \* radio.reconnect.maxRetries, 0 for no limit
  MaxFaults,     \* bound on lost links, failed opens and refused handshakes
  MaxThrows      \* bound on listeners that throw

Conns == 1 .. MaxConns
NoConn == 0
Steps == {"selfInfo", "time", "setTime", "query"}
RadioCommands == (Conns \X Steps) \cup Clients

ASSUME RadioAssumption ==
  /\ Commands = RadioCommands /\ Clients \cap (Conns \X Steps) = {}
  /\ NumPorts \in Nat \ {0}
  /\ MaxRetries \in Nat /\ MaxFaults \in Nat /\ MaxThrows \in Nat
  /\ MaxConns \in Nat /\ MaxConns > MaxFaults + 2 * MaxThrows

VARIABLES
  running,     \* #running
  attempt,     \* #attempt
  timers,      \* pending reconnect timers
  current,     \* #connection
  stage,       \* per connection: "unused", "opening", a step, or "over"
  port,        \* per connection: the candidate it is opening (1 otherwise)
  link,        \* per connection: is the transport open?
  boundTo,     \* per client command: the connection it was bound to
  announced,   \* what the last radio.connected / radio.disconnected said
  faults, throws

radioVars == <<running, attempt, timers, current, stage, port, link, boundTo, announced, faults, throws>>
vars == <<queueVars, radioVars>>

TypeOK ==
  /\ QueueTypeOK
  /\ running \in BOOLEAN /\ announced \in BOOLEAN
  /\ attempt \in Nat /\ timers \in Nat
  /\ current \in Conns \cup {NoConn}
  /\ stage \in [Conns -> {"unused", "opening", "over"} \cup Steps]
  /\ port \in [Conns -> 1 .. NumPorts] /\ link \in [Conns -> BOOLEAN]
  /\ boundTo \in [Clients -> Conns \cup {NoConn}]
  /\ faults \in 0 .. MaxFaults /\ throws \in 0 .. MaxThrows

Init ==
  /\ QueueInit
  /\ running = FALSE /\ attempt = 0 /\ timers = 0 /\ current = NoConn
  /\ stage = [c \in Conns |-> "unused"]
  /\ port = [c \in Conns |-> 1] /\ link = [c \in Conns |-> FALSE]
  /\ boundTo = [u \in Clients |-> NoConn]
  /\ announced = FALSE /\ faults = 0 /\ throws = 0

-----------------------------------------------------------------------------
Fresh == CHOOSE c \in Conns : stage[c] = "unused" /\ \A d \in Conns : stage[d] = "unused" => c <= d

\* #attemptConnect up to its first await.
Launch(s) == [s EXCEPT ![Fresh] = "opening"]

\* Mutation of Closed: the connection of a failed attempt is not closed.
LeftOpen(l, c) == l

Closed(l, c) == [l EXCEPT ![c] = FALSE]

GivesUp(n) == MaxRetries # 0 /\ n > MaxRetries

\* Mutation of ScheduleRetry: no timer is set.
RetryForgotten(n) ==
  /\ attempt' = n + 1
  /\ UNCHANGED <<timers, running>>

\* #scheduleRetry with n as the value of #attempt.
ScheduleRetry(n) ==
  /\ attempt' = IF running THEN n + 1 ELSE n
  /\ timers' = IF running /\ ~GivesUp(n + 1) THEN timers + 1 ELSE timers
  /\ running' = (running /\ ~GivesUp(n + 1))

Fault(n) == faults + n <= MaxFaults /\ faults' = faults + n

\* Mutation of Noticed: every connection counts.
NoticedAlways(c) == TRUE

\* The guard of the 'disconnected' listener.
Noticed(c) == current = c
-----------------------------------------------------------------------------
RadioStart ==
  /\ ~running /\ stage[1] = "unused"
  /\ running' = TRUE /\ attempt' = 0
  /\ stage' = Launch(stage)
  /\ UNCHANGED <<port, timers, current, link, boundTo, announced, faults, throws, queueVars>>

RadioStop ==
  /\ running \/ current # NoConn
  /\ running' = FALSE /\ timers' = 0 /\ current' = NoConn
  /\ link' = IF current = NoConn THEN link ELSE Closed(link, current)
  /\ UNCHANGED <<port, attempt, stage, boundTo, announced, faults, throws, queueVars>>

RetryDue == timers > 0

RetryFires ==
  /\ RetryDue
  /\ timers' = timers - 1
  /\ stage' = IF running THEN Launch(stage) ELSE stage
  /\ UNCHANGED <<port, running, attempt, current, link, boundTo, announced, faults, throws, queueVars>>

\* The transport opened and the first command is queued.
Opened(c) ==
  /\ stage[c] = "opening"
  /\ link' = [link EXCEPT ![c] = TRUE]
  /\ stage' = [stage EXCEPT ![c] = "selfInfo"]
  /\ Run(<<c, "selfInfo">>)
  /\ port' = [port EXCEPT ![c] = 1]
  /\ UNCHANGED <<running, attempt, timers, current, boundTo, announced, faults, throws>>

\* A candidate closed before it was ready, or never became ready: the next one.
PortFails(c) ==
  /\ stage[c] = "opening" /\ port[c] < NumPorts
  /\ port' = [port EXCEPT ![c] = @ + 1]
  /\ UNCHANGED <<running, attempt, timers, current, stage, link, boundTo, announced, faults, throws, queueVars>>

OpenFails(c) ==
  /\ stage[c] = "opening" /\ port[c] = NumPorts
  /\ Fault(1)
  /\ stage' = [stage EXCEPT ![c] = "over"]
  /\ port' = [port EXCEPT ![c] = 1]
  /\ ScheduleRetry(attempt)
  /\ UNCHANGED <<current, link, boundTo, announced, throws, queueVars>>

Awaits(c, step) == stage[c] = step /\ cmd[<<c, step>>] = "running"

\* The connection is adopted, unless the manager was stopped meanwhile.
SelfInfoAnswered(c) ==
  /\ Awaits(c, "selfInfo") /\ link[c]
  /\ IF running
     THEN /\ current' = c /\ attempt' = 0
          /\ stage' = [stage EXCEPT ![c] = "time"]
          /\ SettleAndRun(<<c, "selfInfo">>, "ok", <<c, "time">>)
          /\ UNCHANGED link
     ELSE /\ link' = Closed(link, c)
          /\ stage' = [stage EXCEPT ![c] = "over"]
          /\ Settle(<<c, "selfInfo">>, "ok")
          /\ UNCHANGED <<current, attempt>>
  /\ UNCHANGED <<port, running, timers, boundTo, announced, faults, throws>>

\* An error answer, or the timeout of getSelfInfo.
SelfInfoFails(c) ==
  /\ Awaits(c, "selfInfo")
  /\ Fault(IF link[c] THEN 1 ELSE 0)
  /\ link' = Closed(link, c)
  /\ stage' = [stage EXCEPT ![c] = "over"]
  /\ Settle(<<c, "selfInfo">>, "err")
  /\ ScheduleRetry(attempt)
  /\ UNCHANGED <<port, current, boundTo, announced, throws>>

\* syncDeviceClock swallows every error; the clock is set only when behind.
TimeAnswered(c, behind) ==
  /\ Awaits(c, "time") /\ (behind => link[c])
  /\ \E next \in {IF behind THEN "setTime" ELSE "query"} :
       /\ stage' = [stage EXCEPT ![c] = next]
       /\ SettleAndRun(<<c, "time">>, IF link[c] THEN "ok" ELSE "err", <<c, next>>)
  /\ UNCHANGED <<port, running, attempt, timers, current, link, boundTo, announced, faults, throws>>

SetTimeAnswered(c) ==
  /\ Awaits(c, "setTime")
  /\ stage' = [stage EXCEPT ![c] = "query"]
  /\ SettleAndRun(<<c, "setTime">>, IF link[c] THEN "ok" ELSE "err", <<c, "query">>)
  /\ UNCHANGED <<port, running, attempt, timers, current, link, boundTo, announced, faults, throws>>

\* #fetchDeviceQuery swallows errors too; radio.connected is emitted without
\* another look at #connection or #running.
QueryAnswered(c) ==
  /\ Awaits(c, "query")
  /\ Settle(<<c, "query">>, IF link[c] THEN "ok" ELSE "err")
  /\ stage' = [stage EXCEPT ![c] = "over"]
  /\ announced' = TRUE
  /\ UNCHANGED <<port, running, attempt, timers, current, link, boundTo, faults, throws>>

\* A listener of radio.connected throws into the try of #attemptConnect: the
\* connection is closed, which the 'disconnected' listener answers with an
\* attempt of its own, and then a retry is scheduled as well.
ListenerThrows(c) ==
  /\ Awaits(c, "query")
  /\ throws < MaxThrows /\ throws' = throws + 1
  /\ Settle(<<c, "query">>, IF link[c] THEN "ok" ELSE "err")
  /\ link' = Closed(link, c)
  /\ IF link[c] /\ Noticed(c)
     THEN /\ current' = NoConn /\ announced' = FALSE
          /\ stage' = IF running THEN Launch([stage EXCEPT ![c] = "over"])
                                 ELSE [stage EXCEPT ![c] = "over"]
          /\ ScheduleRetry(IF running THEN 0 ELSE attempt)
     ELSE /\ announced' = TRUE
          /\ stage' = [stage EXCEPT ![c] = "over"]
          /\ ScheduleRetry(attempt)
          /\ UNCHANGED current
  /\ UNCHANGED <<port, boundTo, faults>>

\* The transport is lost, and the listener of 'disconnected' runs.
LinkDrops(c) ==
  /\ link[c] /\ Fault(1)
  /\ link' = [link EXCEPT ![c] = FALSE]
  /\ IF Noticed(c)
     THEN /\ current' = NoConn /\ announced' = FALSE
          /\ attempt' = IF running THEN 0 ELSE attempt
          /\ stage' = IF running THEN Launch(stage) ELSE stage
     ELSE UNCHANGED <<current, announced, attempt, stage>>
  /\ UNCHANGED <<port, running, timers, boundTo, throws, queueVars>>

\* runCommand binds the connection of the moment, or rejects.
ClientRuns(u) ==
  /\ cmd[u] = "idle"
  /\ IF current = NoConn
     THEN Settle(u, "err") /\ UNCHANGED boundTo
     ELSE Run(u) /\ boundTo' = [boundTo EXCEPT ![u] = current]
  /\ UNCHANGED <<port, running, attempt, timers, current, stage, link, announced, faults, throws>>

ClientAnswered(u, outcome) ==
  /\ cmd[u] = "running"
  /\ outcome = "ok" => link[boundTo[u]]
  /\ Settle(u, outcome)
  /\ UNCHANGED radioVars

Begins == BeginNext /\ UNCHANGED radioVars

\* What goes on by itself or by a timer: opening and getSelfInfo have one.
OwnStep(c) ==
  Opened(c) \/ PortFails(c) \/ OpenFails(c) \/ SelfInfoFails(c) \/ SelfInfoAnswered(c)

\* The rest of the handshake waits for its commands, which have no timeout.
StepAnswered(c) ==
  \/ \E behind \in BOOLEAN : TimeAnswered(c, behind)
  \/ SetTimeAnswered(c) \/ QueryAnswered(c)

ClientStep ==
  \E u \in Clients : ClientRuns(u) \/ \E outcome \in Settled : ClientAnswered(u, outcome)

Next ==
  \/ RadioStart \/ RadioStop \/ RetryFires \/ Begins \/ ClientStep
  \/ \E c \in Conns : OwnStep(c) \/ StepAnswered(c) \/ ListenerThrows(c) \/ LinkDrops(c)

Spec == Init /\ [][Next]_vars

\* Tasks are called and timers fire: that of a retry, and those that bound the
\* opening of a port and getSelfInfo.  No other command is sure to settle.
FairSpec ==
  /\ Spec
  /\ WF_vars(Begins) /\ WF_vars(RetryFires)
  /\ \A c \in Conns : WF_vars(OwnStep(c))
-----------------------------------------------------------------------------
(* Properties.                                                              *)

Connecting == {c \in Conns : stage[c] \in {"opening", "selfInfo"}}

\* A running manager is connected, connecting or waiting to retry: exactly one
\* of them, once.  Less would be a manager that sleeps for good, more a second
\* connect loop.  Each listener that threw may have started one more.
OneConnectLoop ==
  running =>
    \E n \in {Cardinality(Connecting) + timers + (IF current # NoConn THEN 1 ELSE 0)} :
      1 <= n /\ n <= 1 + throws

\* isConnected() never vouches for a link that is gone; and a link that is open
\* belongs to the current connection or to an attempt that still runs, as long
\* as no listener threw.
LinksAreOwned ==
  /\ current # NoConn => link[current]
  /\ throws = 0 => \A c \in Conns : link[c] => c = current \/ stage[c] = "selfInfo"

Reconnected == current # NoConn \/ ~running

\* No command hangs for good: the device answers it, or meshcore.js rejects it.
CommandsSettle == \A x \in Commands : []<>(cmd[x] # "running")

\* If no command hangs, a lost or missing link is always replaced: after any
\* order of lost links, failed and rejected commands, listeners that throw and
\* attempts that go on in a world that has changed.
Reconnects == CommandsSettle => (current = NoConn /\ running ~> Reconnected)

\* What the project plan promises, without that condition.
RecoversAutomatically == current = NoConn /\ running ~> Reconnected

\* What the project plan asks for: no connection object outlives its use.
NoConnectionLeaks ==
  running => \A c \in Conns : link[c] => c = current \/ stage[c] = "selfInfo"
=============================================================================
