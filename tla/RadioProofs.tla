----------------------------- MODULE RadioProofs -----------------------------
(***************************************************************************)
(* Proofs about the radio manager, for any number of connections, ports,   *)
(* faults and throwing listeners, any retry limit and any set of client    *)
(* commands: a running manager never sleeps for good, every loop beyond    *)
(* the first is owed to a listener that threw, no link is without an owner *)
(* and the device has one command at a time, in the order of submission.   *)
(***************************************************************************)
EXTENDS RadioManager, FiniteSetTheorems, TLAPS

Stages == {"unused", "opening", "over"} \cup Steps

Adopted == {"time", "setTime", "query", "over"}

LoopTypeOK ==
  /\ running \in BOOLEAN /\ timers \in Nat /\ attempt \in Nat
  /\ current \in Conns \cup {NoConn}
  /\ stage \in [Conns -> Stages] /\ link \in [Conns -> BOOLEAN]
  /\ faults \in 0 .. MaxFaults /\ throws \in 0 .. MaxThrows

Holds == IF current # NoConn THEN 1 ELSE 0

\* Being connected, connecting and waiting, each time it happens.
Loops == Cardinality(Connecting) + timers + Holds

LoopInv == (running => 1 <= Loops) /\ Loops <= 1 + throws

\* Attempts whose link is gone and that do not know yet.
Doomed == {c \in Conns : stage[c] = "selfInfo" /\ ~link[c]}

\* Connections are used in order, and each one was paid for: by the start, by
\* a fault, or by a listener that threw, which pays for two.
Spent(k) ==
  /\ \A c \in Conns : stage[c] = "unused" <=> k < c
  /\ IF k = 0 THEN timers = 0 /\ throws = 0
     ELSE k + timers + Cardinality(Doomed) <= 1 + faults + 2 * throws

BudgetInv == \E k \in 0 .. MaxConns : Spent(k)

OwnerInv ==
  /\ current # NoConn => stage[current] \in Adopted
  /\ LinksAreOwned

RadioInv == LoopTypeOK /\ LoopInv /\ BudgetInv /\ OwnerInv

-----------------------------------------------------------------------------
(* Counting.                                                                *)

LEMMA Counts ==
  ASSUME NEW S \in SUBSET Conns
  PROVE  /\ Cardinality(S) \in Nat
         /\ \A c \in Conns \ S : Cardinality(S \cup {c}) = Cardinality(S) + 1
         /\ \A c \in S : Cardinality(S \ {c}) = Cardinality(S) - 1 /\ Cardinality(S) >= 1
<1>1. IsFiniteSet(Conns)
  BY FS_Interval, RadioAssumption DEF Conns
<1>2. IsFiniteSet(S)
  BY <1>1, FS_Subset
<1>3. ASSUME NEW c \in S PROVE Cardinality(S) >= 1
  <2>1. Cardinality(S) # 0
    BY <1>2, <1>3, FS_EmptySet
  <2>2. QED  BY <1>2, <2>1, FS_CardinalityType
<1>4. QED
  BY <1>2, <1>3, FS_CardinalityType, FS_AddElement, FS_RemoveElement

LEMMA ConnsOK == NoConn \notin Conns /\ MaxConns \in Nat /\ MaxConns > 0
BY RadioAssumption DEF Conns, NoConn

\* The next connection is the one after those that were used.
LEMMA FreshIsNext ==
  ASSUME NEW k \in Nat, k < MaxConns, Spent(k)
  PROVE  Fresh = k + 1 /\ k + 1 \in Conns /\ stage[k + 1] = "unused"
<1>1. k + 1 \in Conns /\ stage[k + 1] = "unused"
  BY RadioAssumption DEF Conns, Spent
<1>2. \A d \in Conns : stage[d] = "unused" => k + 1 <= d
  BY DEF Conns, Spent
<1>3. \A c \in Conns : stage[c] = "unused" /\ (\A d \in Conns : stage[d] = "unused" => c <= d) => c = k + 1
  BY <1>1, <1>2 DEF Conns
<1>4. QED  BY <1>1, <1>2, <1>3 DEF Fresh

\* Whoever launches an attempt has paid for a connection that is left.
LEMMA RoomLeft ==
  ASSUME LoopTypeOK, NEW k \in 0 .. MaxConns, Spent(k),
         timers > 0 \/ faults < MaxFaults \/ throws < MaxThrows
  PROVE  k < MaxConns
<1>1. Cardinality(Doomed) \in Nat
  BY Counts DEF Doomed
<1>2. QED
  BY <1>1, RadioAssumption DEF LoopTypeOK, Spent

\* A retry is scheduled, or the manager is not running any more.
LEMMA ScheduleEffect ==
  ASSUME running \in BOOLEAN, timers \in Nat, NEW n \in Nat, ScheduleRetry(n)
  PROVE  /\ running' \in BOOLEAN /\ attempt' \in Nat /\ timers' \in Nat
         /\ running' => running /\ timers' = timers + 1
         /\ timers' = timers \/ timers' = timers + 1
<1>1. attempt' \in Nat
  BY DEF ScheduleRetry
<1>2. timers' = IF running /\ ~GivesUp(n + 1) THEN timers + 1 ELSE timers
  BY DEF ScheduleRetry
<1>3. running' \in BOOLEAN /\ (running' <=> running /\ ~GivesUp(n + 1))
  BY Zenon DEF ScheduleRetry
<1>4. QED  BY <1>1, <1>2, <1>3
-----------------------------------------------------------------------------
(* Steps.                                                                   *)

LEMMA InitHolds == Init => RadioInv
<1> SUFFICES ASSUME Init PROVE RadioInv
  OBVIOUS
<1>1. Connecting = {} /\ Doomed = {}
  BY DEF Init, Connecting, Doomed
<1>2. Cardinality(Connecting) = 0 /\ Cardinality(Doomed) = 0
  BY <1>1, FS_EmptySet
<1>3. LoopTypeOK
  <2>1. 0 \in 0 .. MaxFaults /\ 0 \in 0 .. MaxThrows /\ 0 \in Nat
    BY RadioAssumption
  <2>2. stage \in [Conns -> Stages] /\ link \in [Conns -> BOOLEAN]
    BY DEF Init, Stages
  <2>3. QED  BY <2>1, <2>2 DEF Init, LoopTypeOK
<1>4. LoopInv
  BY <1>2 DEF Init, LoopInv, Loops, Holds
<1>5. Spent(0)
  BY DEF Init, Spent, Conns
<1>6. BudgetInv
  BY <1>5, ConnsOK DEF BudgetInv
<1>7. OwnerInv
  BY DEF Init, OwnerInv, LinksAreOwned
<1>8. QED  BY <1>3, <1>4, <1>6, <1>7 DEF RadioInv

\* Steps that leave the loops alone: an adopted connection goes on.
LEMMA QuietStep ==
  ASSUME RadioInv, UNCHANGED <<running, attempt, timers, current, link, faults, throws>>,
         stage' \in [Conns -> Stages],
         \A c \in Conns : stage'[c] = stage[c] \/ {stage[c], stage'[c]} \subseteq Adopted
  PROVE  RadioInv'
<1> USE DEF RadioInv
<1>1. \A c \in Conns :
        /\ stage'[c] = "unused" <=> stage[c] = "unused"
        /\ stage'[c] = "selfInfo" <=> stage[c] = "selfInfo"
        /\ stage'[c] = "opening" <=> stage[c] = "opening"
        /\ stage[c] \in Adopted => stage'[c] \in Adopted
  BY DEF Adopted
<1>2. Connecting' = Connecting /\ Doomed' = Doomed
  BY <1>1 DEF Connecting, Doomed
<1>3. LoopTypeOK'
  BY DEF LoopTypeOK
<1>4. LoopInv'
  BY <1>2 DEF LoopInv, Loops, Holds
<1>5. BudgetInv'
  BY <1>1, <1>2 DEF BudgetInv, Spent
<1>6. OwnerInv'
  BY <1>1, ConnsOK DEF OwnerInv, LinksAreOwned, LoopTypeOK
<1>7. QED  BY <1>3, <1>4, <1>5, <1>6

\* A new attempt on the next connection.
LEMMA LaunchStep ==
  ASSUME LoopTypeOK, NEW k \in 0 .. MaxConns, k < MaxConns, Spent(k),
         stage' = Launch(stage)
  PROVE  /\ k + 1 \in Conns /\ stage[k + 1] = "unused"
         /\ stage' \in [Conns -> Stages] /\ stage'[k + 1] = "opening"
         /\ \A c \in Conns : c # k + 1 => stage'[c] = stage[c]
         /\ \A c \in Conns : stage'[c] = "unused" <=> k + 1 < c
         /\ Connecting' = Connecting \cup {k + 1}
         /\ Cardinality(Connecting') = Cardinality(Connecting) + 1
<1>1. k \in Nat /\ Fresh = k + 1 /\ k + 1 \in Conns /\ stage[k + 1] = "unused"
  BY FreshIsNext, ConnsOK
<1>2. /\ stage' = [stage EXCEPT ![k + 1] = "opening"]
      /\ stage' \in [Conns -> Stages]
  BY <1>1 DEF Launch, LoopTypeOK, Stages
<1>3. stage'[k + 1] = "opening" /\ \A c \in Conns : c # k + 1 => stage'[c] = stage[c]
  BY <1>1, <1>2 DEF LoopTypeOK
<1>4. \A c \in Conns : stage'[c] = "unused" <=> k + 1 < c
  BY <1>1, <1>3 DEF Spent, Conns
<1>5. Connecting' = Connecting \cup {k + 1} /\ k + 1 \notin Connecting
  BY <1>1, <1>3 DEF Connecting
<1>6. Cardinality(Connecting') = Cardinality(Connecting) + 1
  BY <1>1, <1>5, Counts DEF Connecting
<1>7. QED  BY <1>1, <1>2, <1>3, <1>4, <1>5, <1>6

LEMMA StartStep == RadioInv /\ RadioStart => RadioInv'
<1> SUFFICES ASSUME RadioInv, RadioStart PROVE RadioInv'
  OBVIOUS
<1> USE DEF RadioInv
<1>1. PICK k \in 0 .. MaxConns : Spent(k)
  BY DEF BudgetInv
<1>2. /\ stage[1] = "unused" /\ running' = TRUE /\ attempt' = 0 /\ stage' = Launch(stage)
      /\ UNCHANGED <<timers, current, link, faults, throws>>
  BY DEF RadioStart
<1>3. k = 0 /\ timers = 0
  BY <1>1, <1>2, ConnsOK DEF Spent, Conns
<1>4. /\ 1 \in Conns /\ stage' \in [Conns -> Stages] /\ stage'[1] = "opening"
      /\ \A c \in Conns : c # 1 => stage'[c] = stage[c]
      /\ \A c \in Conns : stage'[c] = "unused" <=> 1 < c
      /\ Connecting' = Connecting \cup {1}
      /\ Cardinality(Connecting') = Cardinality(Connecting) + 1
  BY <1>1, <1>2, <1>3, LaunchStep, ConnsOK
<1>5. \A c \in Conns : stage[c] = "unused"
  BY <1>1, <1>3 DEF Spent, Conns
<1>6. Connecting = {} /\ Doomed' = {} /\ current = NoConn
  BY <1>2, <1>4, <1>5 DEF Connecting, Doomed, LoopTypeOK, OwnerInv, Adopted
<1>7. Cardinality(Connecting') = 1 /\ Cardinality(Doomed') = 0
  BY <1>4, <1>6, FS_EmptySet
<1>8. LoopTypeOK'
  BY <1>2, <1>4 DEF LoopTypeOK
<1>9. LoopInv'
  BY <1>2, <1>3, <1>6, <1>7 DEF LoopInv, Loops, Holds, LoopTypeOK
<1>10. Spent(1)'
  BY <1>2, <1>3, <1>4, <1>7 DEF Spent, LoopTypeOK
<1>11. BudgetInv'
  BY <1>10, ConnsOK DEF BudgetInv
<1>12. OwnerInv'
  BY <1>2, <1>5, <1>6 DEF OwnerInv, LinksAreOwned
<1>13. QED  BY <1>8, <1>9, <1>11, <1>12

LEMMA StopStep == RadioInv /\ RadioStop => RadioInv'
<1> SUFFICES ASSUME RadioInv, RadioStop PROVE RadioInv'
  OBVIOUS
<1> USE DEF RadioInv
<1>1. /\ running' = FALSE /\ timers' = 0 /\ current' = NoConn
      /\ link' = IF current = NoConn THEN link ELSE Closed(link, current)
      /\ UNCHANGED <<attempt, stage, faults, throws>>
  BY DEF RadioStop
<1>2. link' \in [Conns -> BOOLEAN] /\ \A c \in Conns : c # current => link'[c] = link[c]
  BY <1>1 DEF Closed, LoopTypeOK
<1>3. current # NoConn => ~link'[current] /\ stage[current] \in Adopted
  BY <1>1 DEF Closed, LoopTypeOK, OwnerInv
<1>4. Connecting' = Connecting /\ Doomed' = Doomed
  BY <1>1, <1>2, <1>3 DEF Connecting, Doomed, Adopted
<1>5. Cardinality(Connecting) \in Nat /\ Cardinality(Doomed) \in Nat
  BY Counts DEF Connecting, Doomed
<1>6. LoopTypeOK'
  BY <1>1, <1>2 DEF LoopTypeOK
<1>7. LoopInv'
  BY <1>1, <1>4, <1>5 DEF LoopInv, Loops, Holds, LoopTypeOK
<1>8. BudgetInv'
  BY <1>1, <1>4, <1>5 DEF BudgetInv, Spent, LoopTypeOK
<1>9. OwnerInv'
  BY <1>1, <1>2, <1>3 DEF OwnerInv, LinksAreOwned, LoopTypeOK
<1>10. QED  BY <1>6, <1>7, <1>8, <1>9

LEMMA RetryStep == RadioInv /\ RetryFires => RadioInv'
<1> SUFFICES ASSUME RadioInv, RetryFires PROVE RadioInv'
  OBVIOUS
<1> USE DEF RadioInv
<1>1. PICK k \in 0 .. MaxConns : Spent(k)
  BY DEF BudgetInv
<1>2. /\ timers > 0 /\ timers' = timers - 1
      /\ stage' = IF running THEN Launch(stage) ELSE stage
      /\ UNCHANGED <<running, attempt, current, link, faults, throws>>
  BY DEF RetryFires, RetryDue
<1>3. Cardinality(Connecting) \in Nat /\ Cardinality(Doomed) \in Nat
  BY Counts DEF Connecting, Doomed
<1>4. CASE ~running
  <2>1. stage' = stage /\ Connecting' = Connecting /\ Doomed' = Doomed
    BY <1>2, <1>4 DEF Connecting, Doomed
  <2>2. LoopTypeOK'
    BY <1>2, <2>1 DEF LoopTypeOK
  <2>3. LoopInv'
    BY <1>2, <1>3, <1>4, <2>1 DEF LoopInv, Loops, Holds, LoopTypeOK
  <2>4. Spent(k)'
    BY <1>1, <1>2, <1>3, <2>1 DEF Spent, LoopTypeOK
  <2>5. OwnerInv'
    BY <1>2, <2>1 DEF OwnerInv, LinksAreOwned
  <2>6. QED  BY <2>2, <2>3, <2>4, <2>5 DEF BudgetInv
<1>5. CASE running
  <2>1. k < MaxConns
    BY <1>1, <1>2, RoomLeft
  <2>2. /\ k + 1 \in Conns /\ stage[k + 1] = "unused"
        /\ stage' \in [Conns -> Stages] /\ stage'[k + 1] = "opening"
        /\ \A c \in Conns : c # k + 1 => stage'[c] = stage[c]
        /\ \A c \in Conns : stage'[c] = "unused" <=> k + 1 < c
        /\ Cardinality(Connecting') = Cardinality(Connecting) + 1
    BY <1>1, <1>2, <1>5, <2>1, LaunchStep
  <2>3. Doomed' = Doomed
    BY <1>2, <2>2 DEF Doomed
  <2>4. LoopTypeOK'
    BY <1>2, <2>2 DEF LoopTypeOK
  <2>5. LoopInv'
    BY <1>2, <1>3, <2>2 DEF LoopInv, Loops, Holds, LoopTypeOK
  <2>6. Spent(k + 1)'
    BY <1>1, <1>2, <1>3, <2>2, <2>3 DEF Spent, LoopTypeOK
  <2>7. BudgetInv'
    <3>1. k + 1 \in 0 .. MaxConns
      BY <2>1, ConnsOK
    <3>2. QED  BY <2>6, <3>1 DEF BudgetInv
  <2>8. OwnerInv'
    BY <1>2, <2>2 DEF OwnerInv, LinksAreOwned, LoopTypeOK, Adopted
  <2>9. QED  BY <2>4, <2>5, <2>7, <2>8
<1>6. QED  BY <1>4, <1>5 DEF LoopTypeOK

LEMMA OpenedStep == ASSUME RadioInv, NEW c \in Conns, Opened(c) PROVE RadioInv'
<1> USE DEF RadioInv
<1>1. /\ stage[c] = "opening" /\ link' = [link EXCEPT ![c] = TRUE]
      /\ stage' = [stage EXCEPT ![c] = "selfInfo"]
      /\ UNCHANGED <<running, attempt, timers, current, faults, throws>>
  BY DEF Opened
<1>2. /\ stage'[c] = "selfInfo" /\ link'[c]
      /\ stage' \in [Conns -> Stages] /\ link' \in [Conns -> BOOLEAN]
      /\ \A d \in Conns : d # c => stage'[d] = stage[d] /\ link'[d] = link[d]
  BY <1>1 DEF LoopTypeOK, Stages, Steps
<1>3. Connecting' = Connecting /\ Doomed' = Doomed
  BY <1>1, <1>2 DEF Connecting, Doomed
<1>4. LoopTypeOK'
  BY <1>1, <1>2 DEF LoopTypeOK
<1>5. LoopInv'
  BY <1>1, <1>3 DEF LoopInv, Loops, Holds
<1>6. BudgetInv'
  BY <1>1, <1>2, <1>3 DEF BudgetInv, Spent
<1>7. OwnerInv'
  BY <1>1, <1>2 DEF OwnerInv, LinksAreOwned, LoopTypeOK, Adopted
<1>8. QED  BY <1>4, <1>5, <1>6, <1>7

\* An attempt is over.
LEMMA AttemptOver ==
  ASSUME LoopTypeOK, OwnerInv, NEW c \in Conns, stage[c] \in {"opening", "selfInfo"},
         stage' = [stage EXCEPT ![c] = "over"],
         link' \in {link, [link EXCEPT ![c] = FALSE]}
  PROVE  /\ stage' \in [Conns -> Stages] /\ link' \in [Conns -> BOOLEAN]
         /\ stage'[c] = "over" /\ c # current
         /\ \A d \in Conns : d # c => stage'[d] = stage[d] /\ link'[d] = link[d]
         /\ Cardinality(Connecting) \in Nat /\ Cardinality(Connecting) >= 1
         /\ Cardinality(Connecting') = Cardinality(Connecting) - 1
         /\ Cardinality(Doomed) \in Nat
         /\ Cardinality(Doomed') =
              IF c \in Doomed THEN Cardinality(Doomed) - 1 ELSE Cardinality(Doomed)
<1>1. /\ stage' \in [Conns -> Stages] /\ link' \in [Conns -> BOOLEAN]
      /\ stage'[c] = "over"
      /\ \A d \in Conns : d # c => stage'[d] = stage[d] /\ link'[d] = link[d]
  BY DEF LoopTypeOK, Stages
<1>2. c # current
  BY ConnsOK DEF OwnerInv, Adopted
<1>3. Connecting' = Connecting \ {c} /\ Doomed' = Doomed \ {c} /\ c \in Connecting
  BY <1>1 DEF Connecting, Doomed
<1>4. c \notin Doomed => Doomed' = Doomed
  BY <1>3
<1>5. Connecting \in SUBSET Conns /\ Doomed \in SUBSET Conns
  BY DEF Connecting, Doomed
<1>6. QED  BY <1>1, <1>2, <1>3, <1>4, <1>5, Counts

\* An attempt is over, and a retry has been scheduled for it.
LEMMA FailedStep ==
  ASSUME RadioInv, NEW c \in Conns, stage[c] \in {"opening", "selfInfo"},
         stage' = [stage EXCEPT ![c] = "over"],
         link' \in {link, [link EXCEPT ![c] = FALSE]}, stage[c] = "opening" \/ ~link'[c],
         ScheduleRetry(attempt), faults' = faults + (IF c \in Doomed THEN 0 ELSE 1),
         faults' <= MaxFaults, UNCHANGED <<current, throws>>
  PROVE  RadioInv'
<1> USE DEF RadioInv
<1>1. PICK k \in 0 .. MaxConns : Spent(k)
  BY DEF BudgetInv
<1>2. /\ stage' \in [Conns -> Stages] /\ link' \in [Conns -> BOOLEAN]
      /\ stage'[c] = "over" /\ c # current
      /\ \A d \in Conns : d # c => stage'[d] = stage[d] /\ link'[d] = link[d]
      /\ Cardinality(Connecting) \in Nat /\ Cardinality(Connecting) >= 1
      /\ Cardinality(Connecting') = Cardinality(Connecting) - 1
      /\ Cardinality(Doomed) \in Nat
      /\ Cardinality(Doomed') =
           IF c \in Doomed THEN Cardinality(Doomed) - 1 ELSE Cardinality(Doomed)
  BY AttemptOver
<1>3. /\ running' \in BOOLEAN /\ attempt' \in Nat /\ timers' \in Nat
      /\ running' => timers' = timers + 1
      /\ timers' = timers \/ timers' = timers + 1
  BY ScheduleEffect DEF LoopTypeOK
<1>4. LoopTypeOK'
  BY <1>2, <1>3 DEF LoopTypeOK
<1>5. LoopInv'
  BY <1>2, <1>3 DEF LoopInv, Loops, Holds, LoopTypeOK
<1>6. Spent(k)'
  <2>1. \A d \in Conns : stage'[d] = "unused" <=> k < d
    BY <1>1, <1>2 DEF Spent
  <2>2. k # 0
    BY <1>1 DEF Spent, Conns
  <2>3. k + timers' + Cardinality(Doomed') <= 1 + faults' + 2 * throws'
    BY <1>1, <1>2, <1>3, <2>2 DEF Spent, LoopTypeOK
  <2>4. QED  BY <2>1, <2>2, <2>3 DEF Spent
<1>7. OwnerInv'
  BY <1>2 DEF OwnerInv, LinksAreOwned, LoopTypeOK, Adopted
<1>8. QED  BY <1>4, <1>5, <1>6, <1>7 DEF BudgetInv

LEMMA OpenFailsStep == ASSUME RadioInv, NEW c \in Conns, OpenFails(c) PROVE RadioInv'
<1>1. /\ stage[c] = "opening" /\ stage' = [stage EXCEPT ![c] = "over"]
      /\ faults' = faults + 1 /\ faults' <= MaxFaults
      /\ ScheduleRetry(attempt) /\ UNCHANGED <<current, link, throws>>
  BY RadioAssumption DEF OpenFails, Fault, RadioInv, LoopTypeOK
<1>2. c \notin Doomed
  BY <1>1 DEF Doomed
<1>3. QED  BY <1>1, <1>2, FailedStep

LEMMA SelfInfoFailsStep == ASSUME RadioInv, NEW c \in Conns, SelfInfoFails(c) PROVE RadioInv'
<1>1. /\ stage[c] = "selfInfo" /\ stage' = [stage EXCEPT ![c] = "over"]
      /\ faults' = faults + (IF link[c] THEN 1 ELSE 0) /\ faults' <= MaxFaults
      /\ link' = [link EXCEPT ![c] = FALSE]
      /\ ScheduleRetry(attempt) /\ UNCHANGED <<current, throws>>
  BY RadioAssumption DEF SelfInfoFails, Awaits, Fault, Closed, RadioInv, LoopTypeOK
<1>2. c \in Doomed <=> ~link[c]
  BY <1>1 DEF Doomed
<1>3. faults' = faults + (IF c \in Doomed THEN 0 ELSE 1)
  BY <1>1, <1>2
<1>4. ~link'[c]
  BY <1>1 DEF RadioInv, LoopTypeOK
<1>5. QED  BY <1>1, <1>3, <1>4, FailedStep

LEMMA AdoptedStep == ASSUME RadioInv, NEW c \in Conns, SelfInfoAnswered(c) PROVE RadioInv'
<1> USE DEF RadioInv
<1>1. PICK k \in 0 .. MaxConns : Spent(k)
  BY DEF BudgetInv
<1>2. /\ stage[c] = "selfInfo" /\ link[c] /\ UNCHANGED <<running, timers, faults, throws>>
  BY DEF SelfInfoAnswered, Awaits
<1>3. c # current /\ c # NoConn
  BY <1>2, ConnsOK DEF OwnerInv, Adopted
<1>4. CASE ~running
  <2>1. /\ stage' = [stage EXCEPT ![c] = "over"] /\ link' = [link EXCEPT ![c] = FALSE]
        /\ UNCHANGED <<current, attempt>>
    BY <1>4 DEF SelfInfoAnswered, Closed
  <2>2. /\ stage' \in [Conns -> Stages] /\ link' \in [Conns -> BOOLEAN]
        /\ stage'[c] = "over" /\ ~link'[c]
        /\ \A d \in Conns : d # c => stage'[d] = stage[d] /\ link'[d] = link[d]
        /\ Cardinality(Connecting) \in Nat /\ Cardinality(Connecting) >= 1
        /\ Cardinality(Connecting') = Cardinality(Connecting) - 1
        /\ Cardinality(Doomed') = Cardinality(Doomed)
    <3>1. c \notin Doomed
      BY <1>2 DEF Doomed
    <3>2. ~link'[c]
      BY <2>1 DEF LoopTypeOK
    <3>3. QED  BY <1>2, <2>1, <3>1, <3>2, AttemptOver
  <2>3. LoopTypeOK'
    BY <1>2, <2>1, <2>2 DEF LoopTypeOK
  <2>4. LoopInv'
    BY <1>2, <1>4, <2>1, <2>2 DEF LoopInv, Loops, Holds, LoopTypeOK
  <2>5. Spent(k)'
    BY <1>1, <1>2, <2>1, <2>2 DEF Spent
  <2>6. OwnerInv'
    BY <1>2, <1>3, <2>1, <2>2 DEF OwnerInv, LinksAreOwned, LoopTypeOK
  <2>7. QED  BY <2>3, <2>4, <2>5, <2>6 DEF BudgetInv
<1>5. CASE running
  <2>1. stage' = [stage EXCEPT ![c] = "time"] /\ current' = c /\ attempt' = 0 /\ link' = link
    BY <1>5 DEF SelfInfoAnswered
  <2>2. /\ stage' \in [Conns -> Stages] /\ stage'[c] = "time"
        /\ \A d \in Conns : d # c => stage'[d] = stage[d]
    BY <2>1 DEF LoopTypeOK, Stages, Steps
  <2>3. Connecting' = Connecting \ {c} /\ c \in Connecting /\ Doomed' = Doomed
    BY <1>2, <2>1, <2>2 DEF Connecting, Doomed
  <2>4. /\ Cardinality(Connecting) \in Nat /\ Cardinality(Connecting) >= 1
        /\ Cardinality(Connecting') = Cardinality(Connecting) - 1
    BY <2>3, Counts DEF Connecting
  <2>5. LoopTypeOK'
    BY <1>2, <2>1, <2>2 DEF LoopTypeOK
  <2>6. LoopInv'
    BY <1>2, <1>3, <2>1, <2>4 DEF LoopInv, Loops, Holds, LoopTypeOK
  <2>7. Spent(k)'
    BY <1>1, <1>2, <2>2, <2>3 DEF Spent
  <2>8. throws = 0 => current = NoConn
    BY <2>4 DEF LoopInv, Loops, Holds, LoopTypeOK
  <2>9. OwnerInv'
    BY <1>2, <2>1, <2>2, <2>8, ConnsOK DEF OwnerInv, LinksAreOwned, LoopTypeOK, Adopted
  <2>10. QED  BY <2>5, <2>6, <2>7, <2>9 DEF BudgetInv
<1>6. QED  BY <1>4, <1>5 DEF LoopTypeOK

LEMMA DropsStep == ASSUME RadioInv, NEW c \in Conns, LinkDrops(c) PROVE RadioInv'
<1> USE DEF RadioInv
<1>1. PICK k \in 0 .. MaxConns : Spent(k)
  BY DEF BudgetInv
<1>2. /\ link[c] /\ link' = [link EXCEPT ![c] = FALSE]
      /\ faults' = faults + 1 /\ faults' <= MaxFaults
      /\ UNCHANGED <<running, timers, throws>>
  BY DEF LinkDrops, Fault
<1>3. /\ link' \in [Conns -> BOOLEAN] /\ ~link'[c]
      /\ \A d \in Conns : d # c => link'[d] = link[d]
      /\ faults' \in 0 .. MaxFaults /\ faults < MaxFaults
  BY <1>2, RadioAssumption DEF LoopTypeOK
<1>4. Cardinality(Connecting) \in Nat /\ Cardinality(Doomed) \in Nat
  BY Counts DEF Connecting, Doomed
<1>5. k # 0
  <2>1. throws = 0 => stage[c] # "unused"
    BY <1>2, ConnsOK DEF OwnerInv, LinksAreOwned, Adopted
  <2>2. QED  BY <1>1, <2>1 DEF Spent, Conns
<1>6. CASE Noticed(c) /\ running
  <2>1. /\ current = c /\ c # NoConn /\ current' = NoConn /\ attempt' = 0
        /\ stage' = Launch(stage) /\ stage[c] \in Adopted
    BY <1>6, ConnsOK DEF LinkDrops, Noticed, OwnerInv
  <2>2. k < MaxConns
    BY <1>1, <1>3, RoomLeft
  <2>3. /\ k + 1 \in Conns /\ stage[k + 1] = "unused"
        /\ stage' \in [Conns -> Stages] /\ stage'[k + 1] = "opening"
        /\ \A d \in Conns : d # k + 1 => stage'[d] = stage[d]
        /\ \A d \in Conns : stage'[d] = "unused" <=> k + 1 < d
        /\ Cardinality(Connecting') = Cardinality(Connecting) + 1
    BY <1>1, <2>1, <2>2, LaunchStep
  <2>4. Doomed' = Doomed
    BY <1>3, <2>1, <2>3 DEF Doomed, Adopted
  <2>5. LoopTypeOK'
    BY <1>2, <1>3, <2>1, <2>3 DEF LoopTypeOK
  <2>6. LoopInv'
    BY <1>2, <1>4, <2>1, <2>3 DEF LoopInv, Loops, Holds, LoopTypeOK
  <2>7. BudgetInv'
    <3>1. k + 1 \in 0 .. MaxConns
      BY <2>2, ConnsOK
    <3>2. Spent(k + 1)'
      BY <1>1, <1>2, <1>4, <1>5, <2>3, <2>4 DEF Spent, LoopTypeOK
    <3>3. QED  BY <3>1, <3>2 DEF BudgetInv
  <2>8. OwnerInv'
    BY <1>2, <1>3, <2>1, <2>3 DEF OwnerInv, LinksAreOwned
  <2>9. QED  BY <2>5, <2>6, <2>7, <2>8
<1>7. CASE Noticed(c) /\ ~running
  <2>1. /\ current = c /\ c # NoConn /\ current' = NoConn /\ stage[c] \in Adopted
        /\ UNCHANGED <<attempt, stage>>
    BY <1>7, ConnsOK DEF LinkDrops, Noticed, OwnerInv
  <2>2. Connecting' = Connecting /\ Doomed' = Doomed
    BY <1>3, <2>1 DEF Connecting, Doomed, Adopted
  <2>3. LoopTypeOK'
    BY <1>2, <1>3, <2>1 DEF LoopTypeOK
  <2>4. LoopInv'
    BY <1>2, <1>4, <1>7, <2>1, <2>2 DEF LoopInv, Loops, Holds, LoopTypeOK
  <2>5. Spent(k)'
    BY <1>1, <1>2, <1>4, <1>5, <2>1, <2>2 DEF Spent, LoopTypeOK
  <2>6. OwnerInv'
    BY <1>2, <1>3, <2>1 DEF OwnerInv, LinksAreOwned
  <2>7. QED  BY <2>3, <2>4, <2>5, <2>6 DEF BudgetInv
<1>8. CASE ~Noticed(c)
  <2>1. current # c /\ UNCHANGED <<current, attempt, stage>>
    BY <1>8 DEF LinkDrops, Noticed
  <2>2. Connecting' = Connecting
    BY <2>1 DEF Connecting
  <2>3. Cardinality(Doomed') <= Cardinality(Doomed) + 1 /\ Cardinality(Doomed') \in Nat
    <3>1. CASE stage[c] = "selfInfo"
      <4>1. Doomed' = Doomed \cup {c} /\ c \notin Doomed
        BY <1>2, <1>3, <2>1, <3>1 DEF Doomed
      <4>2. Cardinality(Doomed') = Cardinality(Doomed) + 1
        BY <4>1, Counts DEF Doomed
      <4>3. QED  BY <1>4, <4>2
    <3>2. CASE stage[c] # "selfInfo"
      <4>1. Doomed' = Doomed
        BY <1>3, <2>1, <3>2 DEF Doomed
      <4>2. QED  BY <1>4, <4>1
    <3>3. QED  BY <3>1, <3>2
  <2>4. LoopTypeOK'
    BY <1>2, <1>3, <2>1 DEF LoopTypeOK
  <2>5. LoopInv'
    BY <1>2, <2>1, <2>2 DEF LoopInv, Loops, Holds
  <2>6. Spent(k)'
    BY <1>1, <1>2, <1>4, <1>5, <2>1, <2>3 DEF Spent, LoopTypeOK
  <2>7. OwnerInv'
    BY <1>2, <1>3, <2>1 DEF OwnerInv, LinksAreOwned, LoopTypeOK
  <2>8. QED  BY <2>4, <2>5, <2>6, <2>7 DEF BudgetInv
<1>9. QED  BY <1>6, <1>7, <1>8 DEF LoopTypeOK

LEMMA ThrowsStep == ASSUME RadioInv, NEW c \in Conns, ListenerThrows(c) PROVE RadioInv'
<1> USE DEF RadioInv
<1>1. PICK k \in 0 .. MaxConns : Spent(k)
  BY DEF BudgetInv
<1>2. /\ stage[c] = "query" /\ throws < MaxThrows /\ throws' = throws + 1
      /\ link' = [link EXCEPT ![c] = FALSE] /\ faults' = faults
      /\ \E n \in {0, attempt} : ScheduleRetry(n)
  BY DEF ListenerThrows, Awaits, Closed
<1>3. /\ link' \in [Conns -> BOOLEAN] /\ \A d \in Conns : d # c => link'[d] = link[d]
      /\ throws' \in 0 .. MaxThrows
  BY <1>2, RadioAssumption DEF LoopTypeOK
<1>4. /\ running' \in BOOLEAN /\ attempt' \in Nat /\ timers' \in Nat
      /\ running' => running /\ timers' = timers + 1
      /\ timers' = timers \/ timers' = timers + 1
  BY <1>2, ScheduleEffect DEF LoopTypeOK
<1>5. Cardinality(Connecting) \in Nat /\ Cardinality(Doomed) \in Nat
  BY Counts DEF Connecting, Doomed
<1>6. k # 0 /\ c <= k
  BY <1>1, <1>2 DEF Spent, Conns
<1>7. CASE link[c] /\ Noticed(c) /\ running
  <2>1. current = c /\ c # NoConn /\ current' = NoConn /\ stage' = Launch([stage EXCEPT ![c] = "over"])
    BY <1>7, ConnsOK DEF ListenerThrows, Noticed
  <2>2. k < MaxConns
    BY <1>1, <1>2, RoomLeft
  <2>3. Fresh = k + 1 /\ k + 1 \in Conns /\ stage[k + 1] = "unused" /\ c # k + 1
    BY <1>1, <1>2, <2>2, FreshIsNext, ConnsOK
  <2>4. /\ stage' \in [Conns -> Stages] /\ stage'[k + 1] = "opening" /\ stage'[c] = "over"
        /\ \A d \in Conns : d # k + 1 /\ d # c => stage'[d] = stage[d]
    BY <2>1, <2>3 DEF Launch, LoopTypeOK, Stages
  <2>5. /\ Connecting' = Connecting \cup {k + 1} /\ k + 1 \notin Connecting
        /\ Doomed' = Doomed
    BY <1>2, <1>3, <2>3, <2>4 DEF Connecting, Doomed
  <2>6. Cardinality(Connecting') = Cardinality(Connecting) + 1
    BY <2>3, <2>5, Counts DEF Connecting
  <2>7. LoopTypeOK'
    BY <1>2, <1>3, <1>4, <2>1, <2>4 DEF LoopTypeOK
  <2>8. LoopInv'
    BY <1>2, <1>4, <1>5, <2>1, <2>6 DEF LoopInv, Loops, Holds, LoopTypeOK
  <2>9. BudgetInv'
    <3>1. k + 1 \in 0 .. MaxConns
      BY <2>2, ConnsOK
    <3>2. \A d \in Conns : stage'[d] = "unused" <=> k + 1 < d
      BY <1>1, <1>6, <2>3, <2>4 DEF Spent, Conns
    <3>3. k + 1 + timers' + Cardinality(Doomed') <= 1 + faults' + 2 * throws'
      BY <1>1, <1>2, <1>4, <1>5, <1>6, <2>5 DEF Spent, LoopTypeOK
    <3>4. Spent(k + 1)'
      BY <1>6, <3>2, <3>3 DEF Spent
    <3>5. QED  BY <3>1, <3>4 DEF BudgetInv
  <2>10. OwnerInv'
    BY <1>2, <2>1 DEF OwnerInv, LinksAreOwned, LoopTypeOK
  <2>11. QED  BY <2>7, <2>8, <2>9, <2>10
<1>8. CASE ~(link[c] /\ Noticed(c) /\ running)
  <2>1. /\ stage' = [stage EXCEPT ![c] = "over"]
        /\ (current' = NoConn /\ ~running) \/ (current' = current /\ c # current)
    BY <1>8, ConnsOK DEF ListenerThrows, Noticed, OwnerInv, LinksAreOwned
  <2>2. /\ stage' \in [Conns -> Stages] /\ stage'[c] = "over"
        /\ \A d \in Conns : d # c => stage'[d] = stage[d]
    BY <2>1 DEF LoopTypeOK, Stages
  <2>3. Connecting' = Connecting /\ Doomed' = Doomed
    BY <1>2, <1>3, <2>2 DEF Connecting, Doomed
  <2>4. LoopTypeOK'
    BY <1>2, <1>3, <1>4, <2>1, <2>2 DEF LoopTypeOK
  <2>5. LoopInv'
    BY <1>2, <1>4, <1>5, <2>1, <2>3 DEF LoopInv, Loops, Holds, LoopTypeOK
  <2>6. BudgetInv'
    <3>1. \A d \in Conns : stage'[d] = "unused" <=> k < d
      BY <1>1, <1>2, <2>2 DEF Spent
    <3>2. k + timers' + Cardinality(Doomed') <= 1 + faults' + 2 * throws'
      BY <1>1, <1>2, <1>4, <1>5, <1>6, <2>3 DEF Spent, LoopTypeOK
    <3>3. Spent(k)'
      BY <1>6, <3>1, <3>2 DEF Spent
    <3>4. QED  BY <3>3 DEF BudgetInv
  <2>7. OwnerInv'
    BY <1>2, <1>3, <2>1, <2>2 DEF OwnerInv, LinksAreOwned, LoopTypeOK
  <2>8. QED  BY <2>4, <2>5, <2>6, <2>7
<1>9. QED  BY <1>7, <1>8
-----------------------------------------------------------------------------
(* The manager.                                                             *)

\* A connection that is adopted goes on, or announces itself.
LEMMA GoesOnStep ==
  ASSUME RadioInv, NEW c \in Conns,
         \/ PortFails(c) \/ SetTimeAnswered(c) \/ QueryAnswered(c)
         \/ \E behind \in BOOLEAN : TimeAnswered(c, behind)
  PROVE  RadioInv'
<1>1. UNCHANGED <<running, attempt, timers, current, link, faults, throws>>
  BY DEF PortFails, SetTimeAnswered, QueryAnswered, TimeAnswered
<1>2. /\ stage' \in [Conns -> Stages]
      /\ \A d \in Conns : stage'[d] = stage[d] \/ {stage[d], stage'[d]} \subseteq Adopted
  <2>1. CASE PortFails(c)
    BY <2>1 DEF PortFails, RadioInv, LoopTypeOK
  <2>2. CASE SetTimeAnswered(c) \/ QueryAnswered(c)
    BY <2>2 DEF SetTimeAnswered, QueryAnswered, Awaits, RadioInv, LoopTypeOK, Stages, Steps, Adopted
  <2>3. CASE \E behind \in BOOLEAN : TimeAnswered(c, behind)
    BY <2>3 DEF TimeAnswered, Awaits, RadioInv, LoopTypeOK, Stages, Steps, Adopted
  <2>4. QED  BY <2>1, <2>2, <2>3
<1>3. QED  BY <1>1, <1>2, QuietStep

LEMMA ManagerStep == RadioInv /\ [Next]_vars => RadioInv'
<1> SUFFICES ASSUME RadioInv, [Next]_vars PROVE RadioInv'
  OBVIOUS
<1>1. CASE RadioStart \/ RadioStop \/ RetryFires
  BY <1>1, StartStep, StopStep, RetryStep
<1>2. CASE Begins \/ ClientStep \/ UNCHANGED vars
  <2>1. UNCHANGED <<running, attempt, timers, current, link, faults, throws, stage>>
    BY <1>2 DEF Begins, ClientStep, ClientRuns, ClientAnswered, vars, radioVars
  <2>2. stage' \in [Conns -> Stages]
    BY <2>1 DEF RadioInv, LoopTypeOK
  <2>3. QED  BY <2>1, <2>2, QuietStep
<1>3. CASE \E c \in Conns : OwnStep(c) \/ StepAnswered(c) \/ ListenerThrows(c) \/ LinkDrops(c)
  <2> PICK c \in Conns : OwnStep(c) \/ StepAnswered(c) \/ ListenerThrows(c) \/ LinkDrops(c)
    BY <1>3
  <2>1. CASE Opened(c) \/ OpenFails(c) \/ SelfInfoFails(c) \/ SelfInfoAnswered(c)
    BY <2>1, OpenedStep, OpenFailsStep, SelfInfoFailsStep, AdoptedStep
  <2>2. CASE ListenerThrows(c) \/ LinkDrops(c)
    BY <2>2, ThrowsStep, DropsStep
  <2>3. CASE \/ PortFails(c) \/ SetTimeAnswered(c) \/ QueryAnswered(c)
             \/ \E behind \in BOOLEAN : TimeAnswered(c, behind)
    BY <2>3, GoesOnStep
  <2>4. QED  BY <2>1, <2>2, <2>3 DEF OwnStep, StepAnswered
<1>4. QED  BY <1>1, <1>2, <1>3 DEF Next

\* The inductive invariant holds in every behaviour.
THEOREM RadioInvHolds == Spec => []RadioInv
<1>1. QED  BY InitHolds, ManagerStep, PTL DEF Spec

\* A running manager is connected, connecting or waiting to retry, and more
\* than once only as often as a listener of radio.connected threw.
THEOREM NeverAsleep == Spec => []OneConnectLoop
<1>1. RadioInv => OneConnectLoop
  <2> SUFFICES ASSUME RadioInv, running PROVE \E n \in {Loops} : 1 <= n /\ n <= 1 + throws
    BY DEF OneConnectLoop, Loops, Holds
  <2>1. QED  BY DEF RadioInv, LoopInv
<1>2. QED  BY <1>1, RadioInvHolds, PTL

\* isConnected() is true of a live link only, and no open link is forgotten
\* unless a listener threw.
THEOREM NoForgottenLink == Spec => []LinksAreOwned
<1>1. RadioInv => LinksAreOwned
  BY DEF RadioInv, OwnerInv
<1>2. QED  BY <1>1, RadioInvHolds, PTL

-----------------------------------------------------------------------------
(* The queue is serial, on its own and under the radio manager.             *)

\* A command that has not been submitted is hung on the chain, perhaps while
\* the one before it settles.
LEMMA RunInOrder ==
  ASSUME ChainInv, NEW y \in Commands, cmd[y] = "idle", chain' = Append(chain, y),
         \/ cmd' = [cmd EXCEPT ![y] = "waiting"]
         \/ \E x \in Commands, outcome \in Settled :
              cmd[x] = "running" /\ cmd' = [cmd EXCEPT ![x] = outcome, ![y] = "waiting"]
  PROVE  ChainInv'
<1> USE DEF ChainInv, QueueTypeOK, Settled
<1>1. chain' \in Seq(Commands) /\ DOMAIN chain = 1 .. Len(chain) /\ Len(chain) \in Nat
      /\ DOMAIN chain' = 1 .. (Len(chain) + 1)
      /\ (\A i \in DOMAIN chain : chain'[i] = chain[i]) /\ chain'[Len(chain) + 1] = y
  OBVIOUS
<1>2. /\ cmd' \in [Commands -> {"idle", "waiting", "running"} \cup Settled]
      /\ cmd'[y] = "waiting"
      /\ \A z \in Commands : z # y => cmd'[z] = cmd[z] \/ (cmd[z] = "running" /\ cmd'[z] \in Settled)
  OBVIOUS
<1>3. \A i \in DOMAIN chain : chain[i] \in Commands /\ chain[i] # y  OBVIOUS
<1>4. QueueTypeOK'  BY <1>1, <1>2
<1>5. \A i, j \in DOMAIN chain' : i # j => chain'[i] # chain'[j]  BY <1>1, <1>3
<1>6. \A i \in DOMAIN chain' : cmd'[chain'[i]] # "idle"  BY <1>1, <1>2, <1>3
<1>7. Serial'
  <2> SUFFICES ASSUME NEW i \in DOMAIN chain', NEW j \in DOMAIN chain', i < j,
                      cmd'[chain'[i]] \notin Settled
               PROVE  cmd'[chain'[j]] = "waiting"
    BY DEF Serial
  <2>1. CASE j = Len(chain) + 1  BY <1>1, <1>2, <2>1
  <2>2. CASE j # Len(chain) + 1
    <3>1. i \in DOMAIN chain /\ j \in DOMAIN chain  BY <1>1, <2>2
    <3>2. chain'[i] = chain[i] /\ chain'[j] = chain[j]  BY <1>1, <3>1
    <3>3. cmd[chain[i]] \notin Settled  BY <1>2, <1>3, <3>1, <3>2
    <3>4. cmd[chain[j]] = "waiting"  BY <3>1, <3>3 DEF Serial
    <3>5. QED  BY <1>2, <1>3, <3>1, <3>2, <3>4
  <2>3. QED  BY <2>1, <2>2
<1>8. QED  BY <1>4, <1>5, <1>6, <1>7

\* The task at the head of what is not settled is called.
LEMMA BeginInOrder == ASSUME ChainInv, BeginNext PROVE ChainInv'
<1> USE DEF ChainInv, QueueTypeOK, Settled
<1> PICK k \in DOMAIN chain : Begin(k)  BY DEF BeginNext
<1>1. UNCHANGED chain /\ cmd' = [cmd EXCEPT ![chain[k]] = "running"]
      /\ chain[k] \in Commands /\ cmd[chain[k]] = "waiting"
  BY DEF Begin
<1>2. \A i \in DOMAIN chain : i < k => cmd[chain[i]] \in Settled
  <2> SUFFICES ASSUME NEW i \in DOMAIN chain, i < k PROVE cmd[chain[i]] \in Settled
    OBVIOUS
  <2>1. k > 1 /\ k - 1 \in DOMAIN chain /\ cmd[chain[k - 1]] \in Settled
    BY DEF Begin, Ready
  <2>2. QED  BY <2>1 DEF Serial
<1>3. Serial'  BY <1>1, <1>2 DEF Serial
<1>4. QED  BY <1>1, <1>3

\* A task settles, or a command is rejected before it is submitted.
LEMMA SettleInOrder ==
  ASSUME ChainInv, NEW x \in Commands, NEW outcome \in Settled,
         cmd[x] \in {"running", "idle"}, Settle(x, outcome)
  PROVE  ChainInv'
<1> USE DEF ChainInv, QueueTypeOK, Settled
<1>1. UNCHANGED chain /\ cmd' = [cmd EXCEPT ![x] = outcome]  BY DEF Settle
<1>2. Serial'
  <2> SUFFICES ASSUME NEW i \in DOMAIN chain, NEW j \in DOMAIN chain, i < j,
                      cmd'[chain[i]] \notin Settled
               PROVE  cmd'[chain[j]] = "waiting"
    BY <1>1 DEF Serial
  <2>1. chain[i] # x /\ chain[i] \in Commands /\ chain[j] \in Commands  BY <1>1
  <2>2. cmd[chain[j]] = "waiting"  BY <1>1, <2>1 DEF Serial
  <2>3. QED  BY <1>1, <2>1, <2>2
<1>3. QED  BY <1>1, <1>2

LEMMA ChainStarts == QueueInit => ChainInv
BY DEF QueueInit, ChainInv, QueueTypeOK, Serial

\* Nothing begins before every earlier command is settled: the queue of
\* command-queue.js is strictly serial, for any callers that call once.
THEOREM QueueIsSerial == QueueSpec => []Serial
<1>1. ChainInv /\ [QueueNext]_queueVars => ChainInv'
  <2> SUFFICES ASSUME ChainInv, [QueueNext]_queueVars PROVE ChainInv'  OBVIOUS
  <2>1. CASE UNCHANGED queueVars  BY <2>1 DEF queueVars, Serial, ChainInv, QueueTypeOK
  <2>2. CASE Call
    <3> PICK x \in Commands : cmd[x] = "idle" /\ Run(x)  BY <2>2 DEF Call
    <3>1. QED  BY RunInOrder DEF Run
  <2>3. CASE BeginNext  BY <2>3, BeginInOrder
  <2>4. CASE Answer  BY <2>4, SettleInOrder DEF Answer
  <2>5. QED  BY <2>1, <2>2, <2>3, <2>4 DEF QueueNext
<1>2. ChainInv => Serial  BY DEF ChainInv
<1>3. QED  BY <1>1, <1>2, ChainStarts, PTL DEF QueueSpec

\* The commands of the handshake after its step.
After(step) ==
  CASE step = "selfInfo" -> Steps \ {"selfInfo"}
    [] step = "time" -> {"setTime", "query"}
    [] step = "setTime" -> {"query"}
    [] step = "query" -> {}
    [] step = "over" -> {}
    [] OTHER -> Steps

\* A connection has not submitted what its handshake has yet to come to.
HandshakeInOrder ==
  \A c \in Conns : \A step \in After(stage[c]) : cmd[<<c, step>>] = "idle"

QueueInv == ChainInv /\ HandshakeInOrder

LEMMA AfterStages ==
  /\ After("unused") = Steps /\ After("opening") = Steps
  /\ After("selfInfo") = {"time", "setTime", "query"} /\ After("time") = {"setTime", "query"}
  /\ After("setTime") = {"query"} /\ After("query") = {} /\ After("over") = {}
  /\ \A step : After(step) \subseteq Steps
<1>1. After("unused") = Steps /\ After("opening") = Steps  BY DEF After
<1>2. After("selfInfo") = {"time", "setTime", "query"}  BY DEF After, Steps
<1>3. After("time") = {"setTime", "query"} /\ After("setTime") = {"query"}  BY DEF After
<1>4. After("query") = {} /\ After("over") = {}  BY DEF After
<1>5. \A step : After(step) \subseteq Steps
  <2> TAKE step
  <2>1. CASE step \in {"selfInfo", "time", "setTime", "query", "over"}
    BY <1>2, <1>3, <1>4, <2>1 DEF Steps
  <2>2. CASE step \notin {"selfInfo", "time", "setTime", "query", "over"}
    BY <2>2 DEF After
  <2>3. QED  BY <2>1, <2>2
<1>6. QED  BY <1>1, <1>2, <1>3, <1>4, <1>5

\* The connection that a launch takes has submitted nothing.
LEMMA FreshIsIdle ==
  ASSUME RadioInv,
         timers > 0 \/ faults < MaxFaults \/ throws < MaxThrows \/ stage[1] = "unused"
  PROVE  Fresh \in Conns /\ stage[Fresh] = "unused"
<1>1. PICK k \in 0 .. MaxConns : Spent(k)  BY DEF RadioInv, BudgetInv
<1>2. k < MaxConns
  <2>1. CASE stage[1] = "unused"
    <3>1. 1 \in Conns  BY ConnsOK DEF Conns
    <3>2. k < 1  BY <1>1, <2>1, <3>1 DEF Spent
    <3>3. QED  BY <3>2, ConnsOK
  <2>2. CASE stage[1] # "unused"  BY <1>1, <2>2, RoomLeft DEF RadioInv
  <2>3. QED  BY <2>1, <2>2
<1>3. QED  BY <1>1, <1>2, FreshIsNext

\* No connection goes back, and none has the commands it has yet to come to
\* touched.
LEMMA QueueMoves ==
  ASSUME QueueInv, ChainInv',
         \A d \in Conns : \A step \in After(stage'[d]) :
           step \in After(stage[d]) /\ cmd'[<<d, step>>] = cmd[<<d, step>>]
  PROVE  QueueInv'
<1>1. HandshakeInOrder'
  <2> SUFFICES ASSUME NEW d \in Conns, NEW step \in After(stage'[d]) PROVE cmd'[<<d, step>>] = "idle"
    BY DEF HandshakeInOrder, After
  <2>1. QED  BY DEF QueueInv, HandshakeInOrder
<1>2. QED  BY <1>1 DEF QueueInv

\* Steps that touch no command.
LEMMA QueueQuiet ==
  ASSUME QueueInv, UNCHANGED queueVars,
         \A d \in Conns : After(stage'[d]) \subseteq After(stage[d])
  PROVE  QueueInv'
<1>1. cmd' = cmd /\ chain' = chain  BY DEF queueVars
<1>2. ChainInv'  BY <1>1 DEF QueueInv, ChainInv, QueueTypeOK, Serial
<1>3. \A d \in Conns : \A step \in After(stage'[d]) :
        step \in After(stage[d]) /\ cmd'[<<d, step>>] = cmd[<<d, step>>]
  BY <1>1
<1>4. QED  BY <1>2, <1>3, QueueMoves

\* A launch is no step back either.
LEMMA LaunchIsIdle ==
  ASSUME stage \in [Conns -> Stages], Fresh \in Conns, stage[Fresh] = "unused", stage' = Launch(stage)
  PROVE  \A d \in Conns : After(stage'[d]) \subseteq After(stage[d])
<1>1. \A d \in Conns : stage'[d] = IF d = Fresh THEN "opening" ELSE stage[d]
  <2> DEFINE f == Fresh
  <2>1. stage' = [stage EXCEPT ![f] = "opening"]  BY DEF Launch
  <2> HIDE DEF f
  <2>2. \A d \in Conns : stage'[d] = IF d = f THEN "opening" ELSE stage[d]  BY <2>1
  <2>3. QED  BY <2>2 DEF f
<1>2. After(stage[Fresh]) = After("opening")  BY AfterStages
<1>3. QED  BY <1>1, <1>2

\* A handshake settles its command and goes on to submit a later one.
LEMMA HandshakeGoesOn ==
  ASSUME RadioInv, QueueInv, NEW c \in Conns, NEW step \in Steps, NEW next \in After(step),
         NEW outcome \in Settled, Awaits(c, step), stage' = [stage EXCEPT ![c] = next],
         SettleAndRun(<<c, step>>, outcome, <<c, next>>),
         After(next) \subseteq After(step), next \notin After(next), step \notin After(next)
  PROVE  QueueInv'
<1> DEFINE x == <<c, step>>
           y == <<c, next>>
<1>1. x \in Commands /\ y \in Commands
  BY RadioAssumption, AfterStages DEF RadioCommands
<1>2. stage[c] = step /\ cmd[x] = "running"  BY DEF Awaits
<1>3. cmd[y] = "idle"  BY <1>2 DEF QueueInv, HandshakeInOrder
<1>4. cmd' = [cmd EXCEPT ![x] = outcome, ![y] = "waiting"] /\ chain' = Append(chain, y)
  BY DEF SettleAndRun
<1>5. ChainInv'
  <2> HIDE DEF x, y
  <2>1. QED  BY <1>1, <1>2, <1>3, <1>4, RunInOrder DEF QueueInv
<1>6. cmd \in [Commands -> {"idle", "waiting", "running"} \cup Settled]
      /\ stage \in [Conns -> Stages]
  BY DEF QueueInv, ChainInv, QueueTypeOK, RadioInv, LoopTypeOK
<1>7. ASSUME NEW d \in Conns, NEW later \in After(stage'[d])
      PROVE  later \in After(stage[d]) /\ cmd'[<<d, later>>] = cmd[<<d, later>>]
  <2>1. stage'[d] = IF d = c THEN next ELSE stage[d]  BY <1>6
  <2>2. later \in After(stage[d])  BY <1>2, <1>7, <2>1
  <2>3. <<d, later>> \in Commands  BY <1>7, RadioAssumption, AfterStages DEF RadioCommands
  <2>4. <<d, later>> # x /\ <<d, later>> # y  BY <1>7, <2>1
  <2> HIDE DEF x, y
  <2>5. cmd'[<<d, later>>] = cmd[<<d, later>>]  BY <1>4, <1>6, <2>3, <2>4
  <2>6. QED  BY <2>2, <2>5
<1>8. QED  BY <1>5, <1>7, QueueMoves

\* A handshake settles its command and is over; a launch may follow.
LEMMA HandshakeEnds ==
  ASSUME RadioInv, QueueInv, NEW c \in Conns, NEW step \in Steps, NEW outcome \in Settled,
         Awaits(c, step), Settle(<<c, step>>, outcome),
         \A d \in Conns : After(stage'[d]) \subseteq IF d = c THEN {} ELSE After(stage[d])
  PROVE  QueueInv'
<1> DEFINE x == <<c, step>>
<1>1. x \in Commands  BY RadioAssumption DEF RadioCommands
<1>2. cmd[x] = "running"  BY DEF Awaits
<1>3. ChainInv'
  <2> HIDE DEF x
  <2>1. Settle(x, outcome)  BY DEF x
  <2>2. QED  BY <1>1, <1>2, <2>1, SettleInOrder DEF QueueInv
<1>4. cmd' = [cmd EXCEPT ![x] = outcome]  BY DEF Settle
<1>5. cmd \in [Commands -> {"idle", "waiting", "running"} \cup Settled]
  BY DEF QueueInv, ChainInv, QueueTypeOK
<1>6. ASSUME NEW d \in Conns, NEW later \in After(stage'[d])
      PROVE  later \in After(stage[d]) /\ cmd'[<<d, later>>] = cmd[<<d, later>>]
  <2>1. d # c /\ later \in After(stage[d])  BY <1>6
  <2>2. <<d, later>> \in Commands  BY <1>6, RadioAssumption, AfterStages DEF RadioCommands
  <2>3. <<d, later>> # x  BY <2>1
  <2> HIDE DEF x
  <2>4. cmd'[<<d, later>>] = cmd[<<d, later>>]  BY <1>4, <1>5, <2>2, <2>3
  <2>5. QED  BY <2>1, <2>4
<1>7. QED  BY <1>3, <1>6, QueueMoves

LEMMA OpenedInOrder ==
  ASSUME RadioInv, QueueInv, NEW c \in Conns, Opened(c) PROVE QueueInv'
<1> DEFINE x == <<c, "selfInfo">>
<1>1. x \in Commands  BY RadioAssumption DEF RadioCommands, Steps
<1>2. stage[c] = "opening" /\ stage' = [stage EXCEPT ![c] = "selfInfo"]
      /\ cmd' = [cmd EXCEPT ![x] = "waiting"] /\ chain' = Append(chain, x)
  BY DEF Opened, Run
<1>3. cmd[x] = "idle"  BY <1>2, AfterStages DEF QueueInv, HandshakeInOrder, Steps
<1>4. ChainInv'
  <2> HIDE DEF x
  <2>1. QED  BY <1>1, <1>2, <1>3, RunInOrder DEF QueueInv
<1>5. cmd \in [Commands -> {"idle", "waiting", "running"} \cup Settled]
      /\ stage \in [Conns -> Stages]
  BY DEF QueueInv, ChainInv, QueueTypeOK, RadioInv, LoopTypeOK
<1>6. ASSUME NEW d \in Conns, NEW later \in After(stage'[d])
      PROVE  later \in After(stage[d]) /\ cmd'[<<d, later>>] = cmd[<<d, later>>]
  <2>1. stage'[d] = IF d = c THEN "selfInfo" ELSE stage[d]  BY <1>2, <1>5
  <2>2. later \in After(stage[d])  BY <1>2, <1>6, <2>1, AfterStages
  <2>3. <<d, later>> \in Commands  BY <1>6, RadioAssumption, AfterStages DEF RadioCommands
  <2>4. <<d, later>> # x  BY <1>6, <2>1, AfterStages
  <2> HIDE DEF x
  <2>5. cmd'[<<d, later>>] = cmd[<<d, later>>]  BY <1>2, <1>5, <2>3, <2>4
  <2>6. QED  BY <2>2, <2>5
<1>7. QED  BY <1>4, <1>6, QueueMoves

LEMMA SelfInfoInOrder ==
  ASSUME RadioInv, QueueInv, NEW c \in Conns, SelfInfoAnswered(c) \/ SelfInfoFails(c) PROVE QueueInv'
<1>1. Awaits(c, "selfInfo") /\ "selfInfo" \in Steps  BY DEF SelfInfoAnswered, SelfInfoFails, Steps
<1>2. stage \in [Conns -> Stages]  BY DEF RadioInv, LoopTypeOK
<1>3. CASE SelfInfoAnswered(c) /\ running
  <2>1. stage' = [stage EXCEPT ![c] = "time"] /\ SettleAndRun(<<c, "selfInfo">>, "ok", <<c, "time">>)
    BY <1>3 DEF SelfInfoAnswered
  <2>2. "time" \in After("selfInfo") /\ After("time") \subseteq After("selfInfo")
        /\ "time" \notin After("time") /\ "selfInfo" \notin After("time") /\ "ok" \in Settled
    BY AfterStages DEF Settled
  <2>3. QED  BY <1>1, <2>1, <2>2, HandshakeGoesOn
<1>4. CASE SelfInfoFails(c) \/ ~running
  <2>1. stage' = [stage EXCEPT ![c] = "over"]
        /\ \E outcome \in Settled : Settle(<<c, "selfInfo">>, outcome)
    BY <1>4 DEF SelfInfoAnswered, SelfInfoFails, Settled
  <2>2. \A d \in Conns : After(stage'[d]) \subseteq IF d = c THEN {} ELSE After(stage[d])
    BY <1>2, <2>1, AfterStages
  <2>3. QED  BY <1>1, <2>1, <2>2, HandshakeEnds
<1>5. QED  BY <1>3, <1>4

LEMMA ClockInOrder ==
  ASSUME RadioInv, QueueInv, NEW c \in Conns,
         (\E behind \in BOOLEAN : TimeAnswered(c, behind)) \/ SetTimeAnswered(c)
  PROVE  QueueInv'
<1>1. "time" \in Steps /\ "setTime" \in Steps  BY DEF Steps
<1>2. CASE \E behind \in BOOLEAN : TimeAnswered(c, behind)
  <2>1. PICK next \in {"setTime", "query"}, outcome \in Settled :
          /\ stage' = [stage EXCEPT ![c] = next]
          /\ SettleAndRun(<<c, "time">>, outcome, <<c, next>>)
    BY <1>2 DEF TimeAnswered, Settled
  <2>2. Awaits(c, "time")  BY <1>2 DEF TimeAnswered
  <2>3. next \in After("time") /\ After(next) \subseteq After("time")
        /\ next \notin After(next) /\ "time" \notin After(next)
    BY <2>1, AfterStages
  <2>4. QED  BY <1>1, <2>1, <2>2, <2>3, HandshakeGoesOn
<1>3. CASE SetTimeAnswered(c)
  <2>1. PICK outcome \in Settled :
          /\ stage' = [stage EXCEPT ![c] = "query"]
          /\ SettleAndRun(<<c, "setTime">>, outcome, <<c, "query">>)
    BY <1>3 DEF SetTimeAnswered, Settled
  <2>2. Awaits(c, "setTime")  BY <1>3 DEF SetTimeAnswered
  <2>3. "query" \in After("setTime") /\ After("query") \subseteq After("setTime")
        /\ "query" \notin After("query") /\ "setTime" \notin After("query")
    BY AfterStages
  <2>4. QED  BY <1>1, <2>1, <2>2, <2>3, HandshakeGoesOn
<1>4. QED  BY <1>2, <1>3

LEMMA QueryInOrder ==
  ASSUME RadioInv, QueueInv, NEW c \in Conns, QueryAnswered(c) \/ ListenerThrows(c) PROVE QueueInv'
<1>1. Awaits(c, "query") /\ "query" \in Steps  BY DEF QueryAnswered, ListenerThrows, Steps
<1>2. PICK outcome \in Settled : Settle(<<c, "query">>, outcome)
  BY DEF QueryAnswered, ListenerThrows, Settled
<1>3. stage \in [Conns -> Stages]  BY DEF RadioInv, LoopTypeOK
<1> DEFINE ended == [stage EXCEPT ![c] = "over"]
<1>4. stage' = ended \/ (stage' = Launch(ended) /\ ListenerThrows(c))
  BY DEF QueryAnswered, ListenerThrows
<1>5. \A d \in Conns : ended[d] = IF d = c THEN "over" ELSE stage[d]  BY <1>3
<1>6. DOMAIN ended = Conns  BY <1>3
<1> HIDE DEF ended
<1>7. \A d \in Conns : After(stage'[d]) \subseteq IF d = c THEN {} ELSE After(stage[d])
  <2>1. CASE stage' = ended  BY <1>5, <2>1, AfterStages
  <2>2. CASE stage' = Launch(ended) /\ ListenerThrows(c)
    <3> DEFINE f == Fresh
    <3>1. throws < MaxThrows  BY <2>2 DEF ListenerThrows
    <3>2. f \in Conns /\ stage[f] = "unused"  BY <3>1, FreshIsIdle
    <3>3. f # c  BY <1>1, <3>2 DEF Awaits
    <3>4. stage' = [ended EXCEPT ![f] = "opening"]  BY <2>2 DEF Launch
    <3> HIDE DEF f
    <3>5. \A d \in Conns : stage'[d] = IF d = f THEN "opening" ELSE ended[d]  BY <1>6, <3>4
    <3>6. After("opening") = After("unused")  BY AfterStages
    <3>7. \A d \in Conns : d = f => After(stage'[d]) = After(stage[d])  BY <3>2, <3>5, <3>6
    <3>8. \A d \in Conns : d # f /\ d # c => After(stage'[d]) = After(stage[d])  BY <1>5, <3>5
    <3>9. After(stage'[c]) = {}  BY <1>5, <3>3, <3>5, AfterStages
    <3>10. QED  BY <3>3, <3>7, <3>8, <3>9
  <2>3. QED  BY <1>4, <2>1, <2>2
<1>8. QED  BY <1>1, <1>2, <1>7, HandshakeEnds

\* A client's command is none of the handshake's.
LEMMA ClientInOrder ==
  ASSUME RadioInv, QueueInv, ClientStep PROVE QueueInv'
<1>1. PICK u \in Clients : ClientRuns(u) \/ \E outcome \in Settled : ClientAnswered(u, outcome)
  BY DEF ClientStep
<1>2. u \in Commands /\ \A d \in Conns, step \in Steps : <<d, step>> \in Commands /\ <<d, step>> # u
  BY RadioAssumption DEF RadioCommands
<1>3. stage' = stage  BY <1>1 DEF ClientRuns, ClientAnswered, radioVars
<1>4. cmd[u] \in {"running", "idle"}  BY <1>1 DEF ClientRuns, ClientAnswered
<1>5. CASE \E outcome \in Settled : Settle(u, outcome)
  <2>1. ChainInv'  BY <1>2, <1>4, <1>5, SettleInOrder DEF QueueInv
  <2>2. \A d \in Conns, step \in Steps : cmd'[<<d, step>>] = cmd[<<d, step>>]
    BY <1>2, <1>5 DEF Settle, QueueInv, ChainInv, QueueTypeOK
  <2>3. QED  BY <1>3, <2>1, <2>2, AfterStages, QueueMoves
<1>6. CASE cmd[u] = "idle" /\ Run(u)
  <2>1. cmd' = [cmd EXCEPT ![u] = "waiting"] /\ chain' = Append(chain, u)  BY <1>6 DEF Run
  <2>2. ChainInv'  BY <1>2, <1>6, <2>1, RunInOrder DEF QueueInv
  <2>3. \A d \in Conns, step \in Steps : cmd'[<<d, step>>] = cmd[<<d, step>>]
    BY <1>2, <2>1 DEF QueueInv, ChainInv, QueueTypeOK
  <2>4. QED  BY <1>3, <2>2, <2>3, AfterStages, QueueMoves
<1>7. QED  BY <1>1, <1>5, <1>6 DEF ClientRuns, ClientAnswered, Settled

LEMMA BeginsInOrder == ASSUME QueueInv, Begins PROVE QueueInv'
<1>1. stage' = stage /\ BeginNext  BY DEF Begins, radioVars
<1>2. ChainInv'  BY <1>1, BeginInOrder DEF QueueInv
<1>3. \A d \in Conns, step \in Steps : cmd[<<d, step>>] = "idle" => cmd'[<<d, step>>] = cmd[<<d, step>>]
  <2> PICK k \in DOMAIN chain : Begin(k)  BY <1>1 DEF BeginNext
  <2>1. cmd' = [cmd EXCEPT ![chain[k]] = "running"] /\ cmd[chain[k]] = "waiting"  BY DEF Begin
  <2>2. \A d \in Conns, step \in Steps : <<d, step>> \in Commands  BY RadioAssumption DEF RadioCommands
  <2>3. cmd \in [Commands -> {"idle", "waiting", "running"} \cup Settled]
    BY DEF QueueInv, ChainInv, QueueTypeOK
  <2>4. QED  BY <2>1, <2>2, <2>3
<1>4. \A d \in Conns : \A step \in After(stage[d]) : cmd[<<d, step>>] = "idle" /\ step \in Steps
  BY AfterStages DEF QueueInv, HandshakeInOrder
<1>5. \A d \in Conns : \A step \in After(stage'[d]) :
        step \in After(stage[d]) /\ cmd'[<<d, step>>] = cmd[<<d, step>>]
  BY <1>1, <1>3, <1>4
<1>6. QED  BY <1>2, <1>5, QueueMoves

LEMMA QueueStep == ASSUME RadioInv, QueueInv, [Next]_vars PROVE QueueInv'
<1>0. stage \in [Conns -> Stages]  BY DEF RadioInv, LoopTypeOK
<1>1. ASSUME UNCHANGED queueVars, stage' = stage PROVE QueueInv'
  BY <1>1, QueueQuiet
<1>2. ASSUME UNCHANGED queueVars, stage' = Launch(stage),
             timers > 0 \/ faults < MaxFaults \/ stage[1] = "unused"
      PROVE  QueueInv'
  <2>1. Fresh \in Conns /\ stage[Fresh] = "unused"  BY <1>2, FreshIsIdle
  <2>2. \A d \in Conns : After(stage'[d]) \subseteq After(stage[d])
    BY <1>0, <1>2, <2>1, LaunchIsIdle
  <2>3. QED  BY <1>2, <2>2, QueueQuiet
<1>3. CASE RadioStart \/ RadioStop \/ UNCHANGED vars
  BY <1>1, <1>2, <1>3 DEF RadioStart, RadioStop, vars, radioVars
<1>4. CASE RetryFires  BY <1>1, <1>2, <1>4 DEF RetryFires, RetryDue
<1>5. CASE Begins  BY <1>5, BeginsInOrder
<1>6. CASE ClientStep  BY <1>6, ClientInOrder
<1>7. CASE \E c \in Conns : OwnStep(c) \/ StepAnswered(c) \/ ListenerThrows(c) \/ LinkDrops(c)
  <2> PICK c \in Conns : OwnStep(c) \/ StepAnswered(c) \/ ListenerThrows(c) \/ LinkDrops(c)
    BY <1>7
  <2>1. CASE Opened(c)  BY <2>1, OpenedInOrder
  <2>2. CASE PortFails(c)  BY <1>1, <2>2 DEF PortFails
  <2>3. CASE OpenFails(c)
    <3>1. stage' = [stage EXCEPT ![c] = "over"] /\ UNCHANGED queueVars  BY <2>3 DEF OpenFails
    <3>2. \A d \in Conns : After(stage'[d]) \subseteq After(stage[d])  BY <1>0, <3>1, AfterStages
    <3>3. QED  BY <3>1, <3>2, QueueQuiet
  <2>4. CASE SelfInfoAnswered(c) \/ SelfInfoFails(c)  BY <2>4, SelfInfoInOrder
  <2>5. CASE (\E behind \in BOOLEAN : TimeAnswered(c, behind)) \/ SetTimeAnswered(c)
    BY <2>5, ClockInOrder
  <2>6. CASE QueryAnswered(c) \/ ListenerThrows(c)  BY <2>6, QueryInOrder
  <2>7. CASE LinkDrops(c)
    <3>1. UNCHANGED queueVars /\ (stage' = stage \/ stage' = Launch(stage))  BY <2>7 DEF LinkDrops
    <3>2. faults < MaxFaults
      <4>1. faults' = faults + 1 /\ faults' <= MaxFaults  BY <2>7 DEF LinkDrops, Fault
      <4>2. faults \in Nat /\ MaxFaults \in Nat  BY RadioAssumption DEF RadioInv, LoopTypeOK
      <4>3. QED  BY <4>1, <4>2
    <3>3. QED  BY <1>1, <1>2, <3>1, <3>2
  <2>8. QED  BY <2>1, <2>2, <2>3, <2>4, <2>5, <2>6, <2>7 DEF OwnStep, StepAnswered
<1>8. QED  BY <1>3, <1>4, <1>5, <1>6, <1>7 DEF Next

LEMMA QueueIsSafe == Spec => []QueueInv
<1>1. Init => QueueInv
  <2> SUFFICES ASSUME Init PROVE QueueInv  OBVIOUS
  <2>1. ChainInv  BY ChainStarts DEF Init
  <2>2. \A d \in Conns, step \in Steps : cmd[<<d, step>>] = "idle"
    BY RadioAssumption DEF Init, QueueInit, RadioCommands
  <2>3. QED  BY <2>1, <2>2, AfterStages DEF QueueInv, HandshakeInOrder
<1>2. RadioInv /\ QueueInv /\ [Next]_vars => QueueInv'  BY QueueStep
<1>3. QED  BY <1>1, <1>2, RadioInvHolds, PTL DEF Spec

\* However connections come and go, and whichever coroutine of #attemptConnect
\* is still about, the device has one command at a time, in the order in which
\* they were submitted.
THEOREM RadioIsSerial == Spec => []Serial
<1>1. QueueInv => Serial  BY DEF QueueInv, ChainInv
<1>2. QED  BY <1>1, QueueIsSafe, PTL

-----------------------------------------------------------------------------
(* What the commands of the clients are bound to.                           *)

\* A client's command that is on the chain belongs to a connection.
ClientsAreBound ==
  \A u \in Clients : cmd[u] \in {"waiting", "running"} => boundTo[u] \in Conns

BindingInv ==
  /\ announced \in BOOLEAN /\ port \in [Conns -> 1 .. NumPorts]
  /\ boundTo \in [Clients -> Conns \cup {NoConn}]
  /\ ClientsAreBound

\* The handshakes touch no command of a client.
LEMMA ClientsApart ==
  ASSUME QueueTypeOK, NEW c \in Conns, NEW a \in Steps, NEW b \in Steps, NEW o,
         \/ cmd' = [cmd EXCEPT ![<<c, a>>] = o]
         \/ cmd' = [cmd EXCEPT ![<<c, a>>] = o, ![<<c, b>>] = "waiting"]
  PROVE  \A u \in Clients : cmd'[u] = cmd[u]
<1> TAKE u \in Clients
<1>1. u # <<c, a>> /\ u # <<c, b>>  BY RadioAssumption
<1>2. u \in Commands  BY RadioAssumption DEF RadioCommands
<1>3. QED  BY <1>1, <1>2 DEF QueueTypeOK

\* Steps that bind nothing.
LEMMA NothingIsBound ==
  ASSUME BindingInv, announced' \in BOOLEAN, port' \in [Conns -> 1 .. NumPorts], boundTo' = boundTo,
         \A u \in Clients : cmd'[u] = cmd[u]
  PROVE  BindingInv'
BY DEF BindingInv, ClientsAreBound

LEMMA OwnStepBinds ==
  ASSUME QueueTypeOK, BindingInv, NEW c \in Conns,
         OwnStep(c) \/ StepAnswered(c) \/ ListenerThrows(c) \/ LinkDrops(c)
  PROVE  BindingInv'
<1>1. {"selfInfo", "time", "setTime", "query"} \subseteq Steps  BY DEF Steps
<1>2. announced \in BOOLEAN /\ port \in [Conns -> 1 .. NumPorts] /\ 1 \in 1 .. NumPorts
  BY RadioAssumption DEF BindingInv
<1>3. CASE Opened(c)
  <2>1. cmd' = [cmd EXCEPT ![<<c, "selfInfo">>] = "waiting"]  BY <1>3 DEF Opened, Run
  <2>2. \A u \in Clients : cmd'[u] = cmd[u]  BY <1>1, <2>1, ClientsApart
  <2>3. port' = [port EXCEPT ![c] = 1] /\ UNCHANGED <<announced, boundTo>>  BY <1>3 DEF Opened
  <2>4. port' \in [Conns -> 1 .. NumPorts]  BY <1>2, <2>3
  <2>5. QED  BY <1>2, <2>2, <2>3, <2>4, NothingIsBound
<1>4. CASE PortFails(c)
  <2>1. /\ port[c] < NumPorts /\ port' = [port EXCEPT ![c] = @ + 1]
        /\ UNCHANGED <<announced, boundTo, cmd>>
    BY <1>4 DEF PortFails, queueVars
  <2>2. port[c] + 1 \in 1 .. NumPorts
    <3>1. port[c] \in 1 .. NumPorts /\ NumPorts \in Nat  BY <1>2, RadioAssumption
    <3>2. QED  BY <2>1, <3>1
  <2>3. port' \in [Conns -> 1 .. NumPorts]  BY <1>2, <2>1, <2>2
  <2>4. QED  BY <1>2, <2>1, <2>3, NothingIsBound
<1>5. CASE OpenFails(c)
  <2>1. port' = [port EXCEPT ![c] = 1] /\ UNCHANGED <<announced, boundTo, cmd>>
    BY <1>5 DEF OpenFails, queueVars
  <2>2. port' \in [Conns -> 1 .. NumPorts]  BY <1>2, <2>1
  <2>3. QED  BY <1>2, <2>1, <2>2, NothingIsBound
<1>6. CASE SelfInfoAnswered(c)
  <2>1. \/ cmd' = [cmd EXCEPT ![<<c, "selfInfo">>] = "ok"]
        \/ cmd' = [cmd EXCEPT ![<<c, "selfInfo">>] = "ok", ![<<c, "time">>] = "waiting"]
    BY <1>6 DEF SelfInfoAnswered, Settle, SettleAndRun
  <2>2. \A u \in Clients : cmd'[u] = cmd[u]  BY <1>1, <2>1, ClientsApart
  <2>3. UNCHANGED <<port, announced, boundTo>>  BY <1>6 DEF SelfInfoAnswered
  <2>4. QED  BY <1>2, <2>2, <2>3, NothingIsBound
<1>7. CASE SelfInfoFails(c)
  <2>1. cmd' = [cmd EXCEPT ![<<c, "selfInfo">>] = "err"]  BY <1>7 DEF SelfInfoFails, Settle
  <2>2. \A u \in Clients : cmd'[u] = cmd[u]  BY <1>1, <2>1, ClientsApart
  <2>3. UNCHANGED <<port, announced, boundTo>>  BY <1>7 DEF SelfInfoFails
  <2>4. QED  BY <1>2, <2>2, <2>3, NothingIsBound
<1>8. ASSUME NEW behind \in BOOLEAN, TimeAnswered(c, behind)
      PROVE  BindingInv'
  <2>1. PICK next \in {IF behind THEN "setTime" ELSE "query"} :
          SettleAndRun(<<c, "time">>, IF link[c] THEN "ok" ELSE "err", <<c, next>>)
    BY <1>8 DEF TimeAnswered
  <2>2. PICK o : cmd' = [cmd EXCEPT ![<<c, "time">>] = o, ![<<c, next>>] = "waiting"]
    BY <2>1 DEF SettleAndRun
  <2>3. next \in Steps  BY <1>1
  <2>4. \A u \in Clients : cmd'[u] = cmd[u]  BY <1>1, <2>2, <2>3, ClientsApart
  <2>5. UNCHANGED <<port, announced, boundTo>>  BY <1>8 DEF TimeAnswered
  <2>6. QED  BY <1>2, <2>4, <2>5, NothingIsBound
<1>9. CASE SetTimeAnswered(c)
  <2>1. PICK o : cmd' = [cmd EXCEPT ![<<c, "setTime">>] = o, ![<<c, "query">>] = "waiting"]
    BY <1>9 DEF SetTimeAnswered, SettleAndRun
  <2>2. \A u \in Clients : cmd'[u] = cmd[u]  BY <1>1, <2>1, ClientsApart
  <2>3. UNCHANGED <<port, announced, boundTo>>  BY <1>9 DEF SetTimeAnswered
  <2>4. QED  BY <1>2, <2>2, <2>3, NothingIsBound
<1>10. CASE QueryAnswered(c) \/ ListenerThrows(c)
  <2>1. PICK o : cmd' = [cmd EXCEPT ![<<c, "query">>] = o]
    BY <1>10 DEF QueryAnswered, ListenerThrows, Settle
  <2>2. \A u \in Clients : cmd'[u] = cmd[u]  BY <1>1, <2>1, ClientsApart
  <2>3. UNCHANGED <<port, boundTo>> /\ announced' \in BOOLEAN
    BY <1>10 DEF QueryAnswered, ListenerThrows
  <2>4. QED  BY <1>2, <2>2, <2>3, NothingIsBound
<1>11. CASE LinkDrops(c)
  <2>1. UNCHANGED <<port, boundTo, cmd>> /\ (announced' = announced \/ announced' = FALSE)
    BY <1>11 DEF LinkDrops, queueVars
  <2>2. QED  BY <1>2, <2>1, NothingIsBound
<1>12. QED
  BY <1>3, <1>4, <1>5, <1>6, <1>7, <1>8, <1>9, <1>10, <1>11 DEF OwnStep, StepAnswered

LEMMA ClientBinds ==
  ASSUME RadioInv, QueueTypeOK, BindingInv, ClientStep
  PROVE  BindingInv'
<1> PICK u \in Clients : ClientRuns(u) \/ \E outcome \in Settled : ClientAnswered(u, outcome)
  BY DEF ClientStep
<1>1. u \in Commands /\ \A v \in Clients : v \in Commands  BY RadioAssumption DEF RadioCommands
<1>2. cmd \in [Commands -> {"idle", "waiting", "running"} \cup Settled]  BY DEF QueueTypeOK
<1>3. current \in Conns \cup {NoConn}  BY DEF RadioInv, LoopTypeOK
<1>4. CASE ClientRuns(u) /\ current # NoConn
  <2>1. /\ cmd' = [cmd EXCEPT ![u] = "waiting"] /\ boundTo' = [boundTo EXCEPT ![u] = current]
        /\ UNCHANGED <<announced, port>>
    BY <1>4 DEF ClientRuns, Run
  <2>2. current \in Conns  BY <1>3, <1>4
  <2>3. \A v \in Clients : cmd'[v] \in {"waiting", "running"} => boundTo'[v] \in Conns
    BY <1>1, <1>2, <2>1, <2>2 DEF BindingInv, ClientsAreBound
  <2>4. boundTo' \in [Clients -> Conns \cup {NoConn}]  BY <2>1, <2>2 DEF BindingInv
  <2>5. QED  BY <2>1, <2>3, <2>4 DEF BindingInv, ClientsAreBound
<1>5. CASE (ClientRuns(u) /\ current = NoConn) \/ \E outcome \in Settled : ClientAnswered(u, outcome)
  <2>1. PICK outcome \in Settled : cmd' = [cmd EXCEPT ![u] = outcome]
    BY <1>5 DEF ClientRuns, ClientAnswered, Settle, Settled
  <2>2. UNCHANGED <<announced, port, boundTo>>
    BY <1>5 DEF ClientRuns, ClientAnswered, radioVars
  <2>3. \A v \in Clients : cmd'[v] \in {"waiting", "running"} => cmd'[v] = cmd[v]
    BY <1>1, <1>2, <2>1 DEF Settled
  <2>4. QED  BY <2>2, <2>3 DEF BindingInv, ClientsAreBound
<1>6. QED  BY <1>4, <1>5

LEMMA BindingStep ==
  ASSUME RadioInv, QueueInv, BindingInv, [Next]_vars
  PROVE  BindingInv'
<1>1. QueueTypeOK  BY DEF QueueInv, ChainInv
<1>2. ASSUME UNCHANGED <<announced, port, boundTo, cmd>>
      PROVE  BindingInv'
  BY <1>2, NothingIsBound DEF BindingInv
<1>3. CASE RadioStart \/ RadioStop \/ RetryFires \/ UNCHANGED vars
  BY <1>2, <1>3 DEF RadioStart, RadioStop, RetryFires, vars, queueVars, radioVars
<1>4. CASE Begins
  <2>1. UNCHANGED <<announced, port, boundTo>>  BY <1>4 DEF Begins, radioVars
  <2>2. PICK k \in DOMAIN chain : cmd[chain[k]] = "waiting" /\ cmd' = [cmd EXCEPT ![chain[k]] = "running"]
    BY <1>4 DEF Begins, BeginNext, Begin
  <2>3. \A u \in Clients : u \in Commands  BY RadioAssumption DEF RadioCommands
  <2>4. \A u \in Clients : cmd'[u] = cmd[u] \/ cmd[u] = "waiting"
    BY <1>1, <2>2, <2>3 DEF QueueTypeOK
  <2>5. QED  BY <2>1, <2>4 DEF BindingInv, ClientsAreBound
<1>5. CASE ClientStep  BY <1>1, <1>5, ClientBinds
<1>6. ASSUME NEW c \in Conns, OwnStep(c) \/ StepAnswered(c) \/ ListenerThrows(c) \/ LinkDrops(c)
      PROVE  BindingInv'
  BY <1>1, <1>6, OwnStepBinds
<1>7. QED  BY <1>3, <1>4, <1>5, <1>6 DEF Next

LEMMA BindingIsSafe == Spec => []BindingInv
<1>1. Init => BindingInv
  <2> SUFFICES ASSUME Init PROVE BindingInv  OBVIOUS
  <2>1. announced \in BOOLEAN /\ boundTo \in [Clients -> Conns \cup {NoConn}]  BY DEF Init
  <2>2. port \in [Conns -> 1 .. NumPorts]
    <3>1. 1 \in 1 .. NumPorts  BY RadioAssumption
    <3>2. QED  BY <3>1 DEF Init
  <2>3. \A u \in Clients : cmd[u] = "idle"
    BY RadioAssumption DEF Init, QueueInit, RadioCommands
  <2>4. QED  BY <2>1, <2>2, <2>3 DEF BindingInv, ClientsAreBound
<1>2. RadioInv /\ QueueInv /\ BindingInv /\ [Next]_vars => BindingInv'  BY BindingStep
<1>3. QED  BY <1>1, <1>2, RadioInvHolds, QueueIsSafe, PTL DEF Spec

\* A command that a client has submitted belongs to a connection until it
\* settles, however often the link has been replaced meanwhile: runCommand
\* either binds it or rejects it at once.
THEOREM CommandsAreBound == Spec => []ClientsAreBound
<1>1. BindingInv => ClientsAreBound  BY DEF BindingInv
<1>2. QED  BY <1>1, BindingIsSafe, PTL

\* The state of the manager keeps its types: among others, the loop over the
\* serial ports stays among its candidates.
THEOREM RadioTypeCorrect == Spec => []TypeOK
<1>1. RadioInv /\ QueueInv /\ BindingInv => TypeOK
  BY DEF RadioInv, LoopTypeOK, QueueInv, ChainInv, BindingInv, TypeOK, Stages
<1>2. QED  BY <1>1, RadioInvHolds, QueueIsSafe, BindingIsSafe, PTL
-----------------------------------------------------------------------------
(* Commands only go forward.                                                *)

\* What may become of a promise.  A client without a connection is rejected
\* before its command is on the chain.
GoesOn(old, new) ==
  \/ new = old
  \/ old = "idle" /\ new \in {"waiting", "err"}
  \/ old = "waiting" /\ new = "running"
  \/ old = "running" /\ new \in Settled

CommandsGoOn ==
  [][/\ \A i \in DOMAIN chain : i \in DOMAIN chain' /\ chain'[i] = chain[i]
     /\ \A x \in Commands : GoesOn(cmd[x], cmd'[x])]_vars

Forward ==
  /\ \A i \in DOMAIN chain : i \in DOMAIN chain' /\ chain'[i] = chain[i]
  /\ \A x \in Commands : GoesOn(cmd[x], cmd'[x])

LEMMA OneGoesOn ==
  ASSUME QueueTypeOK, NEW x \in Commands, NEW o, GoesOn(cmd[x], o), cmd' = [cmd EXCEPT ![x] = o],
         chain' = chain \/ chain' = Append(chain, x)
  PROVE  Forward
<1>1. \A i \in DOMAIN chain : i \in DOMAIN chain' /\ chain'[i] = chain[i]
  <2>1. chain \in Seq(Commands)  BY DEF QueueTypeOK
  <2>2. QED  BY <2>1
<1>2. \A y \in Commands : GoesOn(cmd[y], cmd'[y])
  <2>1. cmd \in [Commands -> {"idle", "waiting", "running"} \cup Settled]  BY DEF QueueTypeOK
  <2>2. \A y \in Commands : cmd'[y] = IF y = x THEN o ELSE cmd[y]  BY <2>1
  <2>3. QED  BY <2>2 DEF GoesOn
<1>3. QED  BY <1>1, <1>2 DEF Forward

\* The handshake settles a command and submits its next one.
LEMMA TwoGoOn ==
  ASSUME QueueTypeOK, NEW x \in Commands, NEW y \in Commands, x # y, NEW o \in Settled,
         cmd[x] = "running", cmd[y] = "idle", SettleAndRun(x, o, y)
  PROVE  Forward
<1>1. \A i \in DOMAIN chain : i \in DOMAIN chain' /\ chain'[i] = chain[i]
  <2>1. chain \in Seq(Commands) /\ chain' = Append(chain, y)  BY DEF QueueTypeOK, SettleAndRun
  <2>2. QED  BY <2>1
<1>2. \A z \in Commands : GoesOn(cmd[z], cmd'[z])
  <2>1. cmd \in [Commands -> {"idle", "waiting", "running"} \cup Settled]  BY DEF QueueTypeOK
  <2>2. \A z \in Commands : cmd'[z] = IF z = x THEN o ELSE IF z = y THEN "waiting" ELSE cmd[z]
    BY <2>1 DEF SettleAndRun
  <2>3. QED  BY <2>2 DEF GoesOn
<1>3. QED  BY <1>1, <1>2 DEF Forward

LEMMA NothingMoves == ASSUME UNCHANGED queueVars PROVE Forward
BY DEF queueVars, Forward, GoesOn

LEMMA OwnStepGoesOn ==
  ASSUME QueueInv, NEW c \in Conns,
         OwnStep(c) \/ StepAnswered(c) \/ ListenerThrows(c) \/ LinkDrops(c)
  PROVE  Forward
<1>1. QueueTypeOK  BY DEF QueueInv, ChainInv
<1>2. \A a \in Steps : <<c, a>> \in Commands  BY RadioAssumption DEF RadioCommands
<1>3. \A a \in Steps : a \in After(stage[c]) => cmd[<<c, a>>] = "idle"
  BY DEF QueueInv, HandshakeInOrder
<1>4. {"selfInfo", "time", "setTime", "query"} \subseteq Steps  BY DEF Steps
<1>5. ASSUME NEW a \in Steps, NEW o \in Settled, cmd[<<c, a>>] = "running", Settle(<<c, a>>, o)
      PROVE  Forward
  <2>1. cmd' = [cmd EXCEPT ![<<c, a>>] = o] /\ chain' = chain  BY <1>5 DEF Settle
  <2>2. GoesOn(cmd[<<c, a>>], o)  BY <1>5 DEF GoesOn
  <2>3. QED  BY <1>1, <1>2, <2>1, <2>2, OneGoesOn
<1>6. ASSUME NEW a \in Steps, NEW b \in Steps, NEW o \in Settled, a # b, b \in After(a),
             Awaits(c, a), SettleAndRun(<<c, a>>, o, <<c, b>>)
      PROVE  Forward
  <2>1. cmd[<<c, a>>] = "running" /\ stage[c] = a  BY <1>6 DEF Awaits
  <2>2. cmd[<<c, b>>] = "idle"  BY <1>3, <1>6, <2>1
  <2>3. <<c, a>> # <<c, b>> /\ <<c, a>> \in Commands /\ <<c, b>> \in Commands  BY <1>2, <1>6
  <2>4. QED  BY <1>1, <1>6, <2>1, <2>2, <2>3, TwoGoOn
<1>7. CASE Opened(c)
  <2>1. /\ stage[c] = "opening" /\ cmd' = [cmd EXCEPT ![<<c, "selfInfo">>] = "waiting"]
        /\ chain' = Append(chain, <<c, "selfInfo">>)
    BY <1>7 DEF Opened, Run
  <2>2. cmd[<<c, "selfInfo">>] = "idle"  BY <1>3, <1>4, <2>1, AfterStages
  <2>3. GoesOn(cmd[<<c, "selfInfo">>], "waiting")  BY <2>2 DEF GoesOn
  <2>4. QED  BY <1>1, <1>2, <1>4, <2>1, <2>3, OneGoesOn
<1>8. CASE PortFails(c) \/ OpenFails(c) \/ LinkDrops(c)
  BY <1>8, NothingMoves DEF PortFails, OpenFails, LinkDrops
<1>9. "ok" \in Settled /\ "err" \in Settled  BY DEF Settled
<1>10. CASE SelfInfoAnswered(c)
  <2>1. /\ Awaits(c, "selfInfo")
        /\ \/ Settle(<<c, "selfInfo">>, "ok")
           \/ SettleAndRun(<<c, "selfInfo">>, "ok", <<c, "time">>)
    BY <1>10 DEF SelfInfoAnswered
  <2>2. cmd[<<c, "selfInfo">>] = "running"  BY <2>1 DEF Awaits
  <2>3. "time" \in After("selfInfo")  BY AfterStages
  <2>4. QED  BY <1>4, <1>5, <1>6, <1>9, <2>1, <2>2, <2>3
<1>11. CASE SelfInfoFails(c)
  <2>1. cmd[<<c, "selfInfo">>] = "running" /\ Settle(<<c, "selfInfo">>, "err")
    BY <1>11 DEF SelfInfoFails, Awaits
  <2>2. QED  BY <1>4, <1>5, <1>9, <2>1
<1>12. ASSUME NEW behind \in BOOLEAN, TimeAnswered(c, behind)
       PROVE  Forward
  <2>1. PICK next \in {"setTime", "query"}, o \in Settled :
          Awaits(c, "time") /\ SettleAndRun(<<c, "time">>, o, <<c, next>>)
    BY <1>9, <1>12 DEF TimeAnswered
  <2>2. next \in After("time") /\ next \in Steps /\ next # "time"  BY <1>4, <2>1, AfterStages
  <2>3. QED  BY <1>4, <1>6, <2>1, <2>2
<1>13. CASE SetTimeAnswered(c)
  <2>1. PICK o \in Settled :
          Awaits(c, "setTime") /\ SettleAndRun(<<c, "setTime">>, o, <<c, "query">>)
    BY <1>9, <1>13 DEF SetTimeAnswered
  <2>2. "query" \in After("setTime")  BY AfterStages
  <2>3. QED  BY <1>4, <1>6, <2>1, <2>2
<1>14. CASE QueryAnswered(c) \/ ListenerThrows(c)
  <2>1. PICK o \in Settled : cmd[<<c, "query">>] = "running" /\ Settle(<<c, "query">>, o)
    BY <1>9, <1>14 DEF QueryAnswered, ListenerThrows, Awaits
  <2>2. QED  BY <1>4, <1>5, <2>1
<1>15. QED
  BY <1>7, <1>8, <1>10, <1>11, <1>12, <1>13, <1>14 DEF OwnStep, StepAnswered

LEMMA StepGoesOn ==
  ASSUME QueueInv, [Next]_vars
  PROVE  Forward
<1>1. QueueTypeOK  BY DEF QueueInv, ChainInv
<1>2. CASE RadioStart \/ RadioStop \/ RetryFires \/ UNCHANGED vars
  BY <1>2, NothingMoves DEF RadioStart, RadioStop, RetryFires, vars
<1>3. CASE Begins
  <2>1. PICK k \in DOMAIN chain : Begin(k)  BY <1>3 DEF Begins, BeginNext
  <2>2. chain[k] \in Commands  BY <1>1 DEF QueueTypeOK
  <2>3. /\ cmd[chain[k]] = "waiting" /\ cmd' = [cmd EXCEPT ![chain[k]] = "running"]
        /\ chain' = chain
    BY <2>1 DEF Begin
  <2>4. GoesOn(cmd[chain[k]], "running")  BY <2>3 DEF GoesOn
  <2>5. QED  BY <1>1, <2>2, <2>3, <2>4, OneGoesOn
<1>4. CASE ClientStep
  <2>1. PICK u \in Clients : ClientRuns(u) \/ \E outcome \in Settled : ClientAnswered(u, outcome)
    BY <1>4 DEF ClientStep
  <2>2. u \in Commands  BY RadioAssumption DEF RadioCommands
  <2>3. CASE ClientRuns(u)
    <3>1. \/ cmd' = [cmd EXCEPT ![u] = "err"] /\ chain' = chain
          \/ cmd' = [cmd EXCEPT ![u] = "waiting"] /\ chain' = Append(chain, u)
      BY <2>3 DEF ClientRuns, Run, Settle
    <3>2. GoesOn(cmd[u], "err") /\ GoesOn(cmd[u], "waiting")  BY <2>3 DEF ClientRuns, GoesOn
    <3>3. QED  BY <1>1, <2>2, <3>1, <3>2, OneGoesOn
  <2>4. ASSUME NEW outcome \in Settled, ClientAnswered(u, outcome)
        PROVE  Forward
    <3>1. cmd[u] = "running" /\ cmd' = [cmd EXCEPT ![u] = outcome] /\ chain' = chain
      BY <2>4 DEF ClientAnswered, Settle
    <3>2. GoesOn(cmd[u], outcome)  BY <3>1 DEF GoesOn
    <3>3. QED  BY <1>1, <2>2, <3>1, <3>2, OneGoesOn
  <2>5. QED  BY <2>1, <2>3, <2>4
<1>5. ASSUME NEW c \in Conns, OwnStep(c) \/ StepAnswered(c) \/ ListenerThrows(c) \/ LinkDrops(c)
      PROVE  Forward
  BY <1>5, OwnStepGoesOn
<1>6. QED  BY <1>2, <1>3, <1>4, <1>5 DEF Next

\* Under the radio manager, too, a command is submitted once, called once and
\* settled once, and its place in the chain is never taken: whatever coroutine
\* of a former connection is still about, no promise is settled a second time.
\* With RadioIsSerial this is the whole contract of the queue.
THEOREM CommandsSettleOnce == Spec => CommandsGoOn
<1>1. QueueInv /\ [Next]_vars => [Forward]_vars
  BY StepGoesOn
<1>2. QED
  BY <1>1, QueueIsSafe, PTL DEF Spec, CommandsGoOn, Forward
=============================================================================
