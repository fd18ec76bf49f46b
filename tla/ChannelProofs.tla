----------------------------- MODULE ChannelProofs -----------------------------
(***************************************************************************)
(* Proofs about ChannelSetup, for any number of bots, channels, slots and  *)
(* connections.                                                            *)
(***************************************************************************)
EXTENDS ChannelSetup, SequenceTheorems, FiniteSetTheorems, WellFoundedInduction, TLAPS

\* TypeOK without the chain, whose order plays no part here.
SetupTypes ==
  /\ cmd \in [Commands -> {"idle", "waiting", "running"} \cup Settled]
  /\ wanted \in [Bots -> Channels]
  /\ slots \in [Slots -> Channels \cup {Blank}]
  /\ epoch \in 0 .. MaxConnects /\ connected \in BOOLEAN /\ (connected => epoch > 0)
  /\ chosen \in [Setups -> 0 .. NumSlots]
  /\ subscribed \in [Bots -> BOOLEAN] /\ ready \in [Bots -> BOOLEAN]
  /\ channelIdx \in [Bots -> 0 .. NumSlots]
  /\ missing \subseteq {wanted[b] : b \in Bots}

\* A setup begins with its connection and writes after it has listed.
SetupsInOrder ==
  \A x \in Setups :
    /\ x[2] > epoch => cmd[<<x, "list">>] = "idle"
    /\ cmd[<<x, "set">>] # "idle" => cmd[<<x, "list">>] \in Settled /\ chosen[x] \in Slots

\* What a setup has chosen comes from a connection of its past.
ChosenInTime == \A x \in Setups : chosen[x] # 0 => x[2] <= epoch

\* What a bot wants was missing once, or is on the device.
WantedAreThere ==
  \A b \in Bots : wanted[b] \in missing \/ \E s \in Slots : slots[s] = wanted[b]

\* What a setup has chosen was missing, and as long as its link is there its slot
\* is empty or written.
ChosenAreSafe ==
  \A x \in Setups : chosen[x] # 0 =>
    /\ wanted[x[1]] \in missing
    /\ OnItsLink(x) => slots[chosen[x]] \in {Blank, wanted[x[1]]}

ReadyBotsOwn ==
  \A b \in Bots : ready[b] /\ Serves(b) => channelIdx[b] \in Slots /\ OwnsSlot(b)

ReadyBotsAreDone == \A b \in Bots : ready[b] => ~LooksAgain(b)

AtMostOneMissing == \A m, n \in missing : m = n

SetupInv ==
  /\ SetupTypes /\ SetupsInOrder /\ ChosenInTime /\ ReadyBotsAreDone
  /\ AtMostOneMissing => WantedAreThere /\ ChosenAreSafe /\ ReadyBotsOwn
-----------------------------------------------------------------------------
Below == {p \in Nat \X Nat : p[1] < p[2]}

LEMMA LeastSlot ==
  ASSUME NEW S \in SUBSET Slots, S # {}
  PROVE  Min(S) \in S
<1>1. S \subseteq Nat
  BY SetupAssumption DEF Slots
<1>0. OpToRel(<, Nat) = Below
  BY Zenon DEF OpToRel, Below
<1>2. \E m \in S : \A s \in S : ~ (<<s, m>> \in Below)
  <2>1. IsWellFoundedOn(Below, Nat)
    BY <1>0, NatLessThanWellFounded, Zenon
  <2>2. QED
    BY <1>1, <2>1, WFMin, Zenon
<1>3. \E m \in S : \A s \in S : m <= s
  <2>1. \A s, m \in Nat : s < m => <<s, m>> \in Below
    BY DEF Below
  <2>2. PICK m \in S : \A s \in S : ~ (<<s, m>> \in Below)
    BY <1>2
  <2>3. \A s \in S : ~ (s < m)
    BY <1>1, <2>1, <2>2
  <2>4. \A s \in S : m <= s
    BY <1>1, <2>3
  <2>5. QED
    BY <2>4
<1>4. QED
  BY <1>3, Zenon DEF Min

LEMMA OnlyOne ==
  ASSUME NEW S, IsFiniteSet(S), Cardinality(S) <= 1
  PROVE  \A a, b \in S : a = b
<1> SUFFICES ASSUME NEW a \in S, NEW b \in S, a # b PROVE FALSE
  OBVIOUS
<1>1. Cardinality({a}) = 1 /\ IsFiniteSet({a}) /\ Cardinality(S) \in Nat
  BY FS_Singleton, FS_CardinalityType
<1>2. Cardinality({a} \cup {b}) = Cardinality({a}) + 1
  <2>1. b \notin {a}
    OBVIOUS
  <2>2. QED
    BY <1>1, <2>1, FS_AddElement
<1>3. Cardinality({a} \cup {b}) <= Cardinality(S)
  BY FS_Subset
<1>4. QED
  BY <1>1, <1>2, <1>3
-----------------------------------------------------------------------------
LEMMA SetupsAndCommands ==
  /\ \A x \in Setups : /\ x[1] \in Bots /\ x[2] \in Nat /\ x[2] \in 1 .. MaxConnects
                        /\ x = <<x[1], x[2]>>
                        /\ <<x, "list">> \in Commands /\ <<x, "set">> \in Commands
  /\ \A b \in Bots, n \in 1 .. MaxConnects : <<b, n>> \in Setups
  BY SetupAssumption DEF Setups, SetupCommands

LEMMA InitSetup == Init => SetupInv
<1> SUFFICES ASSUME Init PROVE SetupInv
  OBVIOUS
<1> USE SetupAssumption DEF Init, QueueInit, MissingNow
<1>1. SetupTypes
  <2>1. /\ chosen \in [Setups -> 0 .. NumSlots] /\ channelIdx \in [Bots -> 0 .. NumSlots]
        /\ epoch \in 0 .. MaxConnects
    OBVIOUS
  <2>2. missing \subseteq {wanted[b] : b \in Bots}
    OBVIOUS
  <2>3. QED
    BY <2>1, <2>2 DEF SetupTypes
<1>2. SetupsInOrder
  BY SetupsAndCommands DEF SetupsInOrder
<1>3. ReadyBotsAreDone /\ ReadyBotsOwn /\ ChosenAreSafe /\ ChosenInTime
  BY DEF ReadyBotsAreDone, ReadyBotsOwn, ChosenAreSafe, ChosenInTime
<1>4. WantedAreThere
  BY DEF WantedAreThere
<1>5. QED
  BY <1>1, <1>2, <1>3, <1>4 DEF SetupInv

\* The list command of a bot's setup on the present connection.
LEMMA ListOfNow ==
  ASSUME SetupTypes, connected, NEW b \in Bots
  PROVE  <<b, epoch>> \in Setups /\ <<<<b, epoch>>, "list">> \in Commands
<1>1. epoch \in 1 .. MaxConnects
  BY SetupAssumption DEF SetupTypes
<1>2. QED
  BY <1>1, SetupsAndCommands

LEMMA ConnectStep ==
  ASSUME SetupInv, Connect
  PROVE  SetupInv'
<1> DEFINE lists == {<<<<b, epoch + 1>>, "list">> : b \in {b \in Bots : subscribed[b]}}
<1>1. /\ ~connected /\ epoch < MaxConnects /\ connected' = TRUE /\ epoch' = epoch + 1
      /\ cmd' = [x \in Commands |-> IF x \in lists THEN "waiting" ELSE cmd[x]]
      /\ ready' = [b \in Bots |-> ready[b] /\ ~subscribed[b]]
      /\ UNCHANGED <<wanted, slots, chosen, subscribed, channelIdx, missing>>
  BY DEF Connect, Starts
<1>2. epoch + 1 \in 1 .. MaxConnects /\ epoch \in Nat
  BY <1>1, SetupAssumption DEF SetupInv, SetupTypes
<1>3. \A x \in Setups : x[2] # epoch + 1 => <<x, "list">> \notin lists
  OBVIOUS
<1>4. \A x \in Setups : <<x, "set">> \notin lists
  OBVIOUS
<1> HIDE DEF lists
<1>5. /\ \A x \in Setups : x[2] # epoch + 1 => cmd'[<<x, "list">>] = cmd[<<x, "list">>]
      /\ \A x \in Setups : cmd'[<<x, "set">>] = cmd[<<x, "set">>]
  BY <1>1, <1>3, <1>4, SetupsAndCommands
<1>6. SetupTypes'
  <2>1. cmd' \in [Commands -> {"idle", "waiting", "running"} \cup Settled]
    BY <1>1 DEF SetupInv, SetupTypes
  <2>2. QED
    BY <1>1, <1>2, <2>1 DEF SetupInv, SetupTypes
<1>7. SetupsInOrder'
  <2> SUFFICES ASSUME NEW x \in Setups
               PROVE  /\ x[2] > epoch' => cmd'[<<x, "list">>] = "idle"
                      /\ cmd'[<<x, "set">>] # "idle" =>
                           cmd'[<<x, "list">>] \in Settled /\ chosen'[x] \in Slots
    BY DEF SetupsInOrder
  <2>1. x[2] \in Nat
    BY SetupsAndCommands
  <2>2. CASE x[2] = epoch + 1
    BY <1>1, <1>2, <1>5, <2>1, <2>2 DEF SetupInv, SetupsInOrder, Settled
  <2>3. CASE x[2] # epoch + 1
    BY <1>1, <1>2, <1>5, <2>1, <2>3 DEF SetupInv, SetupsInOrder
  <2>4. QED
    BY <2>2, <2>3
<1>8. ReadyBotsAreDone'
  BY <1>1 DEF ReadyBotsAreDone, LooksAgain
<1>9. ChosenInTime' /\ \A x \in Setups : chosen'[x] # 0 => ~OnItsLink(x)'
  <2>1. \A x \in Setups : chosen'[x] # 0 => x[2] \in Nat /\ x[2] <= epoch
    BY <1>1, SetupsAndCommands DEF SetupInv, ChosenInTime
  <2>2. QED
    BY <1>1, <1>2, <2>1 DEF ChosenInTime, OnItsLink
<1>10. AtMostOneMissing' => WantedAreThere' /\ ChosenAreSafe' /\ ReadyBotsOwn'
  <2>1. ReadyBotsOwn'
    BY <1>1 DEF ReadyBotsOwn, Serves
  <2>2. QED
    BY <1>1, <1>9, <2>1 DEF SetupInv, AtMostOneMissing, WantedAreThere, ChosenAreSafe
<1>11. QED
  BY <1>6, <1>7, <1>8, <1>9, <1>10 DEF SetupInv

LEMMA BeginStep ==
  ASSUME SetupInv, BeginNext, UNCHANGED setupVars
  PROVE  SetupInv'
<1> USE DEF SetupInv, setupVars
<1>1. PICK i \in DOMAIN chain : cmd[chain[i]] = "waiting" /\ cmd' = [cmd EXCEPT ![chain[i]] = "running"]
  BY DEF BeginNext, Begin
<1>2. cmd' \in [Commands -> {"idle", "waiting", "running"} \cup Settled]
  BY <1>1 DEF SetupTypes
<1>3. \A y \in Commands : \/ cmd'[y] = cmd[y]
                          \/ cmd[y] = "waiting" /\ cmd'[y] = "running"
  BY <1>1 DEF SetupTypes
<1>4. SetupTypes'
  BY <1>2 DEF SetupTypes
<1>5. SetupsInOrder'
  BY <1>3, SetupsAndCommands DEF SetupsInOrder, Settled
<1>6. ReadyBotsAreDone' /\ ChosenInTime'
  BY <1>3, ListOfNow DEF ReadyBotsAreDone, LooksAgain, ChosenInTime
<1>7. AtMostOneMissing' => WantedAreThere' /\ ChosenAreSafe' /\ ReadyBotsOwn'
  BY DEF AtMostOneMissing, WantedAreThere, ChosenAreSafe, ReadyBotsOwn, OwnsSlot, OnItsLink,
    Serves
<1>8. QED
  BY <1>4, <1>5, <1>6, <1>7

LEMMA BotStopStep ==
  ASSUME SetupInv, NEW b \in Bots, BotStop(b)
  PROVE  SetupInv'
<1> USE DEF SetupInv, BotStop, queueVars
<1>1. SetupTypes' /\ SetupsInOrder'
  BY DEF SetupTypes, SetupsInOrder
<1>2. ReadyBotsAreDone' /\ ChosenInTime'
  BY DEF ReadyBotsAreDone, LooksAgain, SetupTypes, ChosenInTime
<1>3. AtMostOneMissing' => WantedAreThere' /\ ChosenAreSafe' /\ ReadyBotsOwn'
  BY DEF AtMostOneMissing, WantedAreThere, ChosenAreSafe, ReadyBotsOwn, OwnsSlot, SetupTypes,
    OnItsLink, Serves
<1>4. QED
  BY <1>1, <1>2, <1>3

\* A setup's command settles: the order of its own commands is kept, and a
\* bot that was not looking still is not.
LEMMA SettleKeepsOrder ==
  ASSUME SetupInv, NEW x \in Setups, NEW what \in {"list", "set"},
         cmd[<<x, what>>] = "running", NEW outcome \in Settled, Settle(<<x, what>>, outcome),
         UNCHANGED <<epoch, connected, chosen, subscribed>>
  PROVE  /\ cmd' \in [Commands -> {"idle", "waiting", "running"} \cup Settled]
         /\ SetupsInOrder'
         /\ cmd'[<<x, "list">>] \in Settled
         /\ \A b \in Bots : LooksAgain(b)' => LooksAgain(b)
<1>1. <<x, what>> \in Commands /\ <<x, "list">> \in Commands /\ <<x, "set">> \in Commands
  BY SetupsAndCommands
<1>2. cmd' = [cmd EXCEPT ![<<x, what>>] = outcome]
  BY DEF Settle
<1>3. cmd' \in [Commands -> {"idle", "waiting", "running"} \cup Settled]
  BY <1>2 DEF SetupInv, SetupTypes
<1>4. \A y \in Commands : cmd'[y] = IF y = <<x, what>> THEN outcome ELSE cmd[y]
  BY <1>2 DEF SetupInv, SetupTypes
<1>5. cmd'[<<x, "list">>] \in Settled
  BY <1>1, <1>4 DEF SetupInv, SetupsInOrder, Settled
<1>6. SetupsInOrder'
  <2> SUFFICES ASSUME NEW y \in Setups
               PROVE  /\ y[2] > epoch => cmd'[<<y, "list">>] = "idle"
                      /\ cmd'[<<y, "set">>] # "idle" =>
                           cmd'[<<y, "list">>] \in Settled /\ chosen[y] \in Slots
    BY DEF SetupsInOrder
  <2>1. <<y, "list">> \in Commands /\ <<y, "set">> \in Commands
    BY SetupsAndCommands
  <2>2. CASE y = x
    BY <1>1, <1>4, <1>5, <2>2 DEF SetupInv, SetupsInOrder, Settled
  <2>3. CASE y # x
    BY <1>4, <2>1, <2>3 DEF SetupInv, SetupsInOrder
  <2>4. QED
    BY <2>2, <2>3
<1>7. \A b \in Bots : LooksAgain(b)' => LooksAgain(b)
  BY <1>4, ListOfNow DEF LooksAgain, Settled, SetupInv
<1>8. QED
  BY <1>3, <1>5, <1>6, <1>7

LEMMA ListFindsStep ==
  ASSUME SetupInv, NEW x \in Setups, ListFinds(x)
  PROVE  SetupInv'
<1> USE DEF SetupInv, ListFinds, BecomesReady
<1>1. Min(Named(wanted[x[1]])) \in Named(wanted[x[1]])
  BY LeastSlot DEF Named
<1> DEFINE slot == Min(Named(wanted[x[1]]))
<1>2. slot \in Slots /\ slots[slot] = wanted[x[1]] /\ x[1] \in Bots
  BY <1>1, SetupsAndCommands DEF Named
<1> HIDE DEF slot
<1>3. /\ ready' = [ready EXCEPT ![x[1]] = TRUE]
      /\ channelIdx' = [channelIdx EXCEPT ![x[1]] = slot]
  BY DEF slot
<1>4. /\ cmd' \in [Commands -> {"idle", "waiting", "running"} \cup Settled]
      /\ SetupsInOrder' /\ cmd'[<<x, "list">>] \in Settled
      /\ \A b \in Bots : LooksAgain(b)' => LooksAgain(b)
  BY SettleKeepsOrder DEF Settled
<1>5. SetupTypes'
  BY <1>2, <1>3, <1>4, SetupAssumption DEF SetupTypes, Slots
<1>6. ReadyBotsAreDone'
  <2>1. ~LooksAgain(x[1])'
    BY <1>4, SetupsAndCommands DEF LooksAgain, OnItsLink, Settled
  <2>2. \A b \in Bots : ready'[b] => b = x[1] \/ ready[b]
    BY <1>2, <1>3 DEF SetupTypes
  <2>3. QED
    BY <1>4, <2>1, <2>2 DEF ReadyBotsAreDone
<1>7. ChosenInTime' /\ (AtMostOneMissing' => WantedAreThere' /\ ChosenAreSafe')
  BY DEF AtMostOneMissing, WantedAreThere, ChosenAreSafe, ChosenInTime, OnItsLink
<1>8. AtMostOneMissing' => ReadyBotsOwn'
  BY <1>2, <1>3 DEF AtMostOneMissing, ReadyBotsOwn, OwnsSlot, SetupTypes, Serves
<1>9. QED
  BY <1>4, <1>5, <1>6, <1>7, <1>8

LEMMA ListEndsStep ==
  ASSUME SetupInv, NEW x \in Setups, ListEnds(x)
  PROVE  SetupInv'
<1>1. UNCHANGED setupVars /\ cmd[<<x, "list">>] = "running"
  BY DEF ListEnds
<1>2. PICK outcome \in Settled : Settle(<<x, "list">>, outcome)
  BY DEF ListEnds
<1>3. /\ cmd' \in [Commands -> {"idle", "waiting", "running"} \cup Settled]
      /\ SetupsInOrder'
      /\ \A b \in Bots : LooksAgain(b)' => LooksAgain(b)
  BY <1>1, <1>2, SettleKeepsOrder DEF setupVars
<1>4. SetupTypes' /\ ReadyBotsAreDone' /\ ChosenInTime'
  BY <1>1, <1>3 DEF SetupInv, SetupTypes, ReadyBotsAreDone, ChosenInTime, setupVars
<1>5. AtMostOneMissing' => WantedAreThere' /\ ChosenAreSafe' /\ ReadyBotsOwn'
  BY <1>1 DEF SetupInv, AtMostOneMissing, WantedAreThere, ChosenAreSafe, ReadyBotsOwn, OwnsSlot,
    OnItsLink, Serves, setupVars
<1>6. QED
  BY <1>3, <1>4, <1>5 DEF SetupInv

LEMMA ListMissesStep ==
  ASSUME SetupInv, NEW x \in Setups, ListMisses(x)
  PROVE  SetupInv'
<1> DEFINE slot == Min(Candidates)
<1>1. slot \in Slots /\ slots[slot] = Blank
  BY LeastSlot DEF ListMisses, Candidates, Named
<1> HIDE DEF slot
<1>2. /\ cmd[<<x, "list">>] = "running" /\ Named(wanted[x[1]]) = {}
      /\ chosen' = [chosen EXCEPT ![x] = slot] /\ OnItsLink(x)
      /\ cmd' = [cmd EXCEPT ![<<x, "list">>] = "ok", ![<<x, "set">>] = "waiting"]
      /\ UNCHANGED <<wanted, slots, epoch, connected, subscribed, ready, channelIdx, missing>>
  BY DEF ListMisses, SettleAndRun, slot
<1>3. x[1] \in Bots /\ <<x, "list">> \in Commands /\ <<x, "set">> \in Commands
  BY SetupsAndCommands
<1>4. \A y \in Commands : cmd'[y] = IF y = <<x, "set">> THEN "waiting"
                                    ELSE IF y = <<x, "list">> THEN "ok" ELSE cmd[y]
  BY <1>2 DEF SetupInv, SetupTypes
<1>5. SetupTypes'
  <2>1. cmd' \in [Commands -> {"idle", "waiting", "running"} \cup Settled]
    BY <1>2 DEF SetupInv, SetupTypes, Settled
  <2>2. chosen' \in [Setups -> 0 .. NumSlots]
    BY <1>1, <1>2, SetupAssumption DEF SetupInv, SetupTypes, Slots
  <2>3. QED
    BY <1>2, <2>1, <2>2 DEF SetupInv, SetupTypes
<1>6. \A y \in Setups : chosen'[y] = IF y = x THEN slot ELSE chosen[y]
  BY <1>2 DEF SetupInv, SetupTypes
<1>7. SetupsInOrder'
  <2> SUFFICES ASSUME NEW y \in Setups
               PROVE  /\ y[2] > epoch => cmd'[<<y, "list">>] = "idle"
                      /\ cmd'[<<y, "set">>] # "idle" =>
                           cmd'[<<y, "list">>] \in Settled /\ chosen'[y] \in Slots
    BY <1>2 DEF SetupsInOrder
  <2>1. <<y, "list">> \in Commands /\ <<y, "set">> \in Commands
    BY SetupsAndCommands
  <2>2. CASE y = x
    BY <1>1, <1>2, <1>3, <1>4, <1>6, <2>2 DEF SetupInv, SetupsInOrder, Settled
  <2>3. CASE y # x
    BY <1>4, <1>6, <2>1, <2>3 DEF SetupInv, SetupsInOrder
  <2>4. QED
    BY <2>2, <2>3
<1>8. ReadyBotsAreDone' /\ ChosenInTime'
  <2>1. ReadyBotsAreDone'
    BY <1>2, <1>4, ListOfNow DEF SetupInv, ReadyBotsAreDone, LooksAgain
  <2>2. x[2] <= epoch
    BY <1>2, SetupsAndCommands DEF OnItsLink
  <2>3. QED
    BY <1>2, <1>6, <2>1, <2>2 DEF SetupInv, ChosenInTime
<1>9. AtMostOneMissing' => WantedAreThere' /\ ChosenAreSafe' /\ ReadyBotsOwn'
  <2> SUFFICES ASSUME AtMostOneMissing PROVE WantedAreThere' /\ ChosenAreSafe' /\ ReadyBotsOwn'
    BY <1>2 DEF AtMostOneMissing
  <2>1. wanted[x[1]] \in missing
    BY <1>2, <1>3 DEF SetupInv, WantedAreThere, Named
  <2>2. ChosenAreSafe'
    BY <1>1, <1>2, <1>6, <2>1 DEF SetupInv, ChosenAreSafe, OnItsLink
  <2>3. WantedAreThere' /\ ReadyBotsOwn'
    BY <1>2 DEF SetupInv, WantedAreThere, ReadyBotsOwn, OwnsSlot, Serves
  <2>4. QED
    BY <2>2, <2>3
<1>10. QED
  BY <1>5, <1>7, <1>8, <1>9 DEF SetupInv

\* A write to the device, whether it is confirmed or not: with one missing
\* channel at most, it goes to an empty slot or repeats what is there.
LEMMA WriteIsSafe ==
  ASSUME SetupInv, NEW x \in Setups, chosen[x] \in Slots, OnItsLink(x), Write(x),
         AtMostOneMissing, UNCHANGED <<wanted, chosen, missing, epoch>>
  PROVE  /\ WantedAreThere' /\ ChosenAreSafe'
         /\ \A s \in Slots : slots[s] # Blank => slots'[s] = slots[s]
<1>0. wanted[x[1]] \in missing /\ slots[chosen[x]] \in {Blank, wanted[x[1]]}
  BY SetupAssumption DEF SetupInv, ChosenAreSafe, Slots
<1>1. \A s \in Slots : slots'[s] = IF s = chosen[x] THEN wanted[x[1]] ELSE slots[s]
  BY DEF Write, SetupInv, SetupTypes
<1>2. \A s \in Slots : slots[s] # Blank => slots'[s] = slots[s]
  BY <1>0, <1>1
<1>3. WantedAreThere'
  <2> SUFFICES ASSUME NEW b \in Bots, wanted[b] \notin missing
               PROVE  \E s \in Slots : slots'[s] = wanted[b]
    BY DEF WantedAreThere
  <2>1. PICK s \in Slots : slots[s] = wanted[b]
    BY DEF SetupInv, WantedAreThere
  <2>2. slots[s] # Blank
    BY <2>1, SetupAssumption DEF SetupInv, SetupTypes
  <2>3. QED
    BY <1>2, <2>1, <2>2
<1>4. ChosenAreSafe'
  <2> SUFFICES ASSUME NEW y \in Setups, chosen[y] # 0
               PROVE  /\ wanted[y[1]] \in missing
                      /\ OnItsLink(y)' => slots'[chosen[y]] \in {Blank, wanted[y[1]]}
    BY DEF ChosenAreSafe
  <2>1. /\ wanted[y[1]] \in missing /\ chosen[y] \in Slots
        /\ OnItsLink(y)' => slots[chosen[y]] \in {Blank, wanted[y[1]]}
    BY SetupAssumption DEF SetupInv, ChosenAreSafe, SetupTypes, Slots, OnItsLink
  <2>2. wanted[y[1]] = wanted[x[1]]
    BY <1>0, <2>1 DEF AtMostOneMissing
  <2>3. QED
    BY <1>1, <2>1, <2>2
<1>5. QED
  BY <1>2, <1>3, <1>4

\* A bot keeps the slot it owns when no slot is overwritten.
LEMMA OwnersStay ==
  ASSUME SetupTypes, NEW b \in Bots, channelIdx[b] \in Slots, OwnsSlot(b),
         \A s \in Slots : slots[s] # Blank => slots'[s] = slots[s]
  PROVE  slots'[channelIdx[b]] = wanted[b]
<1>1. wanted[b] # Blank
  BY SetupAssumption DEF SetupTypes
<1>2. QED
  BY <1>1 DEF OwnsSlot

LEMMA WriteKeepsTypes ==
  ASSUME SetupTypes, NEW x \in Setups, Write(x)
  PROVE  slots' \in [Slots -> Channels \cup {Blank}]
  BY SetupsAndCommands DEF SetupTypes, Write

\* The link is lost, and the creation that was under way may have been written.
LEMMA DisconnectStep ==
  ASSUME SetupInv, Disconnect
  PROVE  SetupInv'
<1>1. /\ connected /\ connected' = FALSE
      /\ UNCHANGED <<cmd, wanted, epoch, chosen, subscribed, ready, channelIdx, missing>>
  BY DEF Disconnect, queueVars
<1>2. \/ UNCHANGED slots
      \/ \E x \in Setups : cmd[<<x, "set">>] = "running" /\ OnItsLink(x) /\ Write(x)
  BY DEF Disconnect
<1>3. SetupTypes'
  <2>1. slots' \in [Slots -> Channels \cup {Blank}]
    BY <1>2, WriteKeepsTypes DEF SetupInv, SetupTypes
  <2>2. QED
    BY <1>1, <2>1 DEF SetupInv, SetupTypes
<1>4. SetupsInOrder' /\ ChosenInTime' /\ ReadyBotsAreDone'
  BY <1>1 DEF SetupInv, SetupsInOrder, ChosenInTime, ReadyBotsAreDone, LooksAgain
<1>5. AtMostOneMissing' => WantedAreThere' /\ ChosenAreSafe' /\ ReadyBotsOwn'
  <2> SUFFICES ASSUME AtMostOneMissing PROVE WantedAreThere' /\ ChosenAreSafe' /\ ReadyBotsOwn'
    BY <1>1 DEF AtMostOneMissing
  <2>1. WantedAreThere'
    <3>1. CASE UNCHANGED slots
      BY <1>1, <3>1 DEF SetupInv, WantedAreThere
    <3>2. ASSUME NEW x \in Setups, cmd[<<x, "set">>] = "running", OnItsLink(x), Write(x)
          PROVE  WantedAreThere'
      BY <1>1, <3>2, WriteIsSafe DEF SetupInv, SetupsInOrder
    <3>3. QED
      BY <1>2, <3>1, <3>2
  <2>2. ChosenAreSafe' /\ ReadyBotsOwn'
    BY <1>1 DEF SetupInv, ChosenAreSafe, ReadyBotsOwn, OnItsLink, Serves
  <2>3. QED
    BY <2>1, <2>2
<1>6. QED
  BY <1>3, <1>4, <1>5 DEF SetupInv

\* Another table, while no setup has its link and no bot serves.
LEMMA TableChangesStep ==
  ASSUME SetupInv, TableChanges
  PROVE  SetupInv'
<1>1. /\ ~connected /\ connected' = FALSE
      /\ slots' \in [Slots -> Channels \cup {Blank}]
      /\ missing' = missing \cup ({wanted[b] : b \in Bots} \ {slots'[s] : s \in Slots})
      /\ UNCHANGED <<cmd, wanted, epoch, chosen, subscribed, ready, channelIdx>>
  BY DEF TableChanges, MissingNow, queueVars, SetupInv, SetupTypes
<1>2. SetupTypes'
  BY <1>1 DEF SetupInv, SetupTypes
<1>3. SetupsInOrder' /\ ChosenInTime' /\ ReadyBotsAreDone'
  BY <1>1 DEF SetupInv, SetupsInOrder, ChosenInTime, ReadyBotsAreDone, LooksAgain
<1>4. WantedAreThere'
  BY <1>1 DEF WantedAreThere
<1>5. AtMostOneMissing' => ChosenAreSafe' /\ ReadyBotsOwn'
  BY <1>1 DEF SetupInv, AtMostOneMissing, ChosenAreSafe, ReadyBotsOwn, OnItsLink, Serves
<1>6. QED
  BY <1>2, <1>3, <1>4, <1>5 DEF SetupInv

LEMMA SetSucceedsStep ==
  ASSUME SetupInv, NEW x \in Setups, SetSucceeds(x)
  PROVE  SetupInv'
<1>1. /\ cmd[<<x, "set">>] = "running" /\ Settle(<<x, "set">>, "ok") /\ Write(x) /\ OnItsLink(x)
      /\ ready' = [ready EXCEPT ![x[1]] = TRUE]
      /\ channelIdx' = [channelIdx EXCEPT ![x[1]] = chosen[x]]
      /\ UNCHANGED <<wanted, epoch, connected, chosen, subscribed, missing>>
  BY DEF SetSucceeds, BecomesReady
<1>2. x[1] \in Bots /\ chosen[x] \in Slots
  BY <1>1, SetupsAndCommands DEF SetupInv, SetupsInOrder
<1>3. /\ cmd' \in [Commands -> {"idle", "waiting", "running"} \cup Settled]
      /\ SetupsInOrder' /\ cmd'[<<x, "list">>] \in Settled
      /\ \A b \in Bots : LooksAgain(b)' => LooksAgain(b)
  BY <1>1, SettleKeepsOrder DEF Settled
<1>4. SetupTypes'
  <2>1. slots' \in [Slots -> Channels \cup {Blank}]
    BY <1>1, WriteKeepsTypes DEF SetupInv
  <2>2. channelIdx' \in [Bots -> 0 .. NumSlots] /\ ready' \in [Bots -> BOOLEAN]
    BY <1>1, <1>2, SetupAssumption DEF SetupInv, SetupTypes, Slots
  <2>3. QED
    BY <1>1, <1>3, <2>1, <2>2 DEF SetupInv, SetupTypes
<1>5. \A b \in Bots : ready'[b] => b = x[1] \/ ready[b]
  BY <1>1 DEF SetupInv, SetupTypes
<1>6. ReadyBotsAreDone'
  <2>1. ~LooksAgain(x[1])'
    BY <1>1, <1>3, SetupsAndCommands DEF LooksAgain, OnItsLink, Settled
  <2>2. QED
    BY <1>3, <1>5, <2>1 DEF SetupInv, ReadyBotsAreDone
<1>7. ChosenInTime'
  BY <1>1 DEF SetupInv, ChosenInTime
<1>8. AtMostOneMissing' => WantedAreThere' /\ ChosenAreSafe' /\ ReadyBotsOwn'
  <2> SUFFICES ASSUME AtMostOneMissing PROVE WantedAreThere' /\ ChosenAreSafe' /\ ReadyBotsOwn'
    BY <1>1 DEF AtMostOneMissing
  <2>1. /\ WantedAreThere' /\ ChosenAreSafe'
        /\ \A s \in Slots : slots[s] # Blank => slots'[s] = slots[s]
    BY <1>1, <1>2, WriteIsSafe
  <2>2. ASSUME NEW b \in Bots, ready'[b], Serves(b)'
        PROVE  channelIdx'[b] \in Slots /\ slots'[channelIdx'[b]] = wanted'[b]
    <3>1. CASE b = x[1]
      BY <1>1, <1>2, <3>1 DEF Write, SetupInv, SetupTypes
    <3>2. CASE b # x[1]
      BY <1>1, <1>5, <2>1, <2>2, <3>2, OwnersStay DEF SetupInv, SetupTypes, ReadyBotsOwn, Serves
    <3>3. QED
      BY <3>1, <3>2
  <2>3. QED
    BY <2>1, <2>2 DEF ReadyBotsOwn, OwnsSlot
<1>9. QED
  BY <1>3, <1>4, <1>6, <1>7, <1>8 DEF SetupInv

LEMMA SetFailsStep ==
  ASSUME SetupInv, NEW x \in Setups, SetFails(x)
  PROVE  SetupInv'
<1>1. /\ cmd[<<x, "set">>] = "running" /\ Settle(<<x, "set">>, "err")
      /\ (OnItsLink(x) /\ Write(x)) \/ UNCHANGED slots
      /\ UNCHANGED <<wanted, epoch, connected, chosen, subscribed, ready, channelIdx, missing>>
  BY DEF SetFails
<1>2. chosen[x] \in Slots
  BY <1>1 DEF SetupInv, SetupsInOrder
<1>3. /\ cmd' \in [Commands -> {"idle", "waiting", "running"} \cup Settled]
      /\ SetupsInOrder'
      /\ \A b \in Bots : LooksAgain(b)' => LooksAgain(b)
  BY <1>1, SettleKeepsOrder DEF Settled
<1>4. SetupTypes' /\ ReadyBotsAreDone' /\ ChosenInTime'
  <2>1. slots' \in [Slots -> Channels \cup {Blank}]
    BY <1>1, WriteKeepsTypes DEF SetupInv, SetupTypes
  <2>2. QED
    BY <1>1, <1>3, <2>1 DEF SetupInv, SetupTypes, ReadyBotsAreDone, ChosenInTime
<1>5. AtMostOneMissing' => WantedAreThere' /\ ChosenAreSafe' /\ ReadyBotsOwn'
  <2> SUFFICES ASSUME AtMostOneMissing PROVE WantedAreThere' /\ ChosenAreSafe' /\ ReadyBotsOwn'
    BY <1>1 DEF AtMostOneMissing
  <2>1. CASE OnItsLink(x) /\ Write(x)
    <3>1. /\ WantedAreThere' /\ ChosenAreSafe'
          /\ \A s \in Slots : slots[s] # Blank => slots'[s] = slots[s]
      BY <1>1, <1>2, <2>1, WriteIsSafe
    <3>2. QED
      BY <1>1, <3>1, OwnersStay DEF SetupInv, ReadyBotsOwn, OwnsSlot, Serves
  <2>2. CASE UNCHANGED slots
    BY <1>1, <2>2 DEF SetupInv, WantedAreThere, ChosenAreSafe, ReadyBotsOwn, OwnsSlot, Serves,
      OnItsLink
  <2>3. QED
    BY <1>1, <2>1, <2>2
<1>6. QED
  BY <1>3, <1>4, <1>5 DEF SetupInv

LEMMA SetupStep == SetupInv /\ [Next]_vars => SetupInv'
<1> SUFFICES ASSUME SetupInv, [Next]_vars PROVE SetupInv'
  OBVIOUS
<1>1. CASE Connect
  BY <1>1, ConnectStep
<1>2. CASE Disconnect
  BY <1>2, DisconnectStep
<1>3. CASE BeginNext /\ UNCHANGED setupVars
  BY <1>3, BeginStep
<1>4. ASSUME NEW x \in Setups,
             ListFinds(x) \/ ListMisses(x) \/ ListEnds(x) \/ SetSucceeds(x) \/ SetFails(x)
      PROVE  SetupInv'
  BY <1>4, ListFindsStep, ListMissesStep, ListEndsStep, SetSucceedsStep, SetFailsStep
<1>5. ASSUME NEW b \in Bots, BotStop(b)
      PROVE  SetupInv'
  BY <1>5, BotStopStep
<1>6. CASE TableChanges
  BY <1>6, TableChangesStep
<1>7. CASE UNCHANGED vars
  BY <1>7 DEF vars, queueVars, setupVars, SetupInv, SetupTypes, SetupsInOrder, ChosenInTime,
    ReadyBotsAreDone, LooksAgain, AtMostOneMissing, WantedAreThere, ChosenAreSafe, ReadyBotsOwn,
    OwnsSlot, OnItsLink, Serves
<1>8. QED
  BY <1>1, <1>2, <1>3, <1>4, <1>5, <1>6, <1>7 DEF Next

LEMMA SetupIsSafe == Spec => []SetupInv
  BY InitSetup, SetupStep, PTL DEF Spec

\* The condition of the properties, as the invariant has it.
LEMMA AtMostOne == SetupInv /\ Cardinality(missing) <= 1 => AtMostOneMissing
<1> SUFFICES ASSUME SetupInv, Cardinality(missing) <= 1 PROVE AtMostOneMissing
  OBVIOUS
<1>1. IsFiniteSet({wanted[b] : b \in Bots})
  <2>1. wanted \in Surjection(Bots, {wanted[b] : b \in Bots})
    BY DEF SetupInv, SetupTypes, Surjection
  <2>2. QED
    BY <2>1, SetupAssumption, FS_Surjection
<1>2. IsFiniteSet(missing)
  BY <1>1, FS_Subset DEF SetupInv, SetupTypes
<1>3. QED
  BY <1>2, OnlyOne DEF AtMostOneMissing

\* A bot that is ready replies on the channel it is bound to, and is not
\* looking for it on the present connection: for any number of bots,
\* reconnects, other tables and overlapping setups, with one channel to create
\* at most.
THEOREM ReadyIsOwn == Spec => []ReadyBotsOwnTheirSlot
<1>1. SetupInv => ReadyBotsOwnTheirSlot
  BY AtMostOne DEF SetupInv, ReadyBotsOwnTheirSlot, ReadyBotsOwn, ReadyBotsAreDone
<1>2. QED
  BY <1>1, SetupIsSafe, PTL

\* Under the same condition, no setup ever overwrites a channel of the device,
\* be it a bot's own, another bot's or one that no bot asked for.
THEOREM NothingIsOverwritten == Spec => ChannelsAreKept
<1> DEFINE Kept == connected /\ Cardinality(missing) <= 1 =>
                     \A s \in Slots : slots[s] # Blank => slots'[s] = slots[s]
<1>1. SetupInv /\ [Next]_vars => [Kept]_vars
  <2> SUFFICES ASSUME SetupInv, Next, connected, Cardinality(missing) <= 1,
                      NEW s \in Slots, slots[s] # Blank
               PROVE  slots'[s] = slots[s]
    OBVIOUS
  <2>1. AtMostOneMissing
    BY AtMostOne
  <2>2. ASSUME NEW x \in Setups, SetSucceeds(x) \/ SetFails(x)
        PROVE  slots'[s] = slots[s]
    <3>1. /\ cmd[<<x, "set">>] = "running" /\ UNCHANGED <<wanted, chosen, missing, epoch>>
          /\ (OnItsLink(x) /\ Write(x)) \/ UNCHANGED slots
      BY <2>2 DEF SetSucceeds, SetFails
    <3>2. chosen[x] \in Slots
      BY <3>1 DEF SetupInv, SetupsInOrder
    <3>3. QED
      BY <2>1, <3>1, <3>2, WriteIsSafe
  <2>3. ASSUME NEW x \in Setups, ListFinds(x) \/ ListMisses(x) \/ ListEnds(x)
        PROVE  slots'[s] = slots[s]
    BY <2>3 DEF ListFinds, ListMisses, ListEnds, setupVars
  <2>4. CASE Disconnect
    <3>1. /\ UNCHANGED <<wanted, chosen, missing, epoch>>
          /\ \/ UNCHANGED slots
             \/ \E x \in Setups : cmd[<<x, "set">>] = "running" /\ OnItsLink(x) /\ Write(x)
      BY <2>4 DEF Disconnect
    <3>2. ASSUME NEW x \in Setups, cmd[<<x, "set">>] = "running", OnItsLink(x), Write(x)
          PROVE  slots'[s] = slots[s]
      BY <2>1, <3>1, <3>2, WriteIsSafe DEF SetupInv, SetupsInOrder
    <3>3. QED
      BY <3>1, <3>2
  <2>5. CASE \/ Connect \/ TableChanges \/ (BeginNext /\ UNCHANGED setupVars)
             \/ \E b \in Bots : BotStop(b)
    BY <2>5 DEF Connect, TableChanges, BotStop, setupVars
  <2>6. QED
    BY <2>2, <2>3, <2>4, <2>5 DEF Next
<1>2. QED
  BY <1>1, SetupIsSafe, PTL DEF Spec, ChannelsAreKept

-----------------------------------------------------------------------------
(* The commands of all setups go through one chain, one at a time.          *)

LEMMA FunctionsAreSequences ==
  ASSUME NEW S, NEW n \in Nat, NEW f \in [1 .. n -> S]
  PROVE  f \in Seq(S) /\ Len(f) = n
OBVIOUS

\* New commands are hung on the chain, perhaps while a running one settles.
LEMMA SubmittedInOrder ==
  ASSUME ChainInv, NEW new \in Seq(Commands), chain' = chain \o new,
         \A i \in 1 .. Len(new) : cmd[new[i]] = "idle" /\ cmd'[new[i]] = "waiting",
         \A i, j \in 1 .. Len(new) : i # j => new[i] # new[j],
         cmd' \in [Commands -> {"idle", "waiting", "running"} \cup Settled],
         \A z \in Commands : \/ cmd'[z] = cmd[z]
                             \/ cmd[z] = "running" /\ cmd'[z] \in Settled
                             \/ \E i \in 1 .. Len(new) : new[i] = z
  PROVE  ChainInv'
<1> DEFINE n == Len(chain)
           m == Len(new)
<1>1. chain \in Seq(Commands) /\ n \in Nat /\ m \in Nat
  BY LenProperties DEF ChainInv, QueueTypeOK
<1>2. /\ chain' \in Seq(Commands) /\ Len(chain') = n + m
      /\ \A i \in 1 .. n + m : chain'[i] = IF i <= n THEN chain[i] ELSE new[i - n]
  BY <1>1, ConcatProperties
<1>3. DOMAIN chain = 1 .. n /\ DOMAIN chain' = 1 .. n + m
  BY <1>1, <1>2, LenProperties
<1>4. \A i \in 1 .. n : chain[i] \in Commands /\ cmd[chain[i]] # "idle"
  BY <1>1, <1>3, ElementOfSeq DEF ChainInv
<1>5. \A i \in 1 .. m : new[i] \in Commands
  BY ElementOfSeq
<1> HIDE DEF n, m
<1>6. \A i \in 1 .. n : \A k \in 1 .. m : chain[i] # new[k]
  BY <1>4 DEF m
<1>7. \A i \in 1 .. n : \/ cmd'[chain[i]] = cmd[chain[i]]
                        \/ cmd[chain[i]] = "running" /\ cmd'[chain[i]] \in Settled
  BY <1>4, <1>6 DEF m
<1>8. /\ \A i \in 1 .. n + m : i \in 1 .. n \/ i - n \in 1 .. m
      /\ \A i \in 1 .. n : i \in 1 .. n + m /\ chain'[i] = chain[i]
      /\ \A i \in 1 .. n + m : i \notin 1 .. n => chain'[i] = new[i - n]
  BY <1>1, <1>2
<1>9. \A i, j \in 1 .. n : i # j => chain[i] # chain[j]
  BY <1>3 DEF ChainInv
<1>10. \A i, j \in 1 .. n + m : i # j => chain'[i] # chain'[j]
  <2> SUFFICES ASSUME NEW i \in 1 .. n + m, NEW j \in 1 .. n + m, i # j
               PROVE  chain'[i] # chain'[j]
    OBVIOUS
  <2>1. CASE i \in 1 .. n /\ j \in 1 .. n
    <3>1. chain'[i] = chain[i] /\ chain'[j] = chain[j]
      BY <1>8, <2>1
    <3>2. QED
      BY <1>9, <2>1, <3>1
  <2>2. CASE i \in 1 .. n /\ j \notin 1 .. n
    <3>1. chain'[i] = chain[i] /\ j - n \in 1 .. m /\ chain'[j] = new[j - n]
      BY <1>8, <2>2
    <3>2. QED
      BY <1>6, <2>2, <3>1
  <2>3. CASE i \notin 1 .. n /\ j \in 1 .. n
    <3>1. chain'[j] = chain[j] /\ i - n \in 1 .. m /\ chain'[i] = new[i - n]
      BY <1>8, <2>3
    <3>2. QED
      BY <1>6, <2>3, <3>1
  <2>4. CASE i \notin 1 .. n /\ j \notin 1 .. n
    <3>1. /\ i - n \in 1 .. m /\ chain'[i] = new[i - n]
          /\ j - n \in 1 .. m /\ chain'[j] = new[j - n]
      BY <1>8, <2>4
    <3>2. i - n # j - n
      BY <1>1
    <3>3. QED
      BY <3>1, <3>2 DEF m
  <2>5. QED
    BY <2>1, <2>2, <2>3, <2>4
<1>11. \A i \in 1 .. n + m : cmd'[chain'[i]] # "idle"
  <2> SUFFICES ASSUME NEW i \in 1 .. n + m
               PROVE  cmd'[chain'[i]] # "idle"
    OBVIOUS
  <2>1. CASE i \in 1 .. n
    <3>1. chain'[i] = chain[i]
      BY <1>8, <2>1
    <3>2. cmd[chain[i]] # "idle"
      BY <1>4, <2>1
    <3>3. cmd'[chain[i]] = cmd[chain[i]] \/ cmd'[chain[i]] \in Settled
      BY <1>7, <2>1
    <3>4. cmd'[chain[i]] # "idle"
      BY <3>2, <3>3 DEF Settled
    <3>5. QED
      BY <3>1, <3>4
  <2>2. CASE i \notin 1 .. n
    <3>1. i - n \in 1 .. m /\ chain'[i] = new[i - n]
      BY <1>8, <2>2
    <3>2. QED
      BY <3>1 DEF m
  <2>3. QED
    BY <2>1, <2>2
<1>12. ASSUME NEW i \in 1 .. n + m, NEW j \in 1 .. n + m, i < j, cmd'[chain'[i]] \notin Settled
       PROVE  cmd'[chain'[j]] = "waiting"
  <2>1. CASE j \notin 1 .. n
    <3>1. j - n \in 1 .. m /\ chain'[j] = new[j - n]
      BY <1>8, <2>1
    <3>2. QED
      BY <3>1 DEF m
  <2>2. CASE j \in 1 .. n
    <3>1. i \in 1 .. n
      BY <1>1, <1>12, <2>2
    <3>2. chain'[i] = chain[i] /\ chain'[j] = chain[j]
      BY <1>8, <2>2, <3>1
    <3>3. cmd[chain[i]] \notin Settled
      BY <1>7, <1>12, <3>1, <3>2 DEF Settled
    <3>4. cmd[chain[j]] = "waiting"
      BY <1>3, <1>12, <2>2, <3>1, <3>3 DEF ChainInv, Serial
    <3>5. QED
      BY <1>7, <2>2, <3>2, <3>4
  <2>3. QED
    BY <2>1, <2>2
<1>13. QueueTypeOK'
  BY <1>2 DEF QueueTypeOK
<1>14. /\ \A i \in DOMAIN chain' : cmd'[chain'[i]] # "idle"
       /\ \A i, j \in DOMAIN chain' : i # j => chain'[i] # chain'[j]
  BY <1>3, <1>10, <1>11
<1>15. \A i, j \in DOMAIN chain' :
         i < j /\ cmd'[chain'[i]] \notin Settled => cmd'[chain'[j]] = "waiting"
  BY <1>3, <1>12
<1>16. Serial'
  BY <1>15 DEF Serial
<1>17. QED
  BY <1>13, <1>14, <1>16 DEF ChainInv

\* The first command that is not settled is called.
LEMMA BegunInOrder ==
  ASSUME ChainInv, BeginNext
  PROVE  ChainInv'
<1> PICK k \in DOMAIN chain : Begin(k)
  BY DEF BeginNext
<1>1. /\ UNCHANGED chain /\ cmd' = [cmd EXCEPT ![chain[k]] = "running"]
      /\ cmd[chain[k]] = "waiting" /\ Ready(k)
  BY DEF Begin
<1>2. chain \in Seq(Commands) /\ DOMAIN chain = 1 .. Len(chain) /\ Len(chain) \in Nat
  BY LenProperties DEF ChainInv, QueueTypeOK
<1>3. \A i \in DOMAIN chain : chain[i] \in Commands
  BY <1>2, ElementOfSeq
<1>4. \A i \in DOMAIN chain : i < k => cmd[chain[i]] \in Settled
  <2> SUFFICES ASSUME NEW i \in DOMAIN chain, i < k
               PROVE  cmd[chain[i]] \in Settled
    OBVIOUS
  <2>1. k > 1 /\ k - 1 \in DOMAIN chain /\ (i < k - 1 \/ i = k - 1)
    BY <1>2
  <2>2. cmd[chain[k - 1]] \in Settled
    BY <1>1, <2>1 DEF Ready
  <2>3. QED
    BY <2>1, <2>2 DEF ChainInv, Serial, Settled
<1>5. /\ cmd' \in [Commands -> {"idle", "waiting", "running"} \cup Settled]
      /\ \A y \in Commands : cmd'[y] = IF y = chain[k] THEN "running" ELSE cmd[y]
  BY <1>1 DEF ChainInv, QueueTypeOK
<1>6. ASSUME NEW i \in DOMAIN chain, NEW j \in DOMAIN chain, i < j, cmd'[chain[i]] \notin Settled
      PROVE  cmd'[chain[j]] = "waiting"
  <2>1. cmd[chain[i]] \notin Settled
    BY <1>1, <1>3, <1>5, <1>6 DEF Settled
  <2>2. cmd[chain[j]] = "waiting"
    BY <1>6, <2>1 DEF ChainInv, Serial
  <2>3. j # k
    BY <1>4, <1>6, <2>1
  <2>4. chain[j] # chain[k]
    BY <2>3 DEF ChainInv
  <2>5. QED
    BY <1>3, <1>5, <2>2, <2>4
<1>7. Serial'
  BY <1>1, <1>6 DEF Serial
<1>8. QED
  BY <1>1, <1>3, <1>5, <1>7 DEF ChainInv, QueueTypeOK

\* A command of a setup settles.
LEMMA SettledInOrder ==
  ASSUME ChainInv, NEW x \in Commands, NEW outcome \in Settled, cmd[x] = "running",
         Settle(x, outcome)
  PROVE  ChainInv'
<1>1. chain' = chain /\ cmd' = [cmd EXCEPT ![x] = outcome]
  BY DEF Settle
<1>2. PICK new \in Seq(Commands) : new = <<>> /\ Len(new) = 0
  BY EmptySeq
<1>3. chain' = chain \o new
  BY <1>1, <1>2, ConcatEmptySeq DEF ChainInv, QueueTypeOK
<1>4. /\ cmd' \in [Commands -> {"idle", "waiting", "running"} \cup Settled]
      /\ \A z \in Commands : cmd'[z] = cmd[z] \/ (cmd[z] = "running" /\ cmd'[z] \in Settled)
  BY <1>1 DEF ChainInv, QueueTypeOK
<1>5. \A i \in 1 .. Len(new) : FALSE
  BY <1>2
<1>6. QED
  BY <1>3, <1>4, <1>5, SubmittedInOrder

LEMMA ConnectInOrder ==
  ASSUME SetupInv, ChainInv, Connect
  PROVE  ChainInv'
<1> DEFINE lists == {<<<<b, epoch + 1>>, "list">> : b \in {b \in Bots : subscribed[b]}}
<1>1. /\ epoch < MaxConnects
      /\ cmd' = [x \in Commands |-> IF x \in lists THEN "waiting" ELSE cmd[x]]
      /\ \E order \in SetToSeqs(lists) : chain' = chain \o order
  BY DEF Connect
<1>2. epoch \in Nat /\ MaxConnects \in Nat /\ epoch + 1 \in 1 .. MaxConnects
  BY <1>1, SetupAssumption DEF SetupInv, SetupTypes
<1>3. \A x \in lists : x \in Commands /\ cmd[x] = "idle"
  <2> SUFFICES ASSUME NEW b \in Bots
               PROVE  <<<<b, epoch + 1>>, "list">> \in Commands /\ cmd[<<<<b, epoch + 1>>, "list">>] = "idle"
    OBVIOUS
  <2>1. PICK x \in Setups : x = <<b, epoch + 1>> /\ x[2] = epoch + 1
    BY <1>2, SetupsAndCommands
  <2>2. x[2] > epoch /\ <<x, "list">> \in Commands
    <3>1. x[2] > epoch
      BY <1>2, <2>1
    <3>2. QED
      BY <3>1, SetupsAndCommands
  <2>3. cmd[<<x, "list">>] = "idle"
    BY <2>2 DEF SetupInv, SetupsInOrder
  <2>4. QED
    BY <2>1, <2>2, <2>3
<1>4. IsFiniteSet(lists)
  <2>1. IsFiniteSet({b \in Bots : subscribed[b]})
    BY SetupAssumption, FS_Subset
  <2> DEFINE S == {b \in Bots : subscribed[b]}
             f == [b \in S |-> <<<<b, epoch + 1>>, "list">>]
  <2>2. f \in [S -> lists] /\ \A x \in lists : \E b \in S : f[b] = x
    OBVIOUS
  <2> HIDE DEF S, f
  <2>3. f \in Surjection(S, lists)
    BY <2>2 DEF Surjection
  <2>4. QED
    BY <2>1, <2>3, FS_Surjection DEF S
<1> HIDE DEF lists
<1>5. Cardinality(lists) \in Nat
  BY <1>4, FS_CardinalityType
<1>6. PICK order : chain' = chain \o order /\ order \in [1 .. Cardinality(lists) -> lists]
                   /\ \A i, j \in 1 .. Cardinality(lists) : i # j => order[i] # order[j]
  BY <1>1 DEF SetToSeqs
<1>7. order \in Seq(Commands) /\ Len(order) = Cardinality(lists)
  <2>1. order \in [1 .. Cardinality(lists) -> Commands]
    BY <1>3, <1>6
  <2>2. QED
    BY <1>5, <2>1, FunctionsAreSequences
<1>8. \A i \in 1 .. Len(order) : order[i] \in lists
  BY <1>6, <1>7
<1>9. \A z \in lists : \E i \in 1 .. Len(order) : order[i] = z
  <2> DEFINE D == 1 .. Cardinality(lists)
  <2>1. IsFiniteSet(D) /\ Cardinality(D) = Cardinality(lists)
    BY <1>5, FS_Interval
  <2> HIDE DEF D
  <2>2. order \in [D -> lists] /\ \A i, j \in D : order[i] = order[j] => i = j
    BY <1>6 DEF D
  <2>3. order \in Injection(D, lists)
    BY <2>2 DEF Injection, IsInjective
  <2>4. order \in Surjection(D, lists)
    BY <1>4, <2>1, <2>3, FS_Injection
  <2>5. \A z \in lists : \E i \in D : order[i] = z
    BY <2>4 DEF Surjection
  <2>6. QED
    BY <1>7, <2>5 DEF D
<1>10. cmd \in [Commands -> {"idle", "waiting", "running"} \cup Settled]
  BY DEF ChainInv, QueueTypeOK
<1>11. \A z \in Commands : IF z \in lists THEN cmd'[z] = "waiting" ELSE cmd'[z] = cmd[z]
  BY <1>1, <1>10
<1>12. cmd' \in [Commands -> {"idle", "waiting", "running"} \cup Settled]
  BY <1>1, <1>10
<1>13. \A i \in 1 .. Len(order) : cmd[order[i]] = "idle" /\ cmd'[order[i]] = "waiting"
  BY <1>3, <1>8, <1>11
<1>14. \A i, j \in 1 .. Len(order) : i # j => order[i] # order[j]
  BY <1>6, <1>7
<1>15. \A z \in Commands : \/ cmd'[z] = cmd[z]
                           \/ cmd[z] = "running" /\ cmd'[z] \in Settled
                           \/ \E i \in 1 .. Len(order) : order[i] = z
  BY <1>9, <1>11
<1>16. order \in Seq(Commands) /\ chain' = chain \o order
  BY <1>6, <1>7
<1>17. QED
  BY <1>12, <1>13, <1>14, <1>15, <1>16, SubmittedInOrder

LEMMA ListMissesInOrder ==
  ASSUME SetupInv, ChainInv, NEW x \in Setups, ListMisses(x)
  PROVE  ChainInv'
<1> DEFINE list == <<x, "list">>
           set == <<x, "set">>
<1>1. /\ cmd[list] = "running" /\ chain' = Append(chain, set)
      /\ cmd' = [cmd EXCEPT ![list] = "ok", ![set] = "waiting"]
  BY DEF ListMisses, SettleAndRun
<1>2. list \in Commands /\ set \in Commands /\ list # set
  BY SetupsAndCommands
<1>3. cmd[set] = "idle"
  BY <1>1 DEF SetupInv, SetupsInOrder, Settled
<1> HIDE DEF list, set
<1>4. chain \in Seq(Commands) /\ cmd \in [Commands -> {"idle", "waiting", "running"} \cup Settled]
  BY DEF ChainInv, QueueTypeOK
<1>5. PICK e \in Commands : e = set /\ chain' = Append(chain, e)
  BY <1>1, <1>2
<1>6. chain' = chain \o <<e>>
  BY <1>4, <1>5, AppendIsConcat
<1>7. PICK new : new = <<e>> /\ chain' = chain \o new
  BY <1>6
<1>8. new \in Seq(Commands) /\ Len(new) = 1 /\ new[1] = set
  <2>1. new \in [1 .. 1 -> Commands] /\ new[1] = e
    BY <1>7
  <2>2. new \in Seq(Commands) /\ Len(new) = 1
    BY <2>1, FunctionsAreSequences
  <2>3. QED
    BY <1>5, <2>1, <2>2
<1>9. /\ cmd' \in [Commands -> {"idle", "waiting", "running"} \cup Settled]
      /\ cmd'[set] = "waiting" /\ cmd'[list] = "ok"
      /\ \A z \in Commands : z # list /\ z # set => cmd'[z] = cmd[z]
  BY <1>1, <1>2, <1>4 DEF Settled
<1>10. \A i \in 1 .. Len(new) : i = 1
  BY <1>8
<1>11. 1 \in 1 .. Len(new)
  BY <1>8
<1>12. \A z \in Commands : \/ cmd'[z] = cmd[z]
                           \/ cmd[z] = "running" /\ cmd'[z] \in Settled
                           \/ \E i \in 1 .. Len(new) : new[i] = z
  BY <1>1, <1>8, <1>9, <1>11 DEF Settled
<1>13. /\ \A i \in 1 .. Len(new) : cmd[new[i]] = "idle" /\ cmd'[new[i]] = "waiting"
       /\ \A i, j \in 1 .. Len(new) : i # j => new[i] # new[j]
  BY <1>3, <1>8, <1>9, <1>10
<1>14. QED
  BY <1>7, <1>8, <1>9, <1>12, <1>13, SubmittedInOrder

LEMMA ChainStep ==
  ASSUME SetupInv, ChainInv, [Next]_vars
  PROVE  ChainInv'
<1>1. ASSUME UNCHANGED queueVars
      PROVE  ChainInv'
  BY <1>1 DEF queueVars, ChainInv, QueueTypeOK, Serial
<1>2. CASE Connect
  BY <1>2, ConnectInOrder
<1>3. CASE BeginNext
  BY <1>3, BegunInOrder
<1>4. ASSUME NEW x \in Setups,
             ListFinds(x) \/ ListMisses(x) \/ ListEnds(x) \/ SetSucceeds(x) \/ SetFails(x)
      PROVE  ChainInv'
  <2>1. <<x, "list">> \in Commands /\ <<x, "set">> \in Commands /\ "ok" \in Settled /\ "err" \in Settled
    BY SetupsAndCommands DEF Settled
  <2>2. CASE ListMisses(x)
    BY <2>2, ListMissesInOrder
  <2>3. CASE ListFinds(x) \/ ListEnds(x)
    <3>1. cmd[<<x, "list">>] = "running" /\ \E outcome \in Settled : Settle(<<x, "list">>, outcome)
      BY <2>1, <2>3 DEF ListFinds, ListEnds
    <3>2. QED
      BY <2>1, <3>1, SettledInOrder
  <2>4. CASE SetSucceeds(x) \/ SetFails(x)
    <3>1. cmd[<<x, "set">>] = "running" /\ \E outcome \in Settled : Settle(<<x, "set">>, outcome)
      BY <2>1, <2>4 DEF SetSucceeds, SetFails
    <3>2. QED
      BY <2>1, <3>1, SettledInOrder
  <2>5. QED
    BY <1>4, <2>2, <2>3, <2>4
<1>5. CASE Disconnect \/ TableChanges \/ (\E b \in Bots : BotStop(b)) \/ UNCHANGED vars
  BY <1>1, <1>5 DEF Disconnect, TableChanges, BotStop, vars
<1>6. QED
  BY <1>2, <1>3, <1>4, <1>5 DEF Next

LEMMA ChainIsSafe == Spec => []ChainInv
<1>1. Init => ChainInv
  BY DEF Init, QueueInit, ChainInv, QueueTypeOK, Serial
<1>2. SetupInv /\ ChainInv /\ [Next]_vars => ChainInv'
  BY ChainStep
<1>3. QED
  BY <1>1, <1>2, SetupIsSafe, PTL DEF Spec

\* However the setups of several bots and several connections overlap, their
\* list and create commands run one at a time, in the order of submission:
\* what comes between the list and the creation of one setup is a whole
\* command of another.
THEOREM SetupIsSerial == Spec => []Serial
<1>1. ChainInv => Serial
  BY DEF ChainInv
<1>2. QED
  BY <1>1, ChainIsSafe, PTL

\* The state of the setups keeps its types: a slot is chosen, and an index
\* kept, only within the channel table of the device.
THEOREM SetupTypeCorrect == Spec => []TypeOK
<1>1. SetupInv /\ ChainInv => TypeOK
  BY DEF SetupInv, SetupTypes, ChainInv, TypeOK
<1>2. QED
  BY <1>1, SetupIsSafe, ChainIsSafe, PTL
=============================================================================
