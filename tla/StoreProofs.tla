------------------------------ MODULE StoreProofs ------------------------------
(***************************************************************************)
(* Proofs about MetricsStore and NodeRegistry.  For any set of replies, any *)
(* number of crashes and any adverts, no upgrade gets stuck, loses a reply *)
(* or doubles one, and what waits can be sent afterwards.  And the table   *)
(* of the nodes, with its two times per node, answers lookups, lists and   *)
(* counts as the whole history of hearings would.                          *)
(***************************************************************************)
EXTENDS NodeRegistry, SequenceTheorems, FiniteSetTheorems, WellFoundedInduction, TLAPS

Tables ==
  {"command_events", "reply_events", "nodes", "queue_items", "bot_replies",
   "flood_advert_state", "bot_replies_new"}

Orders == [op : {"create", "columns"}, to : Tables]
          \cup [op : {"copy", "rename"}, from : Tables, to : Tables]
          \cup [op : {"drop"}, from : Tables]

\* The replies something is said of.
Those(outcomes) == {r \in Replies : life[r] \in outcomes}

\* A table with one row for each of some replies.
OneEach(rows, replies) ==
  /\ \A row \in rows : row.of \in replies
  /\ \A r \in replies : \E row \in rows : row.of = r
  /\ \A x, y \in rows : x.of = y.of => x = y

\* What the command of a kind may have left in the columns.
Fine(kind, row) ==
  CASE kind = "exact" -> row.query = Null /\ row.lookup = Null
    [] kind = "stats" -> row.query # Null /\ row.lookup = Null
    [] kind = "lookup" -> row.lookup = "found"

EventsAreTrue(rows) ==
  OneEach(rows, Those(Resolved)) /\ \A row \in rows : row.status = life[row.of]

QueueIsTrue(rows) ==
  /\ OneEach(rows, Those({"pending"}))
  /\ \A row \in rows : Fine(kindOf[row.of], row)

RepliesAreTrue(rows) ==
  /\ OneEach(rows, Those(Resolved \cup {"pending"}))
  /\ \A row \in rows :
       /\ row.status = life[row.of]
       /\ row.status = "pending" => Fine(kindOf[row.of], row)

HandledRepliesAreTrue(rows) ==
  /\ OneEach(rows, Those(Resolved \cup {"pending"}))
  /\ \A row \in rows :
       /\ row.status = life[row.of]
       /\ {"of", "status", "state"} \subseteq DOMAIN row
       /\ row.status = "pending" => Restores(kindOf[row.of], row.state)

\* A database of version v that lost nothing and doubled nothing.
Sound(t, v) ==
  /\ DOMAIN t = TablesOf(v)
  /\ v = 1 => OneEach(t["command_events"], Those({"sent"}))
  /\ v \in 2 .. 4 => EventsAreTrue(t["reply_events"])
  /\ v = 4 => QueueIsTrue(t["queue_items"])
  /\ v \in 5 .. 7 => RepliesAreTrue(t["bot_replies"])
  /\ v = 8 => HandledRepliesAreTrue(t["bot_replies"])

\* From t the statements s can all be executed, and they end in a sound
\* database of version v; w are the databases on the way.
Leads(t, s, v) ==
  \E w : /\ w[1] = t
         /\ \A i \in 1 .. Len(s) : Fits(w[i], s[i]) /\ w[i + 1] = Exec(w[i], s[i])
         /\ Sound(w[Len(s) + 1], v)

StoreInv ==
  /\ kindOf \in [Replies -> Kinds] /\ life \in [Replies -> Recorded(8)]
  /\ DOMAIN disk = {"version", "tables"} /\ disk.version \in 0 .. 8
  /\ \A r \in Replies : life[r] \in Recorded(disk.version)
  /\ Sound(disk.tables, disk.version)
  /\ opener \in {"none", "between", "inside", "open"}
  /\ opener \in {"between", "inside"} => migration = disk.version + 1
  /\ opener = "inside" =>
       /\ disk.version < 8 /\ todo \in Seq(Orders)
       /\ Leads(work, todo, migration)
  /\ opener = "open" => disk.version = 8
-----------------------------------------------------------------------------
(* Sequences of statements.                                                *)

LEMMA LeadsNowhere ==
  ASSUME NEW t, NEW v, Sound(t, v)
  PROVE  Leads(t, <<>>, v)
<1> DEFINE w == <<t>>
<1>1. w[1] = t /\ w[Len(<<>>) + 1] = t /\ 1 .. Len(<<>>) = {}
  OBVIOUS
<1> HIDE DEF w
<1>2. QED
  BY <1>1 DEF Leads

\* One statement more in front.
LEMMA LeadsFrom ==
  ASSUME NEW t, NEW s \in Seq(Orders), s # <<>>, NEW v,
         Fits(t, Head(s)), Leads(Exec(t, Head(s)), Tail(s), v)
  PROVE  Leads(t, s, v)
<1>1. /\ Len(s) \in Nat \ {0} /\ Head(s) = s[1] /\ Len(Tail(s)) = Len(s) - 1
      /\ \A i \in 1 .. Len(s) - 1 : Tail(s)[i] = s[i + 1]
  BY HeadTailProperties, EmptySeq, LenProperties
<1>2. PICK w : /\ w[1] = Exec(t, s[1])
               /\ \A i \in 1 .. Len(s) - 1 : Fits(w[i], s[i + 1]) /\ w[i + 1] = Exec(w[i], s[i + 1])
               /\ Sound(w[Len(s)], v)
  BY <1>1 DEF Leads
<1> DEFINE x == [i \in 1 .. Len(s) + 1 |-> IF i = 1 THEN t ELSE w[i - 1]]
<1>3. /\ x[1] = t
      /\ \A i \in 1 .. Len(s) : x[i + 1] = w[i]
  BY <1>1
<1> HIDE DEF x
<1>4. ASSUME NEW i \in 1 .. Len(s)
      PROVE  Fits(x[i], s[i]) /\ x[i + 1] = Exec(x[i], s[i])
  <2>1. CASE i = 1
    BY <1>1, <1>2, <1>3, <2>1
  <2>2. CASE i # 1
    <3>1. i - 1 \in 1 .. Len(s) - 1 /\ i - 1 \in 1 .. Len(s) /\ (i - 1) + 1 = i
      BY <1>1, <2>2
    <3>2. x[i] = w[i - 1] /\ x[i + 1] = w[i]
      BY <1>3, <3>1
    <3>3. QED
      BY <1>2, <3>1, <3>2
  <2>3. QED
    BY <2>1, <2>2
<1>5. Sound(x[Len(s) + 1], v)
  BY <1>1, <1>2, <1>3
<1>6. QED
  BY <1>3, <1>4, <1>5 DEF Leads

\* One statement executed.
LEMMA LeadsOn ==
  ASSUME NEW t, NEW s \in Seq(Orders), s # <<>>, NEW v, Leads(t, s, v)
  PROVE  Fits(t, Head(s)) /\ Leads(Exec(t, Head(s)), Tail(s), v)
<1>1. /\ Len(s) \in Nat \ {0} /\ Head(s) = s[1] /\ Len(Tail(s)) = Len(s) - 1
      /\ \A i \in 1 .. Len(s) - 1 : Tail(s)[i] = s[i + 1]
  BY HeadTailProperties, EmptySeq, LenProperties
<1>2. PICK w : /\ w[1] = t
               /\ \A i \in 1 .. Len(s) : Fits(w[i], s[i]) /\ w[i + 1] = Exec(w[i], s[i])
               /\ Sound(w[Len(s) + 1], v)
  BY DEF Leads
<1> DEFINE x == [i \in 1 .. Len(s) |-> w[i + 1]]
<1>3. \A i \in 1 .. Len(s) : x[i] = w[i + 1]
  OBVIOUS
<1> HIDE DEF x
<1>4. Fits(t, Head(s)) /\ x[1] = Exec(t, Head(s))
  BY <1>1, <1>2, <1>3
<1>5. \A i \in 1 .. Len(Tail(s)) : Fits(x[i], Tail(s)[i]) /\ x[i + 1] = Exec(x[i], Tail(s)[i])
  BY <1>1, <1>2, <1>3
<1>6. Sound(x[Len(Tail(s)) + 1], v)
  BY <1>1, <1>2, <1>3
<1>7. Leads(Exec(t, Head(s)), Tail(s), v)
  BY <1>4, <1>5, <1>6 DEF Leads
<1>8. QED
  BY <1>4, <1>7

-----------------------------------------------------------------------------
(* The tables of the versions.                                             *)

LEMMA Versions ==
  /\ TablesOf(0) = {}
  /\ TablesOf(1) = {"command_events"}
  /\ TablesOf(2) = {"reply_events"}
  /\ TablesOf(3) = {"reply_events", "nodes"}
  /\ TablesOf(4) = {"reply_events", "nodes", "queue_items"}
  /\ TablesOf(5) = {"nodes", "bot_replies"}
  /\ TablesOf(6) = {"nodes", "bot_replies"}
  /\ TablesOf(7) = {"nodes", "bot_replies", "flood_advert_state"}
  /\ TablesOf(8) = {"nodes", "bot_replies", "flood_advert_state"}
  BY DEF Lifetime, TablesOf

LEMMA Outcomes ==
  /\ Recorded(0) = {"none"} /\ Recorded(1) = {"none", "sent"}
  /\ \A v \in 2 .. 3 : Recorded(v) = {"none"} \cup Resolved
  /\ \A v \in 4 .. 8 : Recorded(v) = {"none", "pending"} \cup Resolved
  BY DEF Recorded, Resolved

LEMMA RecordedGrows ==
  ASSUME NEW v \in 0 .. 8
  PROVE  Recorded(v) \subseteq Recorded(v + 1)
  BY DEF Recorded
-----------------------------------------------------------------------------
(* Rows.                                                                   *)

LEMMA NoRows ==
  OneEach({}, {})
  BY DEF OneEach

LEMMA ListedRows ==
  ASSUME NEW rows, NEW replies, NEW f,
         \A r \in replies : f[r] \in rows /\ f[r].of = r,
         \A row \in rows : \E r \in replies : row = f[r]
  PROVE  OneEach(rows, replies)
<1>1. \A row \in rows : row.of \in replies /\ row = f[row.of]
  OBVIOUS
<1>2. \A r \in replies : \E row \in rows : row.of = r
  OBVIOUS
<1>3. \A x, y \in rows : x.of = y.of => x = y
  BY <1>1
<1>4. QED
  BY <1>1, <1>2, <1>3 DEF OneEach

LEMMA ConvertedRows ==
  ASSUME NEW from \in {"command_events", "reply_events", "queue_items", "bot_replies"},
         NEW rows, NEW replies, OneEach(rows, replies)
  PROVE  OneEach({Converted(from, row) : row \in rows}, replies)
<1>1. \A row : Converted(from, row).of = row.of
  BY DEF Converted
<1>2. QED
  BY <1>1 DEF OneEach

LEMMA WidenedRows ==
  ASSUME NEW rows, NEW replies, OneEach(rows, replies)
  PROVE  OneEach({Widened(row) : row \in rows}, replies)
<1>1. \A row : Widened(row).of = row.of
  BY DEF Widened
<1>2. QED
  BY <1>1 DEF OneEach

LEMMA BothRows ==
  ASSUME NEW rows1, NEW rows2, NEW replies1, NEW replies2, replies1 \cap replies2 = {},
         OneEach(rows1, replies1), OneEach(rows2, replies2)
  PROVE  OneEach(rows1 \cup rows2, replies1 \cup replies2)
  BY DEF OneEach

-----------------------------------------------------------------------------
(* The migrations.                                                         *)

LEMMA LeadsByOne ==
  ASSUME NEW t, NEW a \in Orders, NEW v, Fits(t, a), Sound(Exec(t, a), v)
  PROVE  Leads(t, <<a>>, v)
<1>1. <<a>> \in Seq(Orders) /\ <<a>> # <<>> /\ Head(<<a>>) = a /\ Tail(<<a>>) = <<>>
  OBVIOUS
<1>2. Leads(Exec(t, a), <<>>, v)
  BY LeadsNowhere
<1>3. QED
  BY <1>1, <1>2, LeadsFrom

LEMMA LeadsByTwo ==
  ASSUME NEW t, NEW a \in Orders, NEW b \in Orders, NEW v,
         Fits(t, a), Leads(Exec(t, a), <<b>>, v)
  PROVE  Leads(t, <<a, b>>, v)
<1> DEFINE s == <<a, b>>
<1>1. s \in Seq(Orders) /\ s # <<>> /\ Head(s) = a /\ Tail(s) = <<b>>
  OBVIOUS
<1>2. QED
  BY <1>1, LeadsFrom

LEMMA LeadsByThree ==
  ASSUME NEW t, NEW a \in Orders, NEW b \in Orders, NEW c \in Orders, NEW v,
         Fits(t, a), Leads(Exec(t, a), <<b, c>>, v)
  PROVE  Leads(t, <<a, b, c>>, v)
<1> DEFINE s == <<a, b, c>>
<1>1. s \in Seq(Orders) /\ s # <<>> /\ Head(s) = a /\ Tail(s) = <<b, c>>
  OBVIOUS
<1>2. QED
  BY <1>1, LeadsFrom

LEMMA LeadsByFour ==
  ASSUME NEW t, NEW a \in Orders, NEW b \in Orders, NEW c \in Orders, NEW d \in Orders, NEW v,
         Fits(t, a), Leads(Exec(t, a), <<b, c, d>>, v)
  PROVE  Leads(t, <<a, b, c, d>>, v)
<1> DEFINE s == <<a, b, c, d>>
<1>1. s \in Seq(Orders) /\ s # <<>> /\ Head(s) = a /\ Tail(s) = <<b, c, d>>
  OBVIOUS
<1>2. QED
  BY <1>1, LeadsFrom

LEMMA LeadsByFive ==
  ASSUME NEW t, NEW a \in Orders, NEW b \in Orders, NEW c \in Orders, NEW d \in Orders,
         NEW e \in Orders, NEW v,
         Fits(t, a), Leads(Exec(t, a), <<b, c, d, e>>, v)
  PROVE  Leads(t, <<a, b, c, d, e>>, v)
<1> DEFINE s == <<a, b, c, d, e>>
<1>1. s \in Seq(Orders) /\ s # <<>> /\ Head(s) = a /\ Tail(s) = <<b, c, d, e>>
  OBVIOUS
<1>2. QED
  BY <1>1, LeadsFrom

LEMMA Migration1 ==
  ASSUME NEW t, Sound(t, 0), \A r \in Replies : life[r] \in Recorded(0)
  PROVE  Leads(t, Migrations[1], 1)
<1> DEFINE a == Create("command_events")
           u == Exec(t, a)
<1>1. DOMAIN t = {}
  BY Versions DEF Sound
<1>2. Fits(t, a) /\ DOMAIN u = {"command_events"} /\ u["command_events"] = {}
  BY <1>1 DEF Exec, Fits, Create, With
<1> HIDE DEF u
<1>3. Those({"sent"}) = {}
  BY Outcomes DEF Those
<1>4. Sound(u, 1)
  BY <1>2, <1>3, Versions, NoRows DEF Sound
<1>5. a \in Orders
  BY DEF Orders, Tables, Create, Copy, AddColumns, Drop, Rename
<1>6. Migrations[1] = <<a>>
  BY DEF Migrations
<1>7. QED
  BY <1>2, <1>4, <1>5, <1>6, LeadsByOne DEF u

LEMMA Migration2 ==
  ASSUME NEW t, Sound(t, 1), \A r \in Replies : life[r] \in Recorded(1)
  PROVE  Leads(t, Migrations[2], 2)
<1> DEFINE a == Create("reply_events")
           b == Copy("command_events", "reply_events")
           c == Drop("command_events")
           t1 == Exec(t, a)
           t2 == Exec(t1, b)
           t3 == Exec(t2, c)
           rows == t["command_events"]
<1>1. DOMAIN t = {"command_events"} /\ OneEach(rows, Those({"sent"}))
  BY Versions DEF Sound
<1>2. /\ Fits(t, a) /\ DOMAIN t1 = {"command_events", "reply_events"}
      /\ t1["reply_events"] = {} /\ t1["command_events"] = rows
  BY <1>1 DEF Exec, Fits, Create, With
<1> HIDE DEF t1, rows
<1>3. /\ Fits(t1, b) /\ DOMAIN t2 = {"command_events", "reply_events"}
      /\ t2["reply_events"] = {Converted("command_events", row) : row \in rows}
  BY <1>2 DEF Exec, Fits, Copy
<1> HIDE DEF t2
<1>4. /\ Fits(t2, c) /\ DOMAIN t3 = {"reply_events"}
      /\ t3["reply_events"] = {Converted("command_events", row) : row \in rows}
  BY <1>3 DEF Exec, Fits, Drop, Without, Restrict
<1> HIDE DEF t3
<1>5. Those({"sent"}) = Those(Resolved)
  BY Outcomes DEF Those, Resolved
<1>6. OneEach(t3["reply_events"], Those(Resolved))
  BY <1>1, <1>4, <1>5, ConvertedRows
<1>7. \A row \in rows : row.of \in Those({"sent"})
  BY <1>1 DEF OneEach
<1>8. \A row \in rows : life[row.of] = "sent"
  BY <1>7 DEF Those
<1>9. \A row : Converted("command_events", row).of = row.of /\ Converted("command_events", row).status = "sent"
  BY DEF Converted
<1>10. \A row \in t3["reply_events"] : row.status = life[row.of]
  BY <1>4, <1>8, <1>9
<1>11. Sound(t3, 2)
  BY <1>4, <1>6, <1>10, Versions DEF Sound, EventsAreTrue
<1>12. a \in Orders /\ b \in Orders /\ c \in Orders
  BY DEF Orders, Tables, Create, Copy, AddColumns, Drop, Rename
<1>13. Migrations[2] = <<a, b, c>>
  BY DEF Migrations
<1> HIDE DEF a, b, c
<1>14. Leads(t2, <<c>>, 2)
  BY <1>4, <1>11, <1>12, LeadsByOne DEF t3
<1>15. Leads(t1, <<b, c>>, 2)
  BY <1>3, <1>12, <1>14, LeadsByTwo DEF t2
<1>16. Leads(t, <<a, b, c>>, 2)
  BY <1>2, <1>12, <1>15, LeadsByThree DEF t1
<1>17. QED
  BY <1>13, <1>16

LEMMA Migration3 ==
  ASSUME NEW t, Sound(t, 2)
  PROVE  Leads(t, Migrations[3], 3)
<1> DEFINE a == Create("nodes")
           u == Exec(t, a)
<1>1. DOMAIN t = {"reply_events"} /\ EventsAreTrue(t["reply_events"])
  BY Versions DEF Sound
<1>2. /\ Fits(t, a) /\ DOMAIN u = {"reply_events", "nodes"}
      /\ u["reply_events"] = t["reply_events"]
  BY <1>1 DEF Exec, Fits, Create, With
<1> HIDE DEF u
<1>3. Sound(u, 3)
  BY <1>1, <1>2, Versions DEF Sound
<1>4. a \in Orders
  BY DEF Orders, Tables, Create, Copy, AddColumns, Drop, Rename
<1>5. Migrations[3] = <<a>>
  BY DEF Migrations
<1>6. QED
  BY <1>2, <1>3, <1>4, <1>5, LeadsByOne DEF u

LEMMA Migration4 ==
  ASSUME NEW t, Sound(t, 3), \A r \in Replies : life[r] \in Recorded(3)
  PROVE  Leads(t, Migrations[4], 4)
<1> DEFINE a == Create("queue_items")
           u == Exec(t, a)
<1>1. DOMAIN t = {"reply_events", "nodes"} /\ EventsAreTrue(t["reply_events"])
  BY Versions DEF Sound
<1>2. /\ Fits(t, a) /\ DOMAIN u = {"reply_events", "nodes", "queue_items"}
      /\ u["reply_events"] = t["reply_events"] /\ u["queue_items"] = {}
  BY <1>1 DEF Exec, Fits, Create, With
<1> HIDE DEF u
<1>3. Those({"pending"}) = {}
  BY Outcomes DEF Those, Resolved
<1>4. QueueIsTrue(u["queue_items"])
  BY <1>2, <1>3, NoRows DEF QueueIsTrue
<1>5. Sound(u, 4)
  BY <1>1, <1>2, <1>4, Versions DEF Sound
<1>6. a \in Orders
  BY DEF Orders, Tables, Create, Copy, AddColumns, Drop, Rename
<1>7. Migrations[4] = <<a>>
  BY DEF Migrations
<1>8. QED
  BY <1>2, <1>5, <1>6, <1>7, LeadsByOne DEF u

\* The one with two sources: the replies that wait and those that do not.
LEMMA Migration5 ==
  ASSUME NEW t, Sound(t, 4)
  PROVE  Leads(t, Migrations[5], 5)
<1> DEFINE a == Create("bot_replies")
           b == Copy("queue_items", "bot_replies")
           c == Copy("reply_events", "bot_replies")
           d == Drop("queue_items")
           e == Drop("reply_events")
           t1 == Exec(t, a)
           t2 == Exec(t1, b)
           t3 == Exec(t2, c)
           t4 == Exec(t3, d)
           t5 == Exec(t4, e)
           waiting == t["queue_items"]
           over == t["reply_events"]
           waiting1 == {Converted("queue_items", row) : row \in waiting}
           over1 == {Converted("reply_events", row) : row \in over}
<1>1. /\ DOMAIN t = {"reply_events", "nodes", "queue_items"}
      /\ EventsAreTrue(over) /\ QueueIsTrue(waiting)
  BY Versions DEF Sound
<1>2. /\ Fits(t, a) /\ DOMAIN t1 = {"reply_events", "nodes", "queue_items", "bot_replies"}
      /\ t1["bot_replies"] = {} /\ t1["queue_items"] = waiting /\ t1["reply_events"] = over
  BY <1>1 DEF Exec, Fits, Create, With
<1> HIDE DEF t1, waiting, over
<1>3. /\ Fits(t1, b) /\ DOMAIN t2 = DOMAIN t1
      /\ t2["bot_replies"] = waiting1 /\ t2["reply_events"] = over
  BY <1>2 DEF Exec, Fits, Copy
<1> HIDE DEF t2, waiting1
<1>4. Fits(t2, c) /\ DOMAIN t3 = DOMAIN t1 /\ t3["bot_replies"] = waiting1 \cup over1
  BY <1>2, <1>3 DEF Exec, Fits, Copy
<1> HIDE DEF t3, over1
<1>5. /\ Fits(t3, d) /\ DOMAIN t4 = {"reply_events", "nodes", "bot_replies"}
      /\ t4["bot_replies"] = waiting1 \cup over1
  BY <1>2, <1>4 DEF Exec, Fits, Drop, Without, Restrict
<1> HIDE DEF t4
<1>6. /\ Fits(t4, e) /\ DOMAIN t5 = {"nodes", "bot_replies"}
      /\ t5["bot_replies"] = waiting1 \cup over1
  BY <1>5 DEF Exec, Fits, Drop, Without, Restrict
<1> HIDE DEF t5
<1>7. OneEach(waiting1 \cup over1, Those(Resolved \cup {"pending"}))
  <2>1. OneEach(waiting1, Those({"pending"}))
    BY <1>1, ConvertedRows DEF QueueIsTrue, waiting1
  <2>2. OneEach(over1, Those(Resolved))
    BY <1>1, ConvertedRows DEF EventsAreTrue, over1
  <2>3. /\ Those({"pending"}) \cap Those(Resolved) = {}
        /\ Those({"pending"}) \cup Those(Resolved) = Those(Resolved \cup {"pending"})
    BY DEF Those, Resolved
  <2>4. QED
    BY <2>1, <2>2, <2>3, BothRows
<1>8. ASSUME NEW row \in waiting1 \cup over1
      PROVE  row.status = life[row.of] /\ (row.status = "pending" => Fine(kindOf[row.of], row))
  <2>1. CASE row \in waiting1
    <3>1. PICK old \in waiting : row = Converted("queue_items", old)
      BY <2>1 DEF waiting1
    <3>2. row.of = old.of /\ row.status = "pending" /\ row.query = old.query /\ row.lookup = old.lookup
      BY <3>1 DEF Converted
    <3>3. life[old.of] = "pending" /\ Fine(kindOf[old.of], old)
      BY <1>1 DEF QueueIsTrue, OneEach, Those
    <3>4. Fine(kindOf[old.of], row)
      BY <3>2, <3>3 DEF Fine
    <3>5. QED
      BY <3>2, <3>3, <3>4
  <2>2. CASE row \in over1
    <3>1. PICK old \in over : row = Converted("reply_events", old)
      BY <2>2 DEF over1
    <3>2. row.of = old.of /\ row.status = old.status
      BY <3>1 DEF Converted
    <3>3. old.status = life[old.of] /\ life[old.of] \in Resolved
      BY <1>1 DEF EventsAreTrue, OneEach, Those
    <3>4. QED
      BY <3>2, <3>3 DEF Resolved
  <2>3. QED
    BY <2>1, <2>2
<1>9. Sound(t5, 5)
  BY <1>6, <1>7, <1>8, Versions DEF Sound, RepliesAreTrue
<1>10. a \in Orders /\ b \in Orders /\ c \in Orders /\ d \in Orders /\ e \in Orders
  BY DEF Orders, Tables, Create, Copy, AddColumns, Drop, Rename
<1>11. Migrations[5] = <<a, b, c, d, e>>
  BY DEF Migrations
<1> HIDE DEF a, b, c, d, e
<1>12. Leads(t4, <<e>>, 5)
  BY <1>6, <1>9, <1>10, LeadsByOne DEF t5
<1>13. Leads(t3, <<d, e>>, 5)
  BY <1>5, <1>10, <1>12, LeadsByTwo DEF t4
<1>14. Leads(t2, <<c, d, e>>, 5)
  BY <1>4, <1>10, <1>13, LeadsByThree DEF t3
<1>15. Leads(t1, <<b, c, d, e>>, 5)
  BY <1>3, <1>10, <1>14, LeadsByFour DEF t2
<1>16. Leads(t, <<a, b, c, d, e>>, 5)
  BY <1>2, <1>10, <1>15, LeadsByFive DEF t1
<1>17. QED
  BY <1>11, <1>16

LEMMA Migration6 ==
  ASSUME NEW t, Sound(t, 5)
  PROVE  Leads(t, Migrations[6], 6)
<1> DEFINE a == AddColumns("bot_replies")
           u == Exec(t, a)
           rows == t["bot_replies"]
<1>1. DOMAIN t = {"nodes", "bot_replies"} /\ RepliesAreTrue(rows)
  BY Versions DEF Sound
<1>2. /\ Fits(t, a) /\ DOMAIN u = {"nodes", "bot_replies"}
      /\ u["bot_replies"] = {Widened(row) : row \in rows}
  BY <1>1 DEF Exec, Fits, AddColumns
<1> HIDE DEF u, rows
<1>3. \A row : /\ Widened(row).of = row.of /\ Widened(row).status = row.status
               /\ Widened(row).query = row.query /\ Widened(row).lookup = row.lookup
  BY DEF Widened
<1>4. OneEach(u["bot_replies"], Those(Resolved \cup {"pending"}))
  BY <1>1, <1>2, WidenedRows DEF RepliesAreTrue
<1>5. ASSUME NEW row \in u["bot_replies"]
      PROVE  row.status = life[row.of] /\ (row.status = "pending" => Fine(kindOf[row.of], row))
  <2>1. PICK old \in rows : row = Widened(old)
    BY <1>2
  <2>2. old.status = life[old.of] /\ (old.status = "pending" => Fine(kindOf[old.of], old))
    BY <1>1 DEF RepliesAreTrue
  <2>3. QED
    BY <1>3, <2>1, <2>2 DEF Fine
<1>6. Sound(u, 6)
  BY <1>2, <1>4, <1>5, Versions DEF Sound, RepliesAreTrue
<1>7. a \in Orders
  BY DEF Orders, Tables, Create, Copy, AddColumns, Drop, Rename
<1>8. Migrations[6] = <<a>>
  BY DEF Migrations
<1>9. QED
  BY <1>2, <1>6, <1>7, <1>8, LeadsByOne DEF u

LEMMA Migration7 ==
  ASSUME NEW t, Sound(t, 6)
  PROVE  Leads(t, Migrations[7], 7)
<1> DEFINE a == Create("flood_advert_state")
           u == Exec(t, a)
<1>1. DOMAIN t = {"nodes", "bot_replies"} /\ RepliesAreTrue(t["bot_replies"])
  BY Versions DEF Sound
<1>2. /\ Fits(t, a) /\ DOMAIN u = {"nodes", "bot_replies", "flood_advert_state"}
      /\ u["bot_replies"] = t["bot_replies"]
  BY <1>1 DEF Exec, Fits, Create, With
<1> HIDE DEF u
<1>3. Sound(u, 7)
  BY <1>1, <1>2, Versions DEF Sound
<1>4. a \in Orders
  BY DEF Orders, Tables, Create, Copy, AddColumns, Drop, Rename
<1>5. Migrations[7] = <<a>>
  BY DEF Migrations
<1>6. QED
  BY <1>2, <1>3, <1>4, <1>5, LeadsByOne DEF u

\* The state of a handler is made from columns its command may have left.
LEMMA StateRestores ==
  ASSUME NEW kind \in Kinds, NEW row, Fine(kind, row)
  PROVE  Restores(kind, HandlerState(row))
<1>1. CASE kind = "exact"
  <2>1. HandlerState(row) = [kind |-> "exact"]
    BY <1>1 DEF Fine, HandlerState
  <2>2. QED
    BY <1>1, <2>1 DEF Restores
<1>2. CASE kind = "stats"
  <2>1. HandlerState(row) = [kind |-> "stats", query |-> row.query] /\ row.query # Null
    BY <1>2 DEF Fine, HandlerState
  <2>2. QED
    BY <1>2, <2>1 DEF Restores
<1>3. CASE kind = "lookup"
  <2> DEFINE state == HandlerState(row)
  <2>1. row.lookup = "found" /\ row.lookup # Null
    BY <1>3, StoreAssumption DEF Fine
  <2>2. state.kind = "lookup" /\ state.outcome = "found" /\ state.query # Null
    BY <2>1, StoreAssumption DEF HandlerState
  <2>3. QED
    BY <1>3, <2>2 DEF Restores
<1>4. QED
  BY <1>1, <1>2, <1>3 DEF Kinds

\* The one that rebuilds the table under another name.
LEMMA Migration8 ==
  ASSUME NEW t, Sound(t, 7), kindOf \in [Replies -> Kinds]
  PROVE  Leads(t, Migrations[8], 8)
<1> DEFINE a == Create("bot_replies_new")
           b == Copy("bot_replies", "bot_replies_new")
           c == Drop("bot_replies")
           d == Rename("bot_replies_new", "bot_replies")
           t1 == Exec(t, a)
           t2 == Exec(t1, b)
           t3 == Exec(t2, c)
           t4 == Exec(t3, d)
           rows == t["bot_replies"]
           rows1 == {Converted("bot_replies", row) : row \in rows}
<1>1. DOMAIN t = {"nodes", "bot_replies", "flood_advert_state"} /\ RepliesAreTrue(rows)
  BY Versions DEF Sound
<1>2. /\ Fits(t, a)
      /\ DOMAIN t1 = {"nodes", "bot_replies", "flood_advert_state", "bot_replies_new"}
      /\ t1["bot_replies_new"] = {} /\ t1["bot_replies"] = rows
  BY <1>1 DEF Exec, Fits, Create, With
<1> HIDE DEF t1, rows
<1>3. Fits(t1, b) /\ DOMAIN t2 = DOMAIN t1 /\ t2["bot_replies_new"] = rows1
  BY <1>2 DEF Exec, Fits, Copy
<1> HIDE DEF t2, rows1
<1>4. /\ Fits(t2, c) /\ DOMAIN t3 = {"nodes", "flood_advert_state", "bot_replies_new"}
      /\ t3["bot_replies_new"] = rows1
  BY <1>2, <1>3 DEF Exec, Fits, Drop, Without, Restrict
<1> HIDE DEF t3
<1>5. /\ Fits(t3, d) /\ DOMAIN t4 = {"nodes", "bot_replies", "flood_advert_state"}
      /\ t4["bot_replies"] = rows1
  BY <1>4 DEF Exec, Fits, Rename, With, Without, Restrict
<1> HIDE DEF t4
<1>6. OneEach(rows1, Those(Resolved \cup {"pending"}))
  BY <1>1, ConvertedRows DEF RepliesAreTrue, rows1
<1>7. ASSUME NEW row \in rows1
      PROVE  /\ row.status = life[row.of] /\ {"of", "status", "state"} \subseteq DOMAIN row
             /\ row.status = "pending" => Restores(kindOf[row.of], row.state)
  <2>1. PICK old \in rows : row = Converted("bot_replies", old)
    BY DEF rows1
  <2>2. row = [of |-> old.of, status |-> old.status, state |-> HandlerState(old)]
    BY <2>1 DEF Converted
  <2>3. /\ old.of \in Replies /\ old.status = life[old.of]
        /\ old.status = "pending" => Fine(kindOf[old.of], old)
    BY <1>1 DEF RepliesAreTrue, OneEach, Those
  <2>4. old.status = "pending" => Restores(kindOf[old.of], HandlerState(old))
    BY <2>3, StateRestores
  <2>5. QED
    BY <2>2, <2>3, <2>4
<1>8. Sound(t4, 8)
  BY <1>5, <1>6, <1>7, Versions DEF Sound, HandledRepliesAreTrue
<1>9. a \in Orders /\ b \in Orders /\ c \in Orders /\ d \in Orders
  BY DEF Orders, Tables, Create, Copy, AddColumns, Drop, Rename
<1>10. Migrations[8] = <<a, b, c, d>>
  BY DEF Migrations
<1> HIDE DEF a, b, c, d
<1>11. Leads(t3, <<d>>, 8)
  BY <1>5, <1>8, <1>9, LeadsByOne DEF t4
<1>12. Leads(t2, <<c, d>>, 8)
  BY <1>4, <1>9, <1>11, LeadsByTwo DEF t3
<1>13. Leads(t1, <<b, c, d>>, 8)
  BY <1>3, <1>9, <1>12, LeadsByThree DEF t2
<1>14. Leads(t, <<a, b, c, d>>, 8)
  BY <1>2, <1>9, <1>13, LeadsByFour DEF t1
<1>15. QED
  BY <1>10, <1>14

LEMMA EightMigrations ==
  /\ Len(Migrations) = 8
  /\ \A m \in 1 .. 8 : Migrations[m] \in Seq(Orders)
<1>1. Len(Migrations) = 8
  BY DEF Migrations
<1>2. \A x, y \in Tables : /\ Create(x) \in Orders /\ AddColumns(x) \in Orders /\ Drop(x) \in Orders
                           /\ Copy(x, y) \in Orders /\ Rename(x, y) \in Orders
  BY DEF Orders, Create, AddColumns, Drop, Copy, Rename
<1>3. /\ Migrations[1] \in Seq(Orders) /\ Migrations[2] \in Seq(Orders)
      /\ Migrations[3] \in Seq(Orders) /\ Migrations[4] \in Seq(Orders)
  BY <1>2 DEF Migrations, Tables
<1>4. /\ Migrations[5] \in Seq(Orders) /\ Migrations[6] \in Seq(Orders)
      /\ Migrations[7] \in Seq(Orders) /\ Migrations[8] \in Seq(Orders)
  BY <1>2 DEF Migrations, Tables
<1>5. \A m \in 1 .. 8 : m = 1 \/ m = 2 \/ m = 3 \/ m = 4 \/ m = 5 \/ m = 6 \/ m = 7 \/ m = 8
  OBVIOUS
<1>6. QED
  BY <1>1, <1>3, <1>4, <1>5

\* Every migration can be applied to what its predecessors left.
LEMMA EveryMigration ==
  ASSUME NEW v \in 0 .. 7, NEW t, Sound(t, v), \A r \in Replies : life[r] \in Recorded(v),
         kindOf \in [Replies -> Kinds]
  PROVE  Leads(t, Migrations[v + 1], v + 1)
<1>1. v = 0 \/ v = 1 \/ v = 2 \/ v = 3 \/ v = 4 \/ v = 5 \/ v = 6 \/ v = 7
  OBVIOUS
<1>2. CASE v = 0
  BY <1>2, Migration1
<1>3. CASE v = 1
  BY <1>3, Migration2
<1>4. CASE v = 2
  BY <1>4, Migration3
<1>5. CASE v = 3
  BY <1>5, Migration4
<1>6. CASE v = 4
  BY <1>6, Migration5
<1>7. CASE v = 5
  BY <1>7, Migration6
<1>8. CASE v = 6
  BY <1>8, Migration7
<1>9. CASE v = 7
  BY <1>9, Migration8
<1>10. QED
  BY <1>1, <1>2, <1>3, <1>4, <1>5, <1>6, <1>7, <1>8, <1>9

-----------------------------------------------------------------------------
(* The databases of earlier releases.                                      *)

LEMMA FineColumns ==
  ASSUME NEW kind \in Kinds, NEW columns \in Columns(kind)
  PROVE  Fine(kind, columns)
<1>1. CASE kind = "exact"
  BY <1>1 DEF Columns, Fine
<1>2. CASE kind = "stats"
  BY <1>2, StoreAssumption DEF Columns, Fine
<1>3. CASE kind = "lookup"
  BY <1>3 DEF Columns, Fine
<1>4. QED
  BY <1>1, <1>2, <1>3 DEF Kinds

LEMMA OldRows ==
  ASSUME NEW r \in Replies, NEW kind \in Kinds, NEW columns \in Columns(kind),
         NEW status, NEW v \in 5 .. 8
  PROVE  LET row == Row(r, status, columns, v)
         IN /\ row.of = r /\ row.status = status
            /\ v < 8 => Fine(kind, row)
            /\ v = 8 => {"of", "status", "state"} \subseteq DOMAIN row /\ Restores(kind, row.state)
<1> DEFINE old == [of |-> r, status |-> status, query |-> columns.query, lookup |-> columns.lookup]
           wide == Widened(old)
<1>1. Fine(kind, old)
  BY FineColumns DEF Fine
<1>2. wide.of = r /\ wide.status = status /\ Fine(kind, wide)
  BY <1>1 DEF Widened, Fine
<1>3. CASE v < 6
  BY <1>1, <1>3 DEF Row
<1>4. CASE v = 6 \/ v = 7
  BY <1>2, <1>4 DEF Row
<1>5. CASE v = 8
  <2>1. Restores(kind, HandlerState(wide))
    BY <1>2, StateRestores
  <2> HIDE DEF wide
  <2>2. Row(r, status, columns, v) = [of |-> wide.of, status |-> wide.status, state |-> HandlerState(wide)]
    BY <1>5 DEF Row, Converted, wide
  <2>3. QED
    BY <1>2, <1>5, <2>1, <2>2
<1>6. QED
  BY <1>3, <1>4, <1>5

LEMMA OldDatabase ==
  ASSUME NEW v \in 0 .. 8, NEW columns, NEW nodes,
         kindOf \in [Replies -> Kinds],
         \A r \in Replies : life[r] \in Recorded(v) /\ columns[r] \in Columns(kindOf[r])
  PROVE  Sound(OldTables(v, life, columns, nodes), v)
<1> DEFINE t == OldTables(v, life, columns, nodes)
<1> HIDE DEF t
<1>1. DOMAIN t = TablesOf(v)
  BY DEF t, OldTables
<1>2. ASSUME v = 1
      PROVE  OneEach(t["command_events"], Those({"sent"}))
  <2>1. "command_events" \in TablesOf(v)
    BY <1>2, Versions
  <2>2. t["command_events"] = {[of |-> r] : r \in Those({"sent"})}
    BY <2>1 DEF t, OldTables, Those
  <2> DEFINE f == [r \in Those({"sent"}) |-> [of |-> r]]
  <2>3. \A r \in Those({"sent"}) : f[r] = [of |-> r] /\ f[r].of = r
    OBVIOUS
  <2> HIDE DEF f
  <2>4. \A r \in Those({"sent"}) : f[r] \in t["command_events"]
    BY <2>2, <2>3
  <2>5. ASSUME NEW row \in t["command_events"]
        PROVE  \E r \in Those({"sent"}) : row = f[r]
    <3>1. PICK r \in Those({"sent"}) : row = [of |-> r]
      BY <2>2
    <3>2. QED
      BY <2>3, <3>1
  <2>6. \A r \in Those({"sent"}) : f[r].of = r
    BY <2>3
  <2>7. QED
    BY <2>4, <2>5, <2>6, ListedRows
<1>3. ASSUME v \in 2 .. 4
      PROVE  EventsAreTrue(t["reply_events"])
  <2>1. "reply_events" \in TablesOf(v)
    BY <1>3, Versions
  <2>2. t["reply_events"] = {[of |-> r, status |-> life[r]] : r \in Those(Resolved)}
    BY <2>1 DEF t, OldTables, Those
  <2> DEFINE f == [r \in Those(Resolved) |-> [of |-> r, status |-> life[r]]]
  <2>3. \A r \in Those(Resolved) :
          f[r] = [of |-> r, status |-> life[r]] /\ f[r].of = r /\ f[r].status = life[r]
    OBVIOUS
  <2> HIDE DEF f
  <2>4. \A r \in Those(Resolved) : f[r] \in t["reply_events"]
    BY <2>2, <2>3
  <2>5. ASSUME NEW row \in t["reply_events"]
        PROVE  \E r \in Those(Resolved) : row = f[r]
    <3>1. PICK r \in Those(Resolved) : row = [of |-> r, status |-> life[r]]
      BY <2>2
    <3>2. QED
      BY <2>3, <3>1
  <2>6. \A r \in Those(Resolved) : f[r].of = r /\ f[r].status = life[r]
    BY <2>3
  <2>7. OneEach(t["reply_events"], Those(Resolved))
    BY <2>4, <2>5, <2>6, ListedRows
  <2>8. \A row \in t["reply_events"] : row.status = life[row.of]
    BY <2>5, <2>6
  <2>9. QED
    BY <2>7, <2>8 DEF EventsAreTrue
<1>4. ASSUME v = 4
      PROVE  QueueIsTrue(t["queue_items"])
  <2>1. "queue_items" \in TablesOf(v)
    BY <1>4, Versions
  <2>2. t["queue_items"] = {[of |-> r, query |-> columns[r].query, lookup |-> columns[r].lookup] :
                              r \in Those({"pending"})}
    BY <2>1 DEF t, OldTables, Those
  <2>3. \A r \in Replies : Fine(kindOf[r], columns[r])
    BY FineColumns
  <2>4. ASSUME NEW row \in t["queue_items"]
        PROVE  Fine(kindOf[row.of], row)
    <3>1. PICK r \in Replies :
            row = [of |-> r, query |-> columns[r].query, lookup |-> columns[r].lookup]
      BY <2>2 DEF Those
    <3>2. QED
      BY <2>3, <3>1 DEF Fine
  <2>5. OneEach(t["queue_items"], Those({"pending"}))
    <3> DEFINE f == [r \in Those({"pending"}) |->
                      [of |-> r, query |-> columns[r].query, lookup |-> columns[r].lookup]]
    <3>1. \A r \in Those({"pending"}) :
            /\ f[r] = [of |-> r, query |-> columns[r].query, lookup |-> columns[r].lookup]
            /\ f[r].of = r
      OBVIOUS
    <3> HIDE DEF f
    <3>2. \A r \in Those({"pending"}) : f[r] \in t["queue_items"]
      BY <2>2, <3>1
    <3>3. ASSUME NEW row \in t["queue_items"]
          PROVE  \E r \in Those({"pending"}) : row = f[r]
      <4>1. PICK r \in Those({"pending"}) :
              row = [of |-> r, query |-> columns[r].query, lookup |-> columns[r].lookup]
        BY <2>2
      <4>2. QED
        BY <3>1, <4>1
    <3>4. \A r \in Those({"pending"}) : f[r].of = r
      BY <3>1
    <3>5. QED
      BY <3>2, <3>3, <3>4, ListedRows
  <2>6. QED
    BY <2>4, <2>5 DEF QueueIsTrue
<1>5. ASSUME v \in 5 .. 8
      PROVE  /\ v < 8 => RepliesAreTrue(t["bot_replies"])
             /\ v = 8 => HandledRepliesAreTrue(t["bot_replies"])
  <2> DEFINE rows == t["bot_replies"]
             row(r) == Row(r, life[r], columns[r], v)
  <2>1. "bot_replies" \in TablesOf(v)
    BY <1>5, Versions
  <2>2. {r \in Replies : life[r] # "none"} = Those(Resolved \cup {"pending"})
    BY <1>5, Outcomes DEF Those, Resolved
  <2>3. rows = {row(r) : r \in Those(Resolved \cup {"pending"})}
    BY <2>1, <2>2 DEF t, OldTables
  <2>4. \A r \in Replies : /\ row(r).of = r /\ row(r).status = life[r]
                           /\ v < 8 => Fine(kindOf[r], row(r))
                           /\ v = 8 => /\ {"of", "status", "state"} \subseteq DOMAIN row(r)
                                       /\ Restores(kindOf[r], row(r).state)
    BY <1>5, OldRows
  <2> HIDE DEF row, rows
  <2>5. Those(Resolved \cup {"pending"}) \subseteq Replies
    BY DEF Those
  <2>6. OneEach(rows, Those(Resolved \cup {"pending"}))
    <3> DEFINE S == Those(Resolved \cup {"pending"})
               f == [r \in S |-> row(r)]
    <3>1. \A r \in S : f[r] = row(r)
      OBVIOUS
    <3> HIDE DEF f
    <3>2. \A r \in S : f[r] \in rows /\ f[r].of = r
      BY <2>3, <2>4, <2>5, <3>1
    <3>3. ASSUME NEW x \in rows
          PROVE  \E r \in S : x = f[r]
      <4>1. PICK r \in S : x = row(r)
        BY <2>3
      <4>2. QED
        BY <3>1, <4>1
    <3> HIDE DEF S
    <3>4. OneEach(rows, S)
      BY <3>2, <3>3, ListedRows
    <3>5. QED
      BY <3>4 DEF S
  <2>7. ASSUME NEW x \in rows
        PROVE  /\ x.status = life[x.of]
               /\ v < 8 => Fine(kindOf[x.of], x)
               /\ v = 8 => {"of", "status", "state"} \subseteq DOMAIN x /\ Restores(kindOf[x.of], x.state)
    <3>1. PICK r \in Replies : x = row(r)
      BY <2>3, <2>5
    <3>2. QED
      BY <2>4, <3>1
  <2>8. QED
    BY <2>6, <2>7 DEF RepliesAreTrue, HandledRepliesAreTrue, rows
<1>6. QED
  BY <1>1, <1>2, <1>3, <1>4, <1>5 DEF t, Sound

LEMMA InitHolds ==
  ASSUME Init
  PROVE  StoreInv
<1>1. PICK nodes : StoreInit(nodes)
  BY DEF Init
<1>2. opener = "none"
  BY <1>1 DEF StoreInit
<1>3. PICK v \in 0 .. 8, columns \in [Replies -> UNION {Columns(k) : k \in Kinds}] :
        /\ life \in [Replies -> Recorded(8)] /\ kindOf \in [Replies -> Kinds]
        /\ \A r \in Replies : life[r] \in Recorded(v) /\ columns[r] \in Columns(kindOf[r])
        /\ disk = [version |-> v, tables |-> OldTables(v, life, columns, nodes)]
  BY <1>1, EightMigrations DEF StoreInit
<1>4. Sound(OldTables(v, life, columns, nodes), v)
  BY <1>3, OldDatabase
<1>5. /\ DOMAIN disk = {"version", "tables"} /\ disk.version = v
      /\ disk.tables = OldTables(v, life, columns, nodes)
  BY <1>3
<1>6. QED
  BY <1>2, <1>3, <1>4, <1>5 DEF StoreInv

-----------------------------------------------------------------------------
(* The steps.                                                              *)

LEMMA OpenKeeps ==
  ASSUME StoreInv, Open
  PROVE  StoreInv'
<1>1. /\ opener' = "between" /\ migration' = disk.version + 1
      /\ UNCHANGED <<disk, kindOf, life>>
  BY DEF Open
<1>2. QED
  BY <1>1 DEF StoreInv, Sound, EventsAreTrue, QueueIsTrue, RepliesAreTrue, HandledRepliesAreTrue, Those

LEMMA BeginKeeps ==
  ASSUME StoreInv, Begin
  PROVE  StoreInv'
<1>1. /\ opener = "between" /\ migration <= 8
      /\ opener' = "inside" /\ work' = disk.tables /\ todo' = Migrations[migration]
      /\ UNCHANGED <<disk, migration, kindOf, life>>
  BY EightMigrations DEF Begin
<1>2. migration = disk.version + 1 /\ disk.version \in 0 .. 7
  BY <1>1 DEF StoreInv
<1>3. todo' \in Seq(Orders)
  BY <1>1, <1>2, EightMigrations
<1>4. Leads(disk.tables, Migrations[migration], migration)
  BY <1>2, EveryMigration DEF StoreInv
<1>5. Leads(work, todo, migration)'
  BY <1>1, <1>4 DEF Leads, Sound, EventsAreTrue, QueueIsTrue, RepliesAreTrue, HandledRepliesAreTrue, Those
<1>6. QED
  BY <1>1, <1>2, <1>3, <1>5
     DEF StoreInv, Sound, EventsAreTrue, QueueIsTrue, RepliesAreTrue, HandledRepliesAreTrue, Those

LEMMA StatementKeeps ==
  ASSUME StoreInv, Statement
  PROVE  StoreInv'
<1>1. /\ opener = "inside" /\ todo # <<>>
      /\ work' = Exec(work, Head(todo)) /\ todo' = Tail(todo)
      /\ UNCHANGED <<disk, opener, migration, kindOf, life>>
  BY DEF Statement, Durable
<1>2. todo \in Seq(Orders) /\ Leads(work, todo, migration)
  BY <1>1 DEF StoreInv
<1>3. Leads(Exec(work, Head(todo)), Tail(todo), migration)
  BY <1>1, <1>2, LeadsOn
<1>4. todo' \in Seq(Orders)
  BY <1>1, <1>2, HeadTailProperties
<1>5. Leads(work, todo, migration)'
  BY <1>1, <1>3 DEF Leads, Sound, EventsAreTrue, QueueIsTrue, RepliesAreTrue, HandledRepliesAreTrue, Those
<1>6. QED
  BY <1>1, <1>4, <1>5
     DEF StoreInv, Sound, EventsAreTrue, QueueIsTrue, RepliesAreTrue, HandledRepliesAreTrue, Those

LEMMA CommitKeeps ==
  ASSUME StoreInv, Commit
  PROVE  StoreInv'
<1>1. /\ opener = "inside" /\ todo = <<>>
      /\ disk' = [version |-> migration, tables |-> work]
      /\ opener' = "between" /\ migration' = migration + 1
      /\ UNCHANGED <<kindOf, life>>
  BY DEF Commit, Stamped
<1>2. /\ migration = disk.version + 1 /\ disk.version \in 0 .. 7
      /\ Leads(work, <<>>, migration)
  BY <1>1 DEF StoreInv
<1>3. Sound(work, migration)
  BY <1>2 DEF Leads
<1>4. \A r \in Replies : life[r] \in Recorded(migration)
  BY <1>2, RecordedGrows DEF StoreInv
<1>5. DOMAIN disk' = {"version", "tables"} /\ disk'.version = migration /\ disk'.tables = work
  BY <1>1
<1>6. Sound(disk.tables, disk.version)'
  BY <1>1, <1>3, <1>5
     DEF Sound, EventsAreTrue, QueueIsTrue, RepliesAreTrue, HandledRepliesAreTrue, Those
<1>7. QED
  BY <1>1, <1>2, <1>4, <1>5, <1>6 DEF StoreInv

LEMMA OpenedKeeps ==
  ASSUME StoreInv, Opened
  PROVE  StoreInv'
<1>1. /\ opener = "between" /\ migration > 8 /\ opener' = "open"
      /\ UNCHANGED <<disk, kindOf, life>>
  BY EightMigrations DEF Opened
<1>2. disk.version = 8
  BY <1>1 DEF StoreInv
<1>3. QED
  BY <1>1, <1>2
     DEF StoreInv, Sound, EventsAreTrue, QueueIsTrue, RepliesAreTrue, HandledRepliesAreTrue, Those

LEMMA EndsKeeps ==
  ASSUME StoreInv, Ends
  PROVE  StoreInv'
<1>1. opener' = "none" /\ UNCHANGED <<disk, kindOf, life>>
  BY DEF Ends
<1>2. QED
  BY <1>1 DEF StoreInv, Sound, EventsAreTrue, QueueIsTrue, RepliesAreTrue, HandledRepliesAreTrue, Those

\* In an opened store a write changes one table.
LEMMA PutEffect ==
  ASSUME StoreInv, opener = "open",
         NEW name \in {"nodes", "bot_replies"}, NEW rows
  PROVE  /\ disk.version = 8 /\ HandledRepliesAreTrue(disk.tables["bot_replies"])
         /\ DOMAIN Put(name, rows) = {"version", "tables"}
         /\ Put(name, rows).version = 8
         /\ DOMAIN Put(name, rows).tables = TablesOf(8)
         /\ Put(name, rows).tables[name] = rows
         /\ \A x \in TablesOf(8) : x # name => Put(name, rows).tables[x] = disk.tables[x]
<1>1. /\ disk.version = 8 /\ DOMAIN disk = {"version", "tables"}
      /\ DOMAIN disk.tables = TablesOf(8) /\ HandledRepliesAreTrue(disk.tables["bot_replies"])
  BY DEF StoreInv, Sound
<1>2. name \in TablesOf(8)
  BY Versions
<1>3. QED
  BY <1>1, <1>2 DEF Put

LEMMA EnqueueKeeps ==
  ASSUME StoreInv, NEW r \in Replies, EnqueueReplyItem(r)
  PROVE  StoreInv'
<1> DEFINE rows == disk.tables["bot_replies"]
           new == [of |-> r, status |-> "pending", state |-> Serialized(kindOf[r])]
<1>1. /\ opener = "open" /\ life[r] = "none" /\ life' = [life EXCEPT ![r] = "pending"]
      /\ disk' = Put("bot_replies", rows \cup {new})
      /\ UNCHANGED <<opener, kindOf>>
  BY DEF EnqueueReplyItem, openVars
<1>2. new.of = r /\ new.status = "pending" /\ DOMAIN new = {"of", "status", "state"}
  OBVIOUS
<1>3. Restores(kindOf[r], new.state)
  <2>1. kindOf[r] \in Kinds
    BY DEF StoreInv
  <2>2. CASE kindOf[r] = "exact"
    BY <2>2 DEF Serialized, Restores
  <2>3. CASE kindOf[r] \in {"stats", "lookup"}
    BY <2>3, StoreAssumption DEF Serialized, Restores
  <2>4. QED
    BY <2>1, <2>2, <2>3 DEF Kinds
<1> HIDE DEF new
<1>4. /\ DOMAIN disk' = {"version", "tables"} /\ disk'.version = 8
      /\ DOMAIN disk'.tables = TablesOf(8)
      /\ disk'.tables["bot_replies"] = rows \cup {new}
      /\ HandledRepliesAreTrue(rows)
  BY <1>1, PutEffect
<1> HIDE DEF rows
<1>5. life \in [Replies -> Recorded(8)] /\ kindOf \in [Replies -> Kinds]
  BY DEF StoreInv
<1>6. life' \in [Replies -> Recorded(8)]
  BY <1>1, <1>5, Outcomes
<1>7. \A x \in Replies : life'[x] = IF x = r THEN "pending" ELSE life[x]
  BY <1>1, <1>5
<1>8. Those(Resolved \cup {"pending"})' = Those(Resolved \cup {"pending"}) \cup {r}
  BY <1>7 DEF Those, Resolved
<1>9. r \notin Those(Resolved \cup {"pending"})
  BY <1>1 DEF Those, Resolved
<1>10. OneEach({new}, {r})
  BY <1>2 DEF OneEach
<1>11. OneEach(rows \cup {new}, Those(Resolved \cup {"pending"}) \cup {r})
  <2>1. OneEach(rows, Those(Resolved \cup {"pending"}))
    BY <1>4 DEF HandledRepliesAreTrue
  <2>2. Those(Resolved \cup {"pending"}) \cap {r} = {}
    BY <1>9
  <2>3. QED
    BY <1>10, <2>1, <2>2, BothRows
<1>12. ASSUME NEW row \in rows \cup {new}
       PROVE  /\ row.status = life'[row.of] /\ {"of", "status", "state"} \subseteq DOMAIN row
              /\ row.status = "pending" => Restores(kindOf[row.of], row.state)
  <2>1. CASE row = new
    BY <1>2, <1>3, <1>7, <2>1
  <2>2. CASE row \in rows
    <3>1. row.of \in Replies /\ row.of # r
      BY <1>4, <1>9, <2>2 DEF HandledRepliesAreTrue, OneEach, Those
    <3>2. QED
      BY <1>4, <1>7, <2>2, <3>1 DEF HandledRepliesAreTrue
  <2>3. QED
    BY <2>1, <2>2
<1>13. HandledRepliesAreTrue(disk.tables["bot_replies"])'
  BY <1>1, <1>4, <1>8, <1>11, <1>12 DEF HandledRepliesAreTrue
<1>14. Sound(disk.tables, disk.version)'
  BY <1>4, <1>13 DEF Sound
<1>15. \A x \in Replies : life'[x] \in Recorded(8)
  BY <1>6
<1>16. QED
  BY <1>1, <1>4, <1>5, <1>6, <1>14, <1>15 DEF StoreInv

LEMMA ResolveKeeps ==
  ASSUME StoreInv, NEW r \in Replies, NEW outcome \in {"sent", "failed", "expired"},
         ResolveReplyItem(r, outcome)
  PROVE  StoreInv'
<1> DEFINE rows == disk.tables["bot_replies"]
           rows1 == {IF row.of = r THEN [row EXCEPT !.status = outcome] ELSE row : row \in rows}
<1>1. /\ opener = "open" /\ life[r] = "pending" /\ life' = [life EXCEPT ![r] = outcome]
      /\ disk' = Put("bot_replies", rows1)
      /\ UNCHANGED <<opener, kindOf>>
  BY DEF ResolveReplyItem, openVars
<1>2. /\ DOMAIN disk' = {"version", "tables"} /\ disk'.version = 8
      /\ DOMAIN disk'.tables = TablesOf(8)
      /\ disk'.tables["bot_replies"] = rows1
      /\ HandledRepliesAreTrue(rows)
  BY <1>1, PutEffect
<1>3. life \in [Replies -> Recorded(8)] /\ kindOf \in [Replies -> Kinds]
  BY DEF StoreInv
<1>4. life' \in [Replies -> Recorded(8)]
  BY <1>1, <1>3, Outcomes DEF Resolved
<1>5. \A x \in Replies : life'[x] = IF x = r THEN outcome ELSE life[x]
  BY <1>1, <1>3
<1>6. Those(Resolved \cup {"pending"})' = Those(Resolved \cup {"pending"})
  BY <1>1, <1>5 DEF Those, Resolved
<1> DEFINE new(row) == IF row.of = r THEN [row EXCEPT !.status = outcome] ELSE row
<1>7. ASSUME NEW row \in rows
      PROVE  /\ row.of \in Replies /\ row.status = life[row.of]
             /\ new(row).of = row.of /\ new(row).status = life'[row.of]
             /\ {"of", "status", "state"} \subseteq DOMAIN new(row)
             /\ new(row).status = "pending" => Restores(kindOf[row.of], new(row).state)
  <2>1. /\ row.of \in Replies /\ row.status = life[row.of]
        /\ {"of", "status", "state"} \subseteq DOMAIN row
        /\ row.status = "pending" => Restores(kindOf[row.of], row.state)
    BY <1>2 DEF HandledRepliesAreTrue, OneEach, Those
  <2>2. CASE row.of = r
    <3>1. new(row) = [row EXCEPT !.status = outcome]
      BY <2>2
    <3>2. /\ new(row).of = row.of /\ new(row).status = outcome
          /\ DOMAIN new(row) = DOMAIN row
      BY <2>1, <3>1
    <3> HIDE DEF new
    <3>3. QED
      BY <1>5, <2>1, <2>2, <3>2
  <2>3. CASE row.of # r
    <3>1. new(row) = row
      BY <2>3
    <3> HIDE DEF new
    <3>2. QED
      BY <1>5, <2>1, <2>3, <3>1
  <2>4. QED
    BY <2>2, <2>3
<1>8. rows1 = {new(row) : row \in rows}
  OBVIOUS
<1> HIDE DEF rows, rows1, new
<1>9. OneEach(rows1, Those(Resolved \cup {"pending"}))
  <2>1. OneEach(rows, Those(Resolved \cup {"pending"}))
    BY <1>2 DEF HandledRepliesAreTrue
  <2>2. \A row \in rows : new(row).of = row.of
    BY <1>7
  <2>3. QED
    BY <1>8, <2>1, <2>2 DEF OneEach
<1>10. ASSUME NEW row \in rows1
       PROVE  /\ row.status = life'[row.of] /\ {"of", "status", "state"} \subseteq DOMAIN row
              /\ row.status = "pending" => Restores(kindOf[row.of], row.state)
  <2>1. PICK old \in rows : row = new(old)
    BY <1>8
  <2>2. QED
    BY <1>7, <2>1
<1>11. HandledRepliesAreTrue(disk.tables["bot_replies"])'
  BY <1>1, <1>2, <1>6, <1>9, <1>10 DEF HandledRepliesAreTrue
<1>12. Sound(disk.tables, disk.version)'
  BY <1>2, <1>11 DEF Sound
<1>13. \A x \in Replies : life'[x] \in Recorded(8)
  BY <1>4
<1>14. QED
  BY <1>1, <1>2, <1>3, <1>4, <1>12, <1>13 DEF StoreInv

LEMMA VerifiedKeeps ==
  ASSUME StoreInv, NEW a, Verified(a)
  PROVE  StoreInv'
<1>1. PICK rows : disk' = Put("nodes", rows)
  BY DEF Verified
<1>2. opener = "open" /\ UNCHANGED <<opener, kindOf, life>>
  BY DEF Verified, openVars
<1>3. /\ DOMAIN disk' = {"version", "tables"} /\ disk'.version = 8 /\ disk.version = 8
      /\ DOMAIN disk'.tables = TablesOf(8)
      /\ HandledRepliesAreTrue(disk.tables["bot_replies"])
      /\ \A x \in TablesOf(8) : x # "nodes" => disk'.tables[x] = disk.tables[x]
  BY <1>1, <1>2, PutEffect
<1>4. disk'.tables["bot_replies"] = disk.tables["bot_replies"]
  BY <1>3, Versions
<1>5. HandledRepliesAreTrue(disk.tables["bot_replies"])'
  BY <1>2, <1>3, <1>4 DEF HandledRepliesAreTrue, Those
<1>6. Sound(disk.tables, disk.version)'
  BY <1>3, <1>5 DEF Sound
<1>7. QED
  BY <1>2, <1>3, <1>6 DEF StoreInv

LEMMA StepKeeps ==
  ASSUME StoreInv, [Next]_vars
  PROVE  StoreInv'
<1>1. ASSUME UNCHANGED storeVars
      PROVE  StoreInv'
  <2>1. UNCHANGED <<disk, work, opener, migration, todo, kindOf, life>>
    BY <1>1 DEF storeVars, openVars
  <2>2. Sound(disk.tables, disk.version)'
    BY <2>1 DEF StoreInv, Sound, EventsAreTrue, QueueIsTrue, RepliesAreTrue, HandledRepliesAreTrue, Those
  <2>3. ASSUME opener = "inside"
        PROVE  Leads(work, todo, migration)'
    <3>1. PICK w : /\ w[1] = work
                   /\ \A i \in 1 .. Len(todo) : Fits(w[i], todo[i]) /\ w[i + 1] = Exec(w[i], todo[i])
                   /\ Sound(w[Len(todo) + 1], migration)
      BY <2>3 DEF StoreInv, Leads
    <3>2. PICK t, v : t = w[Len(todo) + 1] /\ v = migration /\ Sound(t, v)
      BY <3>1
    <3>3. Sound(t, v)'
      BY <2>1, <3>2 DEF Sound, EventsAreTrue, QueueIsTrue, RepliesAreTrue, HandledRepliesAreTrue, Those
    <3>4. Sound(w[Len(todo) + 1], migration)'
      BY <2>1, <3>2, <3>3
    <3>5. QED
      BY <2>1, <3>1, <3>4 DEF Leads
  <2>4. QED
    BY <2>1, <2>2, <2>3 DEF StoreInv
<1>2. CASE StoreNext
  BY <1>2, OpenKeeps, BeginKeeps, StatementKeeps, CommitKeeps, OpenedKeeps, EndsKeeps,
     EnqueueKeeps, ResolveKeeps DEF StoreNext
<1>3. CASE Tick
  BY <1>1, <1>3 DEF Tick
<1>4. ASSUME NEW a \in Advert, Receive(a) \/ Verified(a) \/ Dropped(a)
      PROVE  StoreInv'
  BY <1>1, <1>4, VerifiedKeeps DEF Receive, Dropped
<1>5. CASE UNCHANGED vars
  BY <1>1, <1>5 DEF vars
<1>6. QED
  BY <1>2, <1>3, <1>4, <1>5 DEF Next, StoreStep

THEOREM StoreInvHolds == Spec => []StoreInv
<1>1. Init => StoreInv
  BY InitHolds
<1>2. StoreInv /\ [Next]_vars => StoreInv'
  BY StepKeeps
<1>3. QED
  BY <1>1, <1>2, PTL DEF Spec
-----------------------------------------------------------------------------
(* What follows.                                                           *)

\* Every migration finds the tables it needs, from whatever release the
\* database comes and wherever earlier upgrades were cut off.
THEOREM NoUpgradeSticks == Spec => []UpgradeNeverSticks
<1>1. ASSUME StoreInv
      PROVE  UpgradeNeverSticks
  <2>1. DOMAIN disk.tables = TablesOf(disk.version)
    BY <1>1 DEF StoreInv, Sound
  <2>2. ASSUME opener = "inside", todo # <<>>
        PROVE  Fits(work, Head(todo))
    <3>1. todo \in Seq(Orders) /\ Leads(work, todo, migration)
      BY <1>1, <2>2 DEF StoreInv
    <3>2. QED
      BY <2>2, <3>1, LeadsOn
  <2>3. QED
    BY <2>1, <2>2 DEF UpgradeNeverSticks
<1>2. StoreInv => UpgradeNeverSticks
  BY <1>1
<1>3. QED
  BY <1>2, StoreInvHolds, PTL

\* What waits in an opened store is accepted by the handler of its command.
THEOREM WhatWaitsCanBeSent == Spec => []PendingRepliesRestore
<1>1. ASSUME StoreInv, opener = "open", NEW row \in disk.tables["bot_replies"], row.status = "pending"
      PROVE  Restores(kindOf[row.of], row.state)
  <2>1. HandledRepliesAreTrue(disk.tables["bot_replies"])
    BY <1>1 DEF StoreInv, Sound
  <2>2. QED
    BY <1>1, <2>1 DEF HandledRepliesAreTrue
<1>2. StoreInv => PendingRepliesRestore
  BY <1>1 DEF PendingRepliesRestore
<1>3. QED
  BY <1>2, StoreInvHolds, PTL

\* The rows of one reply in a table.
In(name, r) == {row \in disk.tables[name] : row.of = r}

LEMMA RowsOfOne ==
  ASSUME NEW rows, NEW replies, OneEach(rows, replies), NEW r
  PROVE  /\ r \notin replies => {row \in rows : row.of = r} = {}
         /\ r \in replies => \E row \in rows : row.of = r /\ {x \in rows : x.of = r} = {row}
  BY DEF OneEach

\* What the properties want to know of a reply.
AsItShouldBe(r) ==
  IF life[r] = "none" THEN Held(r) = {}
  ELSE \E h : Held(r) = {h} /\ StatusOf(h[1], h[2]) = life[r]

LEMMA HeldInOne ==
  ASSUME NEW name, DOMAIN disk.tables \ {"nodes", "flood_advert_state"} = {name}, NEW r
  PROVE  Held(r) = {<<name, row>> : row \in In(name, r)}
  BY DEF Held, In

LEMMA OneTableOneRow ==
  ASSUME NEW name, DOMAIN disk.tables \ {"nodes", "flood_advert_state"} = {name},
         NEW outcomes, OneEach(disk.tables[name], Those(outcomes)),
         \A row \in disk.tables[name] : StatusOf(name, row) = life[row.of],
         NEW r \in Replies, life[r] = "none" <=> life[r] \notin outcomes
  PROVE  AsItShouldBe(r)
<1>1. Held(r) = {<<name, row>> : row \in In(name, r)}
  BY HeldInOne
<1>2. r \in Those(outcomes) <=> life[r] # "none"
  BY DEF Those
<1>3. CASE life[r] = "none"
  <2>1. In(name, r) = {}
    BY <1>2, <1>3, RowsOfOne DEF In
  <2>2. QED
    BY <1>1, <1>3, <2>1 DEF AsItShouldBe
<1>4. CASE life[r] # "none"
  <2>1. PICK row \in disk.tables[name] : row.of = r /\ In(name, r) = {row}
    BY <1>2, <1>4, RowsOfOne DEF In
  <2> DEFINE h == <<name, row>>
  <2>2. Held(r) = {h} /\ h[1] = name /\ h[2] = row
    BY <1>1, <2>1
  <2> HIDE DEF h
  <2>3. StatusOf(h[1], h[2]) = life[r]
    BY <2>1, <2>2
  <2>4. QED
    BY <1>4, <2>2, <2>3 DEF AsItShouldBe
<1>5. QED
  BY <1>3, <1>4

\* Version 4 keeps the replies that wait apart from those that do not.
LEMMA TwoTablesOneRow ==
  ASSUME DOMAIN disk.tables \ {"nodes", "flood_advert_state"} = {"reply_events", "queue_items"},
         EventsAreTrue(disk.tables["reply_events"]), QueueIsTrue(disk.tables["queue_items"]),
         NEW r \in Replies, life[r] \in {"none", "pending"} \cup Resolved
  PROVE  AsItShouldBe(r)
<1> DEFINE over == In("reply_events", r)
           waiting == In("queue_items", r)
<1>1. Held(r) = {<<"reply_events", row>> : row \in over} \cup {<<"queue_items", row>> : row \in waiting}
  BY DEF Held, In
<1>2. /\ r \notin Those(Resolved) => over = {}
      /\ r \in Those(Resolved) => \E row \in disk.tables["reply_events"] : row.of = r /\ over = {row}
  BY RowsOfOne DEF In, EventsAreTrue
<1>3. /\ r \notin Those({"pending"}) => waiting = {}
      /\ r \in Those({"pending"}) => \E row \in disk.tables["queue_items"] : row.of = r /\ waiting = {row}
  BY RowsOfOne DEF In, QueueIsTrue
<1> HIDE DEF over, waiting
<1>4. CASE life[r] = "none"
  <2>1. over = {} /\ waiting = {}
    BY <1>2, <1>3, <1>4 DEF Those, Resolved
  <2>2. QED
    BY <1>1, <1>4, <2>1 DEF AsItShouldBe
<1>5. CASE life[r] = "pending"
  <2>1. over = {} /\ \E row : waiting = {row}
    BY <1>2, <1>3, <1>5 DEF Those, Resolved
  <2>2. PICK row : waiting = {row}
    BY <2>1
  <2> DEFINE h == <<"queue_items", row>>
  <2>3. Held(r) = {h} /\ h[1] = "queue_items"
    BY <1>1, <2>1, <2>2
  <2> HIDE DEF h
  <2>4. StatusOf(h[1], h[2]) = "pending"
    BY <2>3 DEF StatusOf
  <2>5. QED
    BY <1>5, <2>3, <2>4 DEF AsItShouldBe
<1>6. CASE life[r] \in Resolved
  <2>1. waiting = {} /\ r \in Those(Resolved)
    BY <1>3, <1>6 DEF Those, Resolved
  <2>2. PICK row \in disk.tables["reply_events"] : row.of = r /\ over = {row}
    BY <1>2, <2>1
  <2> DEFINE h == <<"reply_events", row>>
  <2>3. Held(r) = {h} /\ h[1] = "reply_events" /\ h[2] = row
    BY <1>1, <2>1, <2>2
  <2> HIDE DEF h
  <2>4. StatusOf("reply_events", row) = row.status
    BY DEF StatusOf
  <2>5. row.status = life[r]
    BY <2>2 DEF EventsAreTrue
  <2>6. life[r] # "none"
    BY <1>6 DEF Resolved
  <2>7. QED
    BY <2>3, <2>4, <2>5, <2>6 DEF AsItShouldBe
<1>7. QED
  BY <1>4, <1>5, <1>6

LEMMA EveryReplyIsAsItShouldBe ==
  ASSUME StoreInv, NEW r \in Replies
  PROVE  AsItShouldBe(r)
<1> DEFINE v == disk.version
           t == disk.tables
<1>1. v \in 0 .. 8 /\ life[r] \in Recorded(v) /\ Sound(t, v) /\ DOMAIN t = TablesOf(v)
  BY DEF StoreInv, Sound
<1>2. CASE v = 0
  <2>1. Held(r) = {} /\ life[r] = "none"
    BY <1>1, <1>2, Versions, Outcomes DEF Held
  <2>2. QED
    BY <2>1 DEF AsItShouldBe
<1>3. CASE v = 1
  <2>1. DOMAIN t \ {"nodes", "flood_advert_state"} = {"command_events"}
    BY <1>1, <1>3, Versions
  <2>2. OneEach(t["command_events"], Those({"sent"}))
    BY <1>1, <1>3 DEF Sound
  <2>3. \A row \in t["command_events"] : StatusOf("command_events", row) = life[row.of]
    BY <2>2 DEF OneEach, Those, StatusOf
  <2>4. life[r] = "none" <=> life[r] \notin {"sent"}
    BY <1>1, <1>3, Outcomes
  <2>5. QED
    BY <2>1, <2>2, <2>3, <2>4, OneTableOneRow
<1>4. CASE v = 2 \/ v = 3
  <2>1. DOMAIN t \ {"nodes", "flood_advert_state"} = {"reply_events"}
    BY <1>1, <1>4, Versions
  <2>2. EventsAreTrue(t["reply_events"])
    BY <1>1, <1>4 DEF Sound
  <2>3. \A row \in t["reply_events"] : StatusOf("reply_events", row) = life[row.of]
    BY <2>2 DEF EventsAreTrue, StatusOf
  <2>4. life[r] = "none" <=> life[r] \notin Resolved
    BY <1>1, <1>4, Outcomes DEF Resolved
  <2>5. QED
    BY <2>1, <2>2, <2>3, <2>4, OneTableOneRow DEF EventsAreTrue
<1>5. CASE v = 4
  <2>1. DOMAIN t \ {"nodes", "flood_advert_state"} = {"reply_events", "queue_items"}
    BY <1>1, <1>5, Versions
  <2>2. EventsAreTrue(t["reply_events"]) /\ QueueIsTrue(t["queue_items"])
    BY <1>1, <1>5 DEF Sound
  <2>3. life[r] \in {"none", "pending"} \cup Resolved
    BY <1>1, <1>5, Outcomes
  <2>4. QED
    BY <2>1, <2>2, <2>3, TwoTablesOneRow
<1>6. CASE v \in 5 .. 8
  <2>1. DOMAIN t \ {"nodes", "flood_advert_state"} = {"bot_replies"}
    BY <1>1, <1>6, Versions
  <2>2. /\ OneEach(t["bot_replies"], Those(Resolved \cup {"pending"}))
        /\ \A row \in t["bot_replies"] : row.status = life[row.of]
    BY <1>1, <1>6 DEF Sound, RepliesAreTrue, HandledRepliesAreTrue
  <2>3. \A row \in t["bot_replies"] : StatusOf("bot_replies", row) = life[row.of]
    BY <2>2 DEF StatusOf
  <2>4. life[r] = "none" <=> life[r] \notin Resolved \cup {"pending"}
    BY <1>1, <1>6, Outcomes DEF Resolved
  <2>5. QED
    BY <2>1, <2>2, <2>3, <2>4, OneTableOneRow
<1>7. QED
  BY <1>1, <1>2, <1>3, <1>4, <1>5, <1>6

\* No reply is lost or doubled by an upgrade, and none changes its outcome.
THEOREM RepliesOutliveUpgrades == Spec => []RepliesSurviveUpgrade
<1>1. ASSUME StoreInv, NEW r \in Replies, life[r] # "none"
      PROVE  /\ Cardinality(Held(r)) = 1
             /\ \A h \in Held(r) : StatusOf(h[1], h[2]) = life[r]
  <2>1. PICK h : Held(r) = {h} /\ StatusOf(h[1], h[2]) = life[r]
    BY <1>1, EveryReplyIsAsItShouldBe DEF AsItShouldBe
  <2>2. QED
    BY <2>1, FS_Singleton
<1>2. ASSUME StoreInv, NEW r \in Replies, life[r] = "none"
      PROVE  Held(r) = {}
  BY <1>2, EveryReplyIsAsItShouldBe DEF AsItShouldBe
<1>3. StoreInv => RepliesSurviveUpgrade
  BY <1>1, <1>2 DEF RepliesSurviveUpgrade
<1>4. QED
  BY <1>3, StoreInvHolds, PTL
-----------------------------------------------------------------------------
(* The nodes.                                                              *)

HeardAdverts == [key : Keys, name : Names, type : Types, at : Nat]
NodeRows == [key : Keys, name : Names, type : Types, first : Nat, last : Nat]

\* The hearings are in the order of their times.
Chronicle ==
  /\ now \in Nat /\ hearings \in Seq(HeardAdverts)
  /\ \A i, j \in 1 .. Len(hearings) : i <= j => hearings[i].at <= hearings[j].at
  /\ \A i \in 1 .. Len(hearings) : hearings[i].at <= now

\* One row for each node that was heard, with what was heard last and with the
\* times of the first and of the last hearing.
NodesAreTrue(rows) ==
  /\ \A n \in rows :
       /\ n \in NodeRows /\ Hearings(n.key) # {}
       /\ n.first = Earliest(n.key).at /\ n.last = Latest(n.key).at
       /\ n.name = Latest(n.key).name /\ n.type = Latest(n.key).type
  /\ \A k \in Keys : Hearings(k) # {} => \E n \in rows : n.key = k
  /\ \A m, n \in rows : m.key = n.key => m = n

\* The nodes of a database that may not have the table yet.
Known(t) == IF "nodes" \in DOMAIN t THEN t["nodes"] ELSE {}

\* A statement that puts nothing into the table of the nodes and leaves it there.
Spares(s) ==
  /\ s.op \in {"copy", "columns", "rename"} => s.to # "nodes"
  /\ s.op \in {"drop", "rename"} => s.from # "nodes"

RegistryInv ==
  /\ Chronicle /\ NodesAreTrue(Known(disk.tables))
  /\ opener = "inside" =>
       NodesAreTrue(Known(work)) /\ \A i \in 1 .. Len(todo) : Spares(todo[i])

Below == {p \in Nat \X Nat : p[1] < p[2]}

LEMMA LeastNumber ==
  ASSUME NEW S \in SUBSET Nat, S # {}
  PROVE  \E n \in S : \A i \in S : n <= i
<1>1. OpToRel(<, Nat) = Below
  BY Zenon DEF OpToRel, Below
<1>2. IsWellFoundedOn(Below, Nat)
  BY <1>1, NatLessThanWellFounded, Zenon
<1>3. PICK n \in S : \A i \in S : ~ (<<i, n>> \in Below)
  BY <1>2, WFMin, Zenon
<1>4. \A i, n0 \in Nat : i < n0 => <<i, n0>> \in Below
  BY DEF Below
<1>5. \A i \in S : ~ (i < n)
  BY <1>3, <1>4
<1>6. \A i \in S : n <= i
  BY <1>5
<1>7. QED
  BY <1>6

\* The least upper bound of a set of numbers is one of them.
LEMMA GreatestNumber ==
  ASSUME NEW n \in Nat, NEW S \in SUBSET (1 .. n), S # {}
  PROVE  \E m \in S : \A i \in S : i <= m
<1> DEFINE Bounds == {m \in Nat : \A i \in S : i <= m}
<1>1. n \in Bounds /\ Bounds \in SUBSET Nat
  OBVIOUS
<1>2. PICK m \in Bounds : \A b \in Bounds : m <= b
  BY <1>1, LeastNumber
<1>3. m \in S
  <2>1. SUFFICES ASSUME m \notin S PROVE FALSE
    OBVIOUS
  <2>2. PICK s \in S : TRUE
    OBVIOUS
  <2>3. m \in Nat /\ m >= s /\ s \in 1 .. n
    BY <2>2
  <2>4. m - 1 \in Nat
    BY <2>3
  <2>5. \A i \in S : i \in 1 .. n /\ i <= m /\ i # m
    BY <2>1
  <2>6. \A i \in S : i <= m - 1
    BY <2>3, <2>5
  <2>7. m - 1 \in Bounds
    BY <2>4, <2>6
  <2>8. QED
    BY <1>2, <2>3, <2>7
<1>4. QED
  BY <1>2, <1>3

LEMMA MinIs ==
  ASSUME NEW S \in SUBSET Int, NEW m \in S, \A i \in S : m <= i
  PROVE  Min(S) = m
<1>1. Min(S) \in S /\ \A i \in S : Min(S) <= i
  BY DEF Min
<1>2. Min(S) <= m /\ m <= Min(S) /\ Min(S) \in Int
  BY <1>1
<1>3. QED
  BY <1>2

LEMMA MaxIs ==
  ASSUME NEW S \in SUBSET Int, NEW m \in S, \A i \in S : i <= m
  PROVE  Max(S) = m
<1>1. Max(S) \in S /\ \A i \in S : Max(S) >= i
  BY DEF Max
<1>2. Max(S) <= m /\ m <= Max(S) /\ Max(S) \in Int
  BY <1>1
<1>3. QED
  BY <1>2

LEMMA Places ==
  ASSUME Chronicle, NEW k
  PROVE  /\ Len(hearings) \in Nat /\ DOMAIN hearings = 1 .. Len(hearings)
         /\ Hearings(k) \in SUBSET (1 .. Len(hearings))
         /\ \A i \in 1 .. Len(hearings) : i \in Hearings(k) <=> hearings[i].key = k
         /\ \A i \in 1 .. Len(hearings) : hearings[i] \in HeardAdverts
<1>1. hearings \in Seq(HeardAdverts)
  BY DEF Chronicle
<1>2. Len(hearings) \in Nat /\ DOMAIN hearings = 1 .. Len(hearings)
  BY <1>1, LenProperties
<1>3. \A i \in 1 .. Len(hearings) : hearings[i] \in HeardAdverts
  BY <1>1, ElementOfSeq
<1>4. QED
  BY <1>2, <1>3 DEF Hearings

\* The first and the last hearing of a node.
LEMMA FirstAndLast ==
  ASSUME Chronicle, NEW k, Hearings(k) # {}
  PROVE  /\ Min(Hearings(k)) \in Hearings(k) /\ Max(Hearings(k)) \in Hearings(k)
         /\ \A i \in Hearings(k) : Min(Hearings(k)) <= i /\ i <= Max(Hearings(k))
         /\ \A i \in Hearings(k) :
              hearings[i].at \in Nat /\ Earliest(k).at <= hearings[i].at /\ hearings[i].at <= Latest(k).at
         /\ Earliest(k) \in HeardAdverts /\ Latest(k) \in HeardAdverts
<1>1. /\ Len(hearings) \in Nat /\ Hearings(k) \in SUBSET (1 .. Len(hearings))
      /\ \A i \in 1 .. Len(hearings) : hearings[i] \in HeardAdverts
  BY Places
<1>2. \A i \in Hearings(k) : i \in 1 .. Len(hearings) /\ i \in Nat /\ i \in Int
  BY <1>1
<1>3. PICK least \in Hearings(k) : \A i \in Hearings(k) : least <= i
  BY <1>2, LeastNumber
<1>4. PICK greatest \in Hearings(k) : \A i \in Hearings(k) : i <= greatest
  BY <1>1, GreatestNumber
<1>5. Min(Hearings(k)) = least
  BY <1>2, <1>3, MinIs
<1>6. Max(Hearings(k)) = greatest
  BY <1>2, <1>4, MaxIs
<1>7. Earliest(k) = hearings[least] /\ Latest(k) = hearings[greatest]
  BY <1>5, <1>6 DEF Earliest, Latest
<1>8. \A i \in Hearings(k) : hearings[least].at <= hearings[i].at /\ hearings[i].at <= hearings[greatest].at
  BY <1>2, <1>3, <1>4 DEF Chronicle
<1>9. \A i \in Hearings(k) : hearings[i].at \in Nat
  BY <1>1, <1>2 DEF HeardAdverts
<1>10. QED
  BY <1>1, <1>2, <1>3, <1>4, <1>5, <1>6, <1>7, <1>8, <1>9

\* One hearing more.
LEMMA OneMoreHearing ==
  ASSUME Chronicle, NEW a \in Advert, now' = now, hearings' = Append(hearings, Hearing(a, now))
  PROVE  /\ Chronicle'
         /\ \A k : k # a.key => Hearings(k)' = Hearings(k)
         /\ \A i \in 1 .. Len(hearings) : hearings'[i] = hearings[i]
         /\ Hearings(a.key)' = Hearings(a.key) \cup {Len(hearings) + 1}
         /\ hearings'[Len(hearings) + 1] = Hearing(a, now)
<1> DEFINE h == Hearing(a, now)
           n == Len(hearings) + 1
<1>1. h \in HeardAdverts /\ h.key = a.key /\ h.at = now
  BY DEF Hearing, Advert, HeardAdverts, Chronicle
<1>2. hearings \in Seq(HeardAdverts) /\ Len(hearings) \in Nat
  BY LenProperties DEF Chronicle
<1> HIDE DEF h
<1>3. /\ hearings' \in Seq(HeardAdverts) /\ Len(hearings') = n
      /\ \A i \in 1 .. Len(hearings) : hearings'[i] = hearings[i]
      /\ hearings'[n] = h
  BY <1>1, <1>2, AppendProperties DEF h
<1>4. DOMAIN hearings = 1 .. Len(hearings) /\ DOMAIN hearings' = 1 .. n
  BY <1>2, <1>3, LenProperties
<1>5. \A i \in 1 .. n : i = n \/ i \in 1 .. Len(hearings)
  BY <1>2
<1>6. ASSUME NEW k
      PROVE  Hearings(k)' = {i \in 1 .. n : hearings'[i].key = k}
  BY <1>4 DEF Hearings
<1>7. ASSUME NEW k
      PROVE  Hearings(k) = {i \in 1 .. Len(hearings) : hearings[i].key = k}
  BY <1>4 DEF Hearings
<1>8. ASSUME NEW k, k # a.key
      PROVE  Hearings(k)' = Hearings(k)
  <2>1. \A i \in 1 .. n : hearings'[i].key = k <=> i \in 1 .. Len(hearings) /\ hearings[i].key = k
    BY <1>1, <1>2, <1>3, <1>5, <1>8
  <2>2. 1 .. Len(hearings) \subseteq 1 .. n
    BY <1>2
  <2>3. QED
    BY <1>6, <1>7, <2>1, <2>2
<1>9. Hearings(a.key)' = Hearings(a.key) \cup {n}
  BY <1>1, <1>2, <1>3, <1>5, <1>6, <1>7
<1>10. \A i \in 1 .. Len(hearings) : hearings[i].at \in Nat /\ hearings[i].at <= now
  <2>1. \A i \in 1 .. Len(hearings) : hearings[i] \in HeardAdverts
    BY <1>2, ElementOfSeq
  <2>2. QED
    BY <2>1 DEF HeardAdverts, Chronicle
<1>11. \A i \in 1 .. n : hearings'[i].at <= now
  BY <1>1, <1>3, <1>5, <1>10 DEF Chronicle
<1>12. ASSUME NEW i \in 1 .. n, NEW j \in 1 .. n, i <= j
       PROVE  hearings'[i].at <= hearings'[j].at
  <2>1. CASE j = n
    BY <1>1, <1>3, <1>11, <2>1
  <2>2. CASE j # n
    <3>1. i \in 1 .. Len(hearings) /\ j \in 1 .. Len(hearings)
      BY <1>2, <1>12, <2>2
    <3>2. QED
      BY <1>3, <1>12, <3>1 DEF Chronicle
  <2>3. QED
    BY <2>1, <2>2
<1>13. Chronicle'
  BY <1>3, <1>11, <1>12 DEF Chronicle
<1>14. QED
  BY <1>3, <1>8, <1>9, <1>13 DEF h

\* The row of a node that is heard once more.
LEMMA UpsertTells ==
  ASSUME Chronicle, NEW a \in Advert, now' = now, hearings' = Append(hearings, Hearing(a, now)),
         NEW rows, NodesAreTrue(rows), NEW upserted, upserted = Upsert(rows, a, now)
  PROVE  NodesAreTrue(upserted)'
<1> DEFINE n == Len(hearings) + 1
           node == Node(a, FirstHeard(rows, a.key, now), now)
<1>1. /\ Len(hearings) \in Nat /\ now \in Nat
      /\ \A k : Hearings(k) \in SUBSET (1 .. Len(hearings))
      /\ \A i \in 1 .. Len(hearings) : hearings[i] \in HeardAdverts
  BY Places DEF Chronicle
<1>2. /\ Chronicle'
      /\ \A k : k # a.key => Hearings(k)' = Hearings(k)
      /\ \A i \in 1 .. Len(hearings) : hearings'[i] = hearings[i]
      /\ Hearings(a.key)' = Hearings(a.key) \cup {n}
      /\ hearings'[n] = Hearing(a, now)
  BY OneMoreHearing
<1>3. ASSUME NEW k, k # a.key, Hearings(k) # {}
      PROVE  /\ Hearings(k)' # {}
             /\ Earliest(k)' = Earliest(k) /\ Latest(k)' = Latest(k)
  <2>1. Min(Hearings(k)) \in Hearings(k) /\ Max(Hearings(k)) \in Hearings(k)
    BY <1>3, FirstAndLast
  <2>2. Min(Hearings(k)) \in 1 .. Len(hearings) /\ Max(Hearings(k)) \in 1 .. Len(hearings)
    BY <1>1, <2>1
  <2>3. QED
    BY <1>2, <1>3, <2>2 DEF Earliest, Latest
<1>4. Hearings(a.key)' \in SUBSET Int /\ n \in Hearings(a.key)' /\ \A i \in Hearings(a.key)' : i <= n
  BY <1>1, <1>2
<1>5. Max(Hearings(a.key)') = n
  BY <1>4, MaxIs
<1>6. Latest(a.key)' = Hearing(a, now)
  BY <1>2, <1>5 DEF Latest
<1>7. ASSUME Hearings(a.key) = {}
      PROVE  Earliest(a.key)' = Hearing(a, now)
  <2>1. Hearings(a.key)' = {n}
    BY <1>2, <1>7
  <2>2. Min(Hearings(a.key)') = n
    BY <1>4, <2>1, MinIs
  <2>3. QED
    BY <1>2, <2>2 DEF Earliest
<1>8. ASSUME Hearings(a.key) # {}
      PROVE  Earliest(a.key)' = Earliest(a.key)
  <2>1. Min(Hearings(a.key)) \in Hearings(a.key) /\ \A i \in Hearings(a.key) : Min(Hearings(a.key)) <= i
    BY <1>8, FirstAndLast
  <2>2. Min(Hearings(a.key)) \in 1 .. Len(hearings)
    BY <1>1, <2>1
  <2>3. \A i \in Hearings(a.key)' : Min(Hearings(a.key)) <= i
    BY <1>1, <1>2, <2>1, <2>2
  <2>4. Min(Hearings(a.key)) \in Hearings(a.key)'
    BY <1>2, <2>1
  <2>5. Min(Hearings(a.key)') = Min(Hearings(a.key))
    BY <1>4, <2>3, <2>4, MinIs
  <2>6. QED
    BY <1>2, <2>2, <2>5 DEF Earliest
<1>9. FirstHeard(rows, a.key, now) = Earliest(a.key).at'
  <2>1. CASE Hearings(a.key) = {}
    <3>1. Of(rows, a.key) = {}
      BY <2>1 DEF Of, NodesAreTrue
    <3>2. QED
      BY <1>7, <2>1, <3>1 DEF FirstHeard, Hearing
  <2>2. CASE Hearings(a.key) # {}
    <3>1. Of(rows, a.key) # {}
      BY <2>2 DEF Of, NodesAreTrue, Advert
    <3>2. \A x \in Of(rows, a.key) : x.first = Earliest(a.key).at
      BY DEF Of, NodesAreTrue
    <3>3. FirstHeard(rows, a.key, now) = Earliest(a.key).at
      BY <3>1, <3>2 DEF FirstHeard
    <3>4. QED
      BY <1>8, <2>2, <3>3
  <2>3. QED
    BY <2>1, <2>2
<1>10. Earliest(a.key).at' \in Nat
  <2>1. CASE Hearings(a.key) = {}
    BY <1>1, <1>7, <2>1 DEF Hearing
  <2>2. CASE Hearings(a.key) # {}
    <3>1. Earliest(a.key) \in HeardAdverts
      BY <2>2, FirstAndLast
    <3>2. QED
      BY <1>8, <2>2, <3>1 DEF HeardAdverts
  <2>3. QED
    BY <2>1, <2>2
<1>11. /\ node \in NodeRows /\ node.key = a.key /\ node.name = a.name /\ node.type = a.type
       /\ node.first = Earliest(a.key).at' /\ node.last = now
  BY <1>1, <1>9, <1>10 DEF Node, NodeRows, Advert
<1>12. upserted = {x \in rows : x.key # a.key} \cup {node}
  BY DEF Upsert, Of
<1> HIDE DEF node
<1>13. ASSUME NEW x \in upserted
       PROVE  /\ x \in NodeRows /\ Hearings(x.key)' # {}
              /\ x.first = Earliest(x.key).at' /\ x.last = Latest(x.key).at'
              /\ x.name = Latest(x.key).name' /\ x.type = Latest(x.key).type'
  <2>1. CASE x = node
    BY <1>4, <1>6, <1>11, <2>1 DEF Hearing
  <2>2. CASE x \in rows /\ x.key # a.key
    BY <1>3, <2>2 DEF NodesAreTrue
  <2>3. QED
    BY <1>12, <2>1, <2>2
<1>14. ASSUME NEW k \in Keys, Hearings(k)' # {}
       PROVE  \E x \in upserted : x.key = k
  <2>1. CASE k = a.key
    BY <1>11, <1>12, <2>1
  <2>2. CASE k # a.key
    <3>1. Hearings(k) # {}
      BY <1>2, <1>14, <2>2
    <3>2. PICK x \in rows : x.key = k
      BY <3>1 DEF NodesAreTrue
    <3>3. QED
      BY <1>12, <2>2, <3>2
  <2>3. QED
    BY <2>1, <2>2
<1>15. \A x, y \in upserted : x.key = y.key => x = y
  BY <1>11, <1>12 DEF NodesAreTrue
<1>16. QED
  BY <1>13, <1>14, <1>15 DEF NodesAreTrue

-----------------------------------------------------------------------------
(* The upgrade and the nodes.                                              *)

\* A statement that spares the nodes leaves them as they are.
LEMMA SparedNodes ==
  ASSUME NEW t, NEW s \in Orders, Fits(t, s), Spares(s)
  PROVE  Known(Exec(t, s)) = Known(t)
<1>1. CASE s.op = "create"
  <2>1. Exec(t, s) = With(t, s.to, {}) /\ s.to \notin DOMAIN t
    BY <1>1 DEF Exec, Fits
  <2>2. QED
    BY <2>1 DEF Known, With
<1>2. CASE s.op = "copy"
  <2>1. /\ Exec(t, s) = [t EXCEPT ![s.to] = @ \cup {Converted(s.from, row) : row \in t[s.from]}]
        /\ s.to # "nodes"
    BY <1>2 DEF Exec, Spares
  <2>2. QED
    BY <2>1 DEF Known
<1>3. CASE s.op = "columns"
  <2>1. Exec(t, s) = [t EXCEPT ![s.to] = {Widened(row) : row \in @}] /\ s.to # "nodes"
    BY <1>3 DEF Exec, Spares
  <2>2. QED
    BY <2>1 DEF Known
<1>4. CASE s.op = "drop"
  <2>1. Exec(t, s) = Without(t, s.from) /\ s.from # "nodes"
    BY <1>4 DEF Exec, Spares
  <2>2. QED
    BY <2>1 DEF Known, Without, Restrict
<1>5. CASE s.op = "rename"
  <2>1. Exec(t, s) = With(Without(t, s.from), s.to, t[s.from]) /\ s.from # "nodes" /\ s.to # "nodes"
    BY <1>5 DEF Exec, Spares
  <2>2. QED
    BY <2>1 DEF Known, With, Without, Restrict
<1>6. s.op \in {"create", "copy", "columns", "drop", "rename"}
  BY DEF Orders
<1>7. QED
  BY <1>1, <1>2, <1>3, <1>4, <1>5, <1>6

\* All statements of all migrations do.
LEMMA MigrationsSpare ==
  ASSUME NEW v \in 1 .. 8
  PROVE  \A i \in 1 .. Len(Migrations[v]) : Spares(Migrations[v][i])
<1>1. Spares(Create("command_events")) /\ Spares(Create("reply_events")) /\ Spares(Create("nodes"))
  BY DEF Spares, Create
<1>2. Spares(Create("queue_items")) /\ Spares(Create("bot_replies")) /\ Spares(Create("flood_advert_state"))
  BY DEF Spares, Create
<1>3. Spares(Create("bot_replies_new")) /\ Spares(AddColumns("bot_replies"))
  BY DEF Spares, Create, AddColumns
<1>4. /\ Spares(Copy("command_events", "reply_events")) /\ Spares(Copy("queue_items", "bot_replies"))
      /\ Spares(Copy("reply_events", "bot_replies")) /\ Spares(Copy("bot_replies", "bot_replies_new"))
  BY DEF Spares, Copy
<1>5. Spares(Drop("command_events")) /\ Spares(Drop("queue_items"))
  BY DEF Spares, Drop
<1>6. /\ Spares(Drop("reply_events")) /\ Spares(Drop("bot_replies"))
      /\ Spares(Rename("bot_replies_new", "bot_replies"))
  BY DEF Spares, Drop, Rename
<1>7. v \in {1, 2, 3, 4, 5, 6, 7, 8}
  OBVIOUS
<1>8. CASE v = 1
  BY <1>1, <1>8 DEF Migrations
<1>9. CASE v = 2
  BY <1>1, <1>4, <1>5, <1>9 DEF Migrations
<1>10. CASE v = 3
  BY <1>1, <1>10 DEF Migrations
<1>11. CASE v = 4
  BY <1>2, <1>11 DEF Migrations
<1>12. CASE v = 5
  BY <1>2, <1>4, <1>5, <1>6, <1>12 DEF Migrations
<1>13. CASE v = 6
  BY <1>3, <1>13 DEF Migrations
<1>14. CASE v = 7
  BY <1>2, <1>14 DEF Migrations
<1>15. CASE v = 8
  BY <1>3, <1>4, <1>6, <1>15 DEF Migrations
<1>16. QED
  BY <1>7, <1>8, <1>9, <1>10, <1>11, <1>12, <1>13, <1>14, <1>15

\* SetToSeq lists all elements of a finite set.
LEMMA Listed ==
  ASSUME NEW S, IsFiniteSet(S)
  PROVE  /\ Cardinality(S) \in Nat /\ SetToSeq(S) \in [1 .. Cardinality(S) -> S]
         /\ \A x \in S : \E i \in 1 .. Cardinality(S) : SetToSeq(S)[i] = x
<1> DEFINE n == Cardinality(S)
<1>1. n \in Nat /\ ExistsBijection(1 .. n, S)
  BY FS_CardinalityType
<1>2. \E f \in [1 .. n -> S] : IsInjective(f)
  BY <1>1 DEF ExistsBijection, Bijection, Injection
<1>3. SetToSeq(S) \in [1 .. n -> S] /\ IsInjective(SetToSeq(S))
  BY <1>2 DEF SetToSeq
<1>4. SetToSeq(S) \in Injection(1 .. n, S)
  BY <1>3 DEF Injection
<1>5. IsFiniteSet(1 .. n) /\ Cardinality(1 .. n) = n
  BY <1>1, FS_Interval
<1>6. SetToSeq(S) \in Surjection(1 .. n, S)
  BY <1>4, <1>5, FS_Injection
<1>7. QED
  BY <1>1, <1>3, <1>6 DEF Surjection

LEMMA RegistryInit ==
  ASSUME Init
  PROVE  RegistryInv
<1> DEFINE OldNode(k) == [key |-> k, name |-> CHOOSE n \in Names : TRUE, type |-> "REPEATER"]
<1>1. PICK old \in SUBSET {OldNode(k) : k \in Keys} :
        /\ StoreInit({Node(a, 0, 0) : a \in old})
        /\ "nodes" \notin DOMAIN disk.tables => old = {}
        /\ now = 0
        /\ hearings = [i \in 1 .. Cardinality(old) |-> Hearing(SetToSeq(old)[i], 0)]
  BY DEF Init
<1> DEFINE rows == {Node(a, 0, 0) : a \in old}
           n == Cardinality(old)
           s == SetToSeq(old)
<1>2. /\ \A a \in old : a \in Advert
      /\ \A a, b \in old : a.key = b.key => a = b
  <2>1. (CHOOSE n0 \in Names : TRUE) \in Names /\ "REPEATER" \in Types
    BY RegistryAssumption
  <2> DEFINE called == CHOOSE n0 \in Names : TRUE
  <2>2. \A k \in Keys : OldNode(k) = [key |-> k, name |-> called, type |-> "REPEATER"]
    OBVIOUS
  <2>3. called \in Names
    BY <2>1
  <2> HIDE DEF called, OldNode
  <2>4. \A a \in old : \E k \in Keys : a = [key |-> k, name |-> called, type |-> "REPEATER"]
    BY <2>2
  <2>5. QED
    BY <2>1, <2>3, <2>4 DEF Advert
<1>3. opener = "none" /\ Known(disk.tables) = rows
  <2>1. PICK v, became, columns : disk = [version |-> v, tables |-> OldTables(v, became, columns, rows)]
    BY <1>1 DEF StoreInit
  <2>2. opener = "none" /\ disk.tables = OldTables(v, became, columns, rows)
    BY <1>1, <2>1 DEF StoreInit
  <2>3. ASSUME "nodes" \in DOMAIN disk.tables
        PROVE  disk.tables["nodes"] = rows
    BY <2>2, <2>3 DEF OldTables
  <2>4. "nodes" \notin DOMAIN disk.tables => rows = {}
    BY <1>1
  <2>5. QED
    BY <2>2, <2>3, <2>4 DEF Known
<1>4. IsFiniteSet(old)
  <2> DEFINE f == [a \in old |-> a.key]
  <2>1. f \in Injection(old, Keys)
    BY <1>2 DEF Injection, IsInjective, Advert
  <2>2. QED
    BY <2>1, FS_Injection, RegistryAssumption
<1>5. /\ n \in Nat /\ s \in [1 .. n -> old]
      /\ \A a \in old : \E i \in 1 .. n : s[i] = a
  BY <1>4, Listed
<1> HIDE DEF n, s
<1>6. hearings = [i \in 1 .. n |-> Hearing(s[i], 0)]
  BY <1>1 DEF n, s
<1>7. \A a \in old : Hearing(a, 0) \in HeardAdverts /\ Hearing(a, 0).key = a.key /\ Hearing(a, 0).at = 0
  BY <1>2 DEF Hearing, HeardAdverts, Advert
<1>8. \A i \in 1 .. n : hearings[i] = Hearing(s[i], 0) /\ s[i] \in old
  BY <1>5, <1>6
<1>9. hearings \in Seq(HeardAdverts) /\ Len(hearings) = n
  <2>1. hearings \in [1 .. n -> HeardAdverts]
    BY <1>5, <1>6, <1>7, <1>8
  <2>2. hearings \in Seq(HeardAdverts)
    BY <1>5, <2>1, SeqDef
  <2>3. DOMAIN hearings = 1 .. n
    BY <2>1
  <2>4. QED
    BY <1>5, <2>2, <2>3, LenProperties
<1>10. Chronicle
  <2>1. \A i \in 1 .. Len(hearings) : hearings[i].at = 0
    BY <1>7, <1>8, <1>9
  <2>2. now = 0
    BY <1>1
  <2>3. QED
    BY <1>9, <2>1, <2>2 DEF Chronicle
<1>11. ASSUME NEW a \in old
       PROVE  /\ Hearings(a.key) # {}
              /\ Earliest(a.key) = Hearing(a, 0) /\ Latest(a.key) = Hearing(a, 0)
  <2>1. PICK i \in 1 .. n : s[i] = a
    BY <1>5
  <2>2. i \in Hearings(a.key)
    BY <1>7, <1>8, <1>9, <1>10, <2>1, Places
  <2>3. ASSUME NEW j \in Hearings(a.key)
        PROVE  hearings[j] = Hearing(a, 0)
    <3>1. j \in 1 .. n /\ hearings[j].key = a.key
      BY <1>9, <1>10, Places
    <3>2. s[j] \in old /\ s[j].key = a.key
      BY <1>7, <1>8, <3>1
    <3>3. QED
      BY <1>2, <1>8, <3>1, <3>2
  <2>4. QED
    BY <1>10, <2>2, <2>3, FirstAndLast DEF Earliest, Latest
<1>12. ASSUME NEW k \in Keys, Hearings(k) # {}
       PROVE  \E x \in rows : x.key = k
  <2>1. PICK j \in 1 .. n : hearings[j].key = k
    BY <1>9, <1>10, <1>12, Places
  <2>2. s[j] \in old /\ s[j].key = k
    BY <1>7, <1>8, <2>1
  <2>3. Node(s[j], 0, 0) \in rows /\ Node(s[j], 0, 0).key = k
    BY <2>2 DEF Node
  <2>4. QED
    BY <2>3
<1>13. ASSUME NEW x \in rows
       PROVE  /\ x \in NodeRows /\ Hearings(x.key) # {}
              /\ x.first = Earliest(x.key).at /\ x.last = Latest(x.key).at
              /\ x.name = Latest(x.key).name /\ x.type = Latest(x.key).type
  <2>1. PICK a \in old : x = Node(a, 0, 0)
    OBVIOUS
  <2>2. x.key = a.key /\ x \in NodeRows
    BY <1>2, <2>1 DEF Node, NodeRows, Advert
  <2>3. x.first = 0 /\ x.last = 0 /\ x.name = a.name /\ x.type = a.type
    BY <2>1 DEF Node
  <2>4. Hearing(a, 0).at = 0 /\ Hearing(a, 0).name = a.name /\ Hearing(a, 0).type = a.type
    BY DEF Hearing
  <2>5. QED
    BY <1>11, <2>2, <2>3, <2>4
<1>14. \A x, y \in rows : x.key = y.key => x = y
  BY <1>2 DEF Node
<1>15. NodesAreTrue(rows)
  BY <1>12, <1>13, <1>14 DEF NodesAreTrue
<1>16. QED
  BY <1>3, <1>10, <1>15 DEF RegistryInv

\* Where its nodes do not change, the database is still true of them.
LEMMA DiskStaysTrue ==
  ASSUME NodesAreTrue(Known(disk.tables)), UNCHANGED hearings, Known(disk'.tables) = Known(disk.tables)
  PROVE  NodesAreTrue(Known(disk.tables))'
<1>1. PICK rows : rows = Known(disk.tables) /\ rows = Known(disk'.tables) /\ NodesAreTrue(rows)
  OBVIOUS
<1>2. \A k : Hearings(k)' = Hearings(k)
  BY DEF Hearings
<1>3. \A k : Earliest(k)' = Earliest(k) /\ Latest(k)' = Latest(k)
  BY <1>2 DEF Earliest, Latest
<1>4. \A n \in rows :
        /\ n \in NodeRows /\ Hearings(n.key)' # {}
        /\ n.first = Earliest(n.key)'.at /\ n.last = Latest(n.key)'.at
        /\ n.name = Latest(n.key)'.name /\ n.type = Latest(n.key)'.type
  BY <1>1, <1>2, <1>3 DEF NodesAreTrue
<1>5. \A k \in Keys : Hearings(k)' # {} => \E n \in rows : n.key = k
  BY <1>1, <1>2 DEF NodesAreTrue
<1>6. \A m, n \in rows : m.key = n.key => m = n
  BY <1>1 DEF NodesAreTrue
<1>7. QED
  BY <1>1, <1>4, <1>5, <1>6 DEF NodesAreTrue

\* So are the tables inside a migration.
LEMMA WorkStaysTrue ==
  ASSUME NodesAreTrue(Known(work)), UNCHANGED hearings, Known(work') = Known(work)
  PROVE  NodesAreTrue(Known(work))'
<1>1. PICK rows : rows = Known(work) /\ rows = Known(work') /\ NodesAreTrue(rows)
  OBVIOUS
<1>2. \A k : Hearings(k)' = Hearings(k)
  BY DEF Hearings
<1>3. \A k : Earliest(k)' = Earliest(k) /\ Latest(k)' = Latest(k)
  BY <1>2 DEF Earliest, Latest
<1>4. \A n \in rows :
        /\ n \in NodeRows /\ Hearings(n.key)' # {}
        /\ n.first = Earliest(n.key)'.at /\ n.last = Latest(n.key)'.at
        /\ n.name = Latest(n.key)'.name /\ n.type = Latest(n.key)'.type
  BY <1>1, <1>2, <1>3 DEF NodesAreTrue
<1>5. \A k \in Keys : Hearings(k)' # {} => \E n \in rows : n.key = k
  BY <1>1, <1>2 DEF NodesAreTrue
<1>6. \A m, n \in rows : m.key = n.key => m = n
  BY <1>1 DEF NodesAreTrue
<1>7. QED
  BY <1>1, <1>4, <1>5, <1>6 DEF NodesAreTrue

\* Neither the hearings nor the nodes of the committed database change.
LEMMA NodesUntouched ==
  ASSUME RegistryInv, UNCHANGED <<now, hearings>>,
         Known(disk'.tables) = Known(disk.tables), opener' # "inside"
  PROVE  RegistryInv'
<1>1. Chronicle'
  BY DEF RegistryInv, Chronicle
<1>2. NodesAreTrue(Known(disk.tables))'
  BY DiskStaysTrue DEF RegistryInv
<1>3. QED
  BY <1>1, <1>2 DEF RegistryInv

LEMMA RegistryBegins ==
  ASSUME StoreInv, RegistryInv, Begin, UNCHANGED <<now, hearings>>
  PROVE  RegistryInv'
<1>1. /\ opener = "between" /\ migration <= 8
      /\ work' = disk.tables /\ todo' = Migrations[migration] /\ UNCHANGED disk
  BY EightMigrations DEF Begin
<1>2. migration \in 1 .. 8
  BY <1>1 DEF StoreInv
<1>3. Chronicle'
  BY DEF RegistryInv, Chronicle
<1>4. NodesAreTrue(Known(disk.tables))' /\ NodesAreTrue(Known(work))'
  BY <1>1 DEF RegistryInv, NodesAreTrue, Hearings, Earliest, Latest, Known
<1>5. \A i \in 1 .. Len(todo') : Spares(todo'[i])
  BY <1>1, <1>2, MigrationsSpare
<1>6. QED
  BY <1>3, <1>4, <1>5 DEF RegistryInv, Spares

LEMMA RegistryStatement ==
  ASSUME StoreInv, RegistryInv, Statement, UNCHANGED <<now, hearings>>
  PROVE  RegistryInv'
<1>1. /\ opener = "inside" /\ todo # <<>> /\ Fits(work, Head(todo))
      /\ work' = Exec(work, Head(todo)) /\ todo' = Tail(todo) /\ UNCHANGED disk
  BY DEF Statement, Durable
<1>2. todo \in Seq(Orders)
  BY <1>1 DEF StoreInv
<1>3. /\ Len(todo) \in Nat \ {0} /\ Head(todo) = todo[1] /\ Head(todo) \in Orders
      /\ Len(Tail(todo)) = Len(todo) - 1
      /\ \A i \in 1 .. Len(todo) - 1 : Tail(todo)[i] = todo[i + 1]
  BY <1>1, <1>2, HeadTailProperties, EmptySeq, LenProperties
<1>4. \A i \in 1 .. Len(todo) : Spares(todo[i])
  BY <1>1 DEF RegistryInv
<1>5. Spares(Head(todo))
  BY <1>3, <1>4
<1>6. Known(work') = Known(work)
  BY <1>1, <1>3, <1>5, SparedNodes
<1>7. \A i \in 1 .. Len(todo') : Spares(todo'[i])
  BY <1>1, <1>3, <1>4
<1>8. Chronicle'
  BY DEF RegistryInv, Chronicle
<1>9. NodesAreTrue(Known(disk.tables))' /\ NodesAreTrue(Known(work))'
  <2>1. NodesAreTrue(Known(work)) /\ NodesAreTrue(Known(disk.tables))
    BY <1>1 DEF RegistryInv
  <2>2. NodesAreTrue(Known(disk.tables))'
    BY <1>1, <2>1, DiskStaysTrue
  <2>3. NodesAreTrue(Known(work))'
    BY <1>6, <2>1, WorkStaysTrue
  <2>4. QED
    BY <2>2, <2>3
<1>10. QED
  BY <1>7, <1>8, <1>9 DEF RegistryInv, Spares

LEMMA RegistryCommit ==
  ASSUME RegistryInv, Commit, UNCHANGED <<now, hearings>>
  PROVE  RegistryInv'
<1>1. opener = "inside" /\ disk'.tables = work /\ opener' = "between"
  BY DEF Commit
<1>2. Chronicle'
  BY DEF RegistryInv, Chronicle
<1>3. NodesAreTrue(Known(disk.tables))'
  BY <1>1 DEF RegistryInv, NodesAreTrue, Hearings, Earliest, Latest, Known
<1>4. QED
  BY <1>1, <1>2, <1>3 DEF RegistryInv

\* The replies are in a table of their own.
LEMMA ReplyWrites ==
  ASSUME StoreInv, RegistryInv, UNCHANGED <<now, hearings>>, opener = "open", UNCHANGED opener,
         NEW rows, disk' = Put("bot_replies", rows)
  PROVE  RegistryInv'
<1>1. /\ DOMAIN disk'.tables = TablesOf(8) /\ DOMAIN disk.tables = TablesOf(8)
      /\ \A x \in TablesOf(8) : x # "bot_replies" => disk'.tables[x] = disk.tables[x]
  BY PutEffect DEF StoreInv, Sound
<1>2. Known(disk'.tables) = Known(disk.tables)
  BY <1>1 DEF Known
<1>3. QED
  BY <1>2, NodesUntouched

LEMMA AdvertWrites ==
  ASSUME StoreInv, RegistryInv, NEW a \in Advert, Verified(a)
  PROVE  RegistryInv'
<1>1. /\ opener = "open" /\ opener' = "open" /\ UNCHANGED now
      /\ hearings' = Append(hearings, Hearing(a, now))
      /\ disk' = Put("nodes", Upsert(Nodes, a, now))
  BY DEF Verified, openVars
<1>2. /\ DOMAIN disk'.tables = TablesOf(8) /\ DOMAIN disk.tables = TablesOf(8)
      /\ disk'.tables["nodes"] = Upsert(Nodes, a, now)
  BY <1>1, PutEffect DEF StoreInv, Sound
<1>3. Known(disk.tables) = Nodes /\ Known(disk'.tables) = Upsert(Nodes, a, now)
  BY <1>2, Versions DEF Known, Nodes
<1>4. Chronicle /\ NodesAreTrue(Nodes)
  BY <1>3 DEF RegistryInv
<1>5. Chronicle'
  BY <1>1, <1>4, OneMoreHearing
<1>6. ASSUME NEW u, u = Upsert(Nodes, a, now)
      PROVE  NodesAreTrue(u)'
  BY <1>1, <1>4, <1>6, UpsertTells
<1>7. PICK rows : rows = Known(disk'.tables) /\ NodesAreTrue(rows)'
  BY <1>3, <1>6
<1>8. /\ \A n \in rows :
           /\ n \in NodeRows /\ Hearings(n.key)' # {}
           /\ n.first = Earliest(n.key)'.at /\ n.last = Latest(n.key)'.at
           /\ n.name = Latest(n.key)'.name /\ n.type = Latest(n.key)'.type
      /\ \A k \in Keys : Hearings(k)' # {} => \E n \in rows : n.key = k
      /\ \A m, n \in rows : m.key = n.key => m = n
  BY <1>7 DEF NodesAreTrue
<1>9. NodesAreTrue(Known(disk.tables))'
  BY <1>7, <1>8 DEF NodesAreTrue
<1>10. QED
  BY <1>1, <1>5, <1>9 DEF RegistryInv

LEMMA RegistryStep ==
  ASSUME StoreInv, RegistryInv, [Next]_vars
  PROVE  RegistryInv'
<1>1. ASSUME UNCHANGED <<disk, opener, hearings>>, opener # "inside", now' \in Nat, now <= now'
      PROVE  RegistryInv'
  <2>1. \A i \in 1 .. Len(hearings) : hearings[i].at \in Nat /\ hearings[i].at <= now /\ now \in Nat
    BY Places DEF RegistryInv, Chronicle, HeardAdverts
  <2>2. Chronicle'
    BY <1>1, <2>1 DEF RegistryInv, Chronicle
  <2>3. NodesAreTrue(Known(disk.tables))'
    BY <1>1, DiskStaysTrue DEF RegistryInv
  <2>4. QED
    BY <1>1, <2>2, <2>3 DEF RegistryInv
<1>2. CASE StoreStep
  <2>1. UNCHANGED <<now, hearings>>
    BY <1>2 DEF StoreStep
  <2>2. CASE Open
    BY <2>1, <2>2, NodesUntouched DEF Open
  <2>3. CASE Begin
    BY <2>1, <2>3, RegistryBegins
  <2>4. CASE Statement
    BY <2>1, <2>4, RegistryStatement
  <2>5. CASE Commit
    BY <2>1, <2>5, RegistryCommit
  <2>6. CASE Opened
    BY <2>1, <2>6, NodesUntouched DEF Opened
  <2>7. CASE Ends
    BY <2>1, <2>7, NodesUntouched DEF Ends
  <2>8. ASSUME NEW r \in Replies, EnqueueReplyItem(r)
        PROVE  RegistryInv'
    <3>1. opener = "open" /\ UNCHANGED opener /\ \E rows : disk' = Put("bot_replies", rows)
      BY <2>8 DEF EnqueueReplyItem, openVars
    <3>2. QED
      BY <2>1, <3>1, ReplyWrites
  <2>9. ASSUME NEW r \in Replies, NEW outcome, ResolveReplyItem(r, outcome)
        PROVE  RegistryInv'
    <3>1. opener = "open" /\ UNCHANGED opener /\ \E rows : disk' = Put("bot_replies", rows)
      BY <2>9 DEF ResolveReplyItem, openVars
    <3>2. QED
      BY <2>1, <3>1, ReplyWrites
  <2>10. QED
    BY <1>2, <2>2, <2>3, <2>4, <2>5, <2>6, <2>7, <2>8, <2>9 DEF StoreStep, StoreNext
<1>3. CASE Tick
  <2>1. /\ opener = "open" /\ now' = now + 1 /\ UNCHANGED <<disk, opener, hearings>>
        /\ now \in Nat
    BY <1>3 DEF Tick, storeVars, openVars, RegistryInv, Chronicle
  <2>2. opener # "inside" /\ now' \in Nat /\ now <= now'
    BY <2>1
  <2>3. QED
    BY <1>1, <2>1, <2>2
<1>4. ASSUME NEW a \in Advert, Receive(a) \/ Dropped(a)
      PROVE  RegistryInv'
  <2>1. opener = "open" /\ UNCHANGED <<disk, opener, hearings, now>> /\ now \in Nat
    BY <1>4 DEF Receive, Dropped, storeVars, openVars, RegistryInv, Chronicle
  <2>2. opener # "inside" /\ now' \in Nat /\ now <= now'
    BY <2>1
  <2>3. QED
    BY <1>1, <2>1, <2>2
<1>5. ASSUME NEW a \in Advert, Verified(a)
      PROVE  RegistryInv'
  BY <1>5, AdvertWrites
<1>6. CASE UNCHANGED vars
  <2>1. UNCHANGED <<disk, opener, work, todo, hearings, now>>
    BY <1>6 DEF vars, storeVars, openVars, registryVars
  <2>2. Chronicle'
    BY <2>1 DEF RegistryInv, Chronicle
  <2>3. Known(disk'.tables) = Known(disk.tables) /\ Known(work') = Known(work)
    BY <2>1
  <2>4. NodesAreTrue(Known(disk.tables))'
    BY <2>1, <2>3, DiskStaysTrue DEF RegistryInv
  <2>5. opener = "inside" => NodesAreTrue(Known(work))'
    BY <2>1, <2>3, WorkStaysTrue DEF RegistryInv
  <2>6. QED
    BY <2>1, <2>2, <2>4, <2>5 DEF RegistryInv, Spares
<1>7. QED
  BY <1>2, <1>3, <1>4, <1>5, <1>6 DEF Next

\* The inductive invariant of the registry: whatever release the database comes
\* from and whatever processes die, the table of the nodes has one row for each
\* node that was heard, with its first and its last hearing.
THEOREM RegistryInvHolds == Spec => []RegistryInv
<1>1. Init => RegistryInv
  BY RegistryInit
<1>2. StoreInv /\ RegistryInv /\ [Next]_vars => RegistryInv'
  BY RegistryStep
<1>3. QED
  BY <1>1, <1>2, StoreInvHolds, PTL DEF Spec

-----------------------------------------------------------------------------
(* What the queries read.                                                  *)

\* Rows and the keys they are of are equally many.
LEMMA AsManyRowsAsKeys ==
  ASSUME NEW K, IsFiniteSet(K), NEW R, \A n \in R : n.key \in K,
         \A k \in K : \E n \in R : n.key = k,
         \A m, n \in R : m.key = n.key => m = n
  PROVE  IsFiniteSet(R) /\ Cardinality(R) = Cardinality(K)
<1> DEFINE f == [n \in R |-> n.key]
<1>1. f \in Injection(R, K) /\ f \in Surjection(R, K)
  BY DEF Injection, IsInjective, Surjection
<1>2. QED
  BY <1>1, FS_Injection

LEMMA NodesInOpenStore ==
  ASSUME StoreInv, RegistryInv, opener = "open"
  PROVE  NodesAreTrue(Nodes)
<1>1. DOMAIN disk.tables = TablesOf(8)
  BY DEF StoreInv, Sound
<1>2. Known(disk.tables) = Nodes
  BY <1>1, Versions DEF Known, Nodes
<1>3. QED
  BY <1>2 DEF RegistryInv

\* The rows of the repeaters are those of what was heard as a repeater last.
LEMMA RepeaterRows ==
  ASSUME NodesAreTrue(Nodes)
  PROVE  /\ \A n \in OfType(Nodes, "REPEATER") :
              /\ n.key \in Repeaters /\ n \in NodeRows /\ Hearings(n.key) # {}
              /\ n.first = Earliest(n.key).at /\ n.last = Latest(n.key).at
              /\ n.name = Latest(n.key).name
         /\ \A k \in Repeaters : \E n \in OfType(Nodes, "REPEATER") : n.key = k
         /\ \A m, n \in OfType(Nodes, "REPEATER") : m.key = n.key => m = n
<1>1. \A n \in Nodes : n \in OfType(Nodes, "REPEATER") <=> n.type = "REPEATER"
  BY DEF OfType
<1>2. OfType(Nodes, "REPEATER") \subseteq Nodes
  BY DEF OfType
<1>3. \A n \in Nodes : n \in NodeRows /\ n.key \in Keys
  BY DEF NodesAreTrue, NodeRows
<1>4. QED
  BY <1>1, <1>2, <1>3 DEF NodesAreTrue, Repeaters

\* So counting some of those rows is counting their keys.
LEMMA CountedRows ==
  ASSUME NodesAreTrue(Nodes),
         NEW R \in SUBSET OfType(Nodes, "REPEATER"), NEW K \in SUBSET Repeaters,
         \A n \in OfType(Nodes, "REPEATER") : n \in R <=> n.key \in K
  PROVE  /\ IsFiniteSet(R) /\ IsFiniteSet(K) /\ Cardinality(R) = Cardinality(K)
         /\ \A k \in K : \E n \in R : n.key = k
<1>1. IsFiniteSet(Keys) /\ K \in SUBSET Keys
  BY RegistryAssumption DEF Repeaters
<1>2. IsFiniteSet(K)
  BY <1>1, FS_Subset
<1>3. \A k \in K : \E n \in R : n.key = k
  BY RepeaterRows
<1>4. \A n \in R : n.key \in K
  OBVIOUS
<1>5. \A m, n \in R : m.key = n.key => m = n
  BY RepeaterRows
<1>6. QED
  BY <1>2, <1>3, <1>4, <1>5, AsManyRowsAsKeys

LEMMA CountsAreTrue ==
  ASSUME StoreInv, RegistryInv, Settled, NEW start \in 0 .. now
  PROVE  /\ \A end \in start .. now :
              QueryNodeTotals(start, end, "REPEATER").added
                = Cardinality({k \in Repeaters : Within(Earliest(k).at, start, end)})
         /\ QueryNodeTotals(start, now, "REPEATER").updated = Cardinality(HeardAgain(start, now))
         /\ CountActiveNodesInRange(start, now, "REPEATER")
              = Cardinality({k \in Repeaters : \E i \in Hearings(k) : hearings[i].at >= start})
<1> DEFINE rows == OfType(Nodes, "REPEATER")
           Again == {n \in rows : Within(n.last, start, now) /\ n.last # n.first}
           Active == {n \in rows : Within(n.first, start, now) \/ Within(n.last, start, now)}
<1>1. NodesAreTrue(Nodes) /\ Chronicle /\ now \in Nat /\ start \in Nat
  BY NodesInOpenStore DEF Settled, RegistryInv, Chronicle
<1>2. ASSUME NEW n \in rows
      PROVE  /\ n.key \in Repeaters /\ n.first = Earliest(n.key).at /\ n.last = Latest(n.key).at
             /\ n.first \in Nat /\ n.last \in Nat /\ n.first < now /\ n.last < now
             /\ \A i \in Hearings(n.key) :
                  hearings[i].at \in Nat /\ n.first <= hearings[i].at /\ hearings[i].at <= n.last
             /\ \E i \in Hearings(n.key) : hearings[i].at = n.first
             /\ \E i \in Hearings(n.key) : hearings[i].at = n.last
  <2>1. /\ n.key \in Repeaters /\ n \in NodeRows /\ Hearings(n.key) # {}
        /\ n.first = Earliest(n.key).at /\ n.last = Latest(n.key).at
    BY <1>1, RepeaterRows
  <2>2. n.first \in Nat /\ n.last \in Nat
    BY <2>1 DEF NodeRows
  <2>3. \A i \in Hearings(n.key) :
          hearings[i].at \in Nat /\ n.first <= hearings[i].at /\ hearings[i].at <= n.last
    BY <1>1, <2>1, FirstAndLast
  <2>4. /\ \E i \in Hearings(n.key) : hearings[i].at = n.first
        /\ \E i \in Hearings(n.key) : hearings[i].at = n.last
    BY <1>1, <2>1, FirstAndLast DEF Earliest, Latest
  <2>5. \A i \in Hearings(n.key) : hearings[i].at < now
    BY DEF Settled, Hearings
  <2>6. QED
    BY <2>1, <2>2, <2>3, <2>4, <2>5
<1>3. ASSUME NEW end \in start .. now
      PROVE  Cardinality({n \in rows : Within(n.first, start, end)})
               = Cardinality({k \in Repeaters : Within(Earliest(k).at, start, end)})
  <2> DEFINE New == {n \in rows : Within(n.first, start, end)}
             K == {k \in Repeaters : Within(Earliest(k).at, start, end)}
  <2>1. \A n \in rows : n \in New <=> n.key \in K
    BY <1>2
  <2> HIDE DEF rows
  <2>2. New \in SUBSET rows /\ K \in SUBSET Repeaters
    OBVIOUS
  <2> HIDE DEF New, K
  <2>3. Cardinality(New) = Cardinality(K)
    BY <1>1, <2>1, <2>2, CountedRows DEF rows
  <2>4. QED
    BY <2>3 DEF New, K
<1>4. Cardinality(Again) = Cardinality(HeardAgain(start, now))
  <2>1. \A n \in rows : n \in Again <=> n.key \in HeardAgain(start, now)
    <3> SUFFICES ASSUME NEW n \in rows
                 PROVE  n \in Again <=> n.key \in HeardAgain(start, now)
      OBVIOUS
    <3>1. ASSUME n \in Again
          PROVE  n.key \in HeardAgain(start, now)
      BY <1>1, <1>2, <3>1 DEF HeardAgain, Within
    <3>2. ASSUME n.key \in HeardAgain(start, now)
          PROVE  n \in Again
      <4>1. PICK i \in Hearings(n.key) : Within(hearings[i].at, start, now) /\ hearings[i].at # n.first
        BY <1>2, <3>2 DEF HeardAgain
      <4>2. /\ hearings[i].at \in Nat /\ n.first <= hearings[i].at /\ hearings[i].at <= n.last
            /\ n.first \in Nat /\ n.last \in Nat /\ n.last < now
        BY <1>2
      <4>3. QED
        BY <1>1, <4>1, <4>2 DEF Within
    <3>3. QED
      BY <3>1, <3>2
  <2> HIDE DEF rows
  <2>2. Again \in SUBSET rows /\ HeardAgain(start, now) \in SUBSET Repeaters
    BY DEF HeardAgain
  <2> HIDE DEF Again
  <2>3. QED
    BY <1>1, <2>1, <2>2, CountedRows DEF rows
<1>5. Cardinality(Active) = Cardinality({k \in Repeaters : \E i \in Hearings(k) : hearings[i].at >= start})
  <2> DEFINE K == {k \in Repeaters : \E i \in Hearings(k) : hearings[i].at >= start}
  <2>1. \A n \in rows : n \in Active <=> n.key \in K
    <3> SUFFICES ASSUME NEW n \in rows
                 PROVE  n \in Active <=> n.key \in K
      OBVIOUS
    <3>1. ASSUME n \in Active
          PROVE  n.key \in K
      BY <1>1, <1>2, <3>1 DEF Within
    <3>2. ASSUME n.key \in K
          PROVE  n \in Active
      <4>1. PICK i \in Hearings(n.key) : hearings[i].at >= start
        BY <3>2
      <4>2. hearings[i].at \in Nat /\ hearings[i].at <= n.last /\ n.last \in Nat /\ n.last < now
        BY <1>2
      <4>3. QED
        BY <1>1, <4>1, <4>2 DEF Within
    <3>3. QED
      BY <3>1, <3>2
  <2> HIDE DEF rows
  <2>2. Active \in SUBSET rows /\ K \in SUBSET Repeaters
    OBVIOUS
  <2> HIDE DEF Active, K
  <2>3. Cardinality(Active) = Cardinality(K)
    BY <1>1, <2>1, <2>2, CountedRows DEF rows
  <2>4. QED
    BY <2>3 DEF K
<1>6. QED
  BY <1>3, <1>4, <1>5 DEF QueryNodeTotals, CountActiveNodesInRange

\* From two times per node come the numbers all hearings would give: of added
\* repeaters for every window, of updated and active ones for every window that
\* ends now.
THEOREM CountsAgreeWithHistory == Spec => []CountsMatchHistory
<1>1. StoreInv /\ RegistryInv => CountsMatchHistory
  BY CountsAreTrue DEF CountsMatchHistory
<1>2. QED
  BY <1>1, StoreInvHolds, RegistryInvHolds, PTL

\* The first n digits.
LEMMA FirstDigits ==
  ASSUME NEW s, NEW n \in Nat, \A i \in 1 .. n : s[i] \in Nat
  PROVE  /\ SubSeq(s, 1, n) \in Seq(Nat) /\ Len(SubSeq(s, 1, n)) = n
         /\ \A i \in 1 .. n : SubSeq(s, 1, n)[i] = s[i]
<1>1. /\ SubSeq(s, 1, n) \in Seq(Nat)
      /\ Len(SubSeq(s, 1, n)) = IF 1 <= n THEN n - 1 + 1 ELSE 0
      /\ \A i \in 1 .. n - 1 + 1 : SubSeq(s, 1, n)[i] = s[1 + i - 1]
  BY SubSeqProperties
<1>2. n - 1 + 1 = n /\ \A i \in 1 .. n : 1 + i - 1 = i
  OBVIOUS
<1>3. QED
  BY <1>1, <1>2

\* A prefix of a key, and the digits shown of it.
LEMMA ShownPrefixes ==
  ASSUME NEW q \in Seq(Nat), NEW k \in Seq(Nat), NEW n \in Nat, IsPrefix(q, k)
  PROVE  /\ IsPrefix(q, q)
         /\ Len(q) < n /\ n <= Len(k) =>
              IsPrefix(q, SubSeq(k, 1, n)) /\ IsPrefix(SubSeq(k, 1, n), k)
<1> DEFINE m == Len(q)
<1>1. m \in Nat /\ Len(k) \in Nat /\ m <= Len(k)
  BY LenProperties DEF IsPrefix
<1>2. SubSeq(q, 1, m) = q /\ SubSeq(k, 1, m) = q
  BY SubSeqFull DEF IsPrefix
<1>3. IsPrefix(q, q)
  BY <1>1 DEF IsPrefix
<1>4. ASSUME m < n, n <= Len(k)
      PROVE  IsPrefix(q, SubSeq(k, 1, n)) /\ IsPrefix(SubSeq(k, 1, n), k)
  <2> DEFINE t == SubSeq(k, 1, n)
             u == SubSeq(t, 1, m)
             w == SubSeq(k, 1, m)
  <2> HIDE DEF m
  <2>1. (\A i \in 1 .. n : k[i] \in Nat) /\ (\A i \in 1 .. m : i \in 1 .. n)
    BY <1>1, <1>4, ElementOfSeq
  <2>2. t \in Seq(Nat) /\ Len(t) = n /\ \A i \in 1 .. n : t[i] = k[i]
    BY <2>1, FirstDigits
  <2> HIDE DEF t
  <2>3. \A i \in 1 .. m : t[i] \in Nat /\ k[i] \in Nat /\ t[i] = k[i]
    BY <2>1, <2>2
  <2>4. u \in Seq(Nat) /\ Len(u) = m /\ \A i \in 1 .. m : u[i] = t[i]
    BY <1>1, <2>3, FirstDigits
  <2>5. w \in Seq(Nat) /\ Len(w) = m /\ \A i \in 1 .. m : w[i] = k[i]
    BY <1>1, <2>3, FirstDigits
  <2> HIDE DEF u, w
  <2>6. u = w
    <3>1. Len(u) = Len(w) /\ \A i \in 1 .. Len(u) : u[i] = w[i]
      BY <2>3, <2>4, <2>5
    <3>2. QED
      BY <2>4, <2>5, <3>1, SeqEqual
  <2>7. IsPrefix(q, t)
    <3>1. Len(q) <= Len(t)
      BY <1>1, <1>4, <2>2 DEF m
    <3>2. SubSeq(q, 1, Len(q)) = q /\ SubSeq(t, 1, Len(q)) = q
      BY <1>2, <2>6 DEF m, u, w
    <3>3. QED
      BY <3>1, <3>2 DEF IsPrefix
  <2>8. SubSeq(t, 1, Len(t)) = t
    BY <2>2, SubSeqFull
  <2>9. IsPrefix(t, k)
    BY <1>4, <2>2, <2>8 DEF IsPrefix, t
  <2>10. QED
    BY <2>7, <2>9 DEF t
<1>5. QED
  BY <1>3, <1>4

\* What a lookup finds.
LEMMA FoundNodes ==
  ASSUME NodesAreTrue(Nodes), NEW q
  PROVE  LET matches == FindNodesByPublicKeyPrefix(q, "REPEATER")
             matching == {k \in Repeaters : IsPrefix(q, k)}
         IN /\ matches \in SUBSET OfType(Nodes, "REPEATER")
            /\ IsFiniteSet(matching) /\ Cardinality(matches) = Cardinality(matching)
            /\ \A n \in matches : n.key \in matching
            /\ \A k \in matching : \E n \in matches : n.key = k
<1> DEFINE rows == OfType(Nodes, "REPEATER")
           matches == FindNodesByPublicKeyPrefix(q, "REPEATER")
           matching == {k \in Repeaters : IsPrefix(q, k)}
<1>1. matches = {n \in rows : IsPrefix(q, n.key)}
  BY DEF FindNodesByPublicKeyPrefix
<1>2. \A n \in rows : n.key \in Repeaters
  BY RepeaterRows
<1> HIDE DEF matches, rows
<1>3. matches \in SUBSET rows /\ matching \in SUBSET Repeaters
  BY <1>1
<1>4. \A n \in rows : n \in matches <=> n.key \in matching
  BY <1>1, <1>2
<1> HIDE DEF matching
<1>5. /\ IsFiniteSet(matching) /\ Cardinality(matches) = Cardinality(matching)
      /\ \A k \in matching : \E n \in matches : n.key = k
  BY <1>3, <1>4, CountedRows DEF rows
<1>6. QED
  BY <1>3, <1>4, <1>5 DEF rows, matches, matching

LEMMA LookupsAreTrue ==
  ASSUME NodesAreTrue(Nodes)
  PROVE  LookupIsTrue
<1> SUFFICES ASSUME NEW q \in Queries, NEW answer \in Lookup(q)
             PROVE  LET matching == {k \in Repeaters : IsPrefix(q, k)}
                        status == answer.result.status
                        node == answer.result.node
                    IN /\ status = IF ~IsQuery(q) THEN "invalid"
                                   ELSE IF matching = {} THEN "not_found"
                                   ELSE IF Cardinality(matching) = 1 THEN "found" ELSE "ambiguous"
                       /\ status = "not_found" => answer.repeaterCount = Cardinality(Repeaters)
                       /\ status = "ambiguous" => answer.result.matchCount = Cardinality(matching)
                       /\ status \in {"found", "ambiguous"} =>
                            /\ node.key \in matching /\ node.name = Latest(node.key).name
                            /\ \A k \in matching : Latest(k).at <= Latest(node.key).at
                            /\ IsPrefix(q, answer.nodePrefix) /\ IsPrefix(answer.nodePrefix, node.key)
  BY DEF LookupIsTrue
<1> DEFINE matching == {k \in Repeaters : IsPrefix(q, k)}
           matches == FindNodesByPublicKeyPrefix(q, "REPEATER")
           results == IF q = <<>> THEN {Result("invalid", Null, Null)} ELSE FindByPrefix(q, "REPEATER")
<1>1. q \in Seq(Nat) /\ q # Null /\ MinQuery \in Nat \ {0} /\ MaxQuery \in Nat
      /\ ShownDigits \in MinQuery .. MaxQuery
  BY RegistryAssumption
<1>2. PICK r \in results :
        answer = [result |-> r,
                  nodePrefix |-> IF r.status = "found" /\ Len(q) < ShownDigits
                                 THEN SubSeq(r.node.key, 1, ShownDigits) ELSE q,
                  repeaterCount |-> IF r.status = "not_found" THEN CountNodesByType("REPEATER") ELSE Null]
  BY DEF Lookup
<1>3. /\ answer.result = r
      /\ answer.nodePrefix = IF r.status = "found" /\ Len(q) < ShownDigits
                             THEN SubSeq(r.node.key, 1, ShownDigits) ELSE q
      /\ r.status = "not_found" => answer.repeaterCount = CountNodesByType("REPEATER")
  BY <1>2
<1>4. /\ matches \in SUBSET OfType(Nodes, "REPEATER")
      /\ IsFiniteSet(matching) /\ Cardinality(matches) = Cardinality(matching)
      /\ \A n \in matches : n.key \in matching
      /\ \A k \in matching : \E n \in matches : n.key = k
  BY FoundNodes
<1> HIDE DEF matching, matches
<1>5. CountNodesByType("REPEATER") = Cardinality(Repeaters)
  <2>1. \A n \in OfType(Nodes, "REPEATER") : n.key \in Repeaters
    BY RepeaterRows
  <2>2. QED
    BY <2>1, CountedRows DEF CountNodesByType
<1>6. CASE ~IsQuery(q)
  <2>1. NormalizeQuery(q) = Null
    BY <1>6 DEF NormalizeQuery
  <2>2. results = {Result("invalid", Null, Null)}
    BY <2>1 DEF FindByPrefix
  <2>3. r.status = "invalid"
    BY <2>2 DEF Result
  <2>4. QED
    BY <1>3, <1>6, <2>3
<1>7. CASE IsQuery(q)
  <2>1. NormalizeQuery(q) # Null /\ q # <<>>
    BY <1>1, <1>7 DEF NormalizeQuery, IsQuery
  <2>2. results = FindByPrefix(q, "REPEATER")
    BY <2>1
  <2>3. CASE matching = {}
    <3>1. matches = {}
      BY <1>4, <2>3
    <3>2. r = Result("not_found", Null, Null)
      BY <2>1, <2>2, <3>1 DEF FindByPrefix, matches
    <3>3. r.status = "not_found"
      BY <3>2 DEF Result
    <3>4. QED
      BY <1>3, <1>5, <1>7, <2>3, <3>3 DEF matching
  <2>4. CASE matching # {}
    <3>1. matches # {}
      BY <1>4, <2>4
    <3>2. ASSUME NEW n \in matches, \A m \in matches : m.last <= n.last
          PROVE  /\ n.key \in matching /\ n.name = Latest(n.key).name
                 /\ \A k \in matching : Latest(k).at <= Latest(n.key).at
      <4>1. /\ n.key \in matching /\ n.name = Latest(n.key).name /\ n.last = Latest(n.key).at
        BY <1>4, <3>2, RepeaterRows
      <4>2. \A k \in matching : \E m \in matches : m.last = Latest(k).at
        BY <1>4, RepeaterRows
      <4>3. QED
        BY <3>2, <4>1, <4>2
    <3>3. ASSUME NEW n \in matches
          PROVE  /\ IsPrefix(q, q) /\ IsPrefix(q, n.key)
                 /\ Len(q) < ShownDigits =>
                      /\ IsPrefix(q, SubSeq(n.key, 1, ShownDigits))
                      /\ IsPrefix(SubSeq(n.key, 1, ShownDigits), n.key)
      <4>1. n.key \in Keys /\ IsPrefix(q, n.key)
        BY <1>4, <3>3 DEF matching, Repeaters
      <4>2. n.key \in Seq(Nat) /\ Len(n.key) = MaxQuery /\ ShownDigits \in Nat /\ ShownDigits <= MaxQuery
        BY <1>1, <4>1, RegistryAssumption
      <4>3. QED
        BY <1>1, <4>1, <4>2, ShownPrefixes
    <3>4. CASE Cardinality(matching) = 1
      <4>1. PICK n \in matches : r = Result("found", Null, n)
        BY <1>4, <2>1, <2>2, <3>1, <3>4 DEF FindByPrefix, matches
      <4>2. r.status = "found" /\ r.node = n
        BY <4>1 DEF Result
      <4>3. PICK k \in matching : matching = {k}
        BY <1>4, <3>4, FS_Singleton
      <4>4. \A m \in matches : m.key = n.key
        BY <1>4, <4>3
      <4>5. \A m \in matches : m = n
        BY <1>4, <4>4, RepeaterRows
      <4>6. n.last \in Nat
        BY <1>4, RepeaterRows DEF NodeRows
      <4>7. \A m \in matches : m.last <= n.last
        BY <4>5, <4>6
      <4>8. QED
        BY <1>3, <1>7, <2>4, <3>2, <3>3, <3>4, <4>2, <4>7 DEF matching
    <3>5. CASE Cardinality(matching) # 1
      <4>1. PICK n \in MostRecent(matches) : r = Result("ambiguous", Cardinality(matches), n)
        BY <1>4, <2>1, <2>2, <3>1, <3>5 DEF FindByPrefix, matches
      <4>2. r.status = "ambiguous" /\ r.node = n /\ r.matchCount = Cardinality(matching)
        BY <1>4, <4>1 DEF Result
      <4>3. n \in matches /\ \A m \in matches : m.last <= n.last
        BY DEF MostRecent
      <4>4. QED
        BY <1>3, <1>7, <2>4, <3>2, <3>3, <3>5, <4>2, <4>3 DEF matching
    <3>6. QED
      BY <3>4, <3>5
  <2>5. QED
    BY <2>3, <2>4
<1>8. QED
  BY <1>6, <1>7

\* A page of a list with c rows.
IsPage(nodes, list, c, limit, offset) ==
  /\ Len(nodes) \in Nat /\ Len(nodes) = IF c <= offset THEN 0 ELSE Min({limit, c - offset})
  /\ DOMAIN nodes = 1 .. Len(nodes)
  /\ \A i \in DOMAIN nodes : offset + i \in 1 .. c /\ nodes[i] = list[offset + i]

LEMMA PageOfList ==
  ASSUME NEW rows, NEW c \in Nat, NEW list \in [1 .. c -> rows],
         NEW limit \in Nat \ {0}, NEW offset \in Nat
  PROVE  IsPage(SubSeq(list, offset + 1, Min({offset + limit, Len(list)})), list, c, limit, offset)
<1> DEFINE m == IF offset + limit <= c THEN offset + limit ELSE c
           nodes == SubSeq(list, offset + 1, m)
<1>1. Len(list) = c
  <2>1. list \in Seq(rows)
    BY SeqDef
  <2>2. QED
    BY <2>1, LenProperties
<1>2. m \in {offset + limit, c} /\ m \in Int /\ m <= c /\ m <= offset + limit
      /\ offset + limit \in Int /\ c \in Int
  OBVIOUS
<1>3. Min({offset + limit, Len(list)}) = m
  <2>1. {offset + limit, c} \in SUBSET Int /\ \A i \in {offset + limit, c} : m <= i
    BY <1>2
  <2>2. QED
    BY <1>1, <1>2, <2>1, MinIs
<1>4. CASE c <= offset
  <2>1. offset + 1 \in Int /\ m < offset + 1
    BY <1>2, <1>4
  <2>2. nodes = <<>>
    BY <1>2, <2>1, SubSeqEmpty
  <2>3. Len(nodes) = 0 /\ DOMAIN nodes = {} /\ 1 .. 0 = {}
    BY <2>2
  <2> HIDE DEF nodes, m
  <2>4. IsPage(nodes, list, c, limit, offset)
    BY <1>4, <2>3 DEF IsPage
  <2>5. QED
    BY <1>3, <2>4 DEF nodes
<1>5. CASE c > offset
  <2> DEFINE l == IF limit <= c - offset THEN limit ELSE c - offset
  <2>1. /\ offset + 1 \in Int /\ offset + 1 <= m /\ m - (offset + 1) + 1 = l /\ l \in Nat
    BY <1>2, <1>5
  <2>2. Min({limit, c - offset}) = l
    <3>1. l \in {limit, c - offset} /\ {limit, c - offset} \in SUBSET Int
          /\ \A i \in {limit, c - offset} : l <= i
      BY <1>5
    <3>2. QED
      BY <3>1, MinIs
  <2>3. \A i \in offset + 1 .. m : i \in 1 .. c /\ list[i] \in rows
    BY <1>2
  <2>4. /\ nodes \in Seq(rows) /\ Len(nodes) = IF offset + 1 <= m THEN m - (offset + 1) + 1 ELSE 0
        /\ \A i \in 1 .. m - (offset + 1) + 1 : nodes[i] = list[offset + 1 + i - 1]
    BY <1>2, <2>1, <2>3, SubSeqProperties
  <2> HIDE DEF nodes
  <2>5. Len(nodes) = l /\ DOMAIN nodes = 1 .. l
    BY <2>1, <2>4, LenProperties
  <2>6. \A i \in 1 .. l : offset + 1 + i - 1 = offset + i /\ offset + i \in 1 .. c
    BY <1>2, <2>1
  <2>7. \A i \in 1 .. l : nodes[i] = list[offset + i]
    BY <2>1, <2>4, <2>6
  <2>8. l \in Nat /\ ~ (c <= offset)
    BY <1>5, <2>1
  <2> HIDE DEF l, m
  <2>9. IsPage(nodes, list, c, limit, offset)
    BY <2>2, <2>5, <2>6, <2>7, <2>8 DEF IsPage
  <2>10. QED
    BY <1>3, <2>9 DEF nodes
<1>6. c <= offset \/ c > offset
  OBVIOUS
<1> HIDE DEF nodes, m
<1>7. QED
  BY <1>4, <1>5, <1>6

\* Of the keys in a sorted list fewer than i are later than its i-th row.
LEMMA FewerAreLater ==
  ASSUME NEW rows, NEW c \in Nat, NEW list \in [1 .. c -> rows],
         \A n \in rows : n.last \in Nat,
         \A i, j \in 1 .. c : i < j => list[i].last >= list[j].last,
         NEW Later, NEW p \in 1 .. c,
         \A k \in Later : \E j \in 1 .. c : list[j].key = k /\ list[j].last > list[p].last
  PROVE  Cardinality(Later) < p
<1> DEFINE f == [k \in Later |-> CHOOSE j \in 1 .. c : list[j].key = k /\ list[j].last > list[p].last]
<1>1. \A k \in Later : f[k] \in 1 .. c /\ list[f[k]].key = k /\ list[f[k]].last > list[p].last
  OBVIOUS
<1>2. f \in [Later -> 1 .. c]
  BY <1>1
<1> HIDE DEF f
<1>3. \A j \in 1 .. c : list[j].last \in Nat
  OBVIOUS
<1>4. \A k \in Later : f[k] \in 1 .. p - 1
  <2> SUFFICES ASSUME NEW k \in Later PROVE f[k] \in 1 .. p - 1
    OBVIOUS
  <2>1. f[k] \in 1 .. c /\ list[f[k]].last > list[p].last
    BY <1>1
  <2>2. f[k] # p /\ ~ (p < f[k])
    BY <1>3, <2>1
  <2>3. QED
    BY <2>1, <2>2
<1>5. f \in Injection(Later, 1 .. p - 1)
  BY <1>1, <1>2, <1>4 DEF Injection, IsInjective
<1>6. IsFiniteSet(1 .. p - 1) /\ Cardinality(1 .. p - 1) = p - 1
  BY FS_Interval
<1>7. IsFiniteSet(Later) /\ Cardinality(Later) <= p - 1
  BY <1>5, <1>6, FS_Injection
<1>8. Cardinality(Later) \in Nat
  BY <1>7, FS_CardinalityType
<1>9. QED
  BY <1>7, <1>8

LEMMA ListsAreTrue ==
  ASSUME NodesAreTrue(Nodes)
  PROVE  ListIsTrue
<1> SUFFICES ASSUME NEW search \in Searches, NEW asked \in Pages,
                    NEW page \in QueryNodes(search, "REPEATER", asked.limit, asked.offset)
             PROVE  LET matching == {k \in Repeaters : Finds(search, Latest(k).name, k)}
                        Later(at) == {k \in matching : Latest(k).at > at}
                    IN /\ page.total = Cardinality(matching)
                       /\ Len(page.nodes) = IF page.total <= asked.offset THEN 0
                                            ELSE Min({asked.limit, page.total - asked.offset})
                       /\ \A i, j \in DOMAIN page.nodes : i < j =>
                            page.nodes[i].last >= page.nodes[j].last /\ page.nodes[i].key # page.nodes[j].key
                       /\ \A i \in DOMAIN page.nodes :
                            LET n == page.nodes[i]
                            IN /\ n.key \in matching /\ n.name = Latest(n.key).name
                               /\ Cardinality(Later(n.last)) < asked.offset + i
  BY DEF ListIsTrue
<1> DEFINE matching == {k \in Repeaters : Finds(search, Latest(k).name, k)}
           rows == {n \in OfType(Nodes, "REPEATER") : Finds(search, n.name, n.key)}
           c == Cardinality(rows)
<1>1. asked.limit \in Nat \ {0} /\ asked.offset \in Nat
  BY RegistryAssumption
<1>2. PICK list \in SetToSeqs(rows) :
        /\ \A i, j \in DOMAIN list : i < j => list[i].last >= list[j].last
        /\ page = [total |-> c,
                   nodes |-> SubSeq(list, asked.offset + 1, Min({asked.offset + asked.limit, Len(list)}))]
  BY DEF QueryNodes
<1>3. /\ page.total = c
      /\ page.nodes = SubSeq(list, asked.offset + 1, Min({asked.offset + asked.limit, Len(list)}))
  BY <1>2
<1>4. /\ IsFiniteSet(rows) /\ IsFiniteSet(matching) /\ c = Cardinality(matching)
      /\ \A k \in matching : \E n \in rows : n.key = k
  <2>1. \A n \in OfType(Nodes, "REPEATER") : n \in rows <=> n.key \in matching
    BY RepeaterRows
  <2>2. rows \in SUBSET OfType(Nodes, "REPEATER") /\ matching \in SUBSET Repeaters
    OBVIOUS
  <2> HIDE DEF rows, matching
  <2>3. QED
    BY <2>1, <2>2, CountedRows
<1>5. \A n \in rows : /\ n.key \in matching /\ n.name = Latest(n.key).name
                       /\ n.last = Latest(n.key).at /\ n.last \in Nat
  BY RepeaterRows DEF NodeRows
<1>6. \A m, n \in rows : m.key = n.key => m = n
  BY RepeaterRows
<1> HIDE DEF rows
<1>7. list \in [1 .. c -> rows] /\ \A i, j \in 1 .. c : i # j => list[i] # list[j]
  BY <1>2 DEF SetToSeqs
<1>8. c \in Nat
  BY <1>4, FS_CardinalityType
<1> HIDE DEF c, matching
<1>9. \A n \in rows : \E j \in 1 .. c : list[j] = n
  <2>1. list \in Injection(1 .. c, rows)
    BY <1>7 DEF Injection, IsInjective
  <2>2. IsFiniteSet(1 .. c) /\ Cardinality(1 .. c) = c
    BY <1>8, FS_Interval
  <2>3. list \in Surjection(1 .. c, rows)
    BY <1>4, <2>1, <2>2, FS_Injection DEF c
  <2>4. QED
    BY <2>3 DEF Surjection
<1>10. /\ Len(page.nodes) = IF c <= asked.offset THEN 0 ELSE Min({asked.limit, c - asked.offset})
       /\ DOMAIN page.nodes = 1 .. Len(page.nodes) /\ Len(page.nodes) \in Nat
       /\ \A i \in DOMAIN page.nodes : asked.offset + i \in 1 .. c /\ page.nodes[i] = list[asked.offset + i]
  <2>1. IsPage(page.nodes, list, c, asked.limit, asked.offset)
    BY <1>1, <1>3, <1>7, <1>8, PageOfList
  <2>2. QED
    BY <2>1 DEF IsPage
<1>11. \A i, j \in 1 .. c : i < j => list[i].last >= list[j].last
  BY <1>2, <1>7
<1>13. ASSUME NEW i \in DOMAIN page.nodes, NEW j \in DOMAIN page.nodes, i < j
       PROVE  page.nodes[i].last >= page.nodes[j].last /\ page.nodes[i].key # page.nodes[j].key
  <2>1. /\ asked.offset + i \in 1 .. c /\ asked.offset + j \in 1 .. c
        /\ asked.offset + i < asked.offset + j
        /\ page.nodes[i] = list[asked.offset + i] /\ page.nodes[j] = list[asked.offset + j]
    <3>1. i \in Nat /\ j \in Nat
      BY <1>10
    <3>2. asked.offset + i < asked.offset + j
      BY <1>1, <1>13, <3>1
    <3>3. QED
      BY <1>10, <3>2
  <2>2. list[asked.offset + i] # list[asked.offset + j]
    BY <1>7, <2>1
  <2>3. list[asked.offset + i] \in rows /\ list[asked.offset + j] \in rows
    BY <1>7, <2>1
  <2>4. QED
    BY <1>6, <1>11, <2>1, <2>2, <2>3
<1>14. ASSUME NEW i \in DOMAIN page.nodes
       PROVE  /\ page.nodes[i].key \in matching /\ page.nodes[i].name = Latest(page.nodes[i].key).name
              /\ Cardinality({k \in matching : Latest(k).at > page.nodes[i].last}) < asked.offset + i
  <2> DEFINE p == asked.offset + i
             Later == {k \in matching : Latest(k).at > page.nodes[i].last}
  <2>1. p \in 1 .. c /\ page.nodes[i] = list[p] /\ list[p] \in rows
    BY <1>7, <1>10
  <2>2. ASSUME NEW k \in Later
        PROVE  \E j \in 1 .. c : list[j].key = k /\ list[j].last > list[p].last
    <3>1. PICK n \in rows : n.key = k
      BY <1>4
    <3>2. n.last > list[p].last
      BY <1>5, <2>1, <3>1
    <3>3. QED
      BY <1>9, <3>1, <3>2
  <2> HIDE DEF p, Later
  <2>3. \A n \in rows : n.last \in Nat
    BY <1>5
  <2>4. Cardinality(Later) < p
    BY <1>7, <1>8, <1>11, <2>1, <2>2, <2>3, FewerAreLater
  <2>5. QED
    BY <1>5, <2>1, <2>4 DEF p, Later
<1>15. QED
  BY <1>3, <1>4, <1>10, <1>13, <1>14 DEF matching

\* A lookup and the list of the dashboard answer from what was heard last of
\* each node, for any keys, queries, searches and pages.
THEOREM ReadsAgreeWithHistory == Spec => []ReadsMatchHistory
<1>1. ASSUME StoreInv, RegistryInv, opener = "open"
      PROVE  LookupIsTrue /\ ListIsTrue
  BY <1>1, NodesInOpenStore, LookupsAreTrue, ListsAreTrue
<1>2. StoreInv /\ RegistryInv => ReadsMatchHistory
  BY <1>1 DEF ReadsMatchHistory
<1>3. QED
  BY <1>2, StoreInvHolds, RegistryInvHolds, PTL
=============================================================================
