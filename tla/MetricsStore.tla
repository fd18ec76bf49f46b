---------------------------- MODULE MetricsStore ----------------------------
(***************************************************************************)
(* The SQLite file of the observer from release to release: the migrations *)
(* a starting process runs, statement by statement, on a database that an  *)
(* earlier release left behind, and the life of the replies in it.         *)
(*                                                                         *)
(* A table is a set of rows, a row a record of the columns that decide     *)
(* what becomes of a reply; a reply is known by its times, which every     *)
(* table keeps.  Samples, indexes and the texts of replies are left out,   *)
(* and so is the row of flood_advert_state (FloodAdvertScheduler).         *)
(***************************************************************************)
EXTENDS Integers, Sequences, FiniteSets, Functions

CONSTANTS
  Replies, Null,
  MaxFaults      \* bound on processes that die

\* NULL is no text.
ASSUME StoreAssumption == Null \notin {"", "1h", "ab", "found"}

VARIABLES
  disk,        \* what is committed: user_version and the tables
  work,        \* the tables as the running transaction sees them
  opener,      \* the process: "none", "between" migrations, "inside" one, "open"
  migration,   \* #runMigrations' loop variable
  todo,        \* the statements of it that are left
  faults,
  kindOf,      \* the kind of the command each reply answers, as configured
  life         \* history: what became of each reply

openVars == <<work, opener, migration, todo, faults, kindOf>>
storeVars == <<disk, openVars, life>>

Kinds == {"exact", "stats", "lookup"}

Resolved == {"sent", "failed", "expired", "cancelled"}

-----------------------------------------------------------------------------
(* The migrations.                                                          *)

Create(t) == [op |-> "create", to |-> t]
Copy(t, u) == [op |-> "copy", from |-> t, to |-> u]
AddColumns(t) == [op |-> "columns", to |-> t]
Drop(t) == [op |-> "drop", from |-> t]
Rename(t, u) == [op |-> "rename", from |-> t, to |-> u]

Migrations == <<
  <<Create("command_events")>>,
  <<Create("reply_events"), Copy("command_events", "reply_events"), Drop("command_events")>>,
  <<Create("nodes")>>,
  <<Create("queue_items")>>,
  <<Create("bot_replies"), Copy("queue_items", "bot_replies"), Copy("reply_events", "bot_replies"),
    Drop("queue_items"), Drop("reply_events")>>,
  <<AddColumns("bot_replies")>>,
  <<Create("flood_advert_state")>>,
  <<Create("bot_replies_new"), Copy("bot_replies", "bot_replies_new"),
    Drop("bot_replies"), Rename("bot_replies_new", "bot_replies")>> >>

\* Mutation of HandlerState: a query alone makes it a stats command.
QueryFirst(row) ==
  IF row.query # Null THEN [kind |-> "stats", query |-> row.query]
  ELSE IF row.lookup # Null THEN [kind |-> "lookup", query |-> "", outcome |-> row.lookup]
  ELSE [kind |-> "exact"]

\* The CASE of migration 8; COALESCE makes a missing query an empty one.
HandlerState(row) ==
  IF row.lookup # Null
  THEN [kind |-> "lookup", query |-> IF row.query = Null THEN "" ELSE row.query,
        outcome |-> row.lookup, heard |-> row.heard]
  ELSE IF row.query # Null THEN [kind |-> "stats", query |-> row.query]
  ELSE [kind |-> "exact"]

\* Mutation of Converted: the events that have an outcome are all "sent".
SentAnyway(from, row) ==
  CASE from = "command_events" -> [of |-> row.of, status |-> "sent"]
    [] from = "reply_events" -> [of |-> row.of, status |-> "sent", query |-> Null, lookup |-> Null]
    [] from = "queue_items" -> [of |-> row.of, status |-> "pending", query |-> row.query, lookup |-> row.lookup]
    [] from = "bot_replies" -> [of |-> row.of, status |-> row.status, state |-> HandlerState(row)]

\* What an INSERT ... SELECT makes of a row.
Converted(from, row) ==
  CASE from = "command_events" -> [of |-> row.of, status |-> "sent"]
    [] from = "reply_events" -> [of |-> row.of, status |-> row.status, query |-> Null, lookup |-> Null]
    [] from = "queue_items" -> [of |-> row.of, status |-> "pending", query |-> row.query, lookup |-> row.lookup]
    [] from = "bot_replies" -> [of |-> row.of, status |-> row.status, state |-> HandlerState(row)]

\* SQLite refuses to create a table twice and to read one that is missing.
Fits(t, s) ==
  /\ s.op \in {"create", "rename"} => s.to \notin DOMAIN t
  /\ s.op \in {"copy", "columns"} => s.to \in DOMAIN t
  /\ s.op \in {"copy", "drop", "rename"} => s.from \in DOMAIN t

With(t, name, rows) == [u \in DOMAIN t \cup {name} |-> IF u = name THEN rows ELSE t[u]]

Without(t, name) == Restrict(t, DOMAIN t \ {name})

\* ALTER TABLE ... ADD COLUMN: the new columns of an old row are NULL.
Widened(row) ==
  [of |-> row.of, status |-> row.status, query |-> row.query, lookup |-> row.lookup, heard |-> Null]

Exec(t, s) ==
  CASE s.op = "create" -> With(t, s.to, {})
    [] s.op = "copy" -> [t EXCEPT ![s.to] = @ \cup {Converted(s.from, row) : row \in t[s.from]}]
    [] s.op = "columns" -> [t EXCEPT ![s.to] = {Widened(row) : row \in @}]
    [] s.op = "drop" -> Without(t, s.from)
    [] s.op = "rename" -> With(Without(t, s.from), s.to, t[s.from])

-----------------------------------------------------------------------------
(* The databases earlier releases left behind.                              *)

\* The first version that has a table, and the first that does not any more.
Lifetime ==
  [command_events |-> <<1, 2>>, reply_events |-> <<2, 5>>, queue_items |-> <<4, 5>>,
   nodes |-> <<3, 9>>, bot_replies |-> <<5, 9>>, flood_advert_state |-> <<7, 9>>]

TablesOf(v) == {t \in DOMAIN Lifetime : Lifetime[t][1] <= v /\ v < Lifetime[t][2]}

\* What a release of version v can have recorded of a reply: first only
\* successes, then every outcome, then also the replies that wait.
Recorded(v) ==
  {"none"} \cup (IF v >= 1 THEN {"sent"} ELSE {}) \cup (IF v >= 2 THEN Resolved ELSE {})
           \cup (IF v >= 4 THEN {"pending"} ELSE {})

\* The columns query and lookup_outcome of a reply to a command of some kind.
Columns(kind) ==
  CASE kind = "exact" -> {[query |-> Null, lookup |-> Null]}
    [] kind = "stats" -> [query : {"", "1h"}, lookup : {Null}]
    [] kind = "lookup" -> [query : {Null, "ab"}, lookup : {"found"}]

Row(r, status, columns, v) ==
  LET old == [of |-> r, status |-> status, query |-> columns.query, lookup |-> columns.lookup]
  IN IF v < 6 THEN old
     ELSE IF v < 8 THEN Widened(old)
     ELSE Converted("bot_replies", Widened(old))

OldTables(v, became, columns, nodes) ==
  [t \in TablesOf(v) |->
     CASE t = "command_events" -> {[of |-> r] : r \in {x \in Replies : became[x] = "sent"}}
       [] t = "reply_events" -> {[of |-> r, status |-> became[r]] : r \in {x \in Replies : became[x] \in Resolved}}
       [] t = "queue_items" -> {[of |-> r, query |-> columns[r].query, lookup |-> columns[r].lookup] :
                                    r \in {x \in Replies : became[x] = "pending"}}
       [] t = "bot_replies" -> {Row(r, became[r], columns[r], v) : r \in {x \in Replies : became[x] # "none"}}
       [] t = "nodes" -> nodes
       [] t = "flood_advert_state" -> {}]

StoreInit(nodes) ==
  /\ \E v \in 0 .. Len(Migrations), became \in [Replies -> Recorded(Len(Migrations))],
        kind \in [Replies -> Kinds], columns \in [Replies -> UNION {Columns(k) : k \in Kinds}] :
       /\ \A r \in Replies : became[r] \in Recorded(v) /\ columns[r] \in Columns(kind[r])
       /\ life = became /\ kindOf = kind
       /\ disk = [version |-> v, tables |-> OldTables(v, became, columns, nodes)]
  /\ work = <<>> /\ opener = "none" /\ migration = 0 /\ todo = <<>> /\ faults = 0

-----------------------------------------------------------------------------
(* Opening the store.                                                       *)

\* main() constructs the store, and #runMigrations reads user_version.
Open ==
  /\ opener = "none"
  /\ opener' = "between" /\ migration' = disk.version + 1
  /\ UNCHANGED <<disk, work, todo, faults, kindOf, life>>

Begin ==
  /\ opener = "between" /\ migration <= Len(Migrations)
  /\ opener' = "inside" /\ work' = disk.tables /\ todo' = Migrations[migration]
  /\ UNCHANGED <<disk, migration, faults, kindOf, life>>

\* Mutation of Durable: no BEGIN, so every statement commits.
AutoCommit(t) == [disk EXCEPT !.tables = t]

Durable(t) == disk

Statement ==
  /\ opener = "inside" /\ todo # <<>> /\ Fits(work, Head(todo))
  /\ work' = Exec(work, Head(todo)) /\ todo' = Tail(todo)
  /\ disk' = Durable(work')
  /\ UNCHANGED <<opener, migration, faults, kindOf, life>>

\* PRAGMA user_version, with the COMMIT it belongs to.
Stamped == migration

Commit ==
  /\ opener = "inside" /\ todo = <<>>
  /\ disk' = [version |-> Stamped, tables |-> work]
  /\ opener' = "between" /\ migration' = migration + 1
  /\ work' = <<>>
  /\ UNCHANGED <<todo, faults, kindOf, life>>

Opened ==
  /\ opener = "between" /\ migration > Len(Migrations)
  /\ opener' = "open"
  /\ UNCHANGED <<disk, work, migration, todo, faults, kindOf, life>>

\* A statement fails, the transaction is rolled back and main() gives up; or
\* the process dies, and SQLite rolls back when the file is opened again; or
\* the observer is stopped.
Ends ==
  /\ opener # "none" /\ faults < MaxFaults
  /\ faults' = faults + 1 /\ opener' = "none"
  /\ work' = <<>> /\ todo' = <<>>
  /\ UNCHANGED <<disk, migration, kindOf, life>>

\* The replies of this release (ReplyQueue models when they wait and go out).
Put(t, rows) == [disk EXCEPT !.tables[t] = rows]

\* serialize() of the handler that matched.
Serialized(kind) ==
  IF kind = "exact" THEN [kind |-> "exact"] ELSE [kind |-> kind, query |-> "ab"]

EnqueueReplyItem(r) ==
  /\ opener = "open" /\ life[r] = "none"
  /\ life' = [life EXCEPT ![r] = "pending"]
  /\ disk' = Put("bot_replies", disk.tables["bot_replies"] \cup
                {[of |-> r, status |-> "pending", state |-> Serialized(kindOf[r])]})
  /\ UNCHANGED openVars

ResolveReplyItem(r, outcome) ==
  /\ opener = "open" /\ life[r] = "pending"
  /\ life' = [life EXCEPT ![r] = outcome]
  /\ disk' = Put("bot_replies", {IF row.of = r THEN [row EXCEPT !.status = outcome] ELSE row :
                                   row \in disk.tables["bot_replies"]})
  /\ UNCHANGED openVars

StoreNext ==
  \/ Open \/ Begin \/ Statement \/ Commit \/ Opened \/ Ends
  \/ \E r \in Replies : EnqueueReplyItem(r)
       \/ \E outcome \in {"sent", "failed", "expired"} : ResolveReplyItem(r, outcome)

\* The restore() of each command handler: does it accept a persisted state?
Restores(kind, state) ==
  /\ state.kind = kind
  /\ kind # "exact" => state.query # Null
  /\ "outcome" \in DOMAIN state => state.outcome \in {"found", "not_found", "ambiguous", "invalid"}

-----------------------------------------------------------------------------
(* Properties.                                                              *)

Held(r) ==
  UNION {{<<t, row>> : row \in {x \in disk.tables[t] : x.of = r}} :
           t \in DOMAIN disk.tables \ {"nodes", "flood_advert_state"}}

StatusOf(t, row) ==
  CASE t = "command_events" -> "sent" [] t = "queue_items" -> "pending" [] OTHER -> row.status

\* Whatever release the database comes from and wherever the upgrade is cut
\* off: a reply that waits still waits, one that has its outcome keeps it, and
\* none is in the database twice.
RepliesSurviveUpgrade ==
  \A r \in Replies :
    IF life[r] = "none" THEN Held(r) = {}
    ELSE /\ Cardinality(Held(r)) = 1
         /\ \A h \in Held(r) : StatusOf(h[1], h[2]) = life[r]

\* No process finds a database its migrations cannot be applied to: each one
\* sees exactly the tables its predecessors left.
UpgradeNeverSticks ==
  /\ DOMAIN disk.tables = TablesOf(disk.version)
  /\ opener = "inside" /\ todo # <<>> => Fits(work, Head(todo))

\* Every reply that waits in an opened store is accepted by the handler of the
\* command it answers, whatever release had queued it: it can be sent.
PendingRepliesRestore ==
  opener = "open" =>
    \A row \in disk.tables["bot_replies"] :
      row.status = "pending" => Restores(kindOf[row.of], row.state)
=============================================================================
