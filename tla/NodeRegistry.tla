----------------------------- MODULE NodeRegistry -----------------------------
(***************************************************************************)
(* The registry of the nodes that advertised a name: what adverts put into *)
(* the table `nodes`, and what !lookup, !stats and the dashboard read from *)
(* it.  The table keeps two times per node; the history variable hearings  *)
(* keeps them all, and the properties compare the two.                     *)
(*                                                                         *)
(* A public key is a sequence of hex digits, a query one of characters,    *)
(* which may be digits: that the letters may be large or small matters     *)
(* neither to normalizeQuery nor to LIKE.                                  *)
(***************************************************************************)
EXTENDS MetricsStore, SequencesExt, FiniteSetsExt

CONSTANTS
  Keys, Names, Types,            \* "REPEATER" is one of the types
  Queries,                       \* what users ask for with !lookup
  Searches,                      \* what they type into the search box
  Pages,                         \* the pages they look at
  MinQuery, MaxQuery, ShownDigits,
  MaxTime, MaxAdverts            \* bounds

ASSUME RegistryAssumption ==
  /\ "REPEATER" \in Types /\ Names # {}
  /\ IsFiniteSet(Keys) /\ \A k \in Keys : k \in Seq(Nat) /\ Len(k) = MaxQuery
  /\ \A q \in Queries : q \in Seq(Nat) /\ q # Null
  /\ \A p \in Pages : p.limit \in Nat \ {0} /\ p.offset \in Nat
  /\ MinQuery \in Nat \ {0} /\ MaxQuery \in Nat /\ ShownDigits \in MinQuery .. MaxQuery

VARIABLES
  now,
  verifying,   \* adverts with a name whose isVerified() is awaited
  hearings     \* history: the adverts stored, in that order, with their times

registryVars == <<now, verifying, hearings>>
vars == <<storeVars, registryVars>>

Advert == [key : Keys, name : Names, type : Types]

Node(a, first, last) ==
  [key |-> a.key, name |-> a.name, type |-> a.type, first |-> first, last |-> last]

Hearing(a, at) == [key |-> a.key, name |-> a.name, type |-> a.type, at |-> at]

\* Nodes an earlier release has heard, each once.
Init ==
  \E old \in SUBSET {[key |-> k, name |-> CHOOSE n \in Names : TRUE, type |-> "REPEATER"] : k \in Keys} :
    /\ StoreInit({Node(a, 0, 0) : a \in old})
    /\ "nodes" \notin DOMAIN disk.tables => old = {}
    /\ now = 0 /\ verifying = {}
    /\ hearings = [i \in 1 .. Cardinality(old) |-> Hearing(SetToSeq(old)[i], 0)]

-----------------------------------------------------------------------------
Nodes == disk.tables["nodes"]

Of(rows, key) == {n \in rows : n.key = key}

\* first_heard_at as the table has it, or the time of this hearing.
FirstHeard(rows, key, at) ==
  IF Of(rows, key) = {} THEN at ELSE (CHOOSE n \in Of(rows, key) : TRUE).first

\* Mutation of Upsert: the old name and type stay.
KeepName(rows, a, at) ==
  IF Of(rows, a.key) = {} THEN rows \cup {Node(a, at, at)}
  ELSE {IF n.key = a.key THEN [n EXCEPT !.last = at] ELSE n : n \in rows}

\* INSERT ... ON CONFLICT DO UPDATE: first_heard_at is not among the columns.
Upsert(rows, a, at) ==
  (rows \ Of(rows, a.key)) \cup {Node(a, FirstHeard(rows, a.key, at), at)}

\* recordFromDecodedPacket up to its await; other packets never get there.
Receive(a) ==
  /\ opener = "open"
  /\ Len(hearings) + Cardinality(verifying) < MaxAdverts
  /\ verifying' = verifying \cup {a}
  /\ UNCHANGED <<storeVars, now, hearings>>

\* The signature is good and the row is written.
Verified(a) ==
  /\ opener = "open" /\ a \in verifying
  /\ verifying' = verifying \ {a}
  /\ disk' = Put("nodes", Upsert(Nodes, a, now))
  /\ hearings' = Append(hearings, Hearing(a, now))
  /\ UNCHANGED <<openVars, life, now>>

\* The signature is bad, or the row cannot be written: both are only logged.
Dropped(a) ==
  /\ opener = "open" /\ a \in verifying
  /\ verifying' = verifying \ {a}
  /\ UNCHANGED <<storeVars, now, hearings>>

\* Nothing looks at the clock while the store is not open.
Tick ==
  /\ opener = "open" /\ now < MaxTime /\ now' = now + 1
  /\ UNCHANGED <<storeVars, verifying, hearings>>

\* What is being verified is lost with its process.
StoreStep ==
  /\ StoreNext
  /\ verifying' = IF opener' = "none" THEN {} ELSE verifying
  /\ UNCHANGED <<now, hearings>>

Next ==
  \/ StoreStep \/ Tick
  \/ \E a \in Advert : Receive(a) \/ Verified(a) \/ Dropped(a)

Spec == Init /\ [][Next]_vars

-----------------------------------------------------------------------------
(* The queries.  An empty type asks for nodes of any type.                  *)

OfType(rows, type) == {n \in rows : type \in {"", n.type}}

HexDigits == 0 .. 15

\* HEX_PATTERN and the limits of the length.
IsQuery(q) == Len(q) \in MinQuery .. MaxQuery /\ \A i \in DOMAIN q : q[i] \in HexDigits

NormalizeQuery(q) == IF IsQuery(q) THEN q ELSE Null

FindNodesByPublicKeyPrefix(q, type) == {n \in OfType(Nodes, type) : IsPrefix(q, n.key)}

CountNodesByType(type) == Cardinality(OfType(Nodes, type))

\* ORDER BY last_heard_at DESC, which leaves the order of equals open.
MostRecent(rows) == {n \in rows : \A m \in rows : m.last <= n.last}

Result(status, count, node) == [status |-> status, matchCount |-> count, node |-> node]

\* The possible results.
FindByPrefix(q, type) ==
  LET matches == FindNodesByPublicKeyPrefix(q, type)
  IN IF NormalizeQuery(q) = Null THEN {Result("invalid", Null, Null)}
     ELSE IF matches = {} THEN {Result("not_found", Null, Null)}
     ELSE IF Cardinality(matches) = 1 THEN {Result("found", Null, n) : n \in matches}
     ELSE {Result("ambiguous", Cardinality(matches), n) : n \in MostRecent(matches)}

\* execute() of the lookup handler: a short query that found one node is
\* answered with more digits of its key.
Lookup(q) ==
  {[result |-> r,
    nodePrefix |-> IF r.status = "found" /\ Len(q) < ShownDigits
                   THEN SubSeq(r.node.key, 1, ShownDigits) ELSE q,
    repeaterCount |-> IF r.status = "not_found" THEN CountNodesByType("REPEATER") ELSE Null] :
     r \in IF q = <<>> THEN {Result("invalid", Null, Null)} ELSE FindByPrefix(q, "REPEATER")}

\* The list of the dashboard.  A search is the names that contain the text and
\* the text as a prefix of keys; the empty text is in every name.
Finds(search, name, key) == name \in search.names \/ IsPrefix(search.prefix, key)

QueryNodes(search, type, limit, offset) ==
  LET rows == {n \in OfType(Nodes, type) : Finds(search, n.name, n.key)}
      Sorted(list) == \A i, j \in DOMAIN list : i < j => list[i].last >= list[j].last
  IN {[total |-> Cardinality(rows),
       nodes |-> SubSeq(list, offset + 1, Min({offset + limit, Len(list)}))] :
        list \in {l \in SetToSeqs(rows) : Sorted(l)}}

Within(at, start, end) == start <= at /\ at < end

\* Mutation of CountActiveNodesInRange: added and updated, added up.
AddedAndUpdated(start, end, type) ==
  LET rows == OfType(Nodes, type)
  IN Cardinality({n \in rows : Within(n.first, start, end)})
     + Cardinality({n \in rows : Within(n.last, start, end) /\ n.last # n.first})

CountActiveNodesInRange(start, end, type) ==
  Cardinality({n \in OfType(Nodes, type) : Within(n.first, start, end) \/ Within(n.last, start, end)})

QueryNodeTotals(start, end, type) ==
  LET rows == OfType(Nodes, type)
  IN [added |-> Cardinality({n \in rows : Within(n.first, start, end)}),
      updated |-> Cardinality({n \in rows : Within(n.last, start, end) /\ n.last # n.first})]

\* The overview of the dashboard compares a window with the one before it.
TrendUpdated(start, end) ==
  QueryNodeTotals(start, end, "REPEATER").updated
  - QueryNodeTotals(start - (end - start), start, "REPEATER").updated

-----------------------------------------------------------------------------
(* Properties.                                                              *)

Hearings(key) == {i \in DOMAIN hearings : hearings[i].key = key}

Earliest(key) == hearings[Min(Hearings(key))]
Latest(key) == hearings[Max(Hearings(key))]

Repeaters == {k \in Keys : Hearings(k) # {} /\ Latest(k).type = "REPEATER"}

\* Repeaters heard again in a window, after they were heard for the first time.
HeardAgain(start, end) ==
  {k \in Repeaters : \E i \in Hearings(k) :
      Within(hearings[i].at, start, end) /\ hearings[i].at # Earliest(k).at}

\* A hearing of this very millisecond is in no window yet.
Settled == opener = "open" /\ \A i \in DOMAIN hearings : hearings[i].at < now

\* From two times per node come the numbers all hearings would give, also when
\* names and types change and the process or the release is another one in
\* between: the repeaters added in any window, and those updated or active in a
\* window that ends now, as !stats and the presets of the dashboard ask for it.
\* (Of a custom range that ends in the past only the first is true: see
\* TrendComparesPeriods.)
CountsMatchHistory ==
  Settled => \A start \in 0 .. now :
    /\ \A end \in start .. now :
         QueryNodeTotals(start, end, "REPEATER").added
           = Cardinality({k \in Repeaters : Within(Earliest(k).at, start, end)})
    /\ QueryNodeTotals(start, now, "REPEATER").updated = Cardinality(HeardAgain(start, now))
    /\ CountActiveNodesInRange(start, now, "REPEATER")
         = Cardinality({k \in Repeaters : \E i \in Hearings(k) : hearings[i].at >= start})

\* !lookup answers from what was heard last of each node: the right outcome
\* for the repeaters that match, the latest name of one of them, and none that
\* was heard later.
LookupIsTrue ==
  \A q \in Queries : \A answer \in Lookup(q) :
    LET matching == {k \in Repeaters : IsPrefix(q, k)}
        status == answer.result.status
        node == answer.result.node
    IN /\ status = IF ~IsQuery(q) THEN "invalid"
                   ELSE IF matching = {} THEN "not_found"
                   ELSE IF Cardinality(matching) = 1 THEN "found" ELSE "ambiguous"
       /\ status = "not_found" => answer.repeaterCount = Cardinality(Repeaters)
       /\ status = "ambiguous" => answer.result.matchCount = Cardinality(matching)
       /\ status \in {"found", "ambiguous"} =>
            /\ node.key \in matching /\ node.name = Latest(node.key).name
            /\ \A k \in matching : Latest(k).at <= Latest(node.key).at
            /\ IsPrefix(q, answer.nodePrefix) /\ IsPrefix(answer.nodePrefix, node.key)

\* So does the list of the dashboard: of the repeaters whose latest name or key
\* matches a page has those that were heard last, the later ones first and none
\* twice, is as full as it can be, and leaves out none that was heard later than
\* one it shows.
ListIsTrue ==
  \A search \in Searches :
    LET matching == {k \in Repeaters : Finds(search, Latest(k).name, k)}
        Later(at) == {k \in matching : Latest(k).at > at}
    IN \A asked \in Pages : \A page \in QueryNodes(search, "REPEATER", asked.limit, asked.offset) :
         /\ page.total = Cardinality(matching)
         /\ Len(page.nodes) = IF page.total <= asked.offset THEN 0
                              ELSE Min({asked.limit, page.total - asked.offset})
         /\ \A i, j \in DOMAIN page.nodes : i < j =>
              page.nodes[i].last >= page.nodes[j].last /\ page.nodes[i].key # page.nodes[j].key
         /\ \A i \in DOMAIN page.nodes :
              LET n == page.nodes[i]
              IN /\ n.key \in matching /\ n.name = Latest(n.key).name
                 /\ Cardinality(Later(n.last)) < asked.offset + i

ReadsMatchHistory == opener = "open" => LookupIsTrue /\ ListIsTrue

\* The dashboard shows the change in repeaters updated as that to "the
\* immediately preceding period of the same duration".
TrendComparesPeriods ==
  Settled => \A start \in 0 .. now :
    2 * start >= now =>
      TrendUpdated(start, now)
        = Cardinality(HeardAgain(start, now)) - Cardinality(HeardAgain(2 * start - now, start))
=============================================================================
