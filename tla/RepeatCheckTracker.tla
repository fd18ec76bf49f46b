-------------------------- MODULE RepeatCheckTracker --------------------------
(***************************************************************************)
(* The replies that wait for a rebroadcast: a Map from the text of a reply *)
(* to the replies sent with that text, oldest first.  Here it is a         *)
(* sequence of [text, entries] in the Map's order; an entry says when the  *)
(* reply was sent and when it stops waiting.                               *)
(***************************************************************************)
EXTENDS Integers, Sequences, FiniteSets

CONSTANTS RepeatTimeoutMs, RepeatMaxEntries

ASSUME RepeatAssumption == RepeatTimeoutMs \in Nat /\ RepeatMaxEntries \in Nat \ {0}

Entry(at) == [sentAt |-> at, expiresAt |-> at + RepeatTimeoutMs]

\* The places of the replies that wait, and how many there are.
Waiters(map) == UNION {{i} \X DOMAIN map[i].entries : i \in DOMAIN map}

Size(map) == Cardinality(Waiters(map))

Rows(map, text) == {i \in DOMAIN map : map[i].text = text}

\* Numbers in increasing order.
Ascending(S) ==
  CHOOSE s \in [1 .. Cardinality(S) -> S] : \A i, j \in 1 .. Cardinality(S) : i < j => s[i] < s[j]

\* A text without entries is deleted from the Map, the others keep their order.
NonEmpty(map) ==
  LET kept == Ascending({i \in DOMAIN map : map[i].entries # <<>>})
  IN [n \in DOMAIN kept |-> map[kept[n]]]

\* Mutation of Overdue: the moment of expiry still counts as in time.
OverdueLater(entry, at) == entry.expiresAt < at

Overdue(entry, at) == entry.expiresAt <= at

\* Per text the loop stops at the first entry that may still wait.
Waiting(entries, at) ==
  LET InTime == {i \in DOMAIN entries : ~Overdue(entries[i], at)}
  IN IF InTime = {} THEN <<>>
     ELSE SubSeq(entries, CHOOSE i \in InTime : \A j \in InTime : i <= j, Len(entries))

EvictExpired(map, at) ==
  NonEmpty([i \in DOMAIN map |-> [map[i] EXCEPT !.entries = Waiting(@, at)]])

Push(map, text, at) ==
  IF Rows(map, text) = {}
  THEN Append(map, [text |-> text, entries |-> <<Entry(at)>>])
  ELSE [i \in DOMAIN map |->
          IF map[i].text = text THEN [map[i] EXCEPT !.entries = Append(@, Entry(at))] ELSE map[i]]

\* The oldest entry with the given text goes.
Shift(map, text) ==
  NonEmpty([i \in DOMAIN map |->
              IF map[i].text = text THEN [map[i] EXCEPT !.entries = Tail(@)] ELSE map[i]])

\* One registration goes over the limit by one at most, so the loop runs once:
\* it takes from the text that has been in the Map for the longest time.
EvictOverflow(map) ==
  IF Size(map) > RepeatMaxEntries THEN Shift(map, map[1].text) ELSE map
=============================================================================
