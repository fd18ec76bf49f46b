-------------------------- MODULE PacketDeduplicator --------------------------
(***************************************************************************)
(* The cache behind "was this packet answered already": a Map from id to   *)
(* the time it was last seen, in insertion order.  Here it is a sequence   *)
(* of [id, at] records, least recently seen first.                         *)
(***************************************************************************)
EXTENDS Integers, Sequences, SequencesExt

CONSTANTS DedupTtlMs, DedupMaxEntries

ASSUME DedupAssumption == DedupTtlMs \in Nat \ {0} /\ DedupMaxEntries \in Nat \ {0}

\* The loop stops at the first entry that is young enough.
EvictAged(seen, at) ==
  LET Young == {i \in DOMAIN seen : at - seen[i].at < DedupTtlMs}
  IN IF Young = {} THEN <<>>
     ELSE SubSeq(seen, CHOOSE i \in Young : \A j \in Young : i <= j, Len(seen))

\* Least recently seen entries go first.
EvictSurplus(seen) ==
  IF Len(seen) > DedupMaxEntries
  THEN SubSeq(seen, Len(seen) - DedupMaxEntries + 1, Len(seen)) ELSE seen

IsDuplicate(seen, id, at) ==
  \E i \in DOMAIN seen : seen[i].id = id /\ at - seen[i].at < DedupTtlMs

\* Mutation of Remember: an id that is known keeps its old place and time.
RememberFirst(seen, id, at) ==
  IF IsDuplicate(seen, id, at) THEN EvictAged(seen, at)
  ELSE EvictSurplus(Append(EvictAged(seen, at), [id |-> id, at |-> at]))

Places(seen, id) == {i \in DOMAIN seen : seen[i].id = id}

\* Map.delete: there is one entry per id at most.
Delete(seen, id) ==
  IF Places(seen, id) = {} THEN seen ELSE RemoveAt(seen, CHOOSE i \in Places(seen, id) : TRUE)

\* An id that is seen again moves to the end.
Remember(seen, id, at) ==
  EvictSurplus(Append(Delete(EvictAged(seen, at), id), [id |-> id, at |-> at]))
=============================================================================
