------------------------------- MODULE BotProofs -------------------------------
(***************************************************************************)
(* Proofs about ChannelBot, for any messages and texts, any TTL, timeout   *)
(* and limits: the packet cache is exact and holds accepted messages only, *)
(* and the repeat checks account for every reply.                          *)
(***************************************************************************)
EXTENDS ChannelBot, SequenceTheorems, FiniteSetTheorems, WellFoundedInduction, TLAPS

Entries == [id : Messages, at : Nat]

\* The cache tells the history of what is in it: one entry per message, with
\* the time it was last heard, and behind it the messages heard later.
Tells(s, heard, later) ==
  /\ s \in Seq(Entries)
  /\ \A i, j \in 1 .. Len(s) : s[i].id = s[j].id => i = j
  /\ \A i \in 1 .. Len(s) : s[i].at = heard[s[i].id]
  /\ \A i \in 1 .. Len(s), x \in Messages :
       x \in later[s[i].id] <=> \E j \in 1 .. Len(s) : i < j /\ s[j].id = x

Holds(s, m) == \E i \in 1 .. Len(s) : s[i].id = m

\* What is not in it any more may be forgotten.
Forgets(s, heard, later, at) ==
  \A m \in Messages :
    heard[m] >= 0 /\ ~Holds(s, m)
    => at - heard[m] >= DedupTtlMs \/ Cardinality(later[m]) >= DedupMaxEntries

HistoryTypes ==
  /\ now \in Nat
  /\ heardAt \in [Messages -> Nat \cup {-1}]
  /\ since \in [Messages -> SUBSET Messages]
  /\ \A m \in Messages : IsFiniteSet(since[m])
  /\ accepted \in [Messages -> Nat]

BotInv ==
  /\ HistoryTypes
  /\ Tells(seen, heardAt, since) /\ Len(seen) <= DedupMaxEntries
  /\ Forgets(seen, heardAt, since, now)
  /\ \A i \in 1 .. Len(seen) : accepted[seen[i].id] >= 1
-----------------------------------------------------------------------------
(* Sequences.                                                              *)

LEMMA SuffixFacts ==
  ASSUME NEW E, NEW s \in Seq(E), NEW k \in 1 .. Len(s) + 1
  PROVE  /\ SubSeq(s, k, Len(s)) \in Seq(E)
         /\ Len(SubSeq(s, k, Len(s))) = Len(s) - k + 1
         /\ \A i \in 1 .. Len(s) - k + 1 : SubSeq(s, k, Len(s))[i] = s[i + k - 1]
  BY SubSeqProperties, LenProperties

LEMMA RemoveFacts ==
  ASSUME NEW E, NEW s \in Seq(E), NEW p \in 1 .. Len(s)
  PROVE  /\ RemoveAt(s, p) \in Seq(E)
         /\ Len(RemoveAt(s, p)) = Len(s) - 1
         /\ \A i \in 1 .. Len(s) - 1 : RemoveAt(s, p)[i] = IF i < p THEN s[i] ELSE s[i + 1]
<1> DEFINE front == SubSeq(s, 1, p - 1)
          back == SubSeq(s, p + 1, Len(s))
<1>1. Len(s) \in Nat
  BY LenProperties
<1>2. /\ front \in Seq(E) /\ Len(front) = p - 1
      /\ \A i \in 1 .. p - 1 : front[i] = s[i]
  BY <1>1, SubSeqProperties
<1>3. /\ back \in Seq(E) /\ Len(back) = Len(s) - p
      /\ \A i \in 1 .. Len(s) - p : back[i] = s[i + p]
  BY <1>1, SuffixFacts
<1>4. RemoveAt(s, p) = front \o back
  BY DEF RemoveAt
<1> HIDE DEF front, back
<1>5. /\ front \o back \in Seq(E) /\ Len(front \o back) = Len(front) + Len(back)
      /\ \A i \in 1 .. Len(front) + Len(back) :
           (front \o back)[i] = IF i <= Len(front) THEN front[i] ELSE back[i - Len(front)]
  BY <1>2, <1>3, ConcatProperties
<1>6. /\ Len(front) + Len(back) = Len(s) - 1
      /\ \A i \in 1 .. Len(s) - 1 : (front \o back)[i] = IF i < p THEN s[i] ELSE s[i + 1]
  BY <1>1, <1>2, <1>3, <1>5
<1>7. QED
  BY <1>4, <1>5, <1>6
Below == {p \in Nat \X Nat : p[1] < p[2]}

LEMMA LeastNumber ==
  ASSUME NEW S \in SUBSET Nat, S # {}
  PROVE  \E n \in S : \A i \in S : n <= i
<1>1. OpToRel(<, Nat) = Below
  BY Zenon DEF OpToRel, Below
<1>2. IsWellFoundedOn(Below, Nat)
  BY <1>1, NatLessThanWellFounded, Zenon
<1>3. PICK n \in S : \A i \in S : ~ (<<i, n>> \in Below)
  BY <1>2, WFMin, Zenon
<1>4. \A i, n0 \in Nat : i < n0 => <<i, n0>> \in Below
  BY DEF Below
<1>5. \A i \in S : ~ (i < n)
  BY <1>3, <1>4
<1>6. \A i \in S : n <= i
  BY <1>5
<1>7. QED
  BY <1>6

-----------------------------------------------------------------------------
(* The cache.                                                              *)

LEMMA EntryFacts ==
  ASSUME NEW s \in Seq(Entries)
  PROVE  /\ Len(s) \in Nat /\ DOMAIN s = 1 .. Len(s)
         /\ \A i \in 1 .. Len(s) : s[i] \in Entries /\ s[i].id \in Messages /\ s[i].at \in Nat
<1>1. Len(s) \in Nat /\ DOMAIN s = 1 .. Len(s)
  BY LenProperties
<1>2. \A i \in 1 .. Len(s) : s[i] \in Entries
  BY ElementOfSeq
<1>3. \A e \in Entries : e.id \in Messages /\ e.at \in Nat
  BY DEF Entries
<1>4. QED
  BY <1>1, <1>2, <1>3

\* The age scan takes off a front of aged entries.
LEMMA AgedAreAFront ==
  ASSUME NEW s \in Seq(Entries), NEW at \in Nat
  PROVE  \E k \in 1 .. Len(s) + 1 :
           /\ EvictAged(s, at) = SubSeq(s, k, Len(s))
           /\ \A i \in 1 .. Len(s) : i < k => at - s[i].at >= DedupTtlMs
<1> DEFINE Young == {i \in DOMAIN s : at - s[i].at < DedupTtlMs}
           first == CHOOSE i \in Young : \A j \in Young : i <= j
<1>1. Len(s) \in Nat /\ DOMAIN s = 1 .. Len(s) /\ \A i \in 1 .. Len(s) : s[i].at \in Nat
  BY EntryFacts
<1>2. CASE Young = {}
  <2>1. EvictAged(s, at) = <<>>
    BY <1>2 DEF EvictAged
  <2>2. SubSeq(s, Len(s) + 1, Len(s)) = <<>>
    BY <1>1, SuffixFacts, EmptySeq
  <2>3. \A i \in 1 .. Len(s) : at - s[i].at >= DedupTtlMs
    BY <1>1, <1>2, DedupAssumption
  <2>4. Len(s) + 1 \in 1 .. Len(s) + 1
    BY <1>1
  <2>5. QED
    BY <2>1, <2>2, <2>3, <2>4
<1>3. CASE Young # {}
  <2>1. EvictAged(s, at) = SubSeq(s, first, Len(s))
    BY <1>3 DEF EvictAged
  <2>2. first \in Young /\ \A j \in Young : first <= j
    <3>1. Young \in SUBSET Nat
      BY <1>1
    <3>2. \E i \in Young : \A j \in Young : i <= j
      BY <1>3, <3>1, LeastNumber
    <3>3. QED
      BY <3>2
  <2> HIDE DEF first
  <2>3. first \in 1 .. Len(s) + 1
    BY <1>1, <2>2
  <2>4. \A i \in 1 .. Len(s) : i < first => at - s[i].at >= DedupTtlMs
    BY <1>1, <2>2, <2>3, DedupAssumption
  <2>5. QED
    BY <2>1, <2>3, <2>4
<1>4. QED
  BY <1>2, <1>3

\* What is left after a front is taken off still tells the history.
LEMMA SuffixTells ==
  ASSUME NEW s, NEW heard, NEW later, Tells(s, heard, later), NEW k \in 1 .. Len(s) + 1
  PROVE  /\ Tells(SubSeq(s, k, Len(s)), heard, later)
         /\ Len(SubSeq(s, k, Len(s))) = Len(s) - k + 1
         /\ \A i \in 1 .. Len(s) : i >= k => Holds(SubSeq(s, k, Len(s)), s[i].id)
         /\ \A m : Holds(SubSeq(s, k, Len(s)), m) => Holds(s, m)
<1> DEFINE q == SubSeq(s, k, Len(s))
<1>1. Len(s) \in Nat /\ s \in Seq(Entries)
  BY LenProperties DEF Tells
<1>2. /\ q \in Seq(Entries) /\ Len(q) = Len(s) - k + 1
      /\ \A i \in 1 .. Len(q) : i + k - 1 \in 1 .. Len(s) /\ q[i] = s[i + k - 1]
  BY <1>1, SuffixFacts
<1> HIDE DEF q
<1>3. \A j \in 1 .. Len(s) : j >= k => j - k + 1 \in 1 .. Len(q) /\ q[j - k + 1] = s[j]
  BY <1>1, <1>2
<1>4. \A i, j \in 1 .. Len(q) : q[i].id = q[j].id => i = j
  <2>1. ASSUME NEW i \in 1 .. Len(q), NEW j \in 1 .. Len(q), q[i].id = q[j].id
        PROVE  i = j
    <3>1. i + k - 1 \in 1 .. Len(s) /\ j + k - 1 \in 1 .. Len(s)
          /\ s[i + k - 1].id = s[j + k - 1].id
      BY <1>2, <2>1
    <3>2. i + k - 1 = j + k - 1
      BY <3>1 DEF Tells
    <3>3. i \in Nat /\ j \in Nat /\ k \in Nat
      OBVIOUS
    <3>4. QED
      BY <3>2, <3>3
  <2>2. QED
    BY <2>1
<1>5. ASSUME NEW i \in 1 .. Len(q)
      PROVE  q[i].at = heard[q[i].id]
  <2>1. i + k - 1 \in 1 .. Len(s) /\ q[i] = s[i + k - 1]
    BY <1>2
  <2>2. \A l \in 1 .. Len(s) : s[l].at = heard[s[l].id]
    BY DEF Tells
  <2>3. QED
    BY <2>1, <2>2
<1>6. ASSUME NEW i \in 1 .. Len(q), NEW x \in Messages
      PROVE  x \in later[q[i].id] <=> \E j \in 1 .. Len(q) : i < j /\ q[j].id = x
  <2>1. x \in later[q[i].id] <=> \E j \in 1 .. Len(s) : i + k - 1 < j /\ s[j].id = x
    <3>1. i + k - 1 \in 1 .. Len(s) /\ q[i] = s[i + k - 1]
      BY <1>2
    <3>2. \A l \in 1 .. Len(s) : x \in later[s[l].id] <=> \E j \in 1 .. Len(s) : l < j /\ s[j].id = x
      BY DEF Tells
    <3>3. QED
      BY <3>1, <3>2
  <2>2. ASSUME NEW j \in 1 .. Len(s), i + k - 1 < j, s[j].id = x
        PROVE  \E l \in 1 .. Len(q) : i < l /\ q[l].id = x
    <3>1. j - k + 1 \in 1 .. Len(q) /\ q[j - k + 1].id = x /\ i < j - k + 1
      BY <1>1, <1>2, <1>3, <2>2
    <3>2. QED
      BY <3>1
  <2>3. ASSUME NEW j \in 1 .. Len(q), i < j, q[j].id = x
        PROVE  \E l \in 1 .. Len(s) : i + k - 1 < l /\ s[l].id = x
    <3>1. j + k - 1 \in 1 .. Len(s) /\ s[j + k - 1].id = x /\ i + k - 1 < j + k - 1
      BY <1>1, <1>2, <2>3
    <3>2. QED
      BY <3>1
  <2>4. QED
    BY <2>1, <2>2, <2>3
<1>7. Tells(q, heard, later)
  BY <1>2, <1>4, <1>5, <1>6 DEF Tells
<1>8. \A i \in 1 .. Len(s) : i >= k => Holds(q, s[i].id)
  BY <1>3 DEF Holds
<1>9. \A m : Holds(q, m) => Holds(s, m)
  BY <1>2 DEF Holds
<1>10. QED
  BY <1>2, <1>7, <1>8, <1>9 DEF q

\* The message at place i was followed by as many others as stand behind it.
LEMMA AfterCount ==
  ASSUME NEW s, NEW heard, NEW later \in [Messages -> SUBSET Messages],
         Tells(s, heard, later), NEW i \in 1 .. Len(s)
  PROVE  Cardinality(later[s[i].id]) = Len(s) - i
<1>1. Len(s) \in Nat /\ \A j \in 1 .. Len(s) : s[j].id \in Messages
  BY EntryFacts DEF Tells
<1> DEFINE R == i + 1 .. Len(s)
           L == later[s[i].id]
           f == [j \in R |-> s[j].id]
<1>2. \A j \in R : j \in 1 .. Len(s) /\ i < j
  BY <1>1
<1>3. \A x \in Messages : x \in L <=> \E j \in 1 .. Len(s) : i < j /\ s[j].id = x
  BY DEF Tells
<1>4. L \subseteq Messages
  BY <1>1
<1>5. \A j \in R : s[j].id \in L
  BY <1>1, <1>2, <1>3
<1>6. \A x \in L : \E j \in R : s[j].id = x
  BY <1>1, <1>3, <1>4
<1>7. \A j, l \in R : s[j].id = s[l].id => j = l
  BY <1>2 DEF Tells
<1>8. IsFiniteSet(R) /\ Cardinality(R) = Len(s) - i
  BY <1>1, FS_Interval
<1> HIDE DEF R, L
<1>9. f \in [R -> L] /\ \A j \in R : f[j] = s[j].id
  BY <1>5
<1> HIDE DEF f
<1>10. f \in Injection(R, L)
  BY <1>7, <1>9 DEF Injection, IsInjective
<1>11. f \in Surjection(R, L)
  BY <1>6, <1>9 DEF Surjection
<1>12. ExistsBijection(R, L)
  BY <1>10, <1>11 DEF ExistsBijection, Bijection
<1>13. Cardinality(L) = Cardinality(R)
  BY <1>8, <1>12, FS_Bijection
<1>14. QED
  BY <1>8, <1>13 DEF L

\* The cache without m: what it still tells of the others.
TellsWithout(s, heard, later, m) ==
  /\ s \in Seq(Entries)
  /\ \A i, j \in 1 .. Len(s) : s[i].id = s[j].id => i = j
  /\ \A i \in 1 .. Len(s) : s[i].at = heard[s[i].id] /\ s[i].id # m
  /\ \A i \in 1 .. Len(s), x \in Messages \ {m} :
       x \in later[s[i].id] <=> \E j \in 1 .. Len(s) : i < j /\ s[j].id = x

LEMMA DeleteTells ==
  ASSUME NEW s, NEW heard, NEW later, Tells(s, heard, later), NEW m \in Messages
  PROVE  /\ TellsWithout(Delete(s, m), heard, later, m)
         /\ \A x \in Messages \ {m} : Holds(Delete(s, m), x) <=> Holds(s, x)
<1>1. s \in Seq(Entries) /\ Len(s) \in Nat /\ DOMAIN s = 1 .. Len(s)
  BY EntryFacts DEF Tells
<1>2. CASE Places(s, m) = {}
  <2>1. Delete(s, m) = s
    BY <1>2 DEF Delete
  <2>2. \A i \in 1 .. Len(s) : s[i].id # m
    BY <1>1, <1>2 DEF Places
  <2>3. TellsWithout(s, heard, later, m)
    BY <2>2 DEF Tells, TellsWithout
  <2>4. QED
    BY <2>1, <2>3
<1>3. CASE Places(s, m) # {}
  <2> DEFINE p == CHOOSE i \in Places(s, m) : TRUE
             d == RemoveAt(s, p)
             from(i) == IF i < p THEN i ELSE i + 1
  <2>1. Delete(s, m) = d
    BY <1>3 DEF Delete
  <2>2. p \in Places(s, m)
    BY <1>3
  <2>3. p \in 1 .. Len(s) /\ s[p].id = m
    BY <1>1, <2>2 DEF Places
  <2> HIDE DEF p
  <2>4. /\ d \in Seq(Entries) /\ Len(d) = Len(s) - 1
        /\ \A i \in 1 .. Len(s) - 1 : d[i] = IF i < p THEN s[i] ELSE s[i + 1]
    BY <1>1, <2>3, RemoveFacts
  <2> HIDE DEF d
  <2>5. \A i \in 1 .. Len(d) : from(i) \in 1 .. Len(s) /\ from(i) # p /\ d[i] = s[from(i)]
    BY <1>1, <2>3, <2>4
  <2>6. \A j \in 1 .. Len(s) : j # p => \E i \in 1 .. Len(d) : from(i) = j
    <3>1. ASSUME NEW j \in 1 .. Len(s), j < p
          PROVE  j \in 1 .. Len(d) /\ from(j) = j
      BY <1>1, <2>3, <2>4, <3>1
    <3>2. ASSUME NEW j \in 1 .. Len(s), j > p
          PROVE  j - 1 \in 1 .. Len(d) /\ from(j - 1) = j
      BY <1>1, <2>3, <2>4, <3>2
    <3>3. \A j \in 1 .. Len(s) : j # p => j < p \/ j > p
      BY <2>3
    <3> HIDE DEF from
    <3>4. QED
      BY <3>1, <3>2, <3>3
  <2>7. \A i, j \in 1 .. Len(d) : (i < j <=> from(i) < from(j)) /\ (from(i) = from(j) => i = j)
    BY <1>1, <2>3, <2>4
  <2> HIDE DEF from
  <2>8. \A i, j \in 1 .. Len(s) : s[i].id = s[j].id => i = j
    BY DEF Tells
  <2>9. \A i \in 1 .. Len(d) : d[i].id # m
    BY <2>3, <2>5, <2>8
  <2>10. \A i, j \in 1 .. Len(d) : d[i].id = d[j].id => i = j
    BY <2>5, <2>7, <2>8
  <2>11. \A i \in 1 .. Len(d) : d[i].at = heard[d[i].id]
    <3>1. \A i \in 1 .. Len(s) : s[i].at = heard[s[i].id]
      BY DEF Tells
    <3>2. QED
      BY <2>5, <3>1
  <2>12. ASSUME NEW i \in 1 .. Len(d), NEW x \in Messages \ {m}
         PROVE  x \in later[d[i].id] <=> \E j \in 1 .. Len(d) : i < j /\ d[j].id = x
    <3>1. \A l \in 1 .. Len(s) : x \in later[s[l].id] <=> \E j \in 1 .. Len(s) : l < j /\ s[j].id = x
      BY DEF Tells
    <3>2. x \in later[d[i].id] <=> \E j \in 1 .. Len(s) : from(i) < j /\ s[j].id = x
      BY <2>5, <3>1
    <3>3. (\E j \in 1 .. Len(s) : from(i) < j /\ s[j].id = x)
            <=> \E j \in 1 .. Len(d) : from(i) < from(j) /\ s[from(j)].id = x
      BY <2>3, <2>5, <2>6
    <3>4. QED
      BY <2>5, <2>7, <3>2, <3>3
  <2>13. \A x \in Messages \ {m} : Holds(d, x) <=> Holds(s, x)
    BY <2>3, <2>5, <2>6 DEF Holds
  <2>14. TellsWithout(d, heard, later, m)
    BY <2>4, <2>9, <2>10, <2>11, <2>12 DEF TellsWithout
  <2>15. QED
    BY <2>1, <2>13, <2>14
<1>4. QED
  BY <1>2, <1>3

\* The history after m is heard at n.
HeardNow(heard, m, n) == [heard EXCEPT ![m] = n]
LaterNow(later, m) == [x \in Messages |-> IF x = m THEN {} ELSE later[x] \cup {m}]

LEMMA AppendTells ==
  ASSUME NEW d, NEW heard \in [Messages -> Nat \cup {-1}],
         NEW later \in [Messages -> SUBSET Messages], NEW m \in Messages, NEW n \in Nat,
         TellsWithout(d, heard, later, m)
  PROVE  LET t == Append(d, [id |-> m, at |-> n])
         IN /\ Tells(t, HeardNow(heard, m, n), LaterNow(later, m))
            /\ Len(t) = Len(d) + 1 /\ t[Len(t)].id = m
            /\ \A x : Holds(t, x) <=> x = m \/ Holds(d, x)
<1> DEFINE e == [id |-> m, at |-> n]
           t == Append(d, e)
           k == Len(d)
<1>1. d \in Seq(Entries) /\ k \in Nat /\ \A i \in 1 .. k : d[i].id \in Messages
  BY EntryFacts DEF TellsWithout
<1>2. e \in Entries /\ e.id = m /\ e.at = n
  BY DEF Entries
<1> HIDE DEF e
<1>3. /\ t \in Seq(Entries) /\ Len(t) = k + 1
      /\ \A i \in 1 .. k : t[i] = d[i]
      /\ t[k + 1] = e
  BY <1>1, <1>2, AppendProperties
<1> HIDE DEF t
<1>4. \A i \in 1 .. Len(t) : i \in 1 .. k \/ i = k + 1
  BY <1>1, <1>3
<1>5. \A i \in 1 .. k : i \in 1 .. Len(t) /\ i < k + 1 /\ i # k + 1
  BY <1>1, <1>3
<1>6. k + 1 \in 1 .. Len(t)
  BY <1>1, <1>3
<1>7. \A i \in 1 .. k : d[i].id # m
  BY DEF TellsWithout
<1> HIDE DEF k
<1>8. \A i, j \in 1 .. Len(t) : t[i].id = t[j].id => i = j
  <2>1. \A i, j \in 1 .. k : d[i].id = d[j].id => i = j
    BY DEF TellsWithout, k
  <2>2. QED
    BY <1>2, <1>3, <1>4, <1>7, <2>1
<1>9. \A i \in 1 .. Len(t) : t[i].at = HeardNow(heard, m, n)[t[i].id]
  <2>1. \A i \in 1 .. k : d[i].at = heard[d[i].id]
    BY DEF TellsWithout, k
  <2>2. HeardNow(heard, m, n)[m] = n /\ \A x \in Messages : x # m => HeardNow(heard, m, n)[x] = heard[x]
    BY DEF HeardNow
  <2>3. QED
    BY <1>1, <1>2, <1>3, <1>4, <1>7, <2>1, <2>2 DEF k
<1>10. ASSUME NEW i \in 1 .. Len(t), NEW x \in Messages
       PROVE  x \in LaterNow(later, m)[t[i].id] <=> \E j \in 1 .. Len(t) : i < j /\ t[j].id = x
  <2>1. CASE i = k + 1
    <3>1. LaterNow(later, m)[t[i].id] = {}
      BY <1>2, <1>3, <2>1 DEF LaterNow
    <3>2. \A j \in 1 .. Len(t) : ~ (i < j)
      BY <1>1, <1>3, <2>1 DEF k
    <3>3. QED
      BY <3>1, <3>2
  <2>2. CASE i \in 1 .. k /\ x = m
    <3>1. x \in LaterNow(later, m)[t[i].id]
      BY <1>1, <1>3, <1>7, <2>2 DEF LaterNow, k
    <3>2. i < k + 1 /\ t[k + 1].id = x
      BY <1>2, <1>3, <1>5, <2>2
    <3>3. QED
      BY <1>6, <3>1, <3>2
  <2>3. CASE i \in 1 .. k /\ x # m
    <3>1. x \in LaterNow(later, m)[t[i].id] <=> x \in later[d[i].id]
      BY <1>1, <1>3, <1>7, <2>3 DEF LaterNow, k
    <3>2. x \in later[d[i].id] <=> \E j \in 1 .. k : i < j /\ d[j].id = x
      BY <2>3 DEF TellsWithout, k
    <3>3. (\E j \in 1 .. k : i < j /\ d[j].id = x) <=> \E j \in 1 .. Len(t) : i < j /\ t[j].id = x
      BY <1>2, <1>3, <1>4, <1>5, <2>3
    <3>4. QED
      BY <3>1, <3>2, <3>3
  <2>4. QED
    BY <1>4, <2>1, <2>2, <2>3
<1>11. Tells(t, HeardNow(heard, m, n), LaterNow(later, m))
  BY <1>3, <1>8, <1>9, <1>10 DEF Tells
<1>12. \A x : Holds(t, x) <=> x = m \/ Holds(d, x)
  BY <1>2, <1>3, <1>4, <1>5, <1>6 DEF Holds, k
<1>13. QED
  BY <1>2, <1>3, <1>11, <1>12 DEF t, e, k

\* The whole of Remember, on a cache that tells the history.
LEMMA RememberTells ==
  ASSUME NEW s, NEW heard \in [Messages -> Nat \cup {-1}],
         NEW later \in [Messages -> SUBSET Messages],
         \A x \in Messages : IsFiniteSet(later[x]),
         Tells(s, heard, later), NEW m \in Messages, NEW n \in Nat,
         Forgets(s, heard, later, n)
  PROVE  /\ Tells(Remember(s, m, n), HeardNow(heard, m, n), LaterNow(later, m))
         /\ Len(Remember(s, m, n)) <= DedupMaxEntries
         /\ Forgets(Remember(s, m, n), HeardNow(heard, m, n), LaterNow(later, m), n)
         /\ \A x \in Messages : Holds(Remember(s, m, n), x) => x = m \/ Holds(s, x)
<1> DEFINE a == EvictAged(s, n)
           d == Delete(a, m)
           t == Append(d, [id |-> m, at |-> n])
           q == EvictSurplus(t)
           heard1 == HeardNow(heard, m, n)
           later1 == LaterNow(later, m)
<1>1. s \in Seq(Entries) /\ Len(s) \in Nat
  BY EntryFacts DEF Tells
<1>2. PICK k \in 1 .. Len(s) + 1 :
        /\ a = SubSeq(s, k, Len(s))
        /\ \A i \in 1 .. Len(s) : i < k => n - s[i].at >= DedupTtlMs
  BY <1>1, AgedAreAFront
<1> HIDE DEF a
<1>3. /\ Tells(a, heard, later)
      /\ \A i \in 1 .. Len(s) : i >= k => Holds(a, s[i].id)
      /\ \A x : Holds(a, x) => Holds(s, x)
  BY <1>2, SuffixTells
<1>4. /\ TellsWithout(d, heard, later, m)
      /\ \A x \in Messages \ {m} : Holds(d, x) <=> Holds(a, x)
  BY <1>3, DeleteTells
<1> HIDE DEF d
<1>5. /\ Tells(t, heard1, later1)
      /\ Len(t) = Len(d) + 1 /\ t[Len(t)].id = m
      /\ \A x : Holds(t, x) <=> x = m \/ Holds(d, x)
  BY <1>4, AppendTells
<1>6. Len(t) \in Nat /\ Len(d) \in Nat /\ Len(t) \in 1 .. Len(t)
  BY <1>4, <1>5, EntryFacts DEF TellsWithout
<1> HIDE DEF t
<1>7. \A x : x \in Messages => heard1[x] = (IF x = m THEN n ELSE heard[x])
  BY DEF HeardNow
<1>8. \A x : x \in Messages => later1[x] = (IF x = m THEN {} ELSE later[x] \cup {m})
  BY DEF LaterNow
<1>9. later1 \in [Messages -> SUBSET Messages]
  BY DEF LaterNow
<1> HIDE DEF heard1, later1
<1>10. PICK l \in 1 .. Len(t) :
         /\ q = SubSeq(t, l, Len(t))
         /\ Len(t) - l + 1 <= DedupMaxEntries
         /\ l > 1 => Len(t) - l + 1 = DedupMaxEntries
  <2>1. CASE Len(t) > DedupMaxEntries
    <3> DEFINE l == Len(t) - DedupMaxEntries + 1
    <3>1. q = SubSeq(t, l, Len(t))
      BY <2>1 DEF EvictSurplus
    <3>2. l \in 1 .. Len(t)
      BY <1>6, <2>1, DedupAssumption
    <3>3. Len(t) - l + 1 = DedupMaxEntries
      BY <1>6, DedupAssumption
    <3>4. DedupMaxEntries <= DedupMaxEntries
      BY DedupAssumption
    <3> HIDE DEF l, q
    <3>5. QED
      BY <3>1, <3>2, <3>3, <3>4
  <2>2. CASE ~ (Len(t) > DedupMaxEntries)
    <3>1. q = t
      BY <2>2 DEF EvictSurplus
    <3>2. t \in Seq(Entries)
      BY <1>5 DEF Tells
    <3>3. SubSeq(t, 1, Len(t)) \in Seq(Entries) /\ Len(SubSeq(t, 1, Len(t))) = Len(t)
          /\ \A i \in 1 .. Len(t) : SubSeq(t, 1, Len(t))[i] = t[i]
      BY <1>6, <3>2, SubSeqProperties
    <3>4. t = SubSeq(t, 1, Len(t))
      BY <3>2, <3>3, SeqEqual
    <3>5. 1 \in 1 .. Len(t) /\ Len(t) - 1 + 1 <= DedupMaxEntries
      BY <1>5, <1>6, <2>2, DedupAssumption
    <3>6. QED
      BY <3>1, <3>4, <3>5
  <2>3. QED
    BY <2>1, <2>2
<1> HIDE DEF q
<1>11. /\ Tells(q, heard1, later1)
       /\ Len(q) = Len(t) - l + 1
       /\ \A i \in 1 .. Len(t) : i >= l => Holds(q, t[i].id)
       /\ \A x : Holds(q, x) => Holds(t, x)
  <2>1. l \in 1 .. Len(t) + 1
    BY <1>6
  <2>2. /\ Tells(SubSeq(t, l, Len(t)), heard1, later1)
        /\ Len(SubSeq(t, l, Len(t))) = Len(t) - l + 1
        /\ \A i \in 1 .. Len(t) : i >= l => Holds(SubSeq(t, l, Len(t)), t[i].id)
        /\ \A x : Holds(SubSeq(t, l, Len(t)), x) => Holds(t, x)
    BY <1>5, <2>1, SuffixTells
  <2>3. QED
    BY <1>10, <2>2
<1>12. Holds(q, m)
  BY <1>5, <1>6, <1>11
<1>13. ASSUME NEW x \in Messages, heard1[x] >= 0, ~Holds(q, x)
       PROVE  n - heard1[x] >= DedupTtlMs \/ Cardinality(later1[x]) >= DedupMaxEntries
  <2>1. x # m
    BY <1>12, <1>13
  <2>2. heard1[x] = heard[x] /\ later1[x] = later[x] \cup {m}
    BY <1>7, <1>8, <2>1
  <2>3. CASE ~Holds(s, x)
    <3>1. n - heard[x] >= DedupTtlMs \/ Cardinality(later[x]) >= DedupMaxEntries
      BY <1>13, <2>2, <2>3 DEF Forgets
    <3>2. Cardinality(later[x]) <= Cardinality(later1[x]) /\ Cardinality(later[x]) \in Nat
          /\ Cardinality(later1[x]) \in Nat
      <4>1. IsFiniteSet(later[x])
        OBVIOUS
      <4>2. IsFiniteSet(later1[x])
        BY <2>2, <4>1, FS_AddElement
      <4>3. later[x] \subseteq later1[x]
        BY <2>2
      <4>4. QED
        BY <4>1, <4>2, <4>3, FS_Subset, FS_CardinalityType
    <3>3. QED
      BY <2>2, <3>1, <3>2, DedupAssumption
  <2>4. CASE Holds(s, x)
    <3>1. PICK i \in 1 .. Len(s) : s[i].id = x
      BY <2>4 DEF Holds
    <3>2. CASE i < k
      <4>1. n - s[i].at >= DedupTtlMs
        BY <1>2, <3>2
      <4>2. s[i].at = heard[x]
        BY <3>1 DEF Tells
      <4>3. QED
        BY <2>2, <4>1, <4>2
    <3>3. CASE ~ (i < k)
      <4>1. Holds(t, x)
        BY <1>2, <1>3, <1>4, <1>5, <2>1, <3>1, <3>3
      <4>2. PICK j \in 1 .. Len(t) : t[j].id = x
        BY <4>1 DEF Holds
      <4>3. ~ (j >= l)
        BY <1>11, <1>13, <4>2
      <4>4. l > 1 /\ Len(t) - j >= DedupMaxEntries
        BY <1>6, <1>10, <4>3, DedupAssumption
      <4>5. Cardinality(later1[x]) = Len(t) - j
        BY <1>5, <1>9, <4>2, AfterCount
      <4>6. QED
        BY <4>4, <4>5
    <3>4. QED
      BY <3>2, <3>3
  <2>5. QED
    BY <2>3, <2>4
<1>14. Forgets(q, heard1, later1, n)
  BY <1>13 DEF Forgets
<1>15. \A x \in Messages : Holds(q, x) => x = m \/ Holds(s, x)
  BY <1>3, <1>4, <1>5, <1>11
<1>16. Remember(s, m, n) = q
  BY DEF Remember, q, t, d, a
<1>17. QED
  BY <1>10, <1>11, <1>14, <1>15, <1>16 DEF heard1, later1

\* What the cache answers, if it tells the history and has forgotten no more
\* than it may.
LEMMA AnswerIsExact ==
  ASSUME NEW s, NEW heard \in [Messages -> Nat \cup {-1}],
         NEW later \in [Messages -> SUBSET Messages],
         Tells(s, heard, later), Len(s) <= DedupMaxEntries,
         NEW n \in Nat, Forgets(s, heard, later, n), NEW m \in Messages,
         IsFiniteSet(later[m])
  PROVE  IsDuplicate(s, m, n) <=>
           /\ heard[m] >= 0 /\ n - heard[m] < DedupTtlMs
           /\ Cardinality(later[m]) < DedupMaxEntries
<1>1. /\ s \in Seq(Entries) /\ Len(s) \in Nat /\ DOMAIN s = 1 .. Len(s)
      /\ \A i \in 1 .. Len(s) : s[i].at \in Nat
  BY EntryFacts DEF Tells
<1>2. \A i \in 1 .. Len(s) : s[i].at = heard[s[i].id]
  BY DEF Tells
<1>3. ASSUME IsDuplicate(s, m, n)
      PROVE  /\ heard[m] >= 0 /\ n - heard[m] < DedupTtlMs
             /\ Cardinality(later[m]) < DedupMaxEntries
  <2>1. PICK i \in 1 .. Len(s) : s[i].id = m /\ n - s[i].at < DedupTtlMs
    BY <1>1, <1>3 DEF IsDuplicate
  <2>2. Cardinality(later[m]) = Len(s) - i
    BY <2>1, AfterCount
  <2>3. Len(s) - i < DedupMaxEntries
    BY <1>1, DedupAssumption
  <2>4. QED
    BY <1>1, <1>2, <2>1, <2>2, <2>3
<1>4. ASSUME heard[m] >= 0, n - heard[m] < DedupTtlMs, Cardinality(later[m]) < DedupMaxEntries,
             ~Holds(s, m)
      PROVE  FALSE
  <2>1. n - heard[m] >= DedupTtlMs \/ Cardinality(later[m]) >= DedupMaxEntries
    BY <1>4 DEF Forgets
  <2>2. n - heard[m] \in Int
    OBVIOUS
  <2>3. Cardinality(later[m]) >= DedupMaxEntries
    BY <1>4, <2>1, <2>2, DedupAssumption
  <2>4. QED
    BY <1>4, <2>3, FS_CardinalityType, DedupAssumption
<1>5. ASSUME Holds(s, m), n - heard[m] < DedupTtlMs
      PROVE  IsDuplicate(s, m, n)
  BY <1>1, <1>2, <1>5 DEF Holds, IsDuplicate
<1>6. QED
  BY <1>3, <1>4, <1>5

-----------------------------------------------------------------------------
(* The steps.                                                              *)

LEMMA HearTriggerFacts ==
  ASSUME NEW m \in Messages, NEW hops \in 0 .. MaxHops, HearTrigger(m, hops)
  PROVE  /\ IF Remembers(hops) THEN Caches(m) ELSE UNCHANGED cacheVars
         /\ LET reply == IF Accepts(m, hops) THEN 1 ELSE 0
            IN accepted' = [accepted EXCEPT ![m] = @ + reply]
         /\ now' = now
  BY DEF HearTrigger

LEMMA HearTriggerKeeps ==
  ASSUME BotInv, NEW m \in Messages, NEW hops \in 0 .. MaxHops, HearTrigger(m, hops)
  PROVE  BotInv'
<1> DEFINE reply == IF Accepts(m, hops) THEN 1 ELSE 0
<1>1. /\ now \in Nat /\ now' = now
      /\ heardAt \in [Messages -> Nat \cup {-1}]
      /\ since \in [Messages -> SUBSET Messages]
      /\ \A x \in Messages : IsFiniteSet(since[x])
      /\ accepted \in [Messages -> Nat]
      /\ Tells(seen, heardAt, since) /\ Len(seen) <= DedupMaxEntries
      /\ Forgets(seen, heardAt, since, now)
      /\ \A i \in 1 .. Len(seen) : accepted[seen[i].id] >= 1
  BY HearTriggerFacts DEF BotInv, HistoryTypes
<1>2. reply \in Nat /\ accepted' = [accepted EXCEPT ![m] = @ + reply]
  BY HearTriggerFacts
<1>3. accepted' \in [Messages -> Nat] /\ \A x \in Messages : accepted'[x] >= accepted[x]
  BY <1>1, <1>2
<1>4. seen \in Seq(Entries) /\ \A i \in 1 .. Len(seen) : seen[i].id \in Messages
  BY <1>1, EntryFacts DEF Tells
<1>5. CASE Remembers(hops)
  <2>1. Caches(m)
    BY <1>5, HearTriggerFacts
  <2>2. /\ seen' = Remember(seen, m, now)
        /\ heardAt' = HeardNow(heardAt, m, now)
        /\ since' = LaterNow(since, m)
    BY <2>1 DEF Caches, HeardNow, LaterNow
  <2>3. /\ Tells(seen', heardAt', since') /\ Len(seen') <= DedupMaxEntries
        /\ Forgets(seen', heardAt', since', now)
        /\ \A x \in Messages : Holds(seen', x) => x = m \/ Holds(seen, x)
    BY <1>1, <2>2, RememberTells
  <2>4. /\ heardAt' \in [Messages -> Nat \cup {-1}]
        /\ since' \in [Messages -> SUBSET Messages]
    BY <1>1, <2>2 DEF HeardNow, LaterNow
  <2>5. ASSUME NEW x \in Messages
        PROVE  IsFiniteSet(since'[x])
    <3>1. since'[x] = (IF x = m THEN {} ELSE since[x] \cup {m})
      BY <2>2 DEF LaterNow
    <3>2. IsFiniteSet({}) /\ IsFiniteSet(since[x] \cup {m})
      BY <1>1, FS_EmptySet, FS_AddElement
    <3>3. QED
      BY <3>1, <3>2
  <2>6. accepted'[m] >= 1
    <3>1. CASE IsDuplicate(EvictAged(seen, now), m, now)
      <4>1. PICK k \in 1 .. Len(seen) + 1 : EvictAged(seen, now) = SubSeq(seen, k, Len(seen))
        BY <1>1, <1>4, AgedAreAFront
      <4>2. /\ Tells(EvictAged(seen, now), heardAt, since)
            /\ \A x : Holds(EvictAged(seen, now), x) => Holds(seen, x)
        BY <1>1, <4>1, SuffixTells
      <4>3. Holds(EvictAged(seen, now), m)
        BY <3>1, <4>2, EntryFacts DEF Tells, IsDuplicate, Holds
      <4>4. accepted[m] >= 1
        BY <1>1, <4>2, <4>3 DEF Holds
      <4>5. QED
        BY <1>1, <1>3, <4>4
    <3>2. CASE ~IsDuplicate(EvictAged(seen, now), m, now)
      <4>1. reply = 1
        BY <1>5, <3>2 DEF Accepts, Remembers
      <4>2. QED
        BY <1>1, <1>2, <4>1
    <3>3. QED
      BY <3>1, <3>2
  <2>7. ASSUME NEW i \in 1 .. Len(seen')
        PROVE  accepted'[seen'[i].id] >= 1
    <3>1. seen'[i].id \in Messages /\ Holds(seen', seen'[i].id)
      BY <2>3, EntryFacts DEF Tells, Holds
    <3>2. CASE seen'[i].id = m
      BY <2>6, <3>2
    <3>3. CASE Holds(seen, seen'[i].id)
      BY <1>1, <1>3, <3>1, <3>3 DEF Holds
    <3>4. QED
      BY <2>3, <3>1, <3>2, <3>3
  <2>8. QED
    BY <1>1, <1>3, <2>3, <2>4, <2>5, <2>7 DEF BotInv, HistoryTypes
<1>6. CASE ~Remembers(hops)
  <2>1. UNCHANGED <<seen, heardAt, since>>
    BY <1>6, HearTriggerFacts DEF cacheVars
  <2>2. \A i \in 1 .. Len(seen) : accepted'[seen[i].id] >= 1
    BY <1>1, <1>3, <1>4
  <2>3. QED
    BY <1>1, <1>3, <2>1, <2>2 DEF BotInv, HistoryTypes
<1>7. QED
  BY <1>5, <1>6

\* A message once forgotten stays so as time passes.
LEMMA TickKeeps ==
  ASSUME BotInv, Tick
  PROVE  BotInv'
<1>1. now \in Nat /\ now' = now + 1 /\ UNCHANGED <<seen, heardAt, since, accepted>>
  BY DEF Tick, cacheVars, BotInv, HistoryTypes
<1>2. \A m \in Messages : heardAt[m] \in Int
  BY DEF BotInv, HistoryTypes
<1>3. \A m \in Messages : now - heardAt[m] >= DedupTtlMs => now' - heardAt[m] >= DedupTtlMs
  BY <1>1, <1>2, DedupAssumption
<1>4. Forgets(seen, heardAt, since, now)
  BY DEF BotInv
<1>5. Forgets(seen, heardAt, since, now')
  BY <1>3, <1>4 DEF Forgets
<1>6. QED
  BY <1>1, <1>5 DEF BotInv, HistoryTypes

\* With an empty memory there is nothing to tell.
LEMMA NothingToTell ==
  ASSUME NEW n \in Nat
  PROVE  LET heard == [m \in Messages |-> -1]
             later == [m \in Messages |-> {}]
         IN /\ Tells(<<>>, heard, later) /\ Forgets(<<>>, heard, later, n)
            /\ Len(<<>>) <= DedupMaxEntries /\ 1 .. Len(<<>>) = {}
            /\ heard \in [Messages -> Nat \cup {-1}]
            /\ later \in [Messages -> SUBSET Messages]
            /\ \A m \in Messages : IsFiniteSet(later[m])
<1>1. <<>> \in Seq(Entries) /\ Len(<<>>) = 0 /\ 1 .. Len(<<>>) = {}
  BY EmptySeq
<1>2. QED
  BY <1>1, FS_EmptySet, DedupAssumption DEF Tells, Forgets

LEMMA InitHolds ==
  ASSUME Init
  PROVE  BotInv
<1>1. /\ now \in Nat /\ accepted \in [Messages -> Nat] /\ seen = <<>>
      /\ heardAt = [m \in Messages |-> -1] /\ since = [m \in Messages |-> {}]
  BY DEF Init
<1>2. QED
  BY <1>1, NothingToTell DEF BotInv, HistoryTypes

LEMMA RestartKeeps ==
  ASSUME BotInv, Restart
  PROVE  BotInv'
<1>1. /\ now' \in Nat /\ accepted' \in [Messages -> Nat] /\ seen' = <<>>
      /\ heardAt' = [m \in Messages |-> -1] /\ since' = [m \in Messages |-> {}]
  BY DEF Restart, BotInv, HistoryTypes
<1>2. QED
  BY <1>1, NothingToTell DEF BotInv, HistoryTypes

LEMMA StepKeeps ==
  ASSUME BotInv, [Next]_vars
  PROVE  BotInv'
<1>1. ASSUME UNCHANGED <<now, seen, heardAt, since, accepted>>
      PROVE  BotInv'
  BY <1>1 DEF BotInv, HistoryTypes
<1>2. CASE \E m \in Messages, hops \in 0 .. MaxHops : HearTrigger(m, hops)
  BY <1>2, HearTriggerKeeps
<1>3. ASSUME NEW t \in Texts, HearRepeat(t)
      PROVE  BotInv'
  BY <1>1, <1>3 DEF HearRepeat, cacheVars, botVars
<1>4. ASSUME NEW m \in Messages, SendReply(m) \/ DropReply(m)
      PROVE  BotInv'
  BY <1>1, <1>4 DEF SendReply, DropReply, cacheVars
<1>5. CASE Sweep
  BY <1>1, <1>5 DEF Sweep, cacheVars, botVars
<1>6. CASE Stop
  BY <1>1, <1>6 DEF Stop, cacheVars
<1>7. CASE UNCHANGED vars
  BY <1>1, <1>7 DEF vars, cacheVars, botVars
<1>8. QED
  BY <1>2, <1>3, <1>4, <1>5, <1>6, <1>7, RestartKeeps, TickKeeps DEF Next

THEOREM BotInvHolds == Spec => []BotInv
<1>1. Init => BotInv
  BY InitHolds
<1>2. BotInv /\ [Next]_vars => BotInv'
  BY StepKeeps
<1>3. QED
  BY <1>1, <1>2, PTL DEF Spec
-----------------------------------------------------------------------------
\* The Map of the deduplicator, with its two evictions, answers as its
\* definition says, for any sequence of deliveries, any TTL and any limit.
THEOREM TheCacheIsExact == Spec => []CacheIsExact
<1>1. ASSUME BotInv
      PROVE  CacheIsExact
  <2>1. /\ now \in Nat
        /\ heardAt \in [Messages -> Nat \cup {-1}]
        /\ since \in [Messages -> SUBSET Messages]
        /\ \A x \in Messages : IsFiniteSet(since[x])
        /\ Tells(seen, heardAt, since) /\ Len(seen) <= DedupMaxEntries
        /\ Forgets(seen, heardAt, since, now)
    BY <1>1 DEF BotInv, HistoryTypes
  <2>2. QED
    BY <2>1, AnswerIsExact DEF CacheIsExact
<1>2. BotInv => CacheIsExact
  BY <1>1
<1>3. QED
  BY <1>2, BotInvHolds, PTL

\* What the cache would turn away has been accepted before: a delivery with
\* too few hops uses no message up.
THEOREM OnlyAcceptedIsInTheCache == Spec => []OnlyAcceptedIsRemembered
<1>1. ASSUME BotInv
      PROVE  OnlyAcceptedIsRemembered
  <2>1. DOMAIN seen = 1 .. Len(seen)
    BY <1>1, EntryFacts DEF BotInv, Tells
  <2>2. QED
    BY <1>1, <2>1 DEF BotInv, OnlyAcceptedIsRemembered
<1>2. BotInv => OnlyAcceptedIsRemembered
  BY <1>1
<1>3. QED
  BY <1>2, BotInvHolds, PTL
-----------------------------------------------------------------------------
(* The repeat checks.                                                      *)

Watches == [sentAt : Nat, expiresAt : Nat]
CheckRows == [text : Texts, entries : Seq(Watches)]

\* One row per text, and the entries of a row in the order they expire.
Tracks(map, at) ==
  /\ map \in Seq(CheckRows)
  /\ \A i, j \in 1 .. Len(map) : map[i].text = map[j].text => i = j
  /\ \A i \in 1 .. Len(map) : \A j, k \in 1 .. Len(map[i].entries) :
       j < k => map[i].entries[j].expiresAt <= map[i].entries[k].expiresAt
  /\ \A i \in 1 .. Len(map) : \A j \in 1 .. Len(map[i].entries) :
       map[i].entries[j].expiresAt <= at + RepeatTimeoutMs

Filled(map) == \A i \in 1 .. Len(map) : map[i].entries # <<>>

\* Nothing that waits has expired.
Fresh(map, at) ==
  \A i \in 1 .. Len(map) : \A j \in 1 .. Len(map[i].entries) :
    \/ map[i].entries[j].expiresAt > at
    \/ RepeatTimeoutMs = 0 /\ map[i].entries[j].sentAt = at

ChecksInv ==
  /\ now \in Nat /\ Tracks(pending, now) /\ Filled(pending)
  /\ Size(pending) <= RepeatMaxEntries /\ totalPending = Size(pending)
  /\ repliesSent \in Nat /\ repeatsConfirmed \in Nat
  /\ repeatsUnconfirmed \in Nat /\ evicted \in Nat
  /\ repliesSent = totalPending + repeatsConfirmed + repeatsUnconfirmed + evicted

Increasing(f, n) == \A i, j \in 1 .. n : i < j => f[i] < f[j]

\* A set of numbers can be listed in increasing order.
LEMMA AscendingExists ==
  ASSUME NEW N \in Nat, NEW S \in SUBSET (1 .. N)
  PROVE  \E f \in [1 .. Cardinality(S) -> S] : Increasing(f, Cardinality(S))
<1> DEFINE Listed(T) == \E f \in [1 .. Cardinality(T) -> T] : Increasing(f, Cardinality(T))
           Bad == {n \in Nat : \E T \in SUBSET (1 .. n) : ~ Listed(T)}
<1>1. SUFFICES ASSUME Bad # {} PROVE FALSE
  BY <1>1
<1>2. PICK n \in Bad : \A i \in Bad : n <= i
  <2>1. Bad \in SUBSET Nat
    OBVIOUS
  <2>2. QED
    BY <1>1, <2>1, LeastNumber
<1>3. n \in Nat /\ \E T \in SUBSET (1 .. n) : ~ Listed(T)
  BY <1>2
<1>4. PICK T \in SUBSET (1 .. n) : ~ Listed(T)
  BY <1>3
<1>5. IsFiniteSet(T) /\ Cardinality(T) \in Nat
  <2>1. IsFiniteSet(1 .. n)
    BY <1>3, FS_Interval
  <2>2. IsFiniteSet(T)
    BY <1>4, <2>1, FS_Subset
  <2>3. QED
    BY <2>2, FS_CardinalityType
<1>6. CASE n = 0
  <2>1. T = {} /\ Cardinality(T) = 0
    <3>1. 1 .. n = {}
      BY <1>6
    <3>2. T = {}
      BY <1>4, <3>1
    <3>3. QED
      BY <3>2, FS_EmptySet
  <2> DEFINE f == [i \in 1 .. 0 |-> 0]
  <2>2. f \in [1 .. Cardinality(T) -> T] /\ Increasing(f, Cardinality(T))
    BY <2>1 DEF Increasing
  <2>3. QED
    BY <1>4, <2>2
<1>7. CASE n # 0
  <2> DEFINE R == T \ {n}
  <2>1. n - 1 \in Nat /\ n - 1 \notin Bad
    BY <1>2, <1>3, <1>7
  <2>2. R \in SUBSET (1 .. n - 1)
    BY <1>3, <1>4
  <2>3. Listed(R)
    BY <2>1, <2>2
  <2>4. n \in T
    <3>1. CASE n \notin T
      <4>1. R = T
        BY <3>1
      <4>2. QED
        BY <1>4, <2>3, <4>1
    <3>2. QED
      BY <3>1
  <2>5. Cardinality(R) = Cardinality(T) - 1 /\ IsFiniteSet(R)
    BY <1>5, <2>4, FS_RemoveElement
  <2>6. PICK g \in [1 .. Cardinality(R) -> R] : Increasing(g, Cardinality(R))
    BY <2>3
  <2> DEFINE c == Cardinality(T)
             f == [i \in 1 .. c |-> IF i < c THEN g[i] ELSE n]
  <2>7. c \in Nat /\ Cardinality(R) = c - 1
    BY <1>5, <2>5
  <2> HIDE DEF c
  <2>8. g \in [1 .. c - 1 -> R] /\ \A i, j \in 1 .. c - 1 : i < j => g[i] < g[j]
    BY <2>6, <2>7 DEF Increasing
  <2>9. \A x \in R : x \in T /\ x \in Nat /\ x < n
    BY <1>3, <2>2
  <2> HIDE DEF R
  <2>10. \A i \in 1 .. c : i < c => i \in 1 .. c - 1
    BY <2>7
  <2>11. f \in [1 .. c -> T]
    BY <2>4, <2>8, <2>9, <2>10
  <2>12. \A i, j \in 1 .. c : i < j => f[i] < f[j]
    <3> SUFFICES ASSUME NEW i \in 1 .. c, NEW j \in 1 .. c, i < j PROVE f[i] < f[j]
      OBVIOUS
    <3>1. i < c /\ i \in 1 .. c - 1 /\ f[i] = g[i]
      BY <2>7
    <3>2. CASE j < c
      BY <2>7, <2>8, <3>1, <3>2
    <3>3. CASE ~(j < c)
      <4>1. f[j] = n
        BY <3>3
      <4>2. g[i] \in R
        BY <2>8, <3>1
      <4>3. QED
        BY <2>9, <3>1, <4>1, <4>2
    <3>4. QED
      BY <3>2, <3>3
  <2>13. Listed(T)
    BY <2>11, <2>12 DEF c, Increasing
  <2>14. QED
    BY <1>4, <2>13
<1>8. QED
  BY <1>6, <1>7

LEMMA AscendingFacts ==
  ASSUME NEW N \in Nat, NEW S \in SUBSET (1 .. N)
  PROVE  /\ Cardinality(S) \in Nat /\ DOMAIN Ascending(S) = 1 .. Cardinality(S)
         /\ \A i \in 1 .. Cardinality(S) : Ascending(S)[i] \in S
         /\ \A i, j \in 1 .. Cardinality(S) : Ascending(S)[i] = Ascending(S)[j] => i = j
         /\ \A x \in S : \E i \in 1 .. Cardinality(S) : Ascending(S)[i] = x
<1> DEFINE c == Cardinality(S)
           f == Ascending(S)
<1>1. IsFiniteSet(S) /\ c \in Nat
  <2>1. IsFiniteSet(1 .. N)
    BY FS_Interval
  <2>2. IsFiniteSet(S)
    BY <2>1, FS_Subset
  <2>3. QED
    BY <2>2, FS_CardinalityType
<1>2. f \in [1 .. c -> S] /\ \A i, j \in 1 .. c : i < j => f[i] < f[j]
  <2>1. \E g \in [1 .. c -> S] : \A i, j \in 1 .. c : i < j => g[i] < g[j]
    BY AscendingExists DEF Increasing
  <2>2. QED
    BY <2>1 DEF Ascending
<1> HIDE DEF f, c
<1>3. \A i \in 1 .. c : f[i] \in S /\ f[i] \in Nat
  <2>1. \A x \in S : x \in Nat
    OBVIOUS
  <2>2. \A i \in 1 .. c : f[i] \in S
    BY <1>2
  <2>3. QED
    BY <2>1, <2>2
<1>4. \A i, j \in 1 .. c : f[i] = f[j] => i = j
  <2> SUFFICES ASSUME NEW i \in 1 .. c, NEW j \in 1 .. c, f[i] = f[j], i # j PROVE FALSE
    OBVIOUS
  <2>1. i < j \/ j < i
    BY <1>1
  <2>2. QED
    BY <1>2, <1>3, <2>1
<1>5. f \in Injection(1 .. c, S)
  BY <1>2, <1>4 DEF Injection, IsInjective
<1>6. Cardinality(1 .. c) = Cardinality(S)
  BY <1>1, FS_Interval DEF c
<1>7. f \in Surjection(1 .. c, S)
  BY <1>1, <1>5, <1>6, FS_Injection
<1>8. \A x \in S : \E i \in 1 .. c : f[i] = x
  BY <1>7 DEF Surjection
<1>9. DOMAIN f = 1 .. c
  BY <1>2
<1>10. QED
  BY <1>1, <1>3, <1>4, <1>8, <1>9 DEF f, c

LEMMA RowFacts ==
  ASSUME NEW map \in Seq(CheckRows)
  PROVE  /\ Len(map) \in Nat /\ DOMAIN map = 1 .. Len(map)
         /\ \A i \in 1 .. Len(map) :
              /\ map[i] \in CheckRows /\ map[i].text \in Texts
              /\ map[i].entries \in Seq(Watches)
              /\ Len(map[i].entries) \in Nat
              /\ DOMAIN map[i].entries = 1 .. Len(map[i].entries)
              /\ \A j \in 1 .. Len(map[i].entries) :
                   /\ map[i].entries[j] \in Watches
                   /\ map[i].entries[j].sentAt \in Nat /\ map[i].entries[j].expiresAt \in Nat
<1>1. Len(map) \in Nat /\ DOMAIN map = 1 .. Len(map)
  BY LenProperties
<1>2. \A i \in 1 .. Len(map) : map[i] \in CheckRows
  BY ElementOfSeq
<1>3. \A row \in CheckRows : row.text \in Texts /\ row.entries \in Seq(Watches)
  BY DEF CheckRows
<1>4. \A s \in Seq(Watches) :
        /\ Len(s) \in Nat /\ DOMAIN s = 1 .. Len(s)
        /\ \A j \in 1 .. Len(s) : s[j] \in Watches
  BY LenProperties, ElementOfSeq
<1>5. \A w \in Watches : w.sentAt \in Nat /\ w.expiresAt \in Nat
  BY DEF Watches
<1>6. QED
  BY <1>1, <1>2, <1>3, <1>4, <1>5

LEMMA WaitersFacts ==
  ASSUME NEW map \in Seq(CheckRows)
  PROVE  /\ \A p \in Waiters(map) : p = <<p[1], p[2]>>
         /\ \A i, j : <<i, j>> \in Waiters(map) <=>
                        i \in 1 .. Len(map) /\ j \in 1 .. Len(map[i].entries)
         /\ IsFiniteSet(Waiters(map)) /\ Size(map) \in Nat
<1> DEFINE Rowed == {{i} \X DOMAIN map[i].entries : i \in DOMAIN map}
<1>1. Waiters(map) = UNION Rowed
  BY DEF Waiters
<1>2. /\ Len(map) \in Nat /\ DOMAIN map = 1 .. Len(map)
      /\ \A i \in 1 .. Len(map) :
           /\ Len(map[i].entries) \in Nat
           /\ DOMAIN map[i].entries = 1 .. Len(map[i].entries)
  BY RowFacts
<1>3. \A p : p \in Waiters(map) <=>
        \E i \in DOMAIN map : p \in {i} \X DOMAIN map[i].entries
  BY <1>1
<1>4. \A p \in Waiters(map) : p = <<p[1], p[2]>>
  BY <1>3
<1>5. \A i, j : <<i, j>> \in Waiters(map) <=>
                 i \in 1 .. Len(map) /\ j \in 1 .. Len(map[i].entries)
  BY <1>2, <1>3
<1>6. IsFiniteSet(Waiters(map))
  <2>1. IsFiniteSet(DOMAIN map)
    BY <1>2, FS_Interval
  <2>2. IsFiniteSet(Rowed)
    <3> DEFINE f == [i \in DOMAIN map |-> {i} \X DOMAIN map[i].entries]
    <3>1. f \in Surjection(DOMAIN map, Rowed)
      <4>1. f \in [DOMAIN map -> Rowed]
        OBVIOUS
      <4>2. \A t \in Rowed : \E i \in DOMAIN map : f[i] = t
        OBVIOUS
      <4>3. QED
        BY <4>1, <4>2 DEF Surjection
    <3>2. QED
      BY <2>1, <3>1, FS_Surjection
  <2>3. \A i \in DOMAIN map : IsFiniteSet({i} \X DOMAIN map[i].entries)
    <3> SUFFICES ASSUME NEW i \in DOMAIN map
                 PROVE  IsFiniteSet({i} \X DOMAIN map[i].entries)
      OBVIOUS
    <3>1. IsFiniteSet({i})
      BY FS_Singleton
    <3>2. IsFiniteSet(DOMAIN map[i].entries)
      <4>1. /\ Len(map[i].entries) \in Int
            /\ DOMAIN map[i].entries = 1 .. Len(map[i].entries)
        BY <1>2
      <4>2. IsFiniteSet(1 .. Len(map[i].entries))
        BY <4>1, FS_Interval
      <4>3. QED
        BY <4>1, <4>2
    <3>3. QED
      BY <3>1, <3>2, FS_Product
  <2>4. \A t \in Rowed : IsFiniteSet(t)
    BY <2>3
  <2>5. QED
    BY <1>1, <2>2, <2>4, FS_UNION
<1>7. Size(map) \in Nat
  BY <1>6, FS_CardinalityType DEF Size
<1>8. QED
  BY <1>4, <1>5, <1>6, <1>7

\* What is left when the empty rows are gone: the other rows, each once.
LEMMA NonEmptyFacts ==
  ASSUME NEW map \in Seq(CheckRows)
  PROVE  \E f : LET left == NonEmpty(map)
                IN /\ left \in Seq(CheckRows)
                   /\ \A n \in 1 .. Len(left) :
                        /\ f[n] \in 1 .. Len(map) /\ left[n] = map[f[n]]
                        /\ left[n].entries # <<>>
                   /\ \A m, n \in 1 .. Len(left) : f[m] = f[n] => m = n
                   /\ \A i \in 1 .. Len(map) :
                        map[i].entries # <<>> => \E n \in 1 .. Len(left) : f[n] = i
<1> DEFINE S == {i \in DOMAIN map : map[i].entries # <<>>}
           f == Ascending(S)
           c == Cardinality(S)
           left == NonEmpty(map)
<1>1. /\ Len(map) \in Nat /\ DOMAIN map = 1 .. Len(map)
      /\ \A i \in 1 .. Len(map) : map[i] \in CheckRows
  BY RowFacts
<1>2. S \in SUBSET (1 .. Len(map))
  BY <1>1
<1>3. left = [n \in DOMAIN f |-> map[f[n]]]
  BY DEF NonEmpty
<1>4. \A i \in S : i \in 1 .. Len(map) /\ map[i].entries # <<>>
  BY <1>1
<1>5. \A i \in 1 .. Len(map) : map[i].entries # <<>> => i \in S
  BY <1>1
<1> HIDE DEF S
<1>6. /\ c \in Nat /\ DOMAIN f = 1 .. c
      /\ \A i \in 1 .. c : f[i] \in S
      /\ \A i, j \in 1 .. c : f[i] = f[j] => i = j
      /\ \A x \in S : \E i \in 1 .. c : f[i] = x
  BY <1>1, <1>2, AscendingFacts
<1> HIDE DEF f, c, left
<1>7. left = [n \in 1 .. c |-> map[f[n]]]
  BY <1>3, <1>6
<1>8. \A n \in 1 .. c : f[n] \in 1 .. Len(map) /\ left[n] = map[f[n]] /\ left[n].entries # <<>>
  BY <1>4, <1>6, <1>7
<1>9. left \in Seq(CheckRows) /\ Len(left) = c
  <2>1. \A n \in 1 .. c : map[f[n]] \in CheckRows
    BY <1>1, <1>8
  <2>2. left \in Seq(CheckRows)
    BY <1>6, <1>7, <2>1, SeqDef
  <2>3. DOMAIN left = 1 .. c
    BY <1>7
  <2>4. QED
    BY <1>6, <2>2, <2>3, LenProperties
<1>10. \A i \in 1 .. Len(map) : map[i].entries # <<>> => \E n \in 1 .. c : f[n] = i
  BY <1>5, <1>6
<1>11. QED
  BY <1>6, <1>8, <1>9, <1>10 DEF left

LEMMA NonEmptyKeeps ==
  ASSUME NEW map \in Seq(CheckRows), NEW at
  PROVE  /\ Tracks(map, at) => Tracks(NonEmpty(map), at)
         /\ Fresh(map, at) => Fresh(NonEmpty(map), at)
         /\ Filled(NonEmpty(map))
         /\ Size(NonEmpty(map)) = Size(map)
<1> DEFINE left == NonEmpty(map)
<1>1. PICK f : /\ left \in Seq(CheckRows)
               /\ \A n \in 1 .. Len(left) :
                    /\ f[n] \in 1 .. Len(map) /\ left[n] = map[f[n]]
                    /\ left[n].entries # <<>>
               /\ \A m, n \in 1 .. Len(left) : f[m] = f[n] => m = n
               /\ \A i \in 1 .. Len(map) :
                    map[i].entries # <<>> => \E n \in 1 .. Len(left) : f[n] = i
  BY NonEmptyFacts
<1> HIDE DEF left
<1>2. Filled(left)
  BY <1>1 DEF Filled
<1>3. Fresh(map, at) => Fresh(left, at)
  BY <1>1 DEF Fresh
<1>4. ASSUME Tracks(map, at)
      PROVE  Tracks(left, at)
  <2>1. \A i, j \in 1 .. Len(left) : left[i].text = left[j].text => i = j
    <3>1. \A i, j \in 1 .. Len(map) : map[i].text = map[j].text => i = j
      BY <1>4 DEF Tracks
    <3>2. \A n \in 1 .. Len(left) : f[n] \in 1 .. Len(map) /\ left[n].text = map[f[n]].text
      BY <1>1
    <3>3. \A i, j \in 1 .. Len(left) : left[i].text = left[j].text => f[i] = f[j]
      BY <3>1, <3>2
    <3>4. QED
      BY <1>1, <3>3
  <2>2. \A i \in 1 .. Len(left) : \A j, k \in 1 .. Len(left[i].entries) :
          j < k => left[i].entries[j].expiresAt <= left[i].entries[k].expiresAt
    BY <1>1, <1>4 DEF Tracks
  <2>3. \A i \in 1 .. Len(left) : \A j \in 1 .. Len(left[i].entries) :
          left[i].entries[j].expiresAt <= at + RepeatTimeoutMs
    BY <1>1, <1>4 DEF Tracks
  <2>4. QED
    BY <1>1, <2>1, <2>2, <2>3 DEF Tracks
<1>5. Size(left) = Size(map)
  <2> DEFINE A == Waiters(left)
             B == Waiters(map)
             g == [p \in A |-> <<f[p[1]], p[2]>>]
  <2>1. /\ \A p \in A : p = <<p[1], p[2]>>
        /\ \A i, j : <<i, j>> \in A <=> i \in 1 .. Len(left) /\ j \in 1 .. Len(left[i].entries)
        /\ IsFiniteSet(A)
    BY <1>1, WaitersFacts
  <2>2. /\ \A p \in B : p = <<p[1], p[2]>>
        /\ \A i, j : <<i, j>> \in B <=> i \in 1 .. Len(map) /\ j \in 1 .. Len(map[i].entries)
    BY WaitersFacts
  <2> HIDE DEF A, B
  <2>3. \A p \in A : p[1] \in 1 .. Len(left) /\ p[2] \in 1 .. Len(left[p[1]].entries)
    BY <2>1
  <2>4. \A p \in A : <<f[p[1]], p[2]>> \in B
    BY <1>1, <2>2, <2>3
  <2>5. g \in [A -> B]
    BY <2>4
  <2>6. \A p, q \in A : g[p] = g[q] => p = q
    <3> SUFFICES ASSUME NEW p \in A, NEW q \in A, g[p] = g[q] PROVE p = q
      OBVIOUS
    <3>1. f[p[1]] = f[q[1]] /\ p[2] = q[2]
      OBVIOUS
    <3>2. p[1] = q[1]
      BY <1>1, <2>3, <3>1
    <3>3. QED
      BY <2>1, <3>1, <3>2
  <2>7. \A q \in B : \E p \in A : g[p] = q
    <3> SUFFICES ASSUME NEW q \in B PROVE \E p \in A : g[p] = q
      OBVIOUS
    <3>1. q = <<q[1], q[2]>> /\ q[1] \in 1 .. Len(map) /\ q[2] \in 1 .. Len(map[q[1]].entries)
      BY <2>2
    <3>2. map[q[1]].entries # <<>>
      BY <3>1, EmptySeq
    <3>3. PICK n \in 1 .. Len(left) : f[n] = q[1]
      BY <1>1, <3>1, <3>2
    <3>4. <<n, q[2]>> \in A
      BY <1>1, <2>1, <3>1, <3>3
    <3>5. g[<<n, q[2]>>] = q
      BY <3>1, <3>3, <3>4
    <3>6. QED
      BY <3>4, <3>5
  <2> HIDE DEF g
  <2>8. g \in Bijection(A, B)
    BY <2>5, <2>6, <2>7 DEF Bijection, Injection, Surjection, IsInjective
  <2>9. ExistsBijection(A, B)
    BY <2>8 DEF ExistsBijection
  <2>10. Cardinality(B) = Cardinality(A)
    BY <2>1, <2>9, FS_Bijection
  <2>11. QED
    BY <2>10 DEF Size, A, B
<1>6. QED
  BY <1>2, <1>3, <1>4, <1>5 DEF left

\* The scan of a text takes off what has expired and nothing else.
LEMMA WaitingFacts ==
  ASSUME NEW s \in Seq(Watches), NEW at \in Nat,
         \A j, k \in 1 .. Len(s) : j < k => s[j].expiresAt <= s[k].expiresAt
  PROVE  \E d \in 0 .. Len(s) :
           LET rest == Waiting(s, at)
           IN /\ rest \in Seq(Watches) /\ Len(rest) = Len(s) - d
              /\ \A j \in 1 .. Len(s) - d : rest[j] = s[j + d] /\ rest[j].expiresAt > at
<1> DEFINE InTime == {i \in DOMAIN s : ~Overdue(s[i], at)}
           first == CHOOSE i \in InTime : \A j \in InTime : i <= j
           rest == Waiting(s, at)
<1>1. Len(s) \in Nat /\ DOMAIN s = 1 .. Len(s)
  BY LenProperties
<1>2. \A j \in 1 .. Len(s) : s[j].expiresAt \in Nat
  <2>1. \A j \in 1 .. Len(s) : s[j] \in Watches
    BY ElementOfSeq
  <2>2. \A w \in Watches : w.expiresAt \in Nat
    BY DEF Watches
  <2>3. QED
    BY <2>1, <2>2
<1>3. CASE InTime = {}
  <2>1. rest = <<>>
    BY <1>3 DEF Waiting
  <2>2. rest \in Seq(Watches) /\ Len(rest) = Len(s) - Len(s)
    BY <1>1, <2>1, EmptySeq
  <2>3. Len(s) \in 0 .. Len(s) /\ 1 .. Len(s) - Len(s) = {}
    BY <1>1
  <2>4. QED
    BY <2>2, <2>3
<1>4. CASE InTime # {}
  <2>1. rest = SubSeq(s, first, Len(s))
    BY <1>4 DEF Waiting
  <2>2. first \in InTime
    <3>1. InTime \in SUBSET Nat
      BY <1>1
    <3>2. \E i \in InTime : \A j \in InTime : i <= j
      BY <1>4, <3>1, LeastNumber
    <3>3. QED
      BY <3>2
  <2> HIDE DEF first
  <2>3. first \in 1 .. Len(s) /\ s[first].expiresAt > at
    BY <1>1, <1>2, <2>2 DEF Overdue
  <2>4. first - 1 \in 0 .. Len(s) /\ Len(s) - first + 1 = Len(s) - (first - 1)
    BY <1>1, <2>3
  <2>5. first \in 1 .. Len(s) + 1
    BY <1>1, <2>3
  <2>6. /\ rest \in Seq(Watches) /\ Len(rest) = Len(s) - first + 1
        /\ \A j \in 1 .. Len(s) - first + 1 : rest[j] = s[j + first - 1]
    BY <2>1, <2>5, SuffixFacts
  <2>7. ASSUME NEW j \in 1 .. Len(s) - (first - 1)
        PROVE  rest[j] = s[j + (first - 1)] /\ rest[j].expiresAt > at
    <3>1. /\ j \in 1 .. Len(s) - first + 1 /\ j + first - 1 = j + (first - 1)
          /\ j + first - 1 \in 1 .. Len(s)
      BY <1>1, <2>3
    <3>2. rest[j] = s[j + first - 1]
      BY <2>6, <3>1
    <3>3. s[first].expiresAt <= s[j + first - 1].expiresAt
      <4>1. first <= j + first - 1 /\ first \in 1 .. Len(s)
        BY <1>1, <2>3
      <4>2. CASE first < j + first - 1
        BY <1>2, <3>1, <4>1, <4>2
      <4>3. CASE first = j + first - 1
        BY <1>2, <4>1, <4>3
      <4>4. QED
        BY <1>1, <4>1, <4>2, <4>3
    <3>4. QED
      BY <1>2, <2>3, <3>1, <3>2, <3>3
  <2>8. QED
    BY <2>4, <2>6, <2>7
<1>5. QED
  BY <1>3, <1>4

\* What EvictExpired leaves is younger, and not more than before.
LEMMA EvictExpiredFacts ==
  ASSUME NEW map, NEW at \in Nat, Tracks(map, at)
  PROVE  LET young == EvictExpired(map, at)
         IN Tracks(young, at) /\ Fresh(young, at) /\ Filled(young) /\ Size(young) <= Size(map)
<1> DEFINE aged == [i \in DOMAIN map |-> [map[i] EXCEPT !.entries = Waiting(@, at)]]
<1>1. /\ map \in Seq(CheckRows)
      /\ \A i, j \in 1 .. Len(map) : map[i].text = map[j].text => i = j
      /\ \A i \in 1 .. Len(map) : \A j, k \in 1 .. Len(map[i].entries) :
           j < k => map[i].entries[j].expiresAt <= map[i].entries[k].expiresAt
      /\ \A i \in 1 .. Len(map) : \A j \in 1 .. Len(map[i].entries) :
           map[i].entries[j].expiresAt <= at + RepeatTimeoutMs
  BY DEF Tracks
<1>2. /\ Len(map) \in Nat /\ DOMAIN map = 1 .. Len(map)
      /\ \A i \in 1 .. Len(map) :
           /\ map[i] \in CheckRows /\ map[i].text \in Texts
           /\ map[i].entries \in Seq(Watches) /\ Len(map[i].entries) \in Nat
  BY <1>1, RowFacts
<1>3. EvictExpired(map, at) = NonEmpty(aged)
  BY DEF EvictExpired
<1>4. ASSUME NEW i \in 1 .. Len(map)
      PROVE  /\ aged[i] = [text |-> map[i].text, entries |-> Waiting(map[i].entries, at)]
             /\ aged[i].text = map[i].text
             /\ aged[i].entries = Waiting(map[i].entries, at)
  <2>1. aged[i] = [map[i] EXCEPT !.entries = Waiting(map[i].entries, at)]
    BY <1>2
  <2>2. map[i] = [text |-> map[i].text, entries |-> map[i].entries]
    BY <1>2 DEF CheckRows
  <2>3. QED
    BY <2>1, <2>2
<1>5. \A i \in 1 .. Len(map) : \E d \in 0 .. Len(map[i].entries) :
        /\ aged[i].entries \in Seq(Watches)
        /\ Len(aged[i].entries) = Len(map[i].entries) - d
        /\ \A j \in 1 .. Len(map[i].entries) - d :
             aged[i].entries[j] = map[i].entries[j + d] /\ aged[i].entries[j].expiresAt > at
  <2> SUFFICES ASSUME NEW i \in 1 .. Len(map)
               PROVE  \E d \in 0 .. Len(map[i].entries) :
                        /\ aged[i].entries \in Seq(Watches)
                        /\ Len(aged[i].entries) = Len(map[i].entries) - d
                        /\ \A j \in 1 .. Len(map[i].entries) - d :
                             /\ aged[i].entries[j] = map[i].entries[j + d]
                             /\ aged[i].entries[j].expiresAt > at
    OBVIOUS
  <2> DEFINE old == map[i].entries
  <2>1. /\ old \in Seq(Watches)
        /\ \A j, k \in 1 .. Len(old) : j < k => old[j].expiresAt <= old[k].expiresAt
    BY <1>1, <1>2
  <2> HIDE DEF old
  <2>2. \E d \in 0 .. Len(old) :
          /\ Waiting(old, at) \in Seq(Watches) /\ Len(Waiting(old, at)) = Len(old) - d
          /\ \A j \in 1 .. Len(old) - d :
               Waiting(old, at)[j] = old[j + d] /\ Waiting(old, at)[j].expiresAt > at
    BY <2>1, WaitingFacts
  <2>3. aged[i].entries = Waiting(old, at)
    BY <1>4 DEF old
  <2> HIDE DEF aged
  <2>4. QED
    BY <2>2, <2>3 DEF old
<1>6. DOMAIN aged = 1 .. Len(map)
  BY <1>2
<1>7. \A i \in 1 .. Len(map) : aged[i] \in CheckRows
  BY <1>2, <1>4, <1>5 DEF CheckRows
<1>8. aged \in Seq(CheckRows) /\ Len(aged) = Len(map)
  <2>1. aged = [i \in 1 .. Len(map) |-> aged[i]]
    BY <1>2
  <2> HIDE DEF aged
  <2>2. aged \in Seq(CheckRows)
    BY <1>2, <1>7, <2>1, SeqDef
  <2>3. QED
    BY <1>2, <1>6, <2>2, LenProperties
<1> HIDE DEF aged
<1>9. ASSUME NEW i \in 1 .. Len(map)
      PROVE  /\ \A j, k \in 1 .. Len(aged[i].entries) :
                  j < k => aged[i].entries[j].expiresAt <= aged[i].entries[k].expiresAt
             /\ \A j \in 1 .. Len(aged[i].entries) :
                  /\ aged[i].entries[j].expiresAt <= at + RepeatTimeoutMs
                  /\ aged[i].entries[j].expiresAt > at
             /\ Len(aged[i].entries) \in Nat /\ Len(aged[i].entries) <= Len(map[i].entries)
  <2>1. PICK d \in 0 .. Len(map[i].entries) :
          /\ Len(aged[i].entries) = Len(map[i].entries) - d
          /\ \A j \in 1 .. Len(map[i].entries) - d :
               aged[i].entries[j] = map[i].entries[j + d] /\ aged[i].entries[j].expiresAt > at
    BY <1>5
  <2>2. Len(map[i].entries) \in Nat
    BY <1>2
  <2> DEFINE n == Len(map[i].entries)
             old == map[i].entries
             rest == aged[i].entries
  <2>3. /\ \A j, k \in 1 .. n : j < k => old[j].expiresAt <= old[k].expiresAt
        /\ \A j \in 1 .. n : old[j].expiresAt <= at + RepeatTimeoutMs
    BY <1>1
  <2>4. /\ n \in Nat /\ d \in 0 .. n /\ Len(rest) = n - d
        /\ \A j \in 1 .. n - d : rest[j] = old[j + d] /\ rest[j].expiresAt > at
    BY <2>1, <2>2
  <2> HIDE DEF n, old, rest
  <2>5. \A j \in 1 .. n - d : j + d \in 1 .. n
    BY <2>4
  <2>6. /\ \A j, k \in 1 .. n - d : j < k => rest[j].expiresAt <= rest[k].expiresAt
        /\ \A j \in 1 .. n - d : rest[j].expiresAt <= at + RepeatTimeoutMs
    <3>1. \A j, k \in 1 .. n - d : j < k => j + d < k + d
      BY <2>4
    <3>2. QED
      BY <2>3, <2>4, <2>5, <3>1
  <2>7. n - d \in Nat /\ n - d <= n
    BY <2>4
  <2>8. QED
    BY <2>4, <2>6, <2>7 DEF n, rest
<1>10. Tracks(aged, at) /\ Fresh(aged, at)
  <2>1. \A i, j \in 1 .. Len(map) : aged[i].text = aged[j].text => i = j
    BY <1>1, <1>4
  <2>2. QED
    BY <1>8, <1>9, <2>1 DEF Tracks, Fresh
<1>11. Size(aged) <= Size(map)
  <2>1. /\ \A p \in Waiters(aged) : p = <<p[1], p[2]>>
        /\ \A i, j : <<i, j>> \in Waiters(aged) <=>
                       i \in 1 .. Len(aged) /\ j \in 1 .. Len(aged[i].entries)
    BY <1>8, WaitersFacts
  <2>2. /\ \A i, j : <<i, j>> \in Waiters(map) <=>
                       i \in 1 .. Len(map) /\ j \in 1 .. Len(map[i].entries)
        /\ IsFiniteSet(Waiters(map))
    BY <1>1, WaitersFacts
  <2>3. \A i \in 1 .. Len(map) : \A j \in 1 .. Len(aged[i].entries) : j \in 1 .. Len(map[i].entries)
    BY <1>2, <1>9
  <2>4. Waiters(aged) \subseteq Waiters(map)
    <3> SUFFICES ASSUME NEW p \in Waiters(aged) PROVE p \in Waiters(map)
      OBVIOUS
    <3>1. p = <<p[1], p[2]>> /\ p[1] \in 1 .. Len(map) /\ p[2] \in 1 .. Len(aged[p[1]].entries)
      BY <1>8, <2>1
    <3>2. QED
      BY <2>2, <2>3, <3>1
  <2>5. QED
    BY <2>2, <2>4, FS_Subset DEF Size
<1>12. QED
  BY <1>3, <1>8, <1>10, <1>11, NonEmptyKeeps

\* A registration adds one entry, which expires last.
LEMMA PushFacts ==
  ASSUME NEW map, NEW at \in Nat, NEW t \in Texts,
         Tracks(map, at), Fresh(map, at), Filled(map)
  PROVE  LET more == Push(map, t, at)
         IN Tracks(more, at) /\ Fresh(more, at) /\ Filled(more) /\ Size(more) = Size(map) + 1
<1> DEFINE more == Push(map, t, at)
           e == Entry(at)
           last == at + RepeatTimeoutMs
<1>1. /\ map \in Seq(CheckRows)
      /\ \A i, j \in 1 .. Len(map) : map[i].text = map[j].text => i = j
      /\ \A i \in 1 .. Len(map) : \A j, k \in 1 .. Len(map[i].entries) :
           j < k => map[i].entries[j].expiresAt <= map[i].entries[k].expiresAt
      /\ \A i \in 1 .. Len(map) : \A j \in 1 .. Len(map[i].entries) :
           map[i].entries[j].expiresAt <= last
  BY DEF Tracks
<1>2. /\ Len(map) \in Nat /\ DOMAIN map = 1 .. Len(map)
      /\ \A i \in 1 .. Len(map) :
           /\ map[i] \in CheckRows /\ map[i].text \in Texts
           /\ map[i].entries \in Seq(Watches) /\ Len(map[i].entries) \in Nat
  BY <1>1, RowFacts
<1>3. /\ e \in Watches /\ e.sentAt = at /\ e.expiresAt = last
      /\ last \in Nat /\ (last > at \/ RepeatTimeoutMs = 0)
  BY RepeatAssumption DEF Entry, Watches
<1>4. /\ \A i, j : <<i, j>> \in Waiters(map) <=>
                    i \in 1 .. Len(map) /\ j \in 1 .. Len(map[i].entries)
      /\ \A p \in Waiters(map) : p = <<p[1], p[2]>>
      /\ IsFiniteSet(Waiters(map))
  BY <1>1, WaitersFacts
<1>5. \A s \in Seq(Watches) :
        /\ Append(s, e) \in Seq(Watches) /\ Len(Append(s, e)) = Len(s) + 1
        /\ \A j \in 1 .. Len(s) : Append(s, e)[j] = s[j]
        /\ Append(s, e)[Len(s) + 1] = e
  BY <1>3, AppendProperties
<1> HIDE DEF e, last
<1>6. CASE Rows(map, t) = {}
  <2> DEFINE row == [text |-> t, entries |-> <<e>>]
             n == Len(map) + 1
  <2>1. more = Append(map, row)
    BY <1>6 DEF Push, e
  <2>2. <<e>> \in Seq(Watches) /\ Len(<<e>>) = 1 /\ <<e>>[1] = e /\ <<e>> # <<>>
    BY <1>3
  <2>3. row \in CheckRows /\ row.text = t /\ row.entries = <<e>>
    BY <2>2 DEF CheckRows
  <2> HIDE DEF row, more
  <2>4. /\ more \in Seq(CheckRows) /\ Len(more) = n
        /\ \A i \in 1 .. Len(map) : more[i] = map[i]
        /\ more[n] = row
    BY <1>1, <2>1, <2>3, AppendProperties
  <2>5. \A i \in 1 .. n : i \in 1 .. Len(map) \/ i = n
    BY <1>2
  <2> HIDE DEF n
  <2>6. \A i \in 1 .. Len(map) : map[i].text # t
    BY <1>2, <1>6 DEF Rows
  <2>7. \A i, j \in 1 .. n : more[i].text = more[j].text => i = j
    BY <1>1, <2>3, <2>4, <2>5, <2>6
  <2>8. /\ more[n].entries = <<e>> /\ Len(more[n].entries) = 1 /\ more[n].entries[1] = e
        /\ \A j \in 1 .. Len(more[n].entries) : j = 1
    <3>1. more[n].entries = <<e>>
      BY <2>3, <2>4
    <3>2. \A j \in 1 .. 1 : j = 1
      OBVIOUS
    <3>3. QED
      BY <2>2, <3>1, <3>2
  <2>9. ASSUME NEW i \in 1 .. n
        PROVE  /\ \A j, k \in 1 .. Len(more[i].entries) :
                    j < k => more[i].entries[j].expiresAt <= more[i].entries[k].expiresAt
               /\ \A j \in 1 .. Len(more[i].entries) :
                    /\ more[i].entries[j].expiresAt <= last
                    /\ \/ more[i].entries[j].expiresAt > at
                       \/ RepeatTimeoutMs = 0 /\ more[i].entries[j].sentAt = at
               /\ more[i].entries # <<>>
    <3>1. CASE i \in 1 .. Len(map)
      <4> DEFINE old == map[i].entries
      <4>1. /\ \A j, k \in 1 .. Len(old) : j < k => old[j].expiresAt <= old[k].expiresAt
            /\ \A j \in 1 .. Len(old) : old[j].expiresAt <= last
        BY <1>1, <3>1
      <4>2. /\ \A j \in 1 .. Len(old) :
                 old[j].expiresAt > at \/ (RepeatTimeoutMs = 0 /\ old[j].sentAt = at)
            /\ old # <<>>
        BY <3>1 DEF Fresh, Filled
      <4>3. more[i].entries = old
        BY <2>4, <3>1
      <4> HIDE DEF old
      <4>4. QED
        BY <4>1, <4>2, <4>3
    <3>2. CASE i = n
      <4>1. \A j \in 1 .. Len(more[n].entries) : j = 1 /\ more[n].entries[j] = e
        BY <2>8
      <4>2. more[n].entries # <<>>
        BY <2>2, <2>8
      <4>3. \A j, k \in 1 .. Len(more[n].entries) : ~(j < k)
        BY <4>1
      <4>4. QED
        BY <1>3, <3>2, <4>1, <4>2, <4>3
    <3>3. QED
      BY <2>5, <3>1, <3>2
  <2>10. Tracks(more, at) /\ Fresh(more, at) /\ Filled(more)
    BY <2>4, <2>7, <2>9 DEF Tracks, Fresh, Filled, last
  <2>11. Size(more) = Size(map) + 1
    <3>1. /\ \A i, j : <<i, j>> \in Waiters(more) <=>
                        i \in 1 .. n /\ j \in 1 .. Len(more[i].entries)
          /\ \A p \in Waiters(more) : p = <<p[1], p[2]>>
      BY <2>4, WaitersFacts
    <3>2. \A i, j : <<i, j>> \in Waiters(more) <=> <<i, j>> \in Waiters(map) \/ (i = n /\ j = 1)
      <4> SUFFICES ASSUME NEW i, NEW j
                   PROVE  <<i, j>> \in Waiters(more) <=> <<i, j>> \in Waiters(map) \/ (i = n /\ j = 1)
        OBVIOUS
      <4>1. 1 \in 1 .. 1 /\ \A x \in 1 .. Len(map) : x \in 1 .. n
        BY <1>2 DEF n
      <4>2. n \in 1 .. n /\ n \notin 1 .. Len(map)
        BY <1>2 DEF n
      <4>3. CASE i = n
        BY <1>4, <2>8, <3>1, <4>1, <4>2, <4>3
      <4>4. CASE i # n
        BY <1>4, <2>4, <2>5, <3>1, <4>1, <4>4
      <4>5. QED
        BY <4>3, <4>4
    <3>3. Waiters(more) = Waiters(map) \cup {<<n, 1>>}
      BY <1>4, <3>1, <3>2
    <3>4. <<n, 1>> \notin Waiters(map)
      BY <1>2, <1>4 DEF n
    <3> DEFINE w == <<n, 1>>
    <3>5. Waiters(more) = Waiters(map) \cup {w} /\ w \notin Waiters(map)
      BY <3>3, <3>4
    <3> HIDE DEF w
    <3>6. Cardinality(Waiters(map) \cup {w}) = Cardinality(Waiters(map)) + 1
      BY <1>4, <3>5, FS_AddElement
    <3>7. QED
      BY <3>5, <3>6 DEF Size
  <2>12. QED
    BY <2>10, <2>11 DEF more
<1>7. CASE Rows(map, t) # {}
  <2>1. PICK r \in 1 .. Len(map) : map[r].text = t
    BY <1>2, <1>7 DEF Rows
  <2>2. more = [i \in DOMAIN map |->
                  IF map[i].text = t THEN [map[i] EXCEPT !.entries = Append(@, e)] ELSE map[i]]
    BY <1>7 DEF Push, e
  <2>3. \A i \in 1 .. Len(map) : map[i].text = t <=> i = r
    BY <1>1, <2>1
  <2> DEFINE old == map[r].entries
             new == Append(old, e)
  <2>4. /\ old \in Seq(Watches) /\ Len(old) \in Nat
        /\ new \in Seq(Watches) /\ Len(new) = Len(old) + 1
        /\ \A j \in 1 .. Len(old) : new[j] = old[j]
        /\ new[Len(old) + 1] = e
    BY <1>2, <1>5
  <2>5. [map[r] EXCEPT !.entries = new] = [text |-> t, entries |-> new]
    BY <1>2, <2>1 DEF CheckRows
  <2>6. more = [i \in 1 .. Len(map) |-> IF i = r THEN [text |-> t, entries |-> new] ELSE map[i]]
    BY <1>2, <2>2, <2>3, <2>5
  <2> HIDE DEF more, new, old
  <2>7. [text |-> t, entries |-> new] \in CheckRows
    BY <2>4 DEF CheckRows
  <2>8. /\ DOMAIN more = 1 .. Len(map) /\ more[r].text = t /\ more[r].entries = new
        /\ \A i \in 1 .. Len(map) : i # r => more[i] = map[i]
    BY <2>6
  <2>9. more \in Seq(CheckRows) /\ Len(more) = Len(map)
    <3>1. more \in Seq(CheckRows)
      BY <1>2, <2>6, <2>7, SeqDef
    <3>2. QED
      BY <1>2, <2>8, <3>1, LenProperties
  <2>10. \A i \in 1 .. Len(map) : more[i].text = map[i].text
    BY <2>1, <2>8
  <2>11. /\ \A j, k \in 1 .. Len(old) : j < k => old[j].expiresAt <= old[k].expiresAt
         /\ \A j \in 1 .. Len(old) :
              /\ old[j].expiresAt <= last
              /\ old[j].expiresAt > at \/ (RepeatTimeoutMs = 0 /\ old[j].sentAt = at)
    BY <1>1 DEF old, Fresh
  <2>12. \A j \in 1 .. Len(new) : j \in 1 .. Len(old) \/ j = Len(old) + 1
    BY <2>4
  <2>13. /\ \A j, k \in 1 .. Len(new) : j < k => new[j].expiresAt <= new[k].expiresAt
         /\ \A j \in 1 .. Len(new) :
              /\ new[j].expiresAt <= last
              /\ new[j].expiresAt > at \/ (RepeatTimeoutMs = 0 /\ new[j].sentAt = at)
         /\ new # <<>>
    <3>1. ASSUME NEW j \in 1 .. Len(new), NEW k \in 1 .. Len(new), j < k
          PROVE  new[j].expiresAt <= new[k].expiresAt
      <4>1. j \in 1 .. Len(old)
        BY <2>4, <3>1
      <4>2. CASE k \in 1 .. Len(old)
        BY <2>4, <2>11, <3>1, <4>1, <4>2
      <4>3. CASE k = Len(old) + 1
        BY <1>3, <2>4, <2>11, <4>1, <4>3
      <4>4. QED
        BY <2>12, <4>2, <4>3
    <3>2. ASSUME NEW j \in 1 .. Len(new)
          PROVE  /\ new[j].expiresAt <= last
                 /\ new[j].expiresAt > at \/ (RepeatTimeoutMs = 0 /\ new[j].sentAt = at)
      <4>1. CASE j \in 1 .. Len(old)
        BY <2>4, <2>11, <4>1
      <4>2. CASE j = Len(old) + 1
        BY <1>3, <2>4, <4>2
      <4>3. QED
        BY <2>12, <4>1, <4>2
    <3>3. new # <<>>
      BY <2>4, EmptySeq
    <3>4. QED
      BY <3>1, <3>2, <3>3
  <2>14. ASSUME NEW i \in 1 .. Len(map)
         PROVE  /\ \A j, k \in 1 .. Len(more[i].entries) :
                     j < k => more[i].entries[j].expiresAt <= more[i].entries[k].expiresAt
                /\ \A j \in 1 .. Len(more[i].entries) :
                     /\ more[i].entries[j].expiresAt <= last
                     /\ \/ more[i].entries[j].expiresAt > at
                        \/ RepeatTimeoutMs = 0 /\ more[i].entries[j].sentAt = at
                /\ more[i].entries # <<>>
    <3>1. CASE i = r
      BY <2>8, <2>13, <3>1
    <3>2. CASE i # r
      BY <1>1, <2>8, <3>2 DEF Fresh, Filled
    <3>3. QED
      BY <3>1, <3>2
  <2>15. Tracks(more, at) /\ Fresh(more, at) /\ Filled(more)
    BY <1>1, <2>9, <2>10, <2>14 DEF Tracks, Fresh, Filled, last
  <2>16. Size(more) = Size(map) + 1
    <3> DEFINE n == Len(old) + 1
    <3>1. /\ \A i, j : <<i, j>> \in Waiters(more) <=>
                        i \in 1 .. Len(map) /\ j \in 1 .. Len(more[i].entries)
          /\ \A p \in Waiters(more) : p = <<p[1], p[2]>>
      BY <2>9, WaitersFacts
    <3>2. \A j : j \in 1 .. Len(new) <=> j \in 1 .. Len(old) \/ j = n
      BY <2>4
    <3>3. n \notin 1 .. Len(old)
      BY <2>4
    <3> HIDE DEF n
    <3>4. \A i, j : <<i, j>> \in Waiters(more) <=> <<i, j>> \in Waiters(map) \/ (i = r /\ j = n)
      <4> SUFFICES ASSUME NEW i, NEW j
                   PROVE  <<i, j>> \in Waiters(more) <=> <<i, j>> \in Waiters(map) \/ (i = r /\ j = n)
        OBVIOUS
      <4>1. CASE i = r
        BY <1>4, <2>8, <3>1, <3>2, <4>1 DEF old
      <4>2. CASE i # r
        BY <1>4, <2>8, <3>1, <4>2
      <4>3. QED
        BY <4>1, <4>2
    <3>5. Waiters(more) = Waiters(map) \cup {<<r, n>>}
      BY <1>4, <3>1, <3>4
    <3>6. <<r, n>> \notin Waiters(map)
      BY <1>4, <3>3 DEF old
    <3>7. IsFiniteSet(Waiters(map)) /\ Size(map) = Cardinality(Waiters(map))
      BY <1>4 DEF Size
    <3>8. Cardinality(Waiters(map) \cup {<<r, n>>}) = Cardinality(Waiters(map)) + 1
      BY <3>6, <3>7, FS_AddElement
    <3>9. QED
      BY <3>5, <3>7, <3>8 DEF Size
  <2>17. QED
    BY <2>15, <2>16 DEF more
<1>8. QED
  BY <1>6, <1>7

\* The oldest entry of a text goes, and nothing else.
LEMMA ShiftFacts ==
  ASSUME NEW map, NEW at, NEW r, r \in 1 .. Len(map),
         Tracks(map, at), Fresh(map, at), Filled(map)
  PROVE  LET less == Shift(map, map[r].text)
         IN Tracks(less, at) /\ Fresh(less, at) /\ Filled(less) /\ Size(less) = Size(map) - 1
<1> DEFINE t == map[r].text
           old == map[r].entries
           new == Tail(old)
           less == [i \in DOMAIN map |->
                      IF map[i].text = t THEN [map[i] EXCEPT !.entries = Tail(@)] ELSE map[i]]
<1>1. /\ map \in Seq(CheckRows)
      /\ \A i, j \in 1 .. Len(map) : map[i].text = map[j].text => i = j
      /\ \A i \in 1 .. Len(map) : \A j, k \in 1 .. Len(map[i].entries) :
           j < k => map[i].entries[j].expiresAt <= map[i].entries[k].expiresAt
      /\ \A i \in 1 .. Len(map) : \A j \in 1 .. Len(map[i].entries) :
           map[i].entries[j].expiresAt <= at + RepeatTimeoutMs
  BY DEF Tracks
<1>2. /\ Len(map) \in Nat /\ DOMAIN map = 1 .. Len(map)
      /\ \A i \in 1 .. Len(map) :
           /\ map[i] \in CheckRows /\ map[i].text \in Texts
           /\ map[i].entries \in Seq(Watches) /\ Len(map[i].entries) \in Nat
  BY <1>1, RowFacts
<1>3. \A i \in 1 .. Len(map) : map[i].text = t <=> i = r
  BY <1>1
<1>4. old \in Seq(Watches) /\ Len(old) \in Nat /\ old # <<>>
  BY <1>2 DEF Filled
<1>5. /\ new \in Seq(Watches) /\ Len(new) = Len(old) - 1 /\ Len(old) >= 1
      /\ \A j \in 1 .. Len(old) - 1 : new[j] = old[j + 1]
  BY <1>4, HeadTailProperties, EmptySeq
<1>6. [map[r] EXCEPT !.entries = new] = [text |-> t, entries |-> new]
  <2>1. map[r] = [text |-> map[r].text, entries |-> map[r].entries]
    BY <1>2 DEF CheckRows
  <2> HIDE DEF new
  <2>2. QED
    BY <2>1
<1>7. less = [i \in 1 .. Len(map) |-> IF i = r THEN [text |-> t, entries |-> new] ELSE map[i]]
  BY <1>2, <1>3, <1>6
<1>8. Shift(map, t) = NonEmpty(less)
  BY DEF Shift
<1>9. t \in Texts
  BY <1>2
<1>10. /\ \A j, k \in 1 .. Len(old) : j < k => old[j].expiresAt <= old[k].expiresAt
       /\ \A j \in 1 .. Len(old) :
            /\ old[j].expiresAt <= at + RepeatTimeoutMs
            /\ old[j].expiresAt > at \/ (RepeatTimeoutMs = 0 /\ old[j].sentAt = at)
  BY <1>1 DEF Fresh
<1>11. \A j : j \in 1 .. Len(map[r].entries) <=> j \in 1 .. Len(old)
  OBVIOUS
<1> HIDE DEF less, new, old, t
<1>12. [text |-> t, entries |-> new] \in CheckRows
  BY <1>5, <1>9 DEF CheckRows
<1>13. /\ DOMAIN less = 1 .. Len(map) /\ less[r].text = t /\ less[r].entries = new
       /\ \A i \in 1 .. Len(map) : i # r => less[i] = map[i]
  BY <1>7
<1>14. less \in Seq(CheckRows) /\ Len(less) = Len(map)
  <2>1. less \in Seq(CheckRows)
    BY <1>2, <1>7, <1>12, SeqDef
  <2>2. QED
    BY <1>2, <1>13, <2>1, LenProperties
<1>15. \A i \in 1 .. Len(map) : less[i].text = map[i].text
  BY <1>13 DEF t
<1>16. /\ \A j, k \in 1 .. Len(new) : j < k => new[j].expiresAt <= new[k].expiresAt
       /\ \A j \in 1 .. Len(new) :
            /\ new[j].expiresAt <= at + RepeatTimeoutMs
            /\ new[j].expiresAt > at \/ (RepeatTimeoutMs = 0 /\ new[j].sentAt = at)
  <2>1. \A j \in 1 .. Len(new) : j + 1 \in 1 .. Len(old) /\ new[j] = old[j + 1]
    BY <1>4, <1>5
  <2>2. \A j, k \in 1 .. Len(new) : j < k => j + 1 < k + 1
    BY <1>4, <1>5
  <2>3. QED
    BY <1>10, <2>1, <2>2
<1>17. ASSUME NEW i \in 1 .. Len(map)
       PROVE  /\ \A j, k \in 1 .. Len(less[i].entries) :
                   j < k => less[i].entries[j].expiresAt <= less[i].entries[k].expiresAt
              /\ \A j \in 1 .. Len(less[i].entries) :
                   /\ less[i].entries[j].expiresAt <= at + RepeatTimeoutMs
                   /\ \/ less[i].entries[j].expiresAt > at
                      \/ RepeatTimeoutMs = 0 /\ less[i].entries[j].sentAt = at
  <2>1. CASE i = r
    BY <1>13, <1>16, <2>1
  <2>2. CASE i # r
    BY <1>1, <1>13, <2>2 DEF Fresh
  <2>3. QED
    BY <2>1, <2>2
<1>18. Tracks(less, at) /\ Fresh(less, at)
  BY <1>1, <1>14, <1>15, <1>17 DEF Tracks, Fresh
<1>19. Size(less) = Size(map) - 1
  <2> DEFINE n == Len(old)
  <2>1. /\ \A i, j : <<i, j>> \in Waiters(less) <=>
                      i \in 1 .. Len(map) /\ j \in 1 .. Len(less[i].entries)
        /\ \A p \in Waiters(less) : p = <<p[1], p[2]>>
    BY <1>14, WaitersFacts
  <2>2. /\ \A i, j : <<i, j>> \in Waiters(map) <=>
                      i \in 1 .. Len(map) /\ j \in 1 .. Len(map[i].entries)
        /\ \A p \in Waiters(map) : p = <<p[1], p[2]>>
        /\ IsFiniteSet(Waiters(map))
    BY <1>1, WaitersFacts
  <2>3. \A j : j \in 1 .. Len(new) <=> j \in 1 .. n /\ j # n
    BY <1>4, <1>5
  <2>4. n \in 1 .. n
    BY <1>4, <1>5
  <2> HIDE DEF n
  <2>5. \A i, j : <<i, j>> \in Waiters(less) <=> <<i, j>> \in Waiters(map) /\ ~(i = r /\ j = n)
    <3> SUFFICES ASSUME NEW i, NEW j
                 PROVE  <<i, j>> \in Waiters(less) <=> <<i, j>> \in Waiters(map) /\ ~(i = r /\ j = n)
      OBVIOUS
    <3>1. CASE i = r
      BY <1>11, <1>13, <2>1, <2>2, <2>3, <3>1 DEF n
    <3>2. CASE i # r
      BY <1>13, <2>1, <2>2, <3>2
    <3>3. QED
      BY <3>1, <3>2
  <2>6. Waiters(less) = Waiters(map) \ {<<r, n>>}
    BY <2>1, <2>2, <2>5
  <2>7. <<r, n>> \in Waiters(map)
    BY <1>11, <2>2, <2>4 DEF n
  <2>8. QED
    BY <2>2, <2>6, <2>7, FS_RemoveElement DEF Size
<1>20. QED
  BY <1>8, <1>14, <1>18, <1>19, NonEmptyKeeps DEF t

\* The one eviction for capacity brings the tracker back to its limit.
LEMMA OverflowFacts ==
  ASSUME NEW map, NEW at,
         Tracks(map, at), Fresh(map, at), Filled(map), Size(map) <= RepeatMaxEntries + 1
  PROVE  LET less == EvictOverflow(map)
         IN /\ Tracks(less, at) /\ Fresh(less, at) /\ Filled(less)
            /\ Size(less) <= Size(map) /\ Size(less) <= RepeatMaxEntries
<1>1. map \in Seq(CheckRows)
  BY DEF Tracks
<1>2. Size(map) \in Nat
  BY <1>1, WaitersFacts
<1>3. CASE Size(map) > RepeatMaxEntries
  <2>1. EvictOverflow(map) = Shift(map, map[1].text)
    BY <1>3 DEF EvictOverflow
  <2>2. Waiters(map) # {}
    <3>1. Size(map) # 0
      BY <1>2, <1>3, RepeatAssumption
    <3>2. QED
      BY <3>1, FS_EmptySet DEF Size
  <2>3. PICK p : p \in Waiters(map)
    BY <2>2
  <2>4. p[1] \in 1 .. Len(map)
    BY <1>1, <2>3, WaitersFacts
  <2>5. 1 \in 1 .. Len(map)
    BY <1>1, <2>4, RowFacts
  <2>6. LET less == Shift(map, map[1].text)
        IN Tracks(less, at) /\ Fresh(less, at) /\ Filled(less) /\ Size(less) = Size(map) - 1
    BY <2>5, ShiftFacts
  <2>7. QED
    BY <1>2, <2>1, <2>6, RepeatAssumption
<1>4. CASE ~(Size(map) > RepeatMaxEntries)
  <2>1. EvictOverflow(map) = map
    BY <1>4 DEF EvictOverflow
  <2>2. QED
    BY <1>2, <1>4, <2>1, RepeatAssumption
<1>5. QED
  BY <1>3, <1>4

LEMMA NothingIsTracked ==
  ASSUME NEW at
  PROVE  Tracks(<<>>, at) /\ Fresh(<<>>, at) /\ Filled(<<>>) /\ Size(<<>>) = 0
<1>1. <<>> \in Seq(CheckRows) /\ Len(<<>>) = 0 /\ 1 .. Len(<<>>) = {}
  BY EmptySeq
<1>2. Tracks(<<>>, at) /\ Fresh(<<>>, at) /\ Filled(<<>>)
  BY <1>1 DEF Tracks, Fresh, Filled
<1>3. Waiters(<<>>) = {}
  BY <1>1 DEF Waiters
<1>4. QED
  BY <1>2, <1>3, FS_EmptySet DEF Size

\* What an expiry leaves, as every operation of the tracker begins.
LEMMA YoungFacts ==
  ASSUME ChecksInv
  PROVE  LET young == EvictExpired(pending, now)
         IN /\ Tracks(young, now) /\ Fresh(young, now) /\ Filled(young)
            /\ Size(young) \in Nat /\ Size(pending) \in Nat /\ Size(young) <= RepeatMaxEntries
            /\ Expired = Size(pending) - Size(young) /\ Expired \in Nat
<1> DEFINE young == EvictExpired(pending, now)
<1>1. now \in Nat /\ Tracks(pending, now) /\ Size(pending) <= RepeatMaxEntries
  BY DEF ChecksInv
<1>2. Tracks(young, now) /\ Fresh(young, now) /\ Filled(young) /\ Size(young) <= Size(pending)
  BY <1>1, EvictExpiredFacts
<1>3. Size(young) \in Nat /\ Size(pending) \in Nat
  BY <1>1, <1>2, WaitersFacts DEF Tracks
<1>4. Expired = Size(pending) - Size(young)
  BY DEF Expired
<1> HIDE DEF young
<1>5. Expired \in Nat /\ Size(young) <= RepeatMaxEntries
  BY <1>1, <1>2, <1>3, <1>4, RepeatAssumption
<1>6. QED
  BY <1>2, <1>3, <1>4, <1>5 DEF young

LEMMA ChecksInit ==
  ASSUME Init
  PROVE  ChecksInv
BY NothingIsTracked, RepeatAssumption DEF Init, ChecksInv

LEMMA ExpiresKeeps ==
  ASSUME ChecksInv, Expires, UNCHANGED <<now, repliesSent>>
  PROVE  ChecksInv' /\ Fresh(pending', now)
<1> DEFINE young == EvictExpired(pending, now)
<1>1. /\ Tracks(young, now) /\ Fresh(young, now) /\ Filled(young)
      /\ Size(young) \in Nat /\ Size(pending) \in Nat /\ Size(young) <= RepeatMaxEntries
      /\ Expired = Size(pending) - Size(young) /\ Expired \in Nat
  BY YoungFacts
<1>2. /\ pending' = young /\ totalPending' = totalPending - Expired
      /\ repeatsUnconfirmed' = repeatsUnconfirmed + Expired
      /\ UNCHANGED <<repeatsConfirmed, evicted, now, repliesSent>>
  BY DEF Expires
<1> HIDE DEF young
<1>3. QED
  BY <1>1, <1>2 DEF ChecksInv

LEMMA HearRepeatKeeps ==
  ASSUME ChecksInv, NEW t \in Texts, HearRepeat(t)
  PROVE  ChecksInv' /\ Fresh(pending', now)
<1> DEFINE young == EvictExpired(pending, now)
           found == IF Rows(young, t) = {} THEN 0 ELSE 1
<1>1. /\ Tracks(young, now) /\ Fresh(young, now) /\ Filled(young)
      /\ Size(young) \in Nat /\ Size(pending) \in Nat /\ Size(young) <= RepeatMaxEntries
      /\ Expired = Size(pending) - Size(young) /\ Expired \in Nat
  BY YoungFacts
<1>2. /\ pending' = IF found = 1 THEN Shift(young, t) ELSE young
      /\ repeatsConfirmed' = repeatsConfirmed + found
      /\ totalPending' = totalPending - Expired - found
      /\ repeatsUnconfirmed' = repeatsUnconfirmed + Expired
      /\ UNCHANGED <<evicted, now, repliesSent>>
  BY DEF HearRepeat, botVars
<1> HIDE DEF young
<1>3. CASE Rows(young, t) = {}
  BY <1>1, <1>2, <1>3 DEF ChecksInv
<1>4. CASE Rows(young, t) # {}
  <2>1. PICK r \in DOMAIN young : young[r].text = t
    BY <1>4 DEF Rows
  <2>2. r \in 1 .. Len(young)
    BY <1>1, <2>1, RowFacts DEF Tracks
  <2> DEFINE less == Shift(young, t)
  <2>3. Tracks(less, now) /\ Fresh(less, now) /\ Filled(less) /\ Size(less) = Size(young) - 1
    BY <1>1, <2>1, <2>2, ShiftFacts
  <2>4. found = 1 /\ pending' = less
    BY <1>2, <1>4
  <2>5. Size(less) \in Nat
    BY <2>3, WaitersFacts DEF Tracks
  <2> HIDE DEF less, found
  <2>6. Size(less) <= RepeatMaxEntries
    BY <1>1, <2>3, <2>5, RepeatAssumption
  <2>7. QED
    BY <1>1, <1>2, <2>3, <2>4, <2>5, <2>6 DEF ChecksInv
<1>5. QED
  BY <1>3, <1>4

LEMMA SendReplyKeeps ==
  ASSUME ChecksInv, NEW m \in Messages, SendReply(m)
  PROVE  ChecksInv' /\ Fresh(pending', now)
<1> DEFINE young == EvictExpired(pending, now)
           pushed == Push(young, TextOf(m), now)
           less == EvictOverflow(pushed)
           surplus == Size(pushed) - Size(less)
<1>1. /\ Tracks(young, now) /\ Fresh(young, now) /\ Filled(young)
      /\ Size(young) \in Nat /\ Size(pending) \in Nat /\ Size(young) <= RepeatMaxEntries
      /\ Expired = Size(pending) - Size(young) /\ Expired \in Nat
  BY YoungFacts
<1>2. /\ repliesSent' = repliesSent + 1 /\ pending' = less
      /\ totalPending' = totalPending - Expired + 1 - surplus
      /\ evicted' = evicted + surplus
      /\ repeatsUnconfirmed' = repeatsUnconfirmed + Expired
      /\ UNCHANGED <<repeatsConfirmed, now>>
  BY DEF SendReply
<1>3. now \in Nat /\ TextOf(m) \in Texts
  BY BotAssumption DEF ChecksInv
<1> HIDE DEF young
<1>4. Tracks(pushed, now) /\ Fresh(pushed, now) /\ Filled(pushed) /\ Size(pushed) = Size(young) + 1
  BY <1>1, <1>3, PushFacts
<1> HIDE DEF pushed
<1>5. Size(pushed) <= RepeatMaxEntries + 1
  BY <1>1, <1>4, RepeatAssumption
<1>6. /\ Tracks(less, now) /\ Fresh(less, now) /\ Filled(less)
      /\ Size(less) <= Size(pushed) /\ Size(less) <= RepeatMaxEntries
  BY <1>4, <1>5, OverflowFacts
<1> HIDE DEF less
<1>7. Size(less) \in Nat /\ Size(pushed) \in Nat
  BY <1>4, <1>6, WaitersFacts DEF Tracks
<1>8. surplus \in Nat
  BY <1>6, <1>7
<1>9. totalPending = Size(pending) /\ evicted \in Nat /\ repeatsUnconfirmed \in Nat
      /\ repeatsConfirmed \in Nat /\ repliesSent \in Nat
      /\ repliesSent = totalPending + repeatsConfirmed + repeatsUnconfirmed + evicted
  BY DEF ChecksInv
<1>10. /\ totalPending' = Size(less) /\ evicted' \in Nat /\ repeatsUnconfirmed' \in Nat
       /\ repeatsConfirmed' \in Nat /\ repliesSent' \in Nat
       /\ repliesSent' = totalPending' + repeatsConfirmed' + repeatsUnconfirmed' + evicted'
  BY <1>1, <1>2, <1>4, <1>7, <1>8, <1>9
<1>11. QED
  BY <1>2, <1>3, <1>6, <1>10 DEF ChecksInv

LEMMA ChecksStep ==
  ASSUME ChecksInv, [Next]_vars
  PROVE  ChecksInv' /\ (checkVars' # checkVars => Fresh(pending', now))
<1>1. ASSUME UNCHANGED <<checkVars, now, repliesSent>>
      PROVE  ChecksInv' /\ checkVars' = checkVars
  BY <1>1 DEF ChecksInv, checkVars
<1>2. ASSUME NEW m \in Messages, NEW hops \in 0 .. MaxHops, HearTrigger(m, hops)
      PROVE  ChecksInv' /\ Fresh(pending', now)
  BY <1>2, ExpiresKeeps DEF HearTrigger
<1>3. CASE Sweep
  BY <1>3, ExpiresKeeps DEF Sweep, botVars
<1>4. CASE Stop
  BY <1>1, <1>4 DEF Stop
<1>5. ASSUME NEW m \in Messages, DropReply(m)
      PROVE  ChecksInv' /\ checkVars' = checkVars
  BY <1>1, <1>5 DEF DropReply
<1>6. CASE Restart
  <2>1. /\ pending' = <<>> /\ totalPending' = 0 /\ repliesSent' = 0 /\ repeatsConfirmed' = 0
        /\ repeatsUnconfirmed' = 0 /\ evicted' = 0 /\ now' = now
    BY <1>6 DEF Restart
  <2>2. ChecksInv'
    BY <2>1, NothingIsTracked, RepeatAssumption DEF ChecksInv
  <2>3. QED
    BY <2>1, <2>2, NothingIsTracked
<1>7. CASE Tick
  <2>1. now' = now + 1 /\ UNCHANGED <<checkVars, repliesSent>>
    BY <1>7 DEF Tick
  <2>2. now \in Nat /\ Tracks(pending, now)
    BY DEF ChecksInv
  <2>3. Tracks(pending, now + 1)
    <3>1. \A i \in 1 .. Len(pending) : \A j \in 1 .. Len(pending[i].entries) :
            /\ pending[i].entries[j].expiresAt \in Nat
            /\ pending[i].entries[j].expiresAt <= now + RepeatTimeoutMs
      BY <2>2, RowFacts DEF Tracks
    <3>2. \A x \in Nat : x <= now + RepeatTimeoutMs => x <= now + 1 + RepeatTimeoutMs
      BY <2>2, RepeatAssumption
    <3>3. QED
      BY <2>2, <3>1, <3>2 DEF Tracks
  <2>4. QED
    BY <2>1, <2>2, <2>3 DEF ChecksInv, checkVars
<1>8. CASE UNCHANGED vars
  BY <1>1, <1>8 DEF vars, botVars
<1>9. QED
  BY <1>2, <1>3, <1>4, <1>5, <1>6, <1>7, <1>8, HearRepeatKeeps, SendReplyKeeps DEF Next

THEOREM ChecksInvHolds == Spec => []ChecksInv
<1>1. Init => ChecksInv
  BY ChecksInit
<1>2. ChecksInv /\ [Next]_vars => ChecksInv'
  BY ChecksStep
<1>3. QED
  BY <1>1, <1>2, PTL DEF Spec

\* Every reply sent by this process is waiting, confirmed, unconfirmed or
\* evicted, and counted once, for any texts, any timeout and any limit.
THEOREM EveryReplyIsCounted == Spec => []AccountsBalance
<1>1. ChecksInv => AccountsBalance
  BY DEF ChecksInv, AccountsBalance
<1>2. QED
  BY <1>1, ChecksInvHolds, PTL

\* Whatever changes the tracker leaves nothing overdue behind.
THEOREM OverdueGoes == Spec => NothingOverdueStays
<1> DEFINE Gone == checkVars' # checkVars =>
                     \A i \in DOMAIN pending' : \A j \in DOMAIN pending'[i].entries :
                       LET entry == pending'[i].entries[j]
                       IN entry.expiresAt > now \/ (RepeatTimeoutMs = 0 /\ entry.sentAt = now)
<1>1. ChecksInv /\ [Next]_vars => [Gone]_vars
  <2> SUFFICES ASSUME ChecksInv, [Next]_vars, checkVars' # checkVars,
                      NEW i \in DOMAIN pending', NEW j \in DOMAIN pending'[i].entries
               PROVE  \/ pending'[i].entries[j].expiresAt > now
                      \/ RepeatTimeoutMs = 0 /\ pending'[i].entries[j].sentAt = now
    OBVIOUS
  <2>1. ChecksInv' /\ Fresh(pending', now)
    BY ChecksStep
  <2>2. pending' \in Seq(CheckRows)
    BY <2>1 DEF ChecksInv, Tracks
  <2>3. i \in 1 .. Len(pending') /\ j \in 1 .. Len(pending'[i].entries)
    BY <2>2, RowFacts
  <2>4. QED
    BY <2>1, <2>3 DEF Fresh
<1>2. QED
  BY <1>1, ChecksInvHolds, PTL DEF Spec, NothingOverdueStays
=============================================================================
