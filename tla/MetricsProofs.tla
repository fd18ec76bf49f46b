----------------------------- MODULE MetricsProofs -----------------------------
(***************************************************************************)
(* Proofs about PacketMetrics and the MqttPublish below it, for every      *)
(* number of brokers and packets, every set of packet types and buckets    *)
(* and every ladder of bucket widths.                                      *)
(*                                                                         *)
(* Most of what the dashboard shows is a sum: over packet types, over      *)
(* samples, over brokers.  The first part proves what the fold of the      *)
(* model adds up to, whatever order it takes; the second what is counted   *)
(* at each broker; the third the invariant of the samples; and the last    *)
(* that the queries over them agree.                                       *)
(***************************************************************************)
EXTENDS PacketMetrics, FiniteSetTheorems, WellFoundedInduction, TLAPS

Below == {p \in Nat \X Nat : p[1] < p[2]}

\* Every set of natural numbers that is not empty has a least one.
LEMMA LeastNumber == ASSUME NEW S \in SUBSET Nat, S # {} PROVE \E n \in S : \A i \in S : n <= i
<1>1. OpToRel(<, Nat) = Below
  BY Zenon DEF OpToRel, Below
<1>2. IsWellFoundedOn(Below, Nat)
  BY <1>1, NatLessThanWellFounded, Zenon
<1>3. PICK n \in S : \A i \in S : ~ (<<i, n>> \in Below)
  BY <1>2, WFMin, Zenon
<1>4. \A i, n0 \in Nat : i < n0 => <<i, n0>> \in Below
  BY DEF Below
<1>5. \A i \in S : ~ (i < n)
  BY <1>3, <1>4
<1>6. \A i \in S : n <= i
  BY <1>5
<1>7. QED
  BY <1>6

-----------------------------------------------------------------------------
(* Sums.  SumOver folds over the subsets of the domain; f restricted to s   *)
(* has the sum PartSum(f, s).                                               *)

Any(s) == CHOOSE x \in s : TRUE

IsFold(f, h, T) ==
  h = [s \in T |-> IF s = {} THEN 0 ELSE f[Any(s)] + h[s \ {Any(s)}]]

Part(f, s) == [x \in s |-> f[x]]

PartSum(f, s) == SumOver(Part(f, s))

\* What SumOver is by definition.
LEMMA SumIsFold ==
  ASSUME NEW f PROVE SumOver(f) = (CHOOSE h : IsFold(f, h, SUBSET DOMAIN f))[DOMAIN f]
BY DEF SumOver, MapThenSumSet, MapThenFoldSet, IsFold, Any

\* Proper subsets have fewer elements.
LEMMA FewerElements ==
  ASSUME NEW s, IsFiniteSet(s), NEW x \in s
  PROVE  /\ IsFiniteSet(s \ {x}) /\ Cardinality(s) \in Nat /\ Cardinality(s \ {x}) \in Nat
         /\ Cardinality(s) = Cardinality(s \ {x}) + 1
<1>1. IsFiniteSet(s \ {x}) /\ Cardinality(s \ {x}) = Cardinality(s) - 1  BY FS_RemoveElement
<1>2. Cardinality(s) \in Nat  BY FS_CardinalityType
<1>3. Cardinality(s \ {x}) \in Nat  BY <1>1, FS_CardinalityType
<1>4. QED  BY <1>1, <1>2, <1>3

UpTo(D, n) == {s \in SUBSET D : Cardinality(s) <= n}

\* The fold exists on the subsets of at most n elements, whatever n.
LEMMA FoldUpTo ==
  ASSUME NEW D, IsFiniteSet(D), NEW f, NEW n \in Nat
  PROVE  \E h : IsFold(f, h, UpTo(D, n))
<1> DEFINE Bad == {k \in Nat : ~\E h : IsFold(f, h, UpTo(D, k))}
<1> SUFFICES ASSUME Bad # {} PROVE FALSE  OBVIOUS
<1>0. \A s \in SUBSET D : IsFiniteSet(s) /\ Cardinality(s) \in Nat  BY FS_Subset, FS_CardinalityType
<1>1. PICK k \in Bad : \A m \in Bad : k <= m  BY LeastNumber
<1>2. CASE k = 0
  <2> DEFINE h == [s \in UpTo(D, 0) |-> 0]
  <2>1. \A s \in UpTo(D, 0) : s = {}
    <3> TAKE s \in UpTo(D, 0)
    <3>1. IsFiniteSet(s) /\ Cardinality(s) = 0  BY <1>0 DEF UpTo
    <3>2. QED  BY <3>1, FS_EmptySet
  <2>2. IsFold(f, h, UpTo(D, 0))  BY <2>1 DEF IsFold
  <2>3. QED  BY <1>2, <2>2
<1>3. CASE k # 0
  <2>1. k - 1 \in Nat /\ k - 1 \notin Bad  BY <1>1, <1>3
  <2>2. PICK h : IsFold(f, h, UpTo(D, k - 1))  BY <2>1
  <2> DEFINE g == [s \in UpTo(D, k) |-> IF s = {} THEN 0 ELSE f[Any(s)] + h[s \ {Any(s)}]]
  <2>3. \A s \in UpTo(D, k - 1) : s \in UpTo(D, k) /\ g[s] = h[s]
    <3> TAKE s \in UpTo(D, k - 1)
    <3>1. s \in UpTo(D, k)  BY <1>0, <2>1 DEF UpTo
    <3>2. h[s] = IF s = {} THEN 0 ELSE f[Any(s)] + h[s \ {Any(s)}]  BY <2>2 DEF IsFold
    <3>3. QED  BY <3>1, <3>2
  <2>4. \A s \in UpTo(D, k) : s # {} => s \ {Any(s)} \in UpTo(D, k - 1)
    <3> SUFFICES ASSUME NEW s \in UpTo(D, k), s # {} PROVE s \ {Any(s)} \in UpTo(D, k - 1)  OBVIOUS
    <3>1. Any(s) \in s  BY DEF Any
    <3>2. s \in SUBSET D /\ Cardinality(s) <= k  BY DEF UpTo
    <3>3. IsFiniteSet(s)  BY <1>0, <3>2
    <3>4. Cardinality(s) = Cardinality(s \ {Any(s)}) + 1 /\ Cardinality(s \ {Any(s)}) \in Nat
      BY <3>1, <3>3, FewerElements
    <3>5. Cardinality(s \ {Any(s)}) <= k - 1  BY <1>1, <3>2, <3>4
    <3>6. QED  BY <3>2, <3>5 DEF UpTo
  <2>5. \A s \in UpTo(D, k) : g[s] = IF s = {} THEN 0 ELSE f[Any(s)] + g[s \ {Any(s)}]  BY <2>3, <2>4
  <2>6. IsFold(f, g, UpTo(D, k))
    <3>1. DOMAIN g = UpTo(D, k) /\ g = [s \in UpTo(D, k) |-> g[s]]  OBVIOUS
    <3> HIDE DEF g
    <3>2. QED  BY <2>5, <3>1 DEF IsFold
  <2>7. QED  BY <1>1, <2>6
<1>4. QED  BY <1>2, <1>3

\* So there is a fold, and SumOver is its value.
LEMMA FoldExists ==
  ASSUME NEW f, IsFiniteSet(DOMAIN f)
  PROVE  \E h : IsFold(f, h, SUBSET DOMAIN f) /\ SumOver(f) = h[DOMAIN f]
<1>1. Cardinality(DOMAIN f) \in Nat  BY FS_CardinalityType
<1>2. \A s \in SUBSET DOMAIN f : Cardinality(s) <= Cardinality(DOMAIN f)  BY FS_Subset
<1>3. UpTo(DOMAIN f, Cardinality(DOMAIN f)) = SUBSET DOMAIN f  BY <1>2 DEF UpTo
<1>4. \E h : IsFold(f, h, UpTo(DOMAIN f, Cardinality(DOMAIN f)))  BY <1>1, FoldUpTo
<1>5. \E h : IsFold(f, h, SUBSET DOMAIN f)  BY <1>3, <1>4
<1>6. QED  BY <1>5, SumIsFold

\* What holds of a set whenever it holds of its proper subsets holds of
\* every subset of a finite set.
LEMMA SubsetInduction ==
  ASSUME NEW D, IsFiniteSet(D), NEW G,
         \A s \in SUBSET D : (\A t \in SUBSET s : t # s => t \in G) => s \in G
  PROVE  SUBSET D \subseteq G
<1> SUFFICES ASSUME NEW r \in SUBSET D, r \notin G PROVE FALSE  OBVIOUS
<1> DEFINE Bad == {Cardinality(s) : s \in {s \in SUBSET D : s \notin G}}
<1>0. \A s \in SUBSET D : IsFiniteSet(s) /\ Cardinality(s) \in Nat  BY FS_Subset, FS_CardinalityType
<1>1. Bad \in SUBSET Nat /\ Bad # {}  BY <1>0
<1>2. PICK k \in Bad : \A m \in Bad : k <= m  BY <1>1, LeastNumber
<1>3. PICK s \in SUBSET D : s \notin G /\ k = Cardinality(s)  BY <1>2
<1>4. PICK t \in SUBSET s : t # s /\ t \notin G  BY <1>3
<1>5. t \in SUBSET D  BY <1>3, <1>4
<1>6. Cardinality(t) \in Bad  BY <1>4, <1>5
<1>7. IsFiniteSet(s) /\ Cardinality(t) <= Cardinality(s) /\ Cardinality(t) # Cardinality(s)
  BY <1>0, <1>4, FS_Subset
<1>8. k <= Cardinality(t) /\ k \in Nat /\ Cardinality(t) \in Nat  BY <1>0, <1>1, <1>2, <1>5, <1>6
<1>9. QED  BY <1>3, <1>7, <1>8

\* What holds of the empty set and survives one more element holds of all.
LEMMA ElementInduction ==
  ASSUME NEW D, IsFiniteSet(D), NEW G, {} \in G,
         \A s \in SUBSET D : \A x \in s : s \ {x} \in G => s \in G
  PROVE  SUBSET D \subseteq G
<1>1. \A s \in SUBSET D : (\A t \in SUBSET s : t # s => t \in G) => s \in G
  <2> SUFFICES ASSUME NEW s \in SUBSET D, \A t \in SUBSET s : t # s => t \in G, s # {} PROVE s \in G
    OBVIOUS
  <2>1. PICK x \in s : TRUE  OBVIOUS
  <2>2. s \ {x} \in SUBSET s /\ s \ {x} # s  BY <2>1
  <2>3. QED  BY <2>2
<1>2. QED  BY <1>1, SubsetInduction

\* Two folds agree.
LEMMA FoldUnique ==
  ASSUME NEW D, IsFiniteSet(D), NEW f, NEW g, NEW h,
         IsFold(f, g, SUBSET D), IsFold(f, h, SUBSET D)
  PROVE  \A s \in SUBSET D : g[s] = h[s]
<1> DEFINE G == {s \in SUBSET D : g[s] = h[s]}
<1>1. \A s \in SUBSET D : (\A t \in SUBSET s : t # s => t \in G) => s \in G
  <2> SUFFICES ASSUME NEW s \in SUBSET D, \A t \in SUBSET s : t # s => t \in G PROVE g[s] = h[s]
    OBVIOUS
  <2>1. g[s] = IF s = {} THEN 0 ELSE f[Any(s)] + g[s \ {Any(s)}]  BY DEF IsFold
  <2>2. h[s] = IF s = {} THEN 0 ELSE f[Any(s)] + h[s \ {Any(s)}]  BY DEF IsFold
  <2>3. s # {} => Any(s) \in s  BY DEF Any
  <2>4. s # {} => g[s \ {Any(s)}] = h[s \ {Any(s)}]  BY <2>3
  <2>5. QED  BY <2>1, <2>2, <2>4
<1>2. SUBSET D \subseteq G
  <2> HIDE DEF G
  <2>1. QED  BY <1>1, SubsetInduction
<1>3. QED  BY <1>2

\* The fold over a function is the fold over its parts.
LEMMA FoldOfPart ==
  ASSUME NEW f, IsFiniteSet(DOMAIN f), NEW h, IsFold(f, h, SUBSET DOMAIN f), NEW s \in SUBSET DOMAIN f
  PROVE  PartSum(f, s) = h[s]
<1> DEFINE g == [t \in SUBSET s |-> h[t]]
           p == Part(f, s)
<1>1. DOMAIN p = s /\ IsFiniteSet(s)  BY FS_Subset DEF Part
<1>2. \A t \in SUBSET s : t # {} => Any(t) \in t /\ p[Any(t)] = f[Any(t)]  BY DEF Any, Part
<1>3. \A t \in SUBSET s : h[t] = IF t = {} THEN 0 ELSE f[Any(t)] + h[t \ {Any(t)}]  BY DEF IsFold
<1>4. \A t \in SUBSET s : t \ {Any(t)} \in SUBSET s  OBVIOUS
<1>5. \A t \in SUBSET s : g[t] = IF t = {} THEN 0 ELSE p[Any(t)] + g[t \ {Any(t)}]
  BY <1>2, <1>3, <1>4
<1>6. g = [t \in SUBSET s |-> g[t]]  OBVIOUS
<1>7. g[s] = h[s]  OBVIOUS
<1> HIDE DEF g, p
<1>8. IsFold(p, g, SUBSET s)  BY <1>5, <1>6 DEF IsFold
<1>9. PICK k : IsFold(p, k, SUBSET s) /\ SumOver(p) = k[s]  BY <1>1, FoldExists
<1>10. k[s] = g[s]  BY <1>1, <1>8, <1>9, FoldUnique
<1>11. QED  BY <1>7, <1>9, <1>10 DEF PartSum, p
-----------------------------------------------------------------------------
(* What the sum of a function is, in terms of its parts.                    *)

LEMMA SumIsPart ==
  ASSUME NEW D, NEW f \in [D -> Int] PROVE SumOver(f) = PartSum(f, D)
<1>1. f = Part(f, D)  BY DEF Part
<1>2. QED  BY <1>1 DEF PartSum

LEMMA PartEmpty == ASSUME NEW f, IsFiniteSet(DOMAIN f) PROVE PartSum(f, {}) = 0
<1>1. PICK h : IsFold(f, h, SUBSET DOMAIN f)  BY FoldExists
<1>2. PartSum(f, {}) = h[{}]  BY <1>1, FoldOfPart
<1>3. h[{}] = 0  BY <1>1 DEF IsFold
<1>4. QED  BY <1>2, <1>3

\* The step of the fold.
LEMMA PartStep ==
  ASSUME NEW f, IsFiniteSet(DOMAIN f), NEW s \in SUBSET DOMAIN f, s # {}
  PROVE  Any(s) \in s /\ PartSum(f, s) = f[Any(s)] + PartSum(f, s \ {Any(s)})
<1>1. PICK h : IsFold(f, h, SUBSET DOMAIN f)  BY FoldExists
<1>2. PartSum(f, s) = h[s] /\ PartSum(f, s \ {Any(s)}) = h[s \ {Any(s)}]  BY <1>1, FoldOfPart
<1>3. h[s] = f[Any(s)] + h[s \ {Any(s)}]  BY <1>1 DEF IsFold
<1>4. Any(s) \in s  BY DEF Any
<1>5. QED  BY <1>2, <1>3, <1>4

\* Integers add up to an integer.
LEMMA PartInt ==
  ASSUME NEW D, IsFiniteSet(D), NEW f \in [D -> Int], NEW r \in SUBSET D
  PROVE  PartSum(f, r) \in Int
<1> DEFINE G == {s \in SUBSET D : PartSum(f, s) \in Int}
<1>1. DOMAIN f = D  OBVIOUS
<1>2. \A s \in SUBSET D : (\A t \in SUBSET s : t # s => t \in G) => s \in G
  <2> SUFFICES ASSUME NEW s \in SUBSET D, \A t \in SUBSET s : t # s => t \in G
               PROVE  PartSum(f, s) \in Int
    OBVIOUS
  <2>1. CASE s = {}  BY <1>1, <2>1, PartEmpty
  <2>2. CASE s # {}
    <3>1. Any(s) \in s /\ PartSum(f, s) = f[Any(s)] + PartSum(f, s \ {Any(s)})
      BY <1>1, <2>2, PartStep
    <3>2. s \ {Any(s)} \in G  BY <3>1
    <3>3. PartSum(f, s \ {Any(s)}) \in Int /\ f[Any(s)] \in Int  BY <3>1, <3>2
    <3>4. QED  BY <3>1, <3>3
  <2>3. QED  BY <2>1, <2>2
<1>3. SUBSET D \subseteq G
  <2> HIDE DEF G
  <2>1. QED  BY <1>2, SubsetInduction
<1>4. QED  BY <1>3

\* Any element can be taken out of the sum first.
LEMMA PartTake ==
  ASSUME NEW D, IsFiniteSet(D), NEW f \in [D -> Int], NEW r \in SUBSET D, NEW x \in r
  PROVE  PartSum(f, r) = f[x] + PartSum(f, r \ {x})
<1> DEFINE G == {s \in SUBSET D : \A y \in s : PartSum(f, s) = f[y] + PartSum(f, s \ {y})}
<1>1. DOMAIN f = D  OBVIOUS
<1>2. \A s \in SUBSET D : (\A t \in SUBSET s : t # s => t \in G) => s \in G
  <2> SUFFICES ASSUME NEW s \in SUBSET D, \A t \in SUBSET s : t # s => t \in G, NEW y \in s
               PROVE  PartSum(f, s) = f[y] + PartSum(f, s \ {y})
    OBVIOUS
  <2> DEFINE c == Any(s)
  <2>1. c \in s /\ PartSum(f, s) = f[c] + PartSum(f, s \ {c})  BY <1>1, PartStep
  <2>2. CASE y = c  BY <2>1, <2>2
  <2>3. CASE y # c
    <3> DEFINE w == PartSum(f, (s \ {c}) \ {y})
    <3>1. s \ {c} \in G /\ y \in s \ {c}  BY <2>1, <2>3
    <3>2. PartSum(f, s \ {c}) = f[y] + w  BY <3>1
    <3>3. s \ {y} \in G /\ c \in s \ {y}  BY <2>1, <2>3
    <3>4. PartSum(f, s \ {y}) = f[c] + PartSum(f, (s \ {y}) \ {c})  BY <3>3
    <3>5. (s \ {y}) \ {c} = (s \ {c}) \ {y}  OBVIOUS
    <3>6. w \in Int  BY PartInt
    <3>7. f[c] \in Int /\ f[y] \in Int  BY <2>1
    <3> HIDE DEF w, c
    <3>8. PartSum(f, s \ {y}) = f[c] + PartSum(f, (s \ {c}) \ {y})  BY <3>4, <3>5
    <3>9. PartSum(f, s \ {y}) = f[c] + w  BY <3>8 DEF w
    <3>10. QED  BY <2>1, <3>2, <3>6, <3>7, <3>9
  <2>4. QED  BY <2>2, <2>3
<1>3. SUBSET D \subseteq G
  <2> HIDE DEF G
  <2>1. QED  BY <1>2, SubsetInduction
<1>4. QED  BY <1>3

\* A part of a part.
LEMMA PartOfPart ==
  ASSUME NEW f, NEW s, NEW t \in SUBSET s PROVE PartSum(Part(f, s), t) = PartSum(f, t)
<1>1. Part(Part(f, s), t) = Part(f, t)  BY DEF Part
<1>2. QED  BY <1>1 DEF PartSum

\* Functions that agree on s have the same sum over it.
LEMMA PartSame ==
  ASSUME NEW f, NEW g, NEW s, \A x \in s : f[x] = g[x] PROVE PartSum(f, s) = PartSum(g, s)
<1>1. Part(f, s) = Part(g, s)  BY DEF Part
<1>2. QED  BY <1>1 DEF PartSum

\* The sum of a function with one value changed.
LEMMA SumChange ==
  ASSUME NEW D, IsFiniteSet(D), NEW f \in [D -> Int], NEW g \in [D -> Int], NEW x \in D,
         \A y \in D : y # x => g[y] = f[y]
  PROVE  SumOver(g) = SumOver(f) + g[x] - f[x]
<1> DEFINE w == PartSum(f, D \ {x})
<1>1. SumOver(f) = f[x] + w  BY SumIsPart, PartTake
<1>2. SumOver(g) = g[x] + PartSum(g, D \ {x})  BY SumIsPart, PartTake
<1>3. PartSum(g, D \ {x}) = w
  <2>1. \A y \in D \ {x} : g[y] = f[y]  OBVIOUS
  <2>2. QED  BY <2>1, PartSame
<1>4. w \in Int  BY PartInt
<1>5. f[x] \in Int /\ g[x] \in Int  OBVIOUS
<1> HIDE DEF w
<1>6. QED  BY <1>1, <1>2, <1>3, <1>4, <1>5

\* Sums are added value by value.
LEMMA SumPlus ==
  ASSUME NEW D, IsFiniteSet(D), NEW f \in [D -> Int], NEW g \in [D -> Int], NEW h \in [D -> Int],
         \A x \in D : h[x] = f[x] + g[x]
  PROVE  SumOver(h) = SumOver(f) + SumOver(g)
<1> DEFINE G == {s \in SUBSET D : PartSum(h, s) = PartSum(f, s) + PartSum(g, s)}
<1>1. DOMAIN f = D /\ DOMAIN g = D /\ DOMAIN h = D  OBVIOUS
<1>2. {} \in G
  <2>1. PartSum(f, {}) = 0 /\ PartSum(g, {}) = 0 /\ PartSum(h, {}) = 0  BY <1>1, PartEmpty
  <2>2. QED  BY <2>1
<1>3. \A s \in SUBSET D : \A x \in s : s \ {x} \in G => s \in G
  <2> SUFFICES ASSUME NEW s \in SUBSET D, NEW x \in s, s \ {x} \in G PROVE s \in G  OBVIOUS
  <2>1. PartSum(f, s) = f[x] + PartSum(f, s \ {x}) /\ PartSum(f, s \ {x}) \in Int /\ f[x] \in Int
    BY PartTake, PartInt
  <2>2. PartSum(g, s) = g[x] + PartSum(g, s \ {x}) /\ PartSum(g, s \ {x}) \in Int /\ g[x] \in Int
    BY PartTake, PartInt
  <2>3. PartSum(h, s) = h[x] + PartSum(h, s \ {x}) /\ h[x] = f[x] + g[x]  BY PartTake
  <2>4. PartSum(h, s \ {x}) = PartSum(f, s \ {x}) + PartSum(g, s \ {x})  OBVIOUS
  <2>5. PartSum(h, s) = PartSum(f, s) + PartSum(g, s)  BY <2>1, <2>2, <2>3, <2>4
  <2>6. QED  BY <2>5
<1>4. SUBSET D \subseteq G
  <2> HIDE DEF G
  <2>1. QED  BY <1>2, <1>3, ElementInduction
<1>5. PartSum(h, D) = PartSum(f, D) + PartSum(g, D)  BY <1>4
<1>6. QED  BY <1>5, SumIsPart

\* Zeros add up to zero.
LEMMA SumZero ==
  ASSUME NEW D, IsFiniteSet(D), NEW f \in [D -> Int], \A x \in D : f[x] = 0 PROVE SumOver(f) = 0
<1>1. SumOver(f) = SumOver(f) + SumOver(f)
  <2>1. \A x \in D : f[x] = f[x] + f[x]  OBVIOUS
  <2>2. QED  BY <2>1, SumPlus
<1>2. PICK n \in Int : n = SumOver(f)  BY SumIsPart, PartInt
<1>3. n = n + n  BY <1>1, <1>2
<1>4. n = 0  BY <1>3
<1>5. QED  BY <1>2, <1>4

Group(g, s, i) == {x \in s : g[x] = i}

\* The sums of the groups add up to the sum of all.
LEMMA SumGroups ==
  ASSUME NEW D, IsFiniteSet(D), NEW I, IsFiniteSet(I), NEW f \in [D -> Int], NEW g \in [D -> I]
  PROVE  SumOver([i \in I |-> PartSum(f, Group(g, D, i))]) = SumOver(f)
<1> DEFINE Q(s) == [i \in I |-> PartSum(f, Group(g, s, i))]
           G == {s \in SUBSET D : SumOver(Q(s)) = PartSum(f, s)}
<1>0. DOMAIN f = D /\ \A s \in SUBSET D : \A i \in I : Group(g, s, i) \in SUBSET D  BY DEF Group
<1>1. \A s \in SUBSET D : Q(s) \in [I -> Int]  BY <1>0, PartInt
<1>2. {} \in G
  <2>1. \A i \in I : Group(g, {}, i) = {}  BY DEF Group
  <2>2. PartSum(f, {}) = 0  BY <1>0, PartEmpty
  <2>3. Q({}) \in [I -> Int] /\ \A i \in I : Q({})[i] = 0  BY <1>1, <2>1, <2>2
  <2>4. SumOver(Q({})) = 0
    <3> HIDE DEF Q
    <3>1. QED  BY <2>3, SumZero
  <2>5. QED  BY <2>2, <2>4
<1>3. \A s \in SUBSET D : \A x \in s : s \ {x} \in G => s \in G
  <2> SUFFICES ASSUME NEW s \in SUBSET D, NEW x \in s, s \ {x} \in G PROVE SumOver(Q(s)) = PartSum(f, s)
    OBVIOUS
  <2>1. g[x] \in I /\ f[x] \in Int  OBVIOUS
  <2>2. PartSum(f, s) = f[x] + PartSum(f, s \ {x}) /\ PartSum(f, s \ {x}) \in Int  BY PartTake, PartInt
  <2>3. \A i \in I : i # g[x] => Q(s)[i] = Q(s \ {x})[i]
    <3> SUFFICES ASSUME NEW i \in I, i # g[x] PROVE Q(s)[i] = Q(s \ {x})[i]  OBVIOUS
    <3>1. Group(g, s, i) = Group(g, s \ {x}, i)  BY DEF Group
    <3>2. QED  BY <3>1
  <2>4. Q(s)[g[x]] = f[x] + Q(s \ {x})[g[x]]
    <3>1. Group(g, s, g[x]) \ {x} = Group(g, s \ {x}, g[x]) /\ x \in Group(g, s, g[x])  BY DEF Group
    <3>2. PartSum(f, Group(g, s, g[x])) = f[x] + PartSum(f, Group(g, s, g[x]) \ {x})
      BY <1>0, <2>1, <3>1, PartTake
    <3>3. QED  BY <2>1, <3>1, <3>2
  <2>5. Q(s) \in [I -> Int] /\ Q(s \ {x}) \in [I -> Int]  BY <1>1
  <2>6. SumOver(Q(s \ {x})) = PartSum(f, s \ {x})  OBVIOUS
  <2> HIDE DEF Q, G
  <2>7. SumOver(Q(s)) = SumOver(Q(s \ {x})) + Q(s)[g[x]] - Q(s \ {x})[g[x]]
    <3> DEFINE q == Q(s)
               r == Q(s \ {x})
    <3>1. q \in [I -> Int] /\ r \in [I -> Int] /\ \A i \in I : i # g[x] => q[i] = r[i]  BY <2>3, <2>5
    <3> HIDE DEF q, r
    <3>2. SumOver(q) = SumOver(r) + q[g[x]] - r[g[x]]  BY <2>1, <3>1, SumChange
    <3>3. QED  BY <3>2 DEF q, r
  <2>8. Q(s \ {x})[g[x]] \in Int  BY <2>1, <2>5
  <2>9. QED  BY <2>1, <2>2, <2>4, <2>6, <2>7, <2>8
<1>4. SUBSET D \subseteq G
  <2> HIDE DEF G
  <2>1. QED  BY <1>2, <1>3, ElementInduction
<1>5. SumOver(Q(D)) = PartSum(f, D)  BY <1>4
<1>6. QED  BY <1>5, SumIsPart

\* The sum of the rows of a table is the sum of its columns.
LEMMA SumSwap ==
  ASSUME NEW D, IsFiniteSet(D), NEW E, IsFiniteSet(E), NEW H \in [D -> [E -> Int]]
  PROVE  SumOver([x \in D |-> SumOver(H[x])]) = SumOver([e \in E |-> SumOver([x \in D |-> H[x][e]])])
<1> DEFINE R == [x \in D |-> SumOver(H[x])]
           Col(e) == [x \in D |-> H[x][e]]
           C(s) == [e \in E |-> PartSum(Col(e), s)]
           G == {s \in SUBSET D : PartSum(R, s) = SumOver(C(s))}
<1>1. R \in [D -> Int] /\ \A x \in D : R[x] = SumOver(H[x])
  <2>1. \A x \in D : SumOver(H[x]) \in Int  BY SumIsPart, PartInt
  <2>2. QED  BY <2>1
<1>2. \A e \in E : Col(e) \in [D -> Int] /\ \A x \in D : Col(e)[x] = H[x][e]  OBVIOUS
<1> HIDE DEF R, Col
<1>3. \A s \in SUBSET D : C(s) \in [E -> Int] /\ \A e \in E : C(s)[e] = PartSum(Col(e), s)
  BY <1>2, PartInt
<1> HIDE DEF C
<1>4. {} \in G
  <2>1. PartSum(R, {}) = 0
    <3>1. DOMAIN R = D  BY <1>1
    <3>2. QED  BY <3>1, PartEmpty
  <2>2. \A e \in E : PartSum(Col(e), {}) = 0
    <3> TAKE e \in E
    <3>1. DOMAIN Col(e) = D  BY <1>2
    <3>2. QED  BY <3>1, PartEmpty
  <2>3. C({}) \in [E -> Int] /\ \A e \in E : C({})[e] = 0  BY <1>3, <2>2
  <2>4. SumOver(C({})) = 0  BY <2>3, SumZero
  <2>5. QED  BY <2>1, <2>4
<1>5. \A s \in SUBSET D : \A x \in s : s \ {x} \in G => s \in G
  <2> SUFFICES ASSUME NEW s \in SUBSET D, NEW x \in s, s \ {x} \in G PROVE PartSum(R, s) = SumOver(C(s))
    OBVIOUS
  <2>1. PartSum(R, s) = SumOver(H[x]) + PartSum(R, s \ {x})  BY <1>1, PartTake
  <2>2. \A e \in E : C(s)[e] = H[x][e] + C(s \ {x})[e]
    <3> TAKE e \in E
    <3>1. PICK f \in [D -> Int] : f = Col(e)  BY <1>2
    <3>2. PartSum(f, s) = f[x] + PartSum(f, s \ {x})  BY PartTake
    <3>3. QED  BY <1>2, <1>3, <3>1, <3>2
  <2>3. C(s) \in [E -> Int] /\ C(s \ {x}) \in [E -> Int] /\ H[x] \in [E -> Int]  BY <1>3
  <2>4. PartSum(R, s \ {x}) = SumOver(C(s \ {x}))  OBVIOUS
  <2> HIDE DEF G
  <2>5. SumOver(C(s)) = SumOver(H[x]) + SumOver(C(s \ {x}))
    <3> DEFINE h == C(s)
               f == H[x]
               g == C(s \ {x})
    <3>1. f \in [E -> Int] /\ g \in [E -> Int] /\ h \in [E -> Int] /\ \A e \in E : h[e] = f[e] + g[e]
      BY <2>2, <2>3
    <3> HIDE DEF f, g, h
    <3>2. SumOver(h) = SumOver(f) + SumOver(g)  BY <3>1, SumPlus
    <3>3. QED  BY <3>2 DEF f, g, h
  <2>6. QED  BY <2>1, <2>4, <2>5
<1>6. SUBSET D \subseteq G
  <2> HIDE DEF G
  <2>1. QED  BY <1>4, <1>5, ElementInduction
<1>7. PartSum(R, D) = SumOver(C(D))  BY <1>6
<1>8. C(D) = [e \in E |-> SumOver(Col(e))]
  <2>1. \A e \in E : PartSum(Col(e), D) = SumOver(Col(e))  BY <1>2, SumIsPart
  <2>2. QED  BY <2>1 DEF C
<1>9. SumOver(R) = SumOver(C(D))  BY <1>1, <1>7, SumIsPart
<1>10. QED  BY <1>8, <1>9 DEF R, Col
-----------------------------------------------------------------------------
(* The inductive invariant.                                                 *)

Attempts == {"none", "skipped", "pending", "fulfilled", "rejected", "over"}

PublishTypes ==
  /\ attempt \in [Packets -> [Brokers -> Attempts]] /\ recorded \subseteq Packets
  /\ deliveries \in [Brokers -> [Outcomes -> Nat]]

\* A packet is settled at every broker or at none.
SettledTogether ==
  \A p \in Packets :
    \/ p \in recorded /\ \A b \in Brokers : attempt[p][b] \in {"skipped", "fulfilled", "rejected"}
    \/ p \notin recorded /\ \A b \in Brokers : attempt[p][b] \in {"skipped", "pending"}
    \/ p \notin recorded /\ \A b \in Brokers : attempt[p][b] \in {"none", "over"}

PublishInv == PublishTypes /\ SettledTogether /\ DeliveriesAreTrue

SampleRows ==
  [sampleAt : Nat, received : Int, decoded : Int, byType : [Buckets -> Int],
   deliveries : [Brokers -> [Outcomes -> Int]]]

HealthTypes ==
  /\ now \in Nat /\ packetsReceived \in Nat /\ packetsByType \in [Codes -> Nat]
  /\ lastSnapshot \in Snapshots \cup {NoSnapshot}
  /\ truth \in Nat /\ unsaved \in Int

SampleTypes == IsFiniteSet(saved) /\ saved \subseteq SampleRows /\ pruneFailed \in BOOLEAN

\* The buckets of a sample hold all that was decoded.
RowsAddUp == \A row \in saved : row.decoded = SumOver(row.byType)

\* No sample is of the future, and the store has every sample from its
\* earliest one on.
SamplesGoBack ==
  /\ samples \subseteq saved
  /\ \A row \in saved : row.sampleAt <= now
  /\ \A row \in saved, old \in samples : row.sampleAt >= old.sampleAt => row \in samples

\* The last pruning is at most a day ago, and left nothing older than it had
\* to.
PruningIsKept ==
  /\ lastPrunedAt \in Nat \cup {-1} /\ lastPrunedAt <= now
  /\ RetentionMs > 0 /\ lastSnapshot # NoSnapshot =>
       lastPrunedAt # -1 /\ now - lastPrunedAt < OneDayMs
  /\ lastPrunedAt # -1 /\ ~pruneFailed =>
       \A row \in samples : row.sampleAt >= lastPrunedAt - RetentionMs

SamplesInv == SampleTypes /\ RowsAddUp /\ SamplesGoBack /\ PruningIsKept

MetricsInv == PublishInv /\ HealthTypes /\ SamplesInv /\ EveryPacketOnce

-----------------------------------------------------------------------------
(* What is counted at a broker.                                             *)

\* The place of a broker among those of a set that are not after it.
LEMMA PlaceOf ==
  ASSUME NEW S \in SUBSET Brokers, NEW b \in S
  PROVE  /\ Cardinality({c \in S : c <= b}) = Cardinality({c \in S : c < b}) + 1
         /\ Cardinality({c \in S : c < b}) \in Nat
         /\ Cardinality({c \in S : c <= b}) \in 1 .. Cardinality(S)
<1> DEFINE before == {c \in S : c < b}
<1>1. IsFiniteSet(Brokers)  BY PublishAssumption, FS_Interval DEF Brokers
<1>2. IsFiniteSet(S)  BY <1>1, FS_Subset
<1>3. IsFiniteSet(before)  BY <1>2, FS_Subset
<1>4. Cardinality(before) \in Nat /\ Cardinality(S) \in Nat  BY <1>2, <1>3, FS_CardinalityType
<1>0. \A c \in S : c \in Int  BY PublishAssumption DEF Brokers
<1>5. {c \in S : c <= b} = before \cup {b} /\ b \notin before
  <2>1. \A c \in S : c <= b <=> c < b \/ c = b  BY <1>0
  <2>2. ~(b < b)  BY <1>0
  <2>3. QED  BY <2>1, <2>2
<1>6. Cardinality(before \cup {b}) = Cardinality(before) + 1  BY <1>3, <1>5, FS_AddElement
<1>7. before \cup {b} \in SUBSET S  OBVIOUS
<1>8. Cardinality(before \cup {b}) <= Cardinality(S)  BY <1>2, <1>7, FS_Subset
<1> HIDE DEF before
<1>9. Cardinality({c \in S : c <= b}) = Cardinality(before) + 1  BY <1>5, <1>6
<1>10. Cardinality({c \in S : c <= b}) <= Cardinality(S)  BY <1>5, <1>8
<1>11. Cardinality({c \in S : c <= b}) \in 1 .. Cardinality(S)  BY <1>4, <1>9, <1>10
<1>12. QED  BY <1>4, <1>9, <1>11 DEF before

\* No two have the same place.
LEMMA PlacesDiffer ==
  ASSUME NEW S \in SUBSET Brokers, NEW a \in S, NEW b \in S,
         Cardinality({c \in S : c <= a}) = Cardinality({c \in S : c <= b})
  PROVE  a = b
<1>1. ASSUME NEW x \in S, NEW y \in S, x < y,
             Cardinality({c \in S : c <= x}) = Cardinality({c \in S : c <= y})
      PROVE  FALSE
  <2> DEFINE upto == {c \in S : c <= x}
             before == {c \in S : c < y}
  <2>1. IsFiniteSet(Brokers)  BY PublishAssumption, FS_Interval DEF Brokers
  <2>2. IsFiniteSet(before)  BY <2>1, FS_Subset
  <2>0. \A c \in S : c \in Int  BY PublishAssumption DEF Brokers
  <2>3. upto \in SUBSET before
    <3>1. \A c \in S : c <= x => c < y  BY <1>1, <2>0
    <3>2. QED  BY <3>1
  <2>4. Cardinality(upto) <= Cardinality(before)  BY <2>2, <2>3, FS_Subset
  <2>5. Cardinality({c \in S : c <= y}) = Cardinality(before) + 1 /\ Cardinality(before) \in Nat
    BY PlaceOf
  <2>6. Cardinality(upto) = Cardinality(before) + 1  BY <1>1, <2>5
  <2>7. QED  BY <2>4, <2>5, <2>6
<1>2. a \in Int /\ b \in Int  BY PublishAssumption DEF Brokers
<1>3. ~(a < b) /\ ~(b < a)  BY <1>1
<1>4. QED  BY <1>2, <1>3

\* The list without the skipped ones, looked up where the index stands, has
\* the broker's own result.
LEMMA SettledIsOwn ==
  ASSUME NEW row, NEW b \in Started(row)
  PROVE  SettledOf(row)[SettledIndex(row, b)] = row[b]
<1> DEFINE S == Started(row)
           k == SettledIndex(row, b)
           x == CHOOSE a \in S : Cardinality({c \in S : c <= a}) = k
<1>1. S \in SUBSET Brokers  BY DEF Started
<1>2. Cardinality({c \in S : c <= b}) = k  BY <1>1, PlaceOf DEF SettledIndex
<1>3. k \in 1 .. Cardinality(S)
  <2>1. Cardinality({c \in S : c <= b}) \in 1 .. Cardinality(S)  BY <1>1, PlaceOf
  <2> HIDE DEF k, S
  <2>2. QED  BY <1>2, <2>1
<1>4. x \in S /\ Cardinality({c \in S : c <= x}) = k  BY <1>2
<1>5. x = b
  <2> HIDE DEF x, S, k
  <2>1. b \in S  BY DEF S
  <2>2. QED  BY <1>1, <1>2, <1>4, <2>1, PlacesDiffer
<1>6. SettledOf(row)[k] = row[x]  BY <1>3 DEF SettledOf
<1>7. QED  BY <1>5, <1>6

\* So the outcome of a broker is what happened there.
LEMMA OutcomeIsTrue ==
  ASSUME NEW row, NEW b \in Brokers, row[b] \in {"skipped", "fulfilled", "rejected"}
  PROVE  Outcome(row, b) \in Outcomes /\ \A o \in Outcomes : row[b] = Ended[o] <=> o = Outcome(row, b)
<1>1. CASE row[b] = "skipped"  BY <1>1 DEF Outcome, Outcomes, Ended
<1>2. CASE row[b] # "skipped"
  <2>1. b \in Started(row)  BY <1>2 DEF Started
  <2>2. SettledOf(row)[SettledIndex(row, b)] = row[b]  BY <2>1, SettledIsOwn
  <2>3. Outcome(row, b) = IF row[b] = "rejected" THEN "failed" ELSE "sent"  BY <1>2, <2>2 DEF Outcome
  <2>4. QED  BY <1>2, <2>3 DEF Outcomes, Ended
<1>3. QED  BY <1>1, <1>2

\* A packet that is published next has not been counted.
LEMMA NextIsNew ==
  ASSUME PublishInv, NEW p \in Packets, IsNext(p)
  PROVE  p \notin recorded
<1>1. attempt[p][1] = "none"  BY PublishAssumption DEF IsNext, Packets
<1>2. 1 \in Brokers  BY PublishAssumption DEF Brokers
<1>3. QED  BY <1>1, <1>2 DEF PublishInv, SettledTogether

\* Starting with one packet changes nothing that is counted.
LEMMA FreshRow ==
  ASSUME PublishInv, NEW p \in Packets, p \notin recorded,
         NEW row \in [Brokers -> Attempts],
         \/ \A b \in Brokers : row[b] \in {"skipped", "pending"}
         \/ \A b \in Brokers : row[b] \in {"none", "over"},
         attempt' = [attempt EXCEPT ![p] = row], UNCHANGED <<recorded, deliveries>>
  PROVE  PublishInv'
<1> USE DEF PublishInv
<1>1. PublishTypes'  BY DEF PublishTypes
<1>2. \A q \in Packets : attempt'[q] = IF q = p THEN row ELSE attempt[q]  BY DEF PublishTypes
<1>3. SettledTogether'  BY <1>2 DEF SettledTogether
<1>4. DeliveriesAreTrue'
  <2> SUFFICES ASSUME NEW b \in Brokers, NEW o \in Outcomes
               PROVE  deliveries'[b][o] = Cardinality({q \in recorded' : attempt'[q][b] = Ended[o]})
    BY DEF DeliveriesAreTrue
  <2>1. {q \in recorded' : attempt'[q][b] = Ended[o]} = {q \in recorded : attempt[q][b] = Ended[o]}
    BY <1>2 DEF PublishTypes
  <2>2. QED  BY <2>1 DEF DeliveriesAreTrue
<1>5. QED  BY <1>1, <1>3, <1>4

LEMMA PublishKeeps ==
  ASSUME PublishInv, NEW p \in Packets, IsNext(p), NEW connected, Publish(p, connected)
  PROVE  PublishInv'
<1> DEFINE row == [b \in Brokers |-> IF b \in connected THEN "pending" ELSE "skipped"]
<1>1. row \in [Brokers -> Attempts] /\ \A b \in Brokers : row[b] \in {"skipped", "pending"}
  BY DEF Attempts
<1>2. attempt' = [attempt EXCEPT ![p] = row] /\ UNCHANGED <<recorded, deliveries>>  BY DEF Publish
<1> HIDE DEF row
<1>3. QED  BY <1>1, <1>2, NextIsNew, FreshRow

LEMMA OverKeeps ==
  ASSUME PublishInv, NEW p \in Packets, IsNext(p),
         attempt' = [attempt EXCEPT ![p] = Over], UNCHANGED <<recorded, deliveries>>
  PROVE  PublishInv'
<1>1. Over \in [Brokers -> Attempts] /\ \A b \in Brokers : Over[b] = "over"  BY DEF Over, Attempts
<1>2. QED  BY <1>1, NextIsNew, FreshRow

LEMMA ForgetKeeps == ASSUME PublishInv, Forget PROVE PublishInv'
<1> USE DEF PublishInv
<1>1. \A p \in Packets :
        attempt'[p] = IF \E b \in Brokers : attempt[p][b] # "none" THEN Over ELSE attempt[p]
  BY DEF Forget
<1>2. recorded' = {} /\ deliveries' = NoDeliveries  BY DEF Forget
<1>3. Over \in [Brokers -> Attempts] /\ \A b \in Brokers : Over[b] = "over"  BY DEF Over, Attempts
<1>4. attempt' \in [Packets -> [Brokers -> Attempts]]
  BY <1>1, <1>3 DEF Forget, PublishTypes
<1>5. PublishTypes'  BY <1>2, <1>4 DEF PublishTypes, NoDeliveries
<1>6. SettledTogether'  BY <1>1, <1>2, <1>3 DEF SettledTogether
<1>7. DeliveriesAreTrue'
  <2> SUFFICES ASSUME NEW b \in Brokers, NEW o \in Outcomes
               PROVE  deliveries'[b][o] = Cardinality({q \in recorded' : attempt'[q][b] = Ended[o]})
    BY DEF DeliveriesAreTrue
  <2>1. {q \in recorded' : attempt'[q][b] = Ended[o]} = {}  BY <1>2
  <2>2. deliveries'[b][o] = 0  BY <1>2 DEF NoDeliveries
  <2>3. QED  BY <2>1, <2>2, FS_EmptySet
<1>8. QED  BY <1>5, <1>6, <1>7

\* What the results of one packet add is what happened at each broker.
LEMMA RecordKeeps ==
  ASSUME PublishInv, NEW p \in Packets, Record(p)
  PROVE  PublishInv'
<1> USE DEF PublishInv
<1>1. p \notin recorded /\ recorded' = recorded \cup {p}  BY DEF Record
<1>2. PICK result \in [Brokers -> {"fulfilled", "rejected"}] :
        LET row == [b \in Brokers |-> IF attempt[p][b] = "pending" THEN result[b] ELSE attempt[p][b]]
        IN /\ attempt' = [attempt EXCEPT ![p] = row]
           /\ deliveries' = [b \in Brokers |-> [deliveries[b] EXCEPT ![Outcome(row, b)] = @ + 1]]
  BY DEF Record
<1> DEFINE row == [b \in Brokers |-> IF attempt[p][b] = "pending" THEN result[b] ELSE attempt[p][b]]
<1>3. \A b \in Brokers : attempt[p][b] \in {"skipped", "pending"}
  <2>1. \E b \in Brokers : attempt[p][b] \notin {"none", "over"}  BY DEF Record
  <2>2. QED  BY <1>1, <2>1 DEF SettledTogether
<1>4. row \in [Brokers -> Attempts] /\ \A b \in Brokers : row[b] \in {"skipped", "fulfilled", "rejected"}
  BY <1>3 DEF Attempts
<1>5. /\ attempt' = [attempt EXCEPT ![p] = row]
      /\ deliveries' = [b \in Brokers |-> [deliveries[b] EXCEPT ![Outcome(row, b)] = @ + 1]]
  BY <1>2
<1> HIDE DEF row
<1>6. \A b \in Brokers :
        Outcome(row, b) \in Outcomes /\ \A o \in Outcomes : row[b] = Ended[o] <=> o = Outcome(row, b)
  BY <1>4, OutcomeIsTrue
<1>7. \A q \in Packets : attempt'[q] = IF q = p THEN row ELSE attempt[q]  BY <1>5 DEF PublishTypes
<1>8. \A b \in Brokers, o \in Outcomes :
        deliveries'[b][o] = IF o = Outcome(row, b) THEN deliveries[b][o] + 1 ELSE deliveries[b][o]
  BY <1>5 DEF PublishTypes
<1>9. PublishTypes'
  <2>1. attempt' \in [Packets -> [Brokers -> Attempts]]  BY <1>4, <1>5 DEF PublishTypes
  <2>2. deliveries' \in [Brokers -> [Outcomes -> Nat]]  BY <1>5, <1>6 DEF PublishTypes
  <2>3. QED  BY <1>1, <2>1, <2>2 DEF PublishTypes
<1>10. SettledTogether'  BY <1>1, <1>4, <1>7 DEF SettledTogether
<1>11. DeliveriesAreTrue'
  <2> SUFFICES ASSUME NEW b \in Brokers, NEW o \in Outcomes
               PROVE  deliveries'[b][o] = Cardinality({q \in recorded' : attempt'[q][b] = Ended[o]})
    BY DEF DeliveriesAreTrue
  <2> DEFINE old == {q \in recorded : attempt[q][b] = Ended[o]}
  <2>1. deliveries[b][o] = Cardinality(old)  BY DEF DeliveriesAreTrue
  <2>2. IsFiniteSet(Packets)  BY PublishAssumption, FS_Interval DEF Packets
  <2>3. old \in SUBSET Packets  BY DEF PublishTypes
  <2>4. IsFiniteSet(old) /\ p \notin old  BY <1>1, <2>2, <2>3, FS_Subset
  <2>5. {q \in recorded' : attempt'[q][b] = Ended[o]} = IF row[b] = Ended[o] THEN old \cup {p} ELSE old
    BY <1>1, <1>7 DEF PublishTypes
  <2>6. Cardinality(old \cup {p}) = Cardinality(old) + 1  BY <2>4, FS_AddElement
  <2>7. row[b] = Ended[o] <=> o = Outcome(row, b)  BY <1>6
  <2> HIDE DEF old
  <2>8. CASE o = Outcome(row, b)  BY <1>8, <2>1, <2>5, <2>6, <2>7, <2>8
  <2>9. CASE o # Outcome(row, b)  BY <1>8, <2>1, <2>5, <2>7, <2>9
  <2>10. QED  BY <2>8, <2>9
<1>12. QED  BY <1>9, <1>10, <1>11

LEMMA PublishStarts == PublishInit => PublishInv
<1> SUFFICES ASSUME PublishInit PROVE PublishInv  OBVIOUS
<1>1. PublishTypes /\ SettledTogether
  BY DEF PublishInit, PublishTypes, SettledTogether, NoDeliveries, Attempts
<1>2. DeliveriesAreTrue
  <2> SUFFICES ASSUME NEW b \in Brokers, NEW o \in Outcomes
               PROVE  deliveries[b][o] = Cardinality({q \in recorded : attempt[q][b] = Ended[o]})
    BY DEF DeliveriesAreTrue
  <2>1. {q \in recorded : attempt[q][b] = Ended[o]} = {}  BY DEF PublishInit
  <2>2. deliveries[b][o] = 0  BY DEF PublishInit, NoDeliveries
  <2>3. QED  BY <2>1, <2>2, FS_EmptySet
<1>3. QED  BY <1>1, <1>2 DEF PublishInv

-----------------------------------------------------------------------------
(* What one sample holds.                                                   *)

LEMMA SnapshotType ==
  ASSUME PublishInv, HealthTypes
  PROVE  /\ Snapshot \in Snapshots /\ Snapshot # NoSnapshot
         /\ Zero \in Snapshots /\ Previous \in Snapshots
<1>1. Snapshot \in Snapshots
  BY DEF Snapshot, Snapshots, HealthTypes, PublishInv, PublishTypes
<1>2. Zero \in Snapshots  BY DEF Zero, Snapshots, NoDeliveries
<1>3. Previous \in Snapshots  BY <1>2 DEF Previous, HealthTypes
<1>4. Snapshot # NoSnapshot  BY <1>1, MetricsAssumption
<1>5. QED  BY <1>1, <1>2, <1>3, <1>4

\* A sample has what came in since the last one, and its buckets hold all
\* that was decoded.
LEMMA SampleAddsUp ==
  ASSUME PublishInv, HealthTypes, NEW at \in Nat
  PROVE  LET sample == ComputeSampleDelta(at)
         IN /\ sample \in SampleRows /\ sample.sampleAt = at
            /\ sample.received = packetsReceived - Previous.received
            /\ sample.decoded = SumOver(sample.byType)
<1> DEFINE prev == Previous
           delta == [c \in Codes |-> packetsByType[c] - prev.byType[c]]
           f == packetsByType
           g == prev.byType
           which == [c \in Codes |-> BucketOf(c)]
           sample == ComputeSampleDelta(at)
<1>0. IsFiniteSet(Codes) /\ IsFiniteSet(Buckets)  BY MetricsAssumption
<1>1. prev \in Snapshots  BY SnapshotType
<1>2. /\ prev.received \in Nat /\ g \in [Codes -> Nat]
      /\ prev.deliveries \in [Brokers -> [Outcomes -> Nat]]
  BY <1>1 DEF Snapshots
<1> HIDE DEF prev
<1>3. f \in [Codes -> Int] /\ g \in [Codes -> Int]  BY <1>2 DEF HealthTypes
<1>4. delta \in [Codes -> Int] /\ \A c \in Codes : f[c] = delta[c] + g[c]  BY <1>3
<1>5. which \in [Codes -> Buckets]  BY MetricsAssumption
<1>6. sample = [sampleAt |-> at, received |-> packetsReceived - prev.received,
                decoded |-> SumOver(f) - SumOver(g),
                byType |-> [b \in Buckets |-> BucketSum(delta, b)],
                deliveries |-> [b \in Brokers |-> [o \in Outcomes |->
                                  deliveries[b][o] - prev.deliveries[b][o]]]]
  BY DEF ComputeSampleDelta, prev
<1>7. \A b \in Buckets : BucketSum(delta, b) = PartSum(delta, Group(which, Codes, b))
  <2> TAKE b \in Buckets
  <2>1. {c \in Codes : BucketOf(c) = b} = Group(which, Codes, b)  BY DEF Group
  <2>2. QED  BY <2>1 DEF BucketSum, PartSum, Part
<1> HIDE DEF delta, which, f, g
<1>8. \A b \in Buckets : BucketSum(delta, b) \in Int
  <2> TAKE b \in Buckets
  <2>1. Group(which, Codes, b) \in SUBSET Codes  BY DEF Group
  <2>2. QED  BY <1>0, <1>4, <1>7, <2>1, PartInt
<1>9. SumOver(f) = SumOver(delta) + SumOver(g)  BY <1>0, <1>3, <1>4, SumPlus
<1>10. SumOver(f) \in Int /\ SumOver(g) \in Int /\ SumOver(delta) \in Int
  BY <1>0, <1>3, <1>4, SumIsPart, PartInt
<1>11. SumOver([b \in Buckets |-> PartSum(delta, Group(which, Codes, b))]) = SumOver(delta)
  BY <1>0, <1>4, <1>5, SumGroups
<1>12. [b \in Buckets |-> PartSum(delta, Group(which, Codes, b))] = [b \in Buckets |-> BucketSum(delta, b)]
  BY <1>7
<1>13. packetsReceived - prev.received \in Int  BY <1>2 DEF HealthTypes
<1>14. [b \in Brokers |-> [o \in Outcomes |-> deliveries[b][o] - prev.deliveries[b][o]]]
         \in [Brokers -> [Outcomes -> Int]]
  BY <1>2 DEF PublishInv, PublishTypes
<1>15. [b \in Buckets |-> BucketSum(delta, b)] \in [Buckets -> Int]  BY <1>8
<1>16. SumOver(f) - SumOver(g) = SumOver(delta)  BY <1>9, <1>10
<1>17. sample \in SampleRows  BY <1>6, <1>10, <1>13, <1>14, <1>15, <1>16 DEF SampleRows
<1>18. sample.decoded = SumOver(sample.byType)  BY <1>6, <1>11, <1>12, <1>16
<1>19. sample.sampleAt = at /\ sample.received = packetsReceived - prev.received  BY <1>6
<1> HIDE DEF sample
<1>20. QED  BY <1>17, <1>18, <1>19 DEF sample, prev

\* One more sample adds what it received.
LEMMA ReceivedAdds ==
  ASSUME NEW rows, IsFiniteSet(rows), rows \subseteq SampleRows, NEW row \in SampleRows, row \notin rows
  PROVE  Received(rows \cup {row}) = Received(rows) + row.received /\ Received(rows) \in Int
<1> DEFINE D == rows \cup {row}
           f == [r \in D |-> r.received]
<1>1. IsFiniteSet(D) /\ rows \in SUBSET D /\ row \in D /\ D \ {row} = rows  BY FS_AddElement
<1>2. f \in [D -> Int] /\ f[row] = row.received  BY DEF SampleRows
<1>3. Part(f, rows) = [r \in rows |-> r.received]  BY DEF Part
<1>4. Received(D) = SumOver(f)  BY DEF Received
<1>5. Received(rows) = PartSum(f, rows)  BY <1>3 DEF Received, PartSum
<1> HIDE DEF f, D
<1>6. PartSum(f, D) = f[row] + PartSum(f, D \ {row})  BY <1>1, <1>2, PartTake
<1>7. PartSum(f, rows) \in Int  BY <1>1, <1>2, PartInt
<1>8. SumOver(f) = PartSum(f, D)  BY <1>2, SumIsPart
<1>9. row.received \in Int  BY DEF SampleRows
<1>10. Received(D) = row.received + Received(rows)  BY <1>1, <1>2, <1>4, <1>5, <1>6, <1>8
<1>11. Received(rows) \in Int  BY <1>5, <1>7
<1>12. QED  BY <1>9, <1>10, <1>11 DEF D

-----------------------------------------------------------------------------
(* The invariant is kept.                                                   *)

\* Whatever leaves the samples alone and counts what it hears keeps them.
LEMMA HearingKeeps ==
  ASSUME MetricsInv, UNCHANGED <<sampleVars, now>>, PublishInv',
         packetsReceived' \in Nat, packetsByType' \in [Codes -> Nat],
         \/ packetsReceived' = packetsReceived + 1 /\ truth' = truth + 1
         \/ packetsReceived' = packetsReceived /\ truth' = truth
  PROVE  MetricsInv'
<1> USE DEF MetricsInv
<1>1. UNCHANGED <<lastSnapshot, lastPrunedAt, samples, pruneFailed, unsaved, saved, now>>
  BY DEF sampleVars
<1>2. HealthTypes'  BY <1>1 DEF HealthTypes
<1>3. SamplesInv'
  BY <1>1 DEF SamplesInv, SampleTypes, RowsAddUp, SamplesGoBack, PruningIsKept
<1>4. EveryPacketOnce'
  <2>1. Previous' = Previous  BY <1>1 DEF Previous
  <2>2. Previous.received \in Nat  BY SnapshotType DEF Snapshots
  <2>3. truth = Received(saved) + unsaved + (packetsReceived - Previous.received)
    BY DEF EveryPacketOnce
  <2> DEFINE received == Received(saved)
             due == Previous.received
  <2>4. Received(saved)' = received  BY <1>1
  <2>5. received \in Int
    <3>1. IsFiniteSet(saved) /\ saved \subseteq SampleRows  BY DEF SamplesInv, SampleTypes
    <3>2. [row \in saved |-> row.received] \in [saved -> Int]  BY <3>1 DEF SampleRows
    <3>3. QED  BY <3>1, <3>2, SumIsPart, PartInt DEF Received
  <2>6. packetsReceived \in Nat /\ truth \in Nat /\ unsaved \in Int /\ unsaved' = unsaved
    BY <1>1 DEF HealthTypes
  <2>7. truth' = received + unsaved' + (packetsReceived' - due)
    <3> HIDE DEF received, due
    <3>1. truth = received + unsaved + (packetsReceived - due)  BY <2>3 DEF received, due
    <3>2. due \in Nat  BY <2>2 DEF due
    <3>3. QED  BY <2>5, <2>6, <3>1, <3>2
  <2>8. QED  BY <2>1, <2>4, <2>7 DEF EveryPacketOnce
<1>5. QED  BY <1>2, <1>3, <1>4

\* What the interval leaves in the store.
LEMMA TickKeepsSamples ==
  ASSUME MetricsInv, NEW wrote \in BOOLEAN, NEW swept \in BOOLEAN, SampleTick(wrote, swept)
  PROVE  SamplesInv'
<1> DEFINE at == now + 1
           due == PruneDue(at)
           sample == ComputeSampleDelta(at)
           rows == IF wrote THEN samples \cup {sample} ELSE samples
<1>1. /\ now' = at /\ (due \/ swept) /\ lastSnapshot' = Snapshot
      /\ samples' = IF due /\ swept THEN Kept(rows, at) ELSE rows
      /\ saved' = IF wrote THEN saved \cup {sample} ELSE saved
      /\ pruneFailed' = IF due THEN ~swept ELSE pruneFailed
      /\ lastPrunedAt' = IF due THEN at ELSE lastPrunedAt
  BY DEF SampleTick, PruneTime
<1>2. PublishInv /\ HealthTypes /\ SampleTypes /\ RowsAddUp /\ SamplesGoBack /\ PruningIsKept
  BY DEF MetricsInv, SamplesInv
<1>3. at \in Nat /\ now \in Nat /\ at > now  BY <1>2 DEF HealthTypes
<1>4. sample \in SampleRows /\ sample.sampleAt = at /\ sample.decoded = SumOver(sample.byType)
  BY <1>2, <1>3, SampleAddsUp
<1>5. due <=> RetentionMs > 0 /\ (lastPrunedAt = -1 \/ at - lastPrunedAt >= OneDayMs)  BY DEF PruneDue
<1>6. Kept(rows, at) = {row \in rows : row.sampleAt >= at - RetentionMs}  BY DEF Kept
<1>7. RetentionMs \in Nat /\ OneDayMs \in Nat \ {0}  BY MetricsAssumption
<1> HIDE DEF at, due, sample
<1>8. \A row \in saved : row.sampleAt \in Nat /\ row.sampleAt <= now
  BY <1>2 DEF SamplesGoBack, SampleTypes, SampleRows
<1>9. SampleTypes'
  <2>1. IsFiniteSet(saved)'  BY <1>1, <1>2, FS_AddElement DEF SampleTypes
  <2>2. (saved \subseteq SampleRows)'  BY <1>1, <1>2, <1>4 DEF SampleTypes
  <2>3. (pruneFailed \in BOOLEAN)'
    <3>1. (~swept) \in BOOLEAN /\ pruneFailed \in BOOLEAN  BY <1>2 DEF SampleTypes
    <3>2. QED  BY <1>1, <3>1, Zenon
  <2>4. QED  BY <2>1, <2>2, <2>3 DEF SampleTypes
<1>10. RowsAddUp'
  <2> SUFFICES ASSUME NEW row \in saved' PROVE row.decoded = SumOver(row.byType)
    BY DEF RowsAddUp
  <2>1. CASE row \in saved  BY <1>2, <2>1 DEF RowsAddUp
  <2>2. CASE row \notin saved
    <3>1. row = sample  BY <1>1, <2>2
    <3>2. QED  BY <1>4, <3>1
  <2>3. QED  BY <2>1, <2>2
<1>11. samples \subseteq saved
       /\ \A row \in saved, old \in samples : row.sampleAt >= old.sampleAt => row \in samples
  BY <1>2 DEF SamplesGoBack
<1>12. rows \subseteq saved' /\ samples' \subseteq rows  BY <1>1, <1>6, <1>11
<1>13. \A row \in saved' : row \in saved \/ (wrote /\ row = sample)  BY <1>1
<1>14. \A row \in saved', old \in rows : row.sampleAt >= old.sampleAt => row \in rows
  <2> SUFFICES ASSUME NEW row \in saved', NEW old \in rows, row.sampleAt >= old.sampleAt PROVE row \in rows
    OBVIOUS
  <2>1. CASE wrote /\ row = sample  BY <2>1
  <2>2. CASE row \in saved /\ old \in samples  BY <1>11, <2>2
  <2>3. CASE row \in saved /\ old \notin samples
    <3>1. old = sample  BY <2>3
    <3>2. row.sampleAt >= at  BY <1>4, <3>1
    <3>3. QED  BY <1>3, <1>8, <2>3, <3>2
  <2>4. QED  BY <1>13, <2>1, <2>2, <2>3
<1>15. \A row \in saved' : row.sampleAt \in Nat /\ row.sampleAt <= at
  BY <1>3, <1>4, <1>8, <1>13
<1>16. SamplesGoBack'
  <2>1. (samples \subseteq saved)'  BY <1>12
  <2>2. \A row \in saved' : row.sampleAt <= now'  BY <1>1, <1>15
  <2>3. ASSUME NEW row \in saved', NEW old \in samples', row.sampleAt >= old.sampleAt PROVE row \in samples'
    <3>1. old \in rows /\ old \in saved'  BY <1>12
    <3>2. row \in rows  BY <1>14, <2>3, <3>1
    <3>3. CASE ~(due /\ swept)  BY <1>1, <3>2, <3>3
    <3>4. CASE due /\ swept
      <4>1. old.sampleAt >= at - RetentionMs  BY <1>1, <1>6, <3>4
      <4>2. row.sampleAt \in Nat /\ old.sampleAt \in Nat  BY <1>15, <3>1
      <4>3. row.sampleAt >= at - RetentionMs  BY <1>3, <1>7, <2>3, <4>1, <4>2
      <4>4. QED  BY <1>1, <1>6, <3>2, <3>4, <4>3
    <3>5. QED  BY <3>3, <3>4
  <2>4. QED  BY <2>1, <2>2, <2>3 DEF SamplesGoBack
<1>17. PruningIsKept'
  <2>1. lastPrunedAt \in Nat \cup {-1} /\ lastPrunedAt <= now  BY <1>2 DEF PruningIsKept
  <2>2. (lastPrunedAt \in Nat \cup {-1} /\ lastPrunedAt <= now)'  BY <1>1, <1>3, <2>1
  <2>3. RetentionMs > 0 => lastPrunedAt' # -1 /\ now' - lastPrunedAt' < OneDayMs
    BY <1>1, <1>3, <1>5, <1>7, <2>1
  <2>4. ASSUME lastPrunedAt' # -1, ~pruneFailed', NEW row \in samples'
        PROVE  row.sampleAt >= lastPrunedAt' - RetentionMs
    <3>1. CASE due
      <4>1. swept  BY <1>1, <2>4, <3>1
      <4>2. QED  BY <1>1, <1>6, <3>1, <4>1
    <3>2. CASE ~due
      <4>1. lastPrunedAt' = lastPrunedAt /\ ~pruneFailed /\ row \in rows  BY <1>1, <2>4, <3>2
      <4>2. CASE row \in samples  BY <1>2, <2>4, <4>1, <4>2 DEF PruningIsKept
      <4>3. CASE row \notin samples
        <5>1. row.sampleAt = at  BY <1>4, <4>1, <4>3
        <5>2. QED  BY <1>3, <1>7, <2>1, <4>1, <5>1
      <4>4. QED  BY <4>2, <4>3
    <3>3. QED  BY <3>1, <3>2
  <2>5. QED  BY <2>2, <2>3, <2>4 DEF PruningIsKept
<1>18. QED  BY <1>9, <1>10, <1>16, <1>17 DEF SamplesInv

\* The packets of a sample that is written go there; of one that is not, they
\* are lost.
LEMMA TickKeepsCount ==
  ASSUME MetricsInv, NEW wrote \in BOOLEAN, NEW swept \in BOOLEAN, SampleTick(wrote, swept)
  PROVE  HealthTypes' /\ EveryPacketOnce'
<1> DEFINE at == now + 1
           sample == ComputeSampleDelta(at)
           received == Received(saved)
           due == packetsReceived - Previous.received
<1>1. /\ now' = at /\ lastSnapshot' = Snapshot
      /\ saved' = IF wrote THEN saved \cup {sample} ELSE saved
      /\ unsaved' = unsaved + (IF wrote THEN 0 ELSE sample.received)
      /\ UNCHANGED <<packetsReceived, packetsByType, truth>>
  BY DEF SampleTick, healthVars
<1>2. PublishInv /\ HealthTypes /\ SampleTypes /\ SamplesGoBack /\ EveryPacketOnce
  BY DEF MetricsInv, SamplesInv
<1>3. at \in Nat /\ now \in Nat /\ at > now  BY <1>2 DEF HealthTypes
<1>4. sample \in SampleRows /\ sample.sampleAt = at /\ sample.received = due
  BY <1>2, <1>3, SampleAddsUp
<1>5. due \in Int  BY <1>4 DEF SampleRows
<1>6. Snapshot \in Snapshots /\ Snapshot # NoSnapshot  BY <1>2, SnapshotType
<1>7. HealthTypes'  BY <1>1, <1>2, <1>3, <1>4, <1>5, <1>6 DEF HealthTypes
<1>8. Previous' = Snapshot  BY <1>1, <1>6 DEF Previous
<1>9. Snapshot.received = packetsReceived  BY DEF Snapshot
<1>10. truth = received + unsaved + due  BY <1>2 DEF EveryPacketOnce
<1>11. IsFiniteSet(saved) /\ saved \subseteq SampleRows  BY <1>2 DEF SampleTypes
<1>12. sample \notin saved
  <2>1. \A row \in saved : row.sampleAt <= now  BY <1>2 DEF SamplesGoBack
  <2> HIDE DEF sample, at
  <2>2. QED  BY <1>3, <1>4, <2>1
<1> HIDE DEF sample, at, due
<1>13. Received(saved \cup {sample}) = received + sample.received /\ received \in Int
  BY <1>4, <1>11, <1>12, ReceivedAdds
<1>14. Received(saved)' = IF wrote THEN Received(saved \cup {sample}) ELSE received
  BY <1>1
<1> HIDE DEF received
<1>15. truth' = Received(saved)' + unsaved' + (packetsReceived' - Previous'.received)
  <2>1. packetsReceived' - Previous'.received = 0  BY <1>1, <1>2, <1>8, <1>9 DEF HealthTypes
  <2>2. unsaved \in Int  BY <1>2 DEF HealthTypes
  <2>3. CASE wrote  BY <1>1, <1>4, <1>5, <1>10, <1>13, <1>14, <2>1, <2>2, <2>3
  <2>4. CASE ~wrote  BY <1>1, <1>4, <1>5, <1>10, <1>13, <1>14, <2>1, <2>2, <2>4
  <2>5. QED  BY <2>3, <2>4
<1>16. EveryPacketOnce'  BY <1>15 DEF EveryPacketOnce
<1>17. QED  BY <1>7, <1>16

LEMMA TickKeeps ==
  ASSUME MetricsInv, NEW wrote \in BOOLEAN, NEW swept \in BOOLEAN, SampleTick(wrote, swept)
  PROVE  MetricsInv'
<1>1. UNCHANGED publishVars  BY DEF SampleTick
<1>2. PublishInv'
  BY <1>1 DEF MetricsInv, PublishInv, PublishTypes, SettledTogether, DeliveriesAreTrue, publishVars
<1>3. QED  BY <1>2, TickKeepsCount, TickKeepsSamples DEF MetricsInv

\* What a process has counted and not sampled goes with it.
LEMMA RestartKeeps ==
  ASSUME MetricsInv, NEW pause \in 0 .. MaxTime, Restart(pause)
  PROVE  MetricsInv'
<1>1. PublishInv /\ HealthTypes /\ SamplesInv /\ EveryPacketOnce  BY DEF MetricsInv
<1>2. /\ now' = now + pause /\ pause \in Nat
      /\ packetsReceived' = 0 /\ packetsByType' = [c \in Codes |-> 0]
      /\ unsaved' = unsaved + packetsReceived - Previous.received
      /\ lastSnapshot' = NoSnapshot /\ lastPrunedAt' = -1 /\ pruneFailed' = FALSE
      /\ UNCHANGED <<truth, samples, saved>>
  BY DEF Restart
<1>3. PublishInv'  BY <1>1, ForgetKeeps DEF Restart
<1>4. Previous.received \in Nat  BY <1>1, SnapshotType DEF Snapshots
<1>5. now \in Nat /\ packetsReceived \in Nat /\ unsaved \in Int /\ truth \in Nat  BY <1>1 DEF HealthTypes
<1>6. HealthTypes'  BY <1>2, <1>4, <1>5 DEF HealthTypes
<1>7. SampleTypes' /\ RowsAddUp'  BY <1>1, <1>2 DEF SamplesInv, SampleTypes, RowsAddUp
<1>8. \A row \in saved : row.sampleAt \in Nat /\ row.sampleAt <= now
  BY <1>1 DEF SamplesInv, SamplesGoBack, SampleTypes, SampleRows
<1>9. SamplesGoBack'
  <2>1. \A row \in saved : row.sampleAt <= now'  BY <1>2, <1>5, <1>8
  <2>2. QED  BY <1>1, <1>2, <2>1 DEF SamplesInv, SamplesGoBack
<1>10. PruningIsKept'  BY <1>2, <1>5 DEF PruningIsKept
<1>11. EveryPacketOnce'
  <2>1. Previous' = Zero /\ Zero.received = 0
    <3>1. Previous' = Zero'  BY <1>2 DEF Previous
    <3>2. QED  BY <3>1 DEF Zero, NoDeliveries
  <2> DEFINE received == Received(saved)
             prev == Previous.received
  <2>2. Received(saved)' = received  BY <1>2
  <2>3. truth = received + unsaved + (packetsReceived - prev)  BY <1>1 DEF EveryPacketOnce
  <2>4. received \in Int
    <3>1. IsFiniteSet(saved) /\ saved \subseteq SampleRows  BY <1>1 DEF SamplesInv, SampleTypes
    <3>2. [row \in saved |-> row.received] \in [saved -> Int]  BY <3>1 DEF SampleRows
    <3>3. QED  BY <3>1, <3>2, SumIsPart, PartInt DEF Received
  <2>5. unsaved' = unsaved + packetsReceived - prev  BY <1>2
  <2>6. prev \in Nat  BY <1>4
  <2> HIDE DEF received, prev
  <2>7. truth' = received + unsaved' + (0 - 0)  BY <1>2, <1>5, <2>3, <2>4, <2>5, <2>6
  <2>8. QED  BY <1>2, <2>1, <2>2, <2>7 DEF EveryPacketOnce
<1>12. QED  BY <1>3, <1>6, <1>7, <1>9, <1>10, <1>11 DEF MetricsInv, SamplesInv

LEMMA MetricsStarts == Init => MetricsInv
<1> SUFFICES ASSUME Init PROVE MetricsInv  OBVIOUS
<1>1. PublishInv  BY PublishStarts DEF Init
<1>2. HealthTypes  BY DEF Init, HealthTypes
<1>3. SamplesInv
  <2>1. SampleTypes  BY FS_EmptySet DEF Init, SampleTypes
  <2>2. RowsAddUp /\ SamplesGoBack  BY DEF Init, RowsAddUp, SamplesGoBack
  <2>3. PruningIsKept  BY DEF Init, PruningIsKept
  <2>4. QED  BY <2>1, <2>2, <2>3 DEF SamplesInv
<1>4. Received(saved) = 0
  <2> DEFINE f == [row \in saved |-> row.received]
  <2>1. DOMAIN f = {} /\ f \in [{} -> Int] /\ IsFiniteSet({})  BY FS_EmptySet DEF Init
  <2> HIDE DEF f
  <2>2. SumOver(f) = PartSum(f, {})  BY <2>1, SumIsPart
  <2>3. PartSum(f, {}) = 0  BY <2>1, PartEmpty
  <2>4. QED  BY <2>2, <2>3 DEF Received, f
<1>5. EveryPacketOnce
  <2>1. Previous.received = 0  BY DEF Init, Previous, Zero
  <2>2. QED  BY <1>4, <2>1 DEF Init, EveryPacketOnce
<1>6. QED  BY <1>1, <1>2, <1>3, <1>5 DEF MetricsInv

\* One step of PacketMetrics per case.
LEMMA MetricsStep == MetricsInv /\ [Next]_vars => MetricsInv'
<1> SUFFICES ASSUME MetricsInv, [Next]_vars PROVE MetricsInv'  OBVIOUS
<1>0. PublishInv /\ HealthTypes  BY DEF MetricsInv
<1>1. ASSUME NEW p \in Packets, HearNoise(p) PROVE MetricsInv'
  <2>1. PublishInv'  BY <1>0, <1>1, OverKeeps DEF HearNoise
  <2>2. UNCHANGED <<sampleVars, now>> /\ packetsByType' = packetsByType
        /\ packetsReceived' = packetsReceived + 1 /\ truth' = truth + 1
    BY <1>1 DEF HearNoise
  <2>3. packetsReceived' \in Nat /\ packetsByType' \in [Codes -> Nat]  BY <1>0, <2>2 DEF HealthTypes
  <2>4. QED  BY <2>1, <2>2, <2>3, HearingKeeps
<1>2. ASSUME NEW p \in Packets, NEW c \in Codes, Hear(p, c) PROVE MetricsInv'
  <2>1. PublishInv'  BY <1>0, <1>2, PublishKeeps DEF Hear
  <2>2. UNCHANGED <<sampleVars, now>> /\ packetsByType' = [packetsByType EXCEPT ![c] = @ + 1]
        /\ packetsReceived' = packetsReceived + 1 /\ truth' = truth + 1
    BY <1>2 DEF Hear
  <2>3. packetsReceived' \in Nat /\ packetsByType' \in [Codes -> Nat]  BY <1>0, <2>2 DEF HealthTypes
  <2>4. QED  BY <2>1, <2>2, <2>3, HearingKeeps
<1>3. CASE Delivered
  <2>1. PublishInv'  BY <1>0, <1>3, RecordKeeps DEF Delivered
  <2>2. UNCHANGED <<sampleVars, now>> /\ UNCHANGED <<packetsReceived, packetsByType, truth>>
    BY <1>3 DEF Delivered, healthVars
  <2>3. packetsReceived' \in Nat /\ packetsByType' \in [Codes -> Nat]  BY <1>0, <2>2 DEF HealthTypes
  <2>4. QED  BY <2>1, <2>2, <2>3, HearingKeeps
<1>4. CASE \E wrote, swept \in BOOLEAN : SampleTick(wrote, swept)  BY <1>4, TickKeeps
<1>5. CASE \E pause \in 0 .. MaxTime : Restart(pause)  BY <1>5, RestartKeeps
<1>6. CASE UNCHANGED vars
  <2>1. UNCHANGED <<publishVars, healthVars, sampleVars, now>>  BY <1>6 DEF vars
  <2>2. PublishInv'
    BY <1>0, <2>1 DEF PublishInv, PublishTypes, SettledTogether, DeliveriesAreTrue, publishVars
  <2>3. UNCHANGED <<packetsReceived, packetsByType, truth>>  BY <2>1 DEF healthVars
  <2>4. packetsReceived' \in Nat /\ packetsByType' \in [Codes -> Nat]  BY <1>0, <2>3 DEF HealthTypes
  <2>5. QED  BY <2>1, <2>2, <2>3, <2>4, HearingKeeps
<1>7. QED  BY <1>1, <1>2, <1>3, <1>4, <1>5, <1>6 DEF Next

\* The counters, the deliveries and the samples keep their invariant, across
\* failed writes and restarts.
THEOREM MetricsInvHolds == Spec => []MetricsInv
<1>1. QED  BY MetricsStarts, MetricsStep, PTL DEF Spec

\* ServiceHealth counts for every broker what happened at that broker, although
\* the outcomes come as one list without the skipped ones.
THEOREM DeliveriesCounted == Spec => []DeliveriesAreTrue
<1>1. MetricsInv => DeliveriesAreTrue  BY DEF MetricsInv, PublishInv
<1>2. QED  BY <1>1, MetricsInvHolds, PTL

\* Every packet heard is in one sample, lost with a process or a failed write,
\* or due next.
THEOREM PacketsCountedOnce == Spec => []EveryPacketOnce
<1>1. MetricsInv => EveryPacketOnce  BY DEF MetricsInv
<1>2. QED  BY <1>1, MetricsInvHolds, PTL

\* Pruning at most once a day leaves no sample older than the retention and a
\* day, unless it failed.
THEOREM OldSamplesPruned == Spec => []OldSamplesGo
<1>1. MetricsInv => OldSamplesGo
  <2> SUFFICES ASSUME MetricsInv, RetentionMs > 0, lastSnapshot # NoSnapshot, ~pruneFailed, NEW row \in samples
               PROVE  now - row.sampleAt < RetentionMs + OneDayMs
    BY DEF OldSamplesGo
  <2>1. PruningIsKept /\ now \in Nat /\ row.sampleAt \in Nat
    BY DEF MetricsInv, HealthTypes, SamplesInv, SamplesGoBack, SampleTypes, SampleRows
  <2>2. lastPrunedAt \in Int /\ now - lastPrunedAt < OneDayMs /\ row.sampleAt >= lastPrunedAt - RetentionMs
    BY <2>1 DEF PruningIsKept
  <2>3. RetentionMs \in Nat /\ OneDayMs \in Nat  BY MetricsAssumption
  <2>4. QED  BY <2>1, <2>2, <2>3
<1>2. QED  BY <1>1, MetricsInvHolds, PTL

-----------------------------------------------------------------------------
(* The queries.                                                             *)

\* The earliest sample is one, and none is earlier.
LEMMA EarliestIsFirst ==
  ASSUME MetricsInv, samples # {}
  PROVE  \E old \in samples : EarliestSampleAt = old.sampleAt /\ EarliestSampleAt \in Nat
<1> DEFINE times == {row.sampleAt : row \in samples}
<1>1. times \in SUBSET Nat /\ times # {}
  BY DEF MetricsInv, SamplesInv, SamplesGoBack, SampleTypes, SampleRows
<1>2. PICK n \in times : \A i \in times : n <= i  BY <1>1, LeastNumber
<1>3. EarliestSampleAt \in times
  <2>1. EarliestSampleAt = CHOOSE x \in times : \A y \in times : x =< y  BY DEF EarliestSampleAt, Min
  <2> HIDE DEF times
  <2>2. QED  BY <1>2, <2>1
<1>4. QED  BY <1>1, <1>3

\* A window that begins with the earliest sample or later has lost nothing.
LEMMA WindowIsComplete ==
  ASSUME MetricsInv, samples # {}, NEW start \in Int, NEW end \in Int, start >= EarliestSampleAt
  PROVE  Within(samples, start, end) = Within(saved, start, end)
<1>1. PICK old \in samples : EarliestSampleAt = old.sampleAt /\ EarliestSampleAt \in Nat  BY EarliestIsFirst
<1>2. samples \subseteq saved
      /\ \A row \in saved : row.sampleAt \in Nat /\ (row.sampleAt >= old.sampleAt => row \in samples)
  BY DEF MetricsInv, SamplesInv, SamplesGoBack, SampleTypes, SampleRows
<1>3. ASSUME NEW row \in saved, start <= row.sampleAt PROVE row \in samples
  <2>1. row.sampleAt \in Nat /\ old.sampleAt \in Nat  BY <1>1, <1>2
  <2>2. row.sampleAt >= old.sampleAt  BY <1>1, <1>3, <2>1
  <2>3. QED  BY <1>2, <2>2
<1>4. QED  BY <1>2, <1>3 DEF Within

\* A trend that is shown is the change in all that was ever saved.
THEOREM TrendsCompareAll == Spec => []TrendsAreComplete
<1>1. MetricsInv => TrendsAreComplete
  <2> SUFFICES ASSUME MetricsInv, NEW start \in 0 .. now, NEW end \in start + 1 .. now,
                      NEW trend \in Trends(start, end)
               PROVE  trend = Change(saved, start, end)
    BY DEF TrendsAreComplete
  <2> DEFINE before == start - (end - start)
  <2>1. trend = Change(samples, start, end) /\ IsCompared(start, end)  BY DEF Trends
  <2>2. samples # {} /\ before >= EarliestSampleAt  BY <2>1 DEF IsCompared
  <2>3. now \in Nat /\ start \in Int /\ end \in Int /\ start < end  BY DEF MetricsInv, HealthTypes
  <2>4. EarliestSampleAt \in Nat  BY <2>2, EarliestIsFirst
  <2>5. before \in Int /\ start >= EarliestSampleAt  BY <2>2, <2>3, <2>4
  <2>6. Within(samples, before, start) = Within(saved, before, start)
    BY <2>2, <2>3, <2>5, WindowIsComplete
  <2>7. Within(samples, start, end) = Within(saved, start, end)
    BY <2>2, <2>3, <2>5, WindowIsComplete
  <2>8. Numbers(samples, before, start) = Numbers(saved, before, start)  BY <2>6 DEF Numbers
  <2>9. Numbers(samples, start, end) = Numbers(saved, start, end)  BY <2>7 DEF Numbers
  <2>10. Change(samples, start, end) = Change(saved, start, end)  BY <2>8, <2>9 DEF Change
  <2>11. QED  BY <2>1, <2>10
<1>2. QED  BY <1>1, MetricsInvHolds, PTL

\* Whole division.
LEMMA Division ==
  ASSUME NEW a \in Nat, NEW b \in Nat \ {0}
  PROVE  a \div b \in Nat /\ (a \div b) * b <= a /\ a < (a \div b) * b + b
OBVIOUS

\* A product bounds its factor.
LEMMA FactorBound ==
  ASSUME NEW q \in Nat, NEW w \in Nat \ {0}, NEW m \in Nat, q * w < m * w
  PROVE  q < m
<1> SUFFICES ASSUME q >= m PROVE FALSE  OBVIOUS
<1>1. PICK d \in Nat : q = m + d  BY q - m \in Nat
<1>2. q * w = m * w + d * w /\ d * w >= 0 /\ d * w \in Nat /\ m * w \in Nat  BY <1>1
<1>3. QED  BY <1>2

\* Every finite set of natural numbers that is not empty has a greatest one.
LEMMA GreatestNumber ==
  ASSUME NEW S \in SUBSET Nat, IsFiniteSet(S), S # {}
  PROVE  \E n \in S : \A i \in S : n >= i
<1> DEFINE G == {s \in SUBSET S : s # {} => \E n \in s : \A i \in s : n >= i}
<1>1. {} \in G  OBVIOUS
<1>2. \A s \in SUBSET S : \A x \in s : s \ {x} \in G => s \in G
  <2> SUFFICES ASSUME NEW s \in SUBSET S, NEW x \in s, s \ {x} \in G
               PROVE  \E n \in s : \A i \in s : n >= i
    OBVIOUS
  <2>1. CASE s \ {x} = {}
    <3>1. \A i \in s : x >= i  BY <2>1
    <3>2. QED  BY <3>1
  <2>2. CASE s \ {x} # {}
    <3>1. PICK n \in s \ {x} : \A i \in s \ {x} : n >= i  BY <2>2
    <3>2. n \in Nat /\ x \in Nat  OBVIOUS
    <3>3. CASE n >= x
      <4>1. \A i \in s : n >= i  BY <3>1, <3>3
      <4>2. QED  BY <3>1, <4>1
    <3>4. CASE x > n
      <4>1. \A i \in s : i \in Nat /\ (i = x \/ n >= i)  BY <3>1
      <4>2. \A i \in s : x >= i  BY <3>2, <3>4, <4>1
      <4>3. QED  BY <4>2
    <3>5. QED  BY <3>2, <3>3, <3>4
  <2>3. QED  BY <2>1, <2>2
<1>3. SUBSET S \subseteq G
  <2> HIDE DEF G
  <2>1. QED  BY <1>1, <1>2, ElementInduction
<1>4. QED  BY <1>3

\* maxChartBuckets buckets of the resolved width cover the range.
LEMMA WidthFits ==
  ASSUME NEW range \in Nat \ {0}
  PROVE  ResolveBucketWidth(range) \in Nat \ {0} /\ ResolveBucketWidth(range) * MaxBuckets >= range
<1> DEFINE fitting == {rung \in Rungs : WideEnough(rung, range)}
           share == Max(Rungs) * MaxBuckets
           width == ResolveBucketWidth(range)
<1>0. MaxBuckets \in Nat \ {0} /\ IsFiniteSet(Ladder) /\ Ladder \in SUBSET Nat  BY MetricsAssumption
<1>1. Rungs \in SUBSET (Nat \ {0}) /\ Rungs # {}
  <2>1. SampleIntervalMs = 1  BY DEF SampleIntervalMs
  <2>2. \A rung \in Ladder : rung \in Nat /\ (rung > 1 => rung # 0)  BY <1>0
  <2>3. SampleIntervalMs \in Rungs  BY DEF Rungs
  <2>4. \A rung \in Rungs : rung = 1 \/ (rung \in Ladder /\ rung > 1)  BY <2>1 DEF Rungs
  <2>5. \A rung \in Rungs : rung \in Nat \ {0}  BY <2>2, <2>4
  <2>6. QED  BY <2>3, <2>5
<1>2. IsFiniteSet(Rungs)
  <2> DEFINE wider == {rung \in Ladder : rung > SampleIntervalMs}
  <2>1. IsFiniteSet(wider)  BY <1>0, FS_Subset
  <2>2. Rungs = wider \cup {SampleIntervalMs}  BY DEF Rungs
  <2> HIDE DEF wider
  <2>3. QED  BY <2>1, <2>2, FS_AddElement
<1>3. width = IF fitting # {} THEN Min(fitting) ELSE ((range + share - 1) \div share) * Max(Rungs)
  BY DEF ResolveBucketWidth
<1>4. CASE fitting # {}
  <2>1. fitting \in SUBSET Nat  BY <1>1
  <2>2. \E n \in fitting : \A i \in fitting : n <= i  BY <1>4, <2>1, LeastNumber
  <2>3. Min(fitting) \in fitting  BY <2>2 DEF Min
  <2>4. QED  BY <1>1, <1>3, <1>4, <2>3 DEF WideEnough
<1>5. CASE fitting = {}
  <2> DEFINE last == Max(Rungs)
             q == (range + share - 1) \div share
  <2>1. \E n \in Rungs : \A i \in Rungs : n >= i
    <3>1. Rungs \in SUBSET Nat  BY <1>1
    <3>2. QED  BY <1>1, <1>2, <3>1, GreatestNumber
  <2>2. last \in Rungs  BY <2>1 DEF Max
  <2>3. last \in Nat \ {0}  BY <1>1, <2>2
  <2> HIDE DEF last
  <2>4. last * MaxBuckets \in Nat \ {0}  BY <1>0, <2>3
  <2>5. share = last * MaxBuckets  BY DEF last
  <2>6. share \in Nat \ {0}  BY <2>4, <2>5
  <2> HIDE DEF share
  <2>7. range + share - 1 \in Nat  BY <2>6
  <2>8. q \in Nat /\ range + share - 1 < q * share + share  BY <2>6, <2>7, Division
  <2> HIDE DEF q
  <2>9. q * share \in Nat  BY <2>6, <2>8
  <2>10. q * share >= range  BY <2>6, <2>8, <2>9
  <2>11. q # 0
    <3>1. q = 0 => q * share = 0  BY <2>6
    <3>2. QED  BY <2>10, <3>1
  <2>12. width = q * last  BY <1>3, <1>5 DEF q, last
  <2>13. q * last \in Nat \ {0}  BY <2>3, <2>8, <2>11
  <2>14. (q * last) * MaxBuckets = q * (last * MaxBuckets)  BY <1>0, <2>3, <2>8
  <2> HIDE DEF width
  <2>15. width * MaxBuckets >= range  BY <2>5, <2>10, <2>12, <2>14
  <2>16. QED  BY <2>12, <2>13, <2>15 DEF width
<1>6. QED  BY <1>4, <1>5

\* The totals of a field of the samples, bucket by bucket of the chart, add up
\* to its total.
LEMMA ChartAddsUp ==
  ASSUME NEW rows, IsFiniteSet(rows), NEW f \in [rows -> Int], NEW index \in [rows -> Int],
         NEW I, I = {index[row] : row \in rows}
  PROVE  SumOver([i \in I |-> SumOver(Part(f, {row \in rows : index[row] = i}))]) = SumOver(f)
<1>1. index \in Surjection(rows, I)  BY Zenon DEF Surjection
<1>2. IsFiniteSet(I)  BY <1>1, FS_Surjection
<1>3. index \in [rows -> I]  OBVIOUS
<1>4. SumOver([i \in I |-> PartSum(f, Group(index, rows, i))]) = SumOver(f)  BY <1>2, <1>3, SumGroups
<1>5. QED  BY <1>4 DEF PartSum, Group

\* The buckets of the chart within the window are as many as asked for.
LEMMA IndexInBounds ==
  ASSUME NEW start \in Int, NEW end \in Int, NEW at \in Int, start <= at, at < end
  PROVE  (at - start) \div ResolveBucketWidth(end - start) \in 0 .. MaxBuckets - 1
<1> DEFINE width == ResolveBucketWidth(end - start)
           q == (at - start) \div width
<1>0. MaxBuckets \in Nat \ {0}  BY MetricsAssumption
<1>1. end - start \in Nat \ {0} /\ at - start \in Nat /\ at - start < end - start  OBVIOUS
<1>2. width \in Nat \ {0} /\ width * MaxBuckets >= end - start  BY <1>1, WidthFits
<1> HIDE DEF width
<1>3. q \in Nat /\ q * width <= at - start  BY <1>1, <1>2, Division
<1> HIDE DEF q
<1>4. MaxBuckets * width = width * MaxBuckets /\ MaxBuckets * width \in Nat /\ q * width \in Nat
  BY <1>0, <1>2, <1>3
<1>5. q * width < MaxBuckets * width  BY <1>1, <1>2, <1>3, <1>4
<1>6. q < MaxBuckets  BY <1>0, <1>2, <1>3, <1>5, FactorBound
<1>7. QED  BY <1>0, <1>3, <1>6 DEF q, width

\* The pie of some samples holds what they decoded.
LEMMA PieAddsUp ==
  ASSUME NEW rows, IsFiniteSet(rows), rows \subseteq SampleRows,
         \A row \in rows : row.decoded = SumOver(row.byType)
  PROVE  SumOver([b \in Buckets |-> OfBucket(rows, b)]) = Decoded(rows)
<1> DEFINE H == [row \in rows |-> row.byType]
<1>1. H \in [rows -> [Buckets -> Int]] /\ \A row \in rows : H[row] = row.byType  BY DEF SampleRows
<1>2. IsFiniteSet(Buckets)  BY MetricsAssumption
<1> HIDE DEF H
<1>3. SumOver([row \in rows |-> SumOver(H[row])]) = SumOver([b \in Buckets |-> SumOver([row \in rows |-> H[row][b]])])
  BY <1>1, <1>2, SumSwap
<1>4. [row \in rows |-> SumOver(H[row])] = [row \in rows |-> row.decoded]  BY <1>1
<1>5. \A b \in Buckets : [row \in rows |-> H[row][b]] = [row \in rows |-> row.byType[b]]  BY <1>1
<1>6. [b \in Buckets |-> SumOver([row \in rows |-> H[row][b]])] = [b \in Buckets |-> OfBucket(rows, b)]
  BY <1>5 DEF OfBucket
<1>7. QED  BY <1>3, <1>4, <1>6 DEF Decoded

\* Chart, pie and totals of every window agree.
LEMMA WindowAgrees ==
  ASSUME MetricsInv, NEW start \in Int, NEW end \in Int, start < end
  PROVE  Agree(start, end)
<1> DEFINE rows == Within(samples, start, end)
           width == ResolveBucketWidth(end - start)
           index == [row \in rows |-> (row.sampleAt - start) \div width]
           I == {index[row] : row \in rows}
           Mine(i) == {row \in rows : index[row] = i}
           history == QueryPacketHistory(start, end)
           received == [row \in rows |-> row.received]
           OfType(b) == [row \in rows |-> row.byType[b]]
<1>1. /\ now \in Nat /\ start \in Int /\ end \in Int
      /\ IsFiniteSet(saved) /\ saved \subseteq SampleRows /\ samples \subseteq saved
      /\ \A row \in saved : row.decoded = SumOver(row.byType)
  BY DEF MetricsInv, HealthTypes, SamplesInv, SampleTypes, RowsAddUp, SamplesGoBack
<1>2. rows \in SUBSET saved
      /\ \A row \in rows : start <= row.sampleAt /\ row.sampleAt < end
  BY <1>1 DEF Within
<1> HIDE DEF rows
<1>3. IsFiniteSet(rows) /\ rows \subseteq SampleRows
      /\ \A row \in rows : row.decoded = SumOver(row.byType)
  BY <1>1, <1>2, FS_Subset
<1>4. \A row \in rows : index[row] \in 0 .. MaxBuckets - 1
  <2> TAKE row \in rows
  <2>1. row.sampleAt \in Int  BY <1>3 DEF SampleRows
  <2>2. QED  BY <1>1, <1>2, <2>1, IndexInBounds
<1>5. index \in [rows -> Int]
  <2>1. MaxBuckets \in Nat  BY MetricsAssumption
  <2>2. index = [row \in rows |-> index[row]]  OBVIOUS
  <2> HIDE DEF index
  <2>3. QED  BY <1>4, <2>1, <2>2
<1>6. history = [i \in I |-> [received |-> Received(Mine(i)), decoded |-> Decoded(Mine(i)),
                              byType |-> [b \in Buckets |-> OfBucket(Mine(i), b)]]]
  <2>1. I = {(row.sampleAt - start) \div width : row \in rows}  OBVIOUS
  <2>2. \A i : Mine(i) = {row \in rows : (row.sampleAt - start) \div width = i}  OBVIOUS
  <2> HIDE DEF I, Mine
  <2>3. QED  BY <2>1, <2>2 DEF QueryPacketHistory, rows
<1>7. DOMAIN history = I  BY <1>6
<1>8. I \subseteq 0 .. MaxBuckets - 1  BY <1>4
<1>9. \A i : Mine(i) \subseteq rows  OBVIOUS
<1>10. \A i \in I : history[i].received = SumOver(Part(received, Mine(i)))
  <2> TAKE i \in I
  <2>1. Part(received, Mine(i)) = [row \in Mine(i) |-> row.received]  BY DEF Part
  <2>2. history[i].received = Received(Mine(i))  BY <1>6
  <2>3. QED  BY <2>1, <2>2 DEF Received
<1>11. \A b \in Buckets, i \in I : history[i].byType[b] = SumOver(Part(OfType(b), Mine(i)))
  <2> TAKE b \in Buckets, i \in I
  <2>1. Part(OfType(b), Mine(i)) = [row \in Mine(i) |-> row.byType[b]]  BY DEF Part
  <2>2. history[i].byType[b] = OfBucket(Mine(i), b)  BY <1>6
  <2>3. QED  BY <2>1, <2>2 DEF OfBucket
<1>12. received \in [rows -> Int] /\ \A b \in Buckets : OfType(b) \in [rows -> Int]
  BY <1>3 DEF SampleRows
<1> HIDE DEF index, received, OfType, history
<1>13. SumOver([i \in I |-> SumOver(Part(received, Mine(i)))]) = SumOver(received)
  BY <1>3, <1>5, <1>12, ChartAddsUp
<1>14. \A b \in Buckets : SumOver([i \in I |-> SumOver(Part(OfType(b), Mine(i)))]) = SumOver(OfType(b))
  <2> TAKE b \in Buckets
  <2> DEFINE f == OfType(b)
  <2>1. f \in [rows -> Int]  BY <1>12
  <2> HIDE DEF f
  <2>2. SumOver([i \in I |-> SumOver(Part(f, Mine(i)))]) = SumOver(f)  BY <1>3, <1>5, <2>1, ChartAddsUp
  <2>3. QED  BY <2>2 DEF f
<1> HIDE DEF I, Mine
<1>15. [i \in I |-> history[i].received] = [i \in I |-> SumOver(Part(received, Mine(i)))]  BY <1>10
<1>16. \A b \in Buckets :
         [i \in I |-> history[i].byType[b]] = [i \in I |-> SumOver(Part(OfType(b), Mine(i)))]
  BY <1>11
<1>17. QueryPacketTotals(start, end) = [received |-> SumOver(received), decoded |-> Decoded(rows)]
  BY DEF QueryPacketTotals, Received, rows, received
<1>18. \A b \in Buckets : QueryPacketTypeTotals(start, end)[b] = SumOver(OfType(b))
  BY DEF QueryPacketTypeTotals, OfBucket, rows, OfType
<1>19. QueryPacketTypeTotals(start, end) = [b \in Buckets |-> OfBucket(rows, b)]
  BY DEF QueryPacketTypeTotals, rows
<1>20. SumOver([b \in Buckets |-> OfBucket(rows, b)]) = Decoded(rows)  BY <1>3, PieAddsUp
<1>21. SumOver([i \in DOMAIN history |-> history[i].received]) = QueryPacketTotals(start, end).received
  BY <1>7, <1>13, <1>15, <1>17
<1>22. SumOver(QueryPacketTypeTotals(start, end)) = QueryPacketTotals(start, end).decoded
  BY <1>17, <1>19, <1>20
<1>23. \A b \in Buckets :
         SumOver([i \in DOMAIN history |-> history[i].byType[b]]) = QueryPacketTypeTotals(start, end)[b]
  BY <1>7, <1>14, <1>16, <1>18
<1>24. QED  BY <1>7, <1>8, <1>21, <1>22, <1>23 DEF history, Agree

\* Whatever window is asked for, whenever and with whatever samples, the
\* chart, the pie and the totals tell the same numbers, in at most
\* maxChartBuckets buckets.
THEOREM EveryWindowAgrees == Spec => [](\A start, end \in Int : start < end => Agree(start, end))
<1>1. MetricsInv => \A start, end \in Int : start < end => Agree(start, end)  BY WindowAgrees
<1>2. QED  BY <1>1, MetricsInvHolds, PTL

\* The windows that the server lets through are among them.
THEOREM ChartsAddUp == Spec => []ChartsAgree
<1>1. MetricsInv => ChartsAgree
  <2> SUFFICES ASSUME MetricsInv, NEW start \in -1 .. now PROVE Agree(start, now + 1)
    BY DEF ChartsAgree
  <2>1. start \in Int /\ now + 1 \in Int /\ start < now + 1  BY DEF MetricsInv, HealthTypes
  <2>2. QED  BY <2>1, WindowAgrees
<1>2. QED  BY <1>1, MetricsInvHolds, PTL

=============================================================================
