--------------------------- MODULE CommandLineProofs ---------------------------
(***************************************************************************)
(* What the command promises, for every project, every command a user may  *)
(* type and every order of commands, edits and kills: a suite holds each   *)
(* path that was asked for once, it runs where it was told to, the exit    *)
(* code tells what came of it, and init spares the files that are there.   *)
(***************************************************************************)
EXTENDS CommandLine, SequenceTheorems, FiniteSetTheorems, TLAPS

-----------------------------------------------------------------------------
(* Counting.                                                               *)

\* Numbers given one to one are given one and all.
LEMMA Onto ==
  ASSUME NEW S, IsFiniteSet(S), NEW f \in [S -> 1 .. Cardinality(S)],
         \A a, b \in S : f[a] = f[b] => a = b
  PROVE  \A m \in 1 .. Cardinality(S) : \E a \in S : f[a] = m
<1> DEFINE n == Cardinality(S)
           T == 1 .. n
<1>1. n \in Nat
  BY FS_CardinalityType
<1> HIDE DEF n
<1>2. IsFiniteSet(T) /\ Cardinality(T) = n
  <2>1. IsFiniteSet(1 .. n) /\ Cardinality(1 .. n) = IF 1 > n THEN 0 ELSE n - 1 + 1
    BY <1>1, FS_Interval
  <2> QED BY <1>1, <2>1
<1>3. f \in Injection(S, T)
  BY DEF Injection, IsInjective, n
<1> HIDE DEF T
<1>4. f \in Surjection(S, T)
  BY <1>2, <1>3, FS_Injection DEF n
<1> QED BY <1>4 DEF Surjection, T, n

\* The place of an element counts those up to it; what comes later has more.
LEMMA MoreBefore ==
  ASSUME NEW S, IsFiniteSet(S), NEW A \in SUBSET S, NEW B \in SUBSET S,
         A \subseteq B, NEW x \in B, x \notin A
  PROVE  /\ Cardinality(A) \in Nat /\ Cardinality(B) \in Nat
         /\ Cardinality(A) < Cardinality(B) /\ Cardinality(B) <= Cardinality(S)
         /\ 1 <= Cardinality(B)
<1>1. IsFiniteSet(A) /\ IsFiniteSet(B) /\ Cardinality(B) <= Cardinality(S)
  BY FS_Subset
<1>2. Cardinality(A) \in Nat /\ Cardinality(B) \in Nat /\ Cardinality(S) \in Nat
  BY <1>1, FS_CardinalityType
<1>3. A \in SUBSET B
  OBVIOUS
<1>4. Cardinality(A) <= Cardinality(B) /\ (Cardinality(B) = Cardinality(A) => B = A)
  BY <1>1, <1>3, FS_Subset
<1> QED BY <1>1, <1>2, <1>4

LEMMA CountType ==
  ASSUME NEW S, IsFiniteSet(S), NEW B \in SUBSET S, NEW x \in B
  PROVE  /\ Cardinality(B) \in Nat /\ Cardinality(S) \in Nat
         /\ 1 <= Cardinality(B) /\ Cardinality(B) <= Cardinality(S)
<1>1. IsFiniteSet(B) /\ Cardinality(B) <= Cardinality(S)
  BY FS_Subset
<1>2. Cardinality(B) \in Nat /\ Cardinality(S) \in Nat
  BY <1>1, FS_CardinalityType
<1>3. Cardinality(B) # 0
  BY <1>1, FS_EmptySet
<1> QED BY <1>1, <1>2, <1>3

\* Of some natural numbers one is the least.
LEMMA LeastOf ==
  ASSUME NEW S \in SUBSET Nat, S # {}
  PROVE  \E i \in S : \A j \in S : i <= j
<1>1. PICK i \in S : \A j \in S : ~(<<j, i>> \in OpToRel(<, Nat))
  BY NatLessThanWellFounded, WFMin
<1>2. \A j \in S : ~(j < i)
  BY <1>1 DEF OpToRel
<1>3. \A j \in S : i <= j
  BY <1>2
<1> QED BY <1>3

-----------------------------------------------------------------------------
(* Sorting.                                                                *)

RangeOf(s) == {s[i] : i \in DOMAIN s}
OneToOne(s) == \A i, j \in DOMAIN s : s[i] = s[j] => i = j
Ascending(s) == \A i, j \in DOMAIN s : i <= j => Rank(s[i]) <= Rank(s[j])

LEMMA RankFacts ==
  ASSUME NEW p \in Paths
  PROVE  Rank(p) \in Nat /\ PathOrder[Rank(p)] = p
<1>1. \E i \in DOMAIN PathOrder : PathOrder[i] = p
  BY DEF Paths
<1>2. Rank(p) \in DOMAIN PathOrder /\ PathOrder[Rank(p)] = p
  BY <1>1 DEF Rank
<1>3. DOMAIN PathOrder \subseteq Nat
  BY ProjectAssumption, LenProperties
<1> QED BY <1>2, <1>3

LEMMA SameRank ==
  ASSUME NEW p \in Paths, NEW q \in Paths, Rank(p) = Rank(q)
  PROVE  p = q
BY RankFacts

UpTo(s, i) == {j \in DOMAIN s : \/ Rank(s[j]) < Rank(s[i])
                                \/ Rank(s[j]) = Rank(s[i]) /\ j <= i}

LEMMA SeqFacts ==
  ASSUME NEW s \in Seq(Paths)
  PROVE  /\ Len(s) \in Nat /\ DOMAIN s = 1 .. Len(s) /\ DOMAIN s \subseteq Nat
         /\ IsFiniteSet(DOMAIN s) /\ Cardinality(DOMAIN s) = Len(s)
         /\ \A i \in DOMAIN s : s[i] \in Paths /\ Rank(s[i]) \in Nat
<1>1. Len(s) \in Nat /\ DOMAIN s = 1 .. Len(s) /\ \A i \in DOMAIN s : s[i] \in Paths
  BY LenProperties
<1>2. IsFiniteSet(1 .. Len(s)) /\ Cardinality(1 .. Len(s)) = IF 1 > Len(s) THEN 0 ELSE Len(s) - 1 + 1
  BY <1>1, FS_Interval
<1>3. Cardinality(1 .. Len(s)) = Len(s)
  BY <1>1, <1>2
<1>4. \A i \in DOMAIN s : Rank(s[i]) \in Nat
  BY <1>1, RankFacts
<1> QED BY <1>1, <1>2, <1>3, <1>4

\* Of two entries the one that goes first has the smaller position.
LEMMA PositionFacts ==
  ASSUME NEW s \in Seq(Paths), NEW i \in DOMAIN s, NEW k \in DOMAIN s, i \in UpTo(s, k), i # k
  PROVE  Position(s, i) < Position(s, k)
<1>1. DOMAIN s \subseteq Nat /\ IsFiniteSet(DOMAIN s) /\ \A j \in DOMAIN s : Rank(s[j]) \in Nat
  BY SeqFacts
<1>2. UpTo(s, i) \subseteq UpTo(s, k)
  BY <1>1 DEF UpTo
<1>3. k \in UpTo(s, k) /\ k \notin UpTo(s, i)
  BY <1>1 DEF UpTo
<1>4. UpTo(s, i) \in SUBSET DOMAIN s /\ UpTo(s, k) \in SUBSET DOMAIN s
  BY DEF UpTo
<1>5. Cardinality(UpTo(s, i)) < Cardinality(UpTo(s, k))
  BY <1>1, <1>2, <1>3, <1>4, MoreBefore
<1> QED BY <1>5 DEF Position, UpTo

LEMMA PositionType ==
  ASSUME NEW s \in Seq(Paths), NEW i \in DOMAIN s
  PROVE  Position(s, i) \in 1 .. Len(s)
<1>1. DOMAIN s \subseteq Nat /\ IsFiniteSet(DOMAIN s) /\ Cardinality(DOMAIN s) = Len(s)
      /\ Len(s) \in Nat /\ \A j \in DOMAIN s : Rank(s[j]) \in Nat
  BY SeqFacts
<1>2. i \in UpTo(s, i) /\ UpTo(s, i) \in SUBSET DOMAIN s
  BY <1>1 DEF UpTo
<1>3. /\ Cardinality(UpTo(s, i)) \in Nat /\ 1 <= Cardinality(UpTo(s, i))
      /\ Cardinality(UpTo(s, i)) <= Len(s)
  <2>1. {} \in SUBSET DOMAIN s /\ {} \subseteq UpTo(s, i) /\ i \notin {}
    OBVIOUS
  <2> QED BY <1>1, <1>2, <2>1, MoreBefore
<1> QED BY <1>1, <1>3 DEF Position, UpTo

LEMMA PositionOneToOne ==
  ASSUME NEW s \in Seq(Paths), NEW i \in DOMAIN s, NEW k \in DOMAIN s,
         Position(s, i) = Position(s, k)
  PROVE  i = k
<1>1. DOMAIN s \subseteq Nat /\ (\A j \in DOMAIN s : Rank(s[j]) \in Nat) /\ Len(s) \in Nat
  BY SeqFacts
<1>2. Position(s, i) \in Nat /\ Position(s, k) \in Nat
  BY <1>1, PositionType
<1>3. i \in UpTo(s, k) \/ k \in UpTo(s, i)
  BY <1>1 DEF UpTo
<1> QED BY <1>2, <1>3, PositionFacts

\* sort keeps every entry, and puts them in order.
LEMMA SortSorts ==
  ASSUME NEW s \in Seq(Paths)
  PROVE  /\ Sort(s) \in Seq(Paths) /\ RangeOf(Sort(s)) = RangeOf(s) /\ Ascending(Sort(s))
         /\ OneToOne(s) => OneToOne(Sort(s))
<1> DEFINE D == DOMAIN s
           At(n) == CHOOSE i \in D : Position(s, i) = n
           t == Sort(s)
<1>1. /\ Len(s) \in Nat /\ D = 1 .. Len(s) /\ IsFiniteSet(D) /\ Cardinality(D) = Len(s)
      /\ \A i \in D : s[i] \in Paths /\ Rank(s[i]) \in Nat
  BY SeqFacts
<1>2. \A n \in D : \E i \in D : Position(s, i) = n
  <2> DEFINE f == [i \in D |-> Position(s, i)]
  <2>1. f \in [D -> 1 .. Cardinality(D)]
    BY <1>1, PositionType
  <2>2. \A a, b \in D : f[a] = f[b] => a = b
    BY PositionOneToOne
  <2> HIDE DEF f
  <2>3. \A m \in 1 .. Cardinality(D) : \E a \in D : f[a] = m
    BY <1>1, <2>1, <2>2, Onto
  <2> QED BY <1>1, <2>3 DEF f
<1>3. \A n \in D : At(n) \in D /\ Position(s, At(n)) = n
  BY <1>2
<1>4. t = [n \in D |-> s[At(n)]]
  BY DEF Sort
<1> HIDE DEF At, t, D
<1>5. DOMAIN t = D /\ \A n \in D : t[n] = s[At(n)]
  BY <1>4
<1>6. t \in Seq(Paths)
  BY <1>1, <1>3, <1>4
<1>7. RangeOf(t) = RangeOf(s)
  <2>1. ASSUME NEW x \in RangeOf(t) PROVE x \in RangeOf(s)
    BY <1>3, <1>5, <2>1 DEF RangeOf, D
  <2>2. ASSUME NEW i \in D PROVE s[i] \in RangeOf(t)
    <3>1. Position(s, i) \in D
      BY <1>1, PositionType DEF D
    <3>2. At(Position(s, i)) = i
      BY <1>3, <3>1, PositionOneToOne DEF D
    <3> QED BY <1>5, <3>1, <3>2 DEF RangeOf
  <2> QED BY <2>1, <2>2 DEF RangeOf, D
<1>8. Ascending(t)
  <2> SUFFICES ASSUME NEW m \in D, NEW n \in D, m <= n, ~(Rank(t[m]) <= Rank(t[n]))
               PROVE  FALSE
    BY <1>5 DEF Ascending
  <2>1. At(m) \in D /\ At(n) \in D /\ Position(s, At(m)) = m /\ Position(s, At(n)) = n
    BY <1>3
  <2>2. Rank(s[At(n)]) < Rank(s[At(m)])
    BY <1>1, <1>5, <2>1
  <2>3. At(n) \in UpTo(s, At(m)) /\ At(n) # At(m)
    BY <1>1, <2>1, <2>2 DEF UpTo, D
  <2>4. Position(s, At(n)) < Position(s, At(m))
    BY <2>1, <2>3, PositionFacts DEF D
  <2> QED BY <1>1, <2>1, <2>4
<1>9. OneToOne(s) => OneToOne(t)
  <2> SUFFICES ASSUME OneToOne(s), NEW m \in D, NEW n \in D, t[m] = t[n]
               PROVE  m = n
    BY <1>5 DEF OneToOne
  <2>1. At(m) = At(n)
    BY <1>3, <1>5 DEF OneToOne, D
  <2> QED BY <1>3, <2>1
<1> QED BY <1>6, <1>7, <1>8, <1>9 DEF t

-----------------------------------------------------------------------------
(* Deduplicating.                                                          *)

Kept(s) == {i \in DOMAIN s : i = 1 \/ s[i] # s[i - 1]}
KeptUpTo(s, k) == {j \in Kept(s) : j <= k}
PlaceOf(s, i) == CHOOSE k \in Kept(s) : Cardinality(KeptUpTo(s, k)) = i

LEMMA KeptFacts ==
  ASSUME NEW s \in Seq(Paths)
  PROVE  /\ IsFiniteSet(Kept(s)) /\ Cardinality(Kept(s)) \in Nat
         /\ \A i \in 1 .. Cardinality(Kept(s)) :
              PlaceOf(s, i) \in Kept(s) /\ Cardinality(KeptUpTo(s, PlaceOf(s, i))) = i
         /\ \A k \in Kept(s) : \E i \in 1 .. Cardinality(Kept(s)) : PlaceOf(s, i) = k
<1> DEFINE n == Cardinality(Kept(s))
           f == [k \in Kept(s) |-> Cardinality(KeptUpTo(s, k))]
<1>1. IsFiniteSet(DOMAIN s) /\ DOMAIN s \subseteq Nat
  BY SeqFacts
<1>2. Kept(s) \in SUBSET DOMAIN s
  BY DEF Kept
<1>3. IsFiniteSet(Kept(s)) /\ Kept(s) \subseteq Nat /\ n \in Nat
  BY <1>1, <1>2, FS_Subset, FS_CardinalityType
<1>4. ASSUME NEW k \in Kept(s) PROVE Cardinality(KeptUpTo(s, k)) \in 1 .. n
  <2>1. k \in KeptUpTo(s, k) /\ KeptUpTo(s, k) \in SUBSET Kept(s)
    BY <1>3, <1>4 DEF KeptUpTo
  <2>2. /\ Cardinality(KeptUpTo(s, k)) \in Nat /\ Cardinality(KeptUpTo(s, k)) <= Cardinality(Kept(s))
        /\ 1 <= Cardinality(KeptUpTo(s, k))
    BY <1>3, <2>1, CountType
  <2> QED BY <1>3, <2>2
<1>5. ASSUME NEW a \in Kept(s), NEW b \in Kept(s), a < b
      PROVE  Cardinality(KeptUpTo(s, a)) < Cardinality(KeptUpTo(s, b))
  <2>1. a \in Nat /\ b \in Nat
    BY <1>3
  <2>2. KeptUpTo(s, a) \in SUBSET Kept(s) /\ KeptUpTo(s, b) \in SUBSET Kept(s)
    BY DEF KeptUpTo
  <2>3. KeptUpTo(s, a) \subseteq KeptUpTo(s, b) /\ b \in KeptUpTo(s, b) /\ b \notin KeptUpTo(s, a)
    <3>1. \A j \in Kept(s) : j \in Nat
      BY <1>3
    <3>2. \A j \in Kept(s) : j <= a => j <= b
      BY <1>5, <2>1, <3>1
    <3>3. KeptUpTo(s, a) \subseteq KeptUpTo(s, b)
      BY <3>2 DEF KeptUpTo
    <3>4. b <= b /\ ~(b <= a)
      BY <1>5, <2>1
    <3> QED BY <3>3, <3>4 DEF KeptUpTo
  <2> QED BY <1>3, <2>2, <2>3, MoreBefore
<1> HIDE DEF n
<1>6. f \in [Kept(s) -> 1 .. n]
  BY <1>4
<1>7. \A a, b \in Kept(s) : f[a] = f[b] => a = b
  <2> SUFFICES ASSUME NEW a \in Kept(s), NEW b \in Kept(s), f[a] = f[b], a # b PROVE FALSE
    OBVIOUS
  <2>1. a \in Nat /\ b \in Nat /\ (a < b \/ b < a)
    BY <1>3
  <2>2. f[a] \in Nat /\ f[b] \in Nat
    BY <1>4
  <2> QED BY <1>5, <2>1, <2>2
<1>8. \A m \in 1 .. n : \E k \in Kept(s) : f[k] = m
  <2> HIDE DEF f
  <2> QED BY <1>3, <1>6, <1>7, Onto DEF n
<1>9. ASSUME NEW i \in 1 .. n
      PROVE  PlaceOf(s, i) \in Kept(s) /\ Cardinality(KeptUpTo(s, PlaceOf(s, i))) = i
  <2>1. \E k \in Kept(s) : Cardinality(KeptUpTo(s, k)) = i
    BY <1>8
  <2> QED BY <2>1 DEF PlaceOf
<1>10. ASSUME NEW k \in Kept(s)
       PROVE  \E i \in 1 .. n : PlaceOf(s, i) = k
  <2> DEFINE i == Cardinality(KeptUpTo(s, k))
  <2>1. i \in 1 .. n
    BY <1>4
  <2>2. PlaceOf(s, i) \in Kept(s) /\ Cardinality(KeptUpTo(s, PlaceOf(s, i))) = i
    BY <1>9, <2>1
  <2>3. PlaceOf(s, i) = k
    BY <1>7, <2>2
  <2> QED BY <2>1, <2>3
<1> QED BY <1>3, <1>9, <1>10 DEF n

LEMMA PlacesAscend ==
  ASSUME NEW s \in Seq(Paths), NEW i \in 1 .. Cardinality(Kept(s)),
         NEW j \in 1 .. Cardinality(Kept(s)), i < j
  PROVE  PlaceOf(s, i) < PlaceOf(s, j)
<1> DEFINE a == PlaceOf(s, i)
           b == PlaceOf(s, j)
<1>1. /\ a \in Kept(s) /\ b \in Kept(s) /\ Cardinality(KeptUpTo(s, a)) = i
      /\ Cardinality(KeptUpTo(s, b)) = j /\ IsFiniteSet(Kept(s)) /\ Cardinality(Kept(s)) \in Nat
  BY KeptFacts
<1>2. Kept(s) \subseteq Nat
  BY SeqFacts DEF Kept
<1> HIDE DEF a, b
<1>3. a \in Nat /\ b \in Nat /\ i \in Nat /\ j \in Nat
  BY <1>1, <1>2
<1>4. SUFFICES ASSUME b <= a PROVE FALSE
  BY <1>3 DEF a, b
<1>5. KeptUpTo(s, b) \subseteq KeptUpTo(s, a)
  BY <1>2, <1>3, <1>4 DEF KeptUpTo
<1>6. KeptUpTo(s, a) \in SUBSET Kept(s)
  BY DEF KeptUpTo
<1>7. IsFiniteSet(KeptUpTo(s, a))
  BY <1>1, <1>6, FS_Subset
<1>8. Cardinality(KeptUpTo(s, b)) <= Cardinality(KeptUpTo(s, a))
  BY <1>5, <1>7, FS_Subset
<1> QED BY <1>1, <1>3, <1>8

\* dedup of what is in order keeps every path, each once.
LEMMA DedupDedups ==
  ASSUME NEW s \in Seq(Paths), Ascending(s)
  PROVE  Dedup(s) \in Seq(Paths) /\ RangeOf(Dedup(s)) = RangeOf(s) /\ OneToOne(Dedup(s))
<1> DEFINE n == Cardinality(Kept(s))
           t == Dedup(s)
<1>1. /\ Len(s) \in Nat /\ DOMAIN s = 1 .. Len(s)
      /\ \A i \in DOMAIN s : s[i] \in Paths /\ Rank(s[i]) \in Nat
  BY SeqFacts
<1>2. n \in Nat /\ \A i \in 1 .. n : PlaceOf(s, i) \in Kept(s)
  BY KeptFacts
<1>3. t = [i \in 1 .. n |-> s[PlaceOf(s, i)]]
  BY DEF Dedup, Kept, KeptUpTo, PlaceOf
<1> HIDE DEF n, t
<1>4. Kept(s) \subseteq DOMAIN s
  BY DEF Kept
<1>5. t \in Seq(Paths) /\ DOMAIN t = 1 .. n /\ \A i \in 1 .. n : t[i] = s[PlaceOf(s, i)]
  BY <1>1, <1>2, <1>3, <1>4
<1>6. RangeOf(t) = RangeOf(s)
  <2>1. ASSUME NEW i \in 1 .. n PROVE t[i] \in RangeOf(s)
    BY <1>2, <1>4, <1>5 DEF RangeOf
  <2>2. ASSUME NEW i \in DOMAIN s PROVE s[i] \in RangeOf(t)
    <3> DEFINE same == {j \in DOMAIN s : s[j] = s[i]}
    <3>1. same \in SUBSET Nat /\ same # {}
      BY <1>1
    <3>2. PICK k \in same : \A j \in same : k <= j
      <4> HIDE DEF same
      <4> QED BY <3>1, LeastOf
    <3>3. k \in Kept(s)
      <4>1. k \in 1 .. Len(s) /\ s[k] = s[i]
        BY <1>1, <3>2
      <4>2. CASE k = 1
        BY <1>1, <4>1, <4>2 DEF Kept
      <4>3. CASE k # 1
        <5>1. k - 1 \in 1 .. Len(s) /\ ~(k <= k - 1)
          BY <1>1, <4>1, <4>3
        <5>2. k - 1 \notin same
          BY <3>2, <5>1
        <5>3. s[k - 1] # s[k]
          BY <1>1, <4>1, <5>1, <5>2
        <5> QED BY <1>1, <4>1, <5>3 DEF Kept
      <4> QED BY <4>2, <4>3
    <3>4. PICK m \in 1 .. n : PlaceOf(s, m) = k
      BY <3>3, KeptFacts DEF n
    <3>5. t[m] = s[i] /\ m \in DOMAIN t
      BY <1>5, <3>2, <3>4
    <3> QED BY <3>5 DEF RangeOf
  <2> QED BY <1>5, <2>1, <2>2 DEF RangeOf
<1>7. ASSUME NEW i \in 1 .. n, NEW j \in 1 .. n, i < j
      PROVE  t[i] # t[j]
  <2> DEFINE a == PlaceOf(s, i)
             b == PlaceOf(s, j)
  <2>1. a < b /\ a \in DOMAIN s /\ b \in Kept(s) /\ b \in DOMAIN s
    BY <1>2, <1>4, <1>7, PlacesAscend DEF n
  <2>2. t[i] = s[a] /\ t[j] = s[b]
    BY <1>5
  <2> HIDE DEF a, b
  <2>3. a \in Nat /\ b \in Nat /\ b # 1 /\ b - 1 \in DOMAIN s /\ a <= b - 1
    BY <1>1, <2>1
  <2>4. s[b] # s[b - 1]
    BY <2>1, <2>3 DEF Kept
  <2>5. Rank(s[a]) <= Rank(s[b - 1]) /\ Rank(s[b - 1]) <= Rank(s[b])
    <3>1. b - 1 <= b
      BY <2>3
    <3> QED BY <2>1, <2>3, <3>1 DEF Ascending
  <2>6. Rank(s[b - 1]) # Rank(s[b])
    BY <1>1, <2>1, <2>3, <2>4, SameRank
  <2>7. Rank(s[a]) \in Nat /\ Rank(s[b - 1]) \in Nat /\ Rank(s[b]) \in Nat
    BY <1>1, <2>1, <2>3
  <2>8. Rank(s[a]) # Rank(s[b])
    BY <2>5, <2>6, <2>7
  <2> QED BY <2>2, <2>8
<1>8. OneToOne(t)
  <2> SUFFICES ASSUME NEW i \in 1 .. n, NEW j \in 1 .. n, t[i] = t[j], i # j PROVE FALSE
    BY <1>5 DEF OneToOne
  <2>1. i < j \/ j < i
    BY <1>2
  <2> QED BY <1>7, <2>1
<1> QED BY <1>5, <1>6, <1>8 DEF t

-----------------------------------------------------------------------------
(* Concatenating, and listing a directory.                                 *)

Ranges(ss, n) == UNION {RangeOf(ss[i]) : i \in 1 .. n}

\* f[i] is the concatenation of the first i sequences.
Flattens(f, ss, n) ==
  f = [i \in 1 .. n |-> IF i = 1 THEN ss[i] ELSE f[i - 1] \o ss[i]]

LEMMA FlattenedExist ==
  ASSUME NEW ss, NEW n \in Nat \ {0}
  PROVE  \E f : Flattens(f, ss, n)
<1> DEFINE bad == {m \in Nat \ {0} : ~\E f : Flattens(f, ss, m)}
<1> SUFFICES ASSUME bad # {} PROVE FALSE
  OBVIOUS
<1>1. PICK m \in bad : \A j \in bad : m <= j
  <2>1. bad \in SUBSET Nat
    OBVIOUS
  <2> HIDE DEF bad
  <2> QED BY <2>1, LeastOf
<1>2. m \in Nat \ {0}
  OBVIOUS
<1>3. CASE m = 1
  <2> DEFINE f == [i \in 1 .. m |-> ss[i]]
  <2>1. \A i \in 1 .. m : i = 1
    BY <1>3
  <2>2. Flattens(f, ss, m)
    BY <2>1 DEF Flattens
  <2> QED BY <2>2
<1>4. CASE m # 1
  <2>1. m - 1 \in Nat \ {0} /\ ~(m <= m - 1)
    BY <1>2, <1>4
  <2>2. m - 1 \notin bad
    BY <1>1, <2>1
  <2>3. PICK f : Flattens(f, ss, m - 1)
    BY <2>1, <2>2
  <2> DEFINE g == [i \in 1 .. m |-> IF i = m THEN f[m - 1] \o ss[m] ELSE f[i]]
  <2>4. ASSUME NEW i \in 1 .. m
        PROVE  g[i] = IF i = 1 THEN ss[i] ELSE g[i - 1] \o ss[i]
    <3>1. CASE i = m
      <4>1. m - 1 \in 1 .. m /\ m - 1 # m
        BY <2>1
      <4> QED BY <1>4, <3>1, <4>1
    <3>2. CASE i # m
      <4>1. i \in 1 .. m - 1
        BY <1>2, <3>2
      <4>2. f[i] = IF i = 1 THEN ss[i] ELSE f[i - 1] \o ss[i]
        BY <2>3, <4>1 DEF Flattens
      <4>3. i # 1 => i - 1 \in 1 .. m /\ i - 1 # m
        BY <1>2, <4>1
      <4> QED BY <3>2, <4>2, <4>3
    <3> QED BY <3>1, <3>2
  <2>5. Flattens(g, ss, m)
    <3>1. DOMAIN g = 1 .. m /\ g = [i \in 1 .. m |-> g[i]]
      OBVIOUS
    <3> HIDE DEF g
    <3> QED BY <2>4, <3>1 DEF Flattens
  <2> QED BY <2>5
<1> QED BY <1>3, <1>4

LEMMA RangeOfConcat ==
  ASSUME NEW S, NEW s \in Seq(S), NEW t \in Seq(S)
  PROVE  s \o t \in Seq(S) /\ RangeOf(s \o t) = RangeOf(s) \cup RangeOf(t)
<1> DEFINE u == s \o t
<1>1. /\ u \in Seq(S) /\ Len(u) = Len(s) + Len(t)
      /\ \A i \in 1 .. Len(s) + Len(t) : u[i] = IF i <= Len(s) THEN s[i] ELSE t[i - Len(s)]
  BY ConcatProperties
<1>2. /\ Len(s) \in Nat /\ Len(t) \in Nat
      /\ DOMAIN s = 1 .. Len(s) /\ DOMAIN t = 1 .. Len(t) /\ DOMAIN u = 1 .. Len(s) + Len(t)
  BY <1>1, LenProperties
<1> HIDE DEF u
<1>3. ASSUME NEW i \in DOMAIN u PROVE u[i] \in RangeOf(s) \cup RangeOf(t)
  <2>1. CASE i <= Len(s)
    BY <1>1, <1>2, <2>1 DEF RangeOf
  <2>2. CASE ~(i <= Len(s))
    <3>1. i - Len(s) \in 1 .. Len(t)
      BY <1>2, <2>2
    <3> QED BY <1>1, <1>2, <2>2, <3>1 DEF RangeOf
  <2> QED BY <2>1, <2>2
<1>4. ASSUME NEW i \in DOMAIN s PROVE s[i] \in RangeOf(u)
  <2>1. i \in DOMAIN u /\ i <= Len(s)
    BY <1>2
  <2> QED BY <1>1, <1>2, <2>1 DEF RangeOf
<1>5. ASSUME NEW i \in DOMAIN t PROVE t[i] \in RangeOf(u)
  <2>1. Len(s) + i \in DOMAIN u /\ ~(Len(s) + i <= Len(s)) /\ (Len(s) + i) - Len(s) = i
    BY <1>2
  <2> QED BY <1>1, <1>2, <2>1 DEF RangeOf
<1>6. RangeOf(u) = RangeOf(s) \cup RangeOf(t)
  <2>1. RangeOf(u) \subseteq RangeOf(s) \cup RangeOf(t)
    BY <1>3 DEF RangeOf
  <2>2. RangeOf(s) \subseteq RangeOf(u)
    BY <1>4 DEF RangeOf
  <2>3. RangeOf(t) \subseteq RangeOf(u)
    BY <1>5 DEF RangeOf
  <2> QED BY <2>1, <2>2, <2>3
<1> QED BY <1>1, <1>6 DEF u

LEMMA FlattenFlattens ==
  ASSUME NEW S, NEW ss \in Seq(Seq(S))
  PROVE  FlattenSeq(ss) \in Seq(S) /\ RangeOf(FlattenSeq(ss)) = Ranges(ss, Len(ss))
<1>1. Len(ss) \in Nat /\ \A i \in 1 .. Len(ss) : ss[i] \in Seq(S)
  BY LenProperties
<1>2. CASE Len(ss) = 0
  <2>1. ss = <<>> /\ FlattenSeq(ss) = ss
    BY <1>2, EmptySeq DEF FlattenSeq
  <2>2. <<>> \in Seq(S) /\ RangeOf(<<>>) = {}
    BY EmptySeq DEF RangeOf
  <2>3. 1 .. Len(ss) = {}
    BY <1>2
  <2>4. Ranges(ss, Len(ss)) = {}
    BY <2>3 DEF Ranges
  <2> QED BY <2>1, <2>2, <2>4
<1>3. CASE Len(ss) # 0
  <2> DEFINE n == Len(ss)
             flat == CHOOSE f : Flattens(f, ss, n)
             bad == {m \in 1 .. n : ~(flat[m] \in Seq(S) /\ RangeOf(flat[m]) = Ranges(ss, m))}
  <2>1. n \in Nat \ {0}
    BY <1>1, <1>3
  <2>2. Flattens(flat, ss, n)
    <3>1. \E f : Flattens(f, ss, n)
      BY <2>1, FlattenedExist
    <3> QED BY <3>1
  <2>3. FlattenSeq(ss) = flat[n]
    BY <1>3 DEF FlattenSeq, Flattens
  <2> HIDE DEF flat
  <2>4. \A i \in 1 .. n : flat[i] = IF i = 1 THEN ss[i] ELSE flat[i - 1] \o ss[i]
    BY <2>2 DEF Flattens
  <2>5. bad = {}
    <3> SUFFICES ASSUME bad # {} PROVE FALSE
      OBVIOUS
    <3>1. PICK m \in bad : \A j \in bad : m <= j
      <4>1. bad \in SUBSET Nat
        BY <2>1
      <4> HIDE DEF bad
      <4> QED BY <4>1, LeastOf
    <3>2. m \in 1 .. n /\ ss[m] \in Seq(S)
      BY <1>1
    <3>3. CASE m = 1
      <4>1. flat[m] = ss[m] /\ flat[m] \in Seq(S)
        BY <2>4, <3>2, <3>3
      <4>2. 1 .. m = {m}
        BY <3>3
      <4>3. Ranges(ss, m) = RangeOf(ss[m])
        BY <4>2 DEF Ranges
      <4> QED BY <4>1, <4>3
    <3>4. CASE m # 1
      <4>1. m - 1 \in 1 .. n /\ ~(m <= m - 1)
        BY <2>1, <3>2, <3>4
      <4>2. flat[m - 1] \in Seq(S) /\ RangeOf(flat[m - 1]) = Ranges(ss, m - 1)
        BY <3>1, <4>1
      <4>3. flat[m] = flat[m - 1] \o ss[m]
        BY <2>4, <3>2, <3>4
      <4>4. flat[m] \in Seq(S) /\ RangeOf(flat[m]) = Ranges(ss, m - 1) \cup RangeOf(ss[m])
        BY <3>2, <4>2, <4>3, RangeOfConcat
      <4>5. \A i : i \in 1 .. m <=> i \in 1 .. m - 1 \/ i = m
        BY <2>1, <3>2
      <4>6. Ranges(ss, m) = Ranges(ss, m - 1) \cup RangeOf(ss[m])
        BY <4>5 DEF Ranges
      <4> QED BY <4>4, <4>6
    <3> QED BY <3>3, <3>4
  <2>6. n \in 1 .. n
    BY <2>1
  <2> QED BY <2>3, <2>5, <2>6
<1> QED BY <1>2, <1>3

\* read_dir finds every path of a finite directory once.
LEMMA ListingLists ==
  ASSUME NEW S \in SUBSET Paths, IsFiniteSet(S)
  PROVE  SetToSeq(S) \in Seq(Paths) /\ RangeOf(SetToSeq(S)) = S /\ OneToOne(SetToSeq(S))
<1> DEFINE n == Cardinality(S)
           s == SetToSeq(S)
<1>1. n \in Nat /\ \E f : f \in Bijection(1 .. n, S)
  BY FS_CardinalityType DEF ExistsBijection
<1>2. \E f \in [1 .. n -> S] : IsInjective(f)
  BY <1>1 DEF Bijection, Injection, IsInjective
<1>3. s \in [1 .. n -> S] /\ IsInjective(s)
  BY <1>2 DEF SetToSeq
<1> HIDE DEF s
<1>4. OneToOne(s)
  BY <1>3 DEF OneToOne, IsInjective
<1>5. IsFiniteSet(1 .. n) /\ Cardinality(1 .. n) = n
  <2>1. IsFiniteSet(1 .. n) /\ Cardinality(1 .. n) = IF 1 > n THEN 0 ELSE n - 1 + 1
    BY <1>1, FS_Interval
  <2> QED BY <1>1, <2>1
<1>6. s \in Injection(1 .. n, S)
  BY <1>3 DEF Injection
<1>7. s \in Surjection(1 .. n, S)
  BY <1>5, <1>6, FS_Injection
<1>8. RangeOf(s) = S
  BY <1>3, <1>7 DEF Surjection, RangeOf
<1>9. s \in Seq(Paths)
  BY <1>1, <1>3
<1> QED BY <1>4, <1>8, <1>9 DEF s

-----------------------------------------------------------------------------
(* What a command selects.                                                 *)

LEMMA PathsFinite == IsFiniteSet(Paths)
<1>1. /\ Len(PathOrder) \in Nat /\ PathOrder \in [1 .. Len(PathOrder) -> Paths]
      /\ DOMAIN PathOrder = 1 .. Len(PathOrder)
  BY ProjectAssumption, LenProperties
<1>2. PathOrder \in Surjection(1 .. Len(PathOrder), Paths)
  BY <1>1 DEF Surjection, Paths
<1>3. IsFiniteSet(1 .. Len(PathOrder))
  BY <1>1, FS_Interval
<1> QED BY <1>2, <1>3, FS_Surjection

LEMMA CollectFacts ==
  ASSUME NEW dir \in DOMAIN Listing
  PROVE  /\ CollectSuites(dir) \in Seq(Paths) /\ RangeOf(CollectSuites(dir)) = Listing[dir] \cap Yaml
         /\ OneToOne(CollectSuites(dir))
<1> DEFINE S == Listing[dir] \cap Yaml
<1>1. S \in SUBSET Paths
  BY ProjectAssumption
<1>2. IsFiniteSet(S)
  BY <1>1, PathsFinite, FS_Subset
<1> HIDE DEF S
<1>3. SetToSeq(S) \in Seq(Paths) /\ RangeOf(SetToSeq(S)) = S /\ OneToOne(SetToSeq(S))
  BY <1>1, <1>2, ListingLists
<1>4. /\ Sort(SetToSeq(S)) \in Seq(Paths) /\ RangeOf(Sort(SetToSeq(S))) = S
      /\ OneToOne(Sort(SetToSeq(S)))
  BY <1>3, SortSorts
<1> QED BY <1>4 DEF CollectSuites, S

\* What one input, a file or a directory, stands for.
Stands(path) == IF path \in DOMAIN Listing THEN Listing[path] \cap Yaml ELSE {path}

LEMMA ExpandedFacts ==
  ASSUME NEW path \in Paths \cup DOMAIN Listing
  PROVE  Expanded(path) \in Seq(Paths) /\ RangeOf(Expanded(path)) = Stands(path)
<1>1. CASE path \in DOMAIN Listing
  BY <1>1, CollectFacts DEF Expanded, Stands
<1>2. CASE path \notin DOMAIN Listing
  <2>1. path \in Paths /\ Expanded(path) = <<path>>
    BY <1>2 DEF Expanded
  <2>2. <<path>> \in Seq(Paths) /\ DOMAIN <<path>> = {1} /\ <<path>>[1] = path
    BY <2>1
  <2>3. RangeOf(<<path>>) = {path}
    BY <2>2 DEF RangeOf
  <2> QED BY <1>2, <2>1, <2>2, <2>3 DEF Stands
<1> QED BY <1>1, <1>2

LEMMA LocatedFacts ==
  ASSUME NEW input \in DOMAIN InCwd, Located(input) # None
  PROVE  Located(input) \in Paths \cup DOMAIN Listing
BY ProjectAssumption DEF Located

LEMMA ResolveFacts ==
  ASSUME NEW inputs \in Seq(DOMAIN InCwd), AllFound(inputs)
  PROVE  /\ Resolve(inputs) \in Seq(Paths) /\ OneToOne(Resolve(inputs))
         /\ RangeOf(Resolve(inputs)) = UNION {Stands(Located(inputs[i])) : i \in DOMAIN inputs}
<1> DEFINE ss == [i \in DOMAIN inputs |-> Expanded(Located(inputs[i]))]
           all == FlattenSeq(ss)
<1>1. /\ Len(inputs) \in Nat /\ DOMAIN inputs = 1 .. Len(inputs)
      /\ \A i \in DOMAIN inputs : inputs[i] \in DOMAIN InCwd /\ Located(inputs[i]) # None
  BY LenProperties DEF AllFound
<1>2. \A i \in DOMAIN inputs : Located(inputs[i]) \in Paths \cup DOMAIN Listing
  BY <1>1, LocatedFacts
<1>3. \A i \in DOMAIN inputs : ss[i] \in Seq(Paths) /\ RangeOf(ss[i]) = Stands(Located(inputs[i]))
  BY <1>2, ExpandedFacts
<1>4. DOMAIN ss = 1 .. Len(inputs) /\ ss = [i \in DOMAIN inputs |-> ss[i]]
  BY <1>1
<1>5. Resolve(inputs) = Dedup(Sort(all))
  BY DEF Resolve
<1> HIDE DEF ss
<1>6. ss \in Seq(Seq(Paths)) /\ Len(ss) = Len(inputs)
  BY <1>1, <1>3, <1>4
<1>7. all \in Seq(Paths) /\ RangeOf(all) = Ranges(ss, Len(inputs))
  BY <1>6, FlattenFlattens
<1>8. RangeOf(all) = UNION {Stands(Located(inputs[i])) : i \in DOMAIN inputs}
  BY <1>1, <1>3, <1>7 DEF Ranges
<1> HIDE DEF all
<1>9. Sort(all) \in Seq(Paths) /\ RangeOf(Sort(all)) = RangeOf(all) /\ Ascending(Sort(all))
  BY <1>7, SortSorts
<1>10. /\ Dedup(Sort(all)) \in Seq(Paths) /\ RangeOf(Dedup(Sort(all))) = RangeOf(all)
       /\ OneToOne(Dedup(Sort(all)))
  BY <1>9, DedupDedups
<1> QED BY <1>5, <1>8, <1>10

LEMMA StandFor ==
  ASSUME NEW places
  PROVE  (places \ DOMAIN Listing)
           \cup ((UNION {Listing[d] : d \in places \cap DOMAIN Listing}) \cap Yaml)
         = UNION {Stands(p) : p \in places}
<1> DEFINE asked == (places \ DOMAIN Listing)
                      \cup ((UNION {Listing[d] : d \in places \cap DOMAIN Listing}) \cap Yaml)
<1>1. ASSUME NEW x \in asked PROVE \E p \in places : x \in Stands(p)
  <2>1. CASE x \in places \ DOMAIN Listing
    BY <2>1 DEF Stands
  <2>2. CASE x \in (UNION {Listing[d] : d \in places \cap DOMAIN Listing}) \cap Yaml
    <3>1. PICK d \in places \cap DOMAIN Listing : x \in Listing[d] /\ x \in Yaml
      BY <2>2
    <3>2. x \in Stands(d)
      BY <3>1 DEF Stands
    <3> QED BY <3>1, <3>2
  <2> QED BY <2>1, <2>2
<1>2. ASSUME NEW p \in places, NEW x \in Stands(p) PROVE x \in asked
  <2>1. CASE p \in DOMAIN Listing
    BY <2>1, <1>2 DEF Stands
  <2>2. CASE p \notin DOMAIN Listing
    BY <2>2, <1>2 DEF Stands
  <2> QED BY <2>1, <2>2
<1> HIDE DEF asked
<1>3. asked = UNION {Stands(p) : p \in places}
  BY <1>1, <1>2
<1> QED BY <1>3 DEF asked

\* Whatever the inputs, a suite that can be selected holds each test asked for
\* once, and nothing else (resolve_test_files, collect_suites).
LEMMA SelectedOnce ==
  ASSUME vehicle \in Vehicles, IsCommand(command), command.cmd = "test", Selectable(command)
  PROVE  /\ Selected(command) \in Seq(Paths) /\ OneToOne(Selected(command))
         /\ RangeOf(Selected(command)) = Asked
<1>1. command.inputs \in Seq(DOMAIN InCwd)
  BY DEF IsCommand
<1>2. CASE command.inputs = <<>>
  <2>1. vehicle.tests \in DOMAIN Listing
    BY <1>2, ProjectAssumption DEF Selectable
  <2>2. Selected(command) = CollectSuites(vehicle.tests)
    BY <1>2 DEF Selected
  <2>3. Asked = Listing[vehicle.tests] \cap Yaml
    <3>1. Asked = UNION {Stands(p) : p \in {vehicle.tests}}
      BY <1>2, StandFor DEF Asked
    <3>2. Stands(vehicle.tests) = Listing[vehicle.tests] \cap Yaml
      BY <2>1 DEF Stands
    <3> QED BY <3>1, <3>2
  <2> QED BY <2>1, <2>2, <2>3, CollectFacts
<1>3. CASE command.inputs # <<>>
  <2> DEFINE inputs == command.inputs
             places == {Located(inputs[i]) : i \in DOMAIN inputs}
  <2>1. Selected(command) = Resolve(inputs) /\ AllFound(inputs)
    BY <1>3 DEF Selected, Selectable
  <2>2. Asked = (places \ DOMAIN Listing)
                  \cup ((UNION {Listing[d] : d \in places \cap DOMAIN Listing}) \cap Yaml)
    BY <1>3 DEF Asked
  <2>3. Asked = UNION {Stands(Located(inputs[i])) : i \in DOMAIN inputs}
    <3>1. Asked = UNION {Stands(p) : p \in places}
      <4> HIDE DEF places
      <4> QED BY <2>2, StandFor
    <3> QED BY <3>1
  <2> HIDE DEF inputs
  <2> QED BY <1>1, <2>1, <2>3, ResolveFacts DEF inputs
<1> QED BY <1>2, <1>3

-----------------------------------------------------------------------------
(* The shell: which command stands where.                                  *)

Owned == {Scaffold[i] : i \in DOMAIN Scaffold} \cup Reports
Is(cmd) == command # None /\ command.cmd = cmd

CommandAt ==
  /\ pc # "shell" => command # None /\ exit = None
  /\ pc \in {"init", "write"} => Is("init")
  /\ pc = "simulate" => Is("simulate")
  /\ pc \in {"test", "check", "run"} => Is("test")
  /\ pc = "report" => Is("report") /\ command \in Commands
  /\ pc = "render" => (Is("test") \/ Is("report")) /\ command.report # None

ShellInv ==
  /\ vehicle \in Vehicles
  /\ command = None \/ IsCommand(command)
  /\ pc \in {"shell", "init", "write", "simulate", "test", "check", "run", "render", "report"}
  /\ CommandAt
  /\ DOMAIN files = Owned
  /\ exit \in {None, 0, 1, 2}

LEMMA InitShell == Init => ShellInv
BY DEF Init, ShellInv, CommandAt, Owned

LEMMA WritesKeep ==
  ASSUME DOMAIN files = Owned, NEW path,
         Written(path, Template) \/ WriteFails(path) \/ Written(path, Absent) \/ Written(path, UserText)
           \/ \E suite, format : Written(path, Render(suite, format))
  PROVE  DOMAIN files' = Owned
BY DEF Written, WriteFails

LEMMA CommandNames ==
  ASSUME NEW c, IsCommand(c)
  PROVE  c.cmd \in {"init", "simulate", "test", "report"}
BY DEF IsCommand

LEMMA RunCommandShell ==
  ASSUME ShellInv, RunCommand
  PROVE  ShellInv'
<1>1. PICK c \in Commands : command' = c /\ pc' = c.cmd
  BY DEF RunCommand
<1>2. IsCommand(c) /\ c # None /\ c.cmd \in {"init", "simulate", "test", "report"}
  BY CommandsAssumption, CommandNames
<1>3. exit' = None /\ vehicle' = vehicle /\ files' = files
  BY DEF RunCommand, machine
<1>4. CommandAt'
  BY <1>1, <1>2, <1>3 DEF CommandAt, Is
<1> QED BY <1>1, <1>2, <1>3, <1>4 DEF ShellInv

LEMMA StepShell ==
  ASSUME ShellInv, [Next]_vars
  PROVE  ShellInv'
<1>1. CASE RunCommand
  BY <1>1, RunCommandShell
<1>2. CASE UserEdits
  <2>1. PICK path \in DOMAIN files : Written(path, Absent) \/ Written(path, UserText)
    BY <1>2 DEF UserEdits
  <2>2. DOMAIN files' = Owned
    BY <2>1, WritesKeep DEF ShellInv
  <2> QED BY <1>2, <2>2 DEF UserEdits, ShellInv, CommandAt, machine
<1>3. CASE Killed
  <2>1. \/ \E path : WriteFails(path)
        \/ UNCHANGED files
    BY <1>3 DEF Killed
  <2>2. DOMAIN files' = Owned
    BY <2>1, WritesKeep DEF ShellInv
  <2> QED BY <1>3, <2>2 DEF Killed, ShellInv, CommandAt, machine, Exit
<1>4. CASE InitChecks \/ InitHasNoDir \/ InitDone \/ Simulate
  BY <1>4 DEF InitChecks, InitHasNoDir, InitDone, Simulate, ShellInv, CommandAt, Is, machine, Exit
<1>5. CASE InitWrites
  <2>1. Written(Head(queue), Template) \/ WriteFails(Head(queue))
    BY <1>5 DEF InitWrites
  <2>2. DOMAIN files' = Owned
    BY <2>1, WritesKeep DEF ShellInv
  <2> QED BY <1>5, <2>2 DEF InitWrites, ShellInv, CommandAt, Is, machine, Exit
<1>6. CASE TestRefused \/ TestBegins \/ Loopback \/ RunTest
  BY <1>6 DEF TestRefused, TestBegins, Loopback, RunTest, ShellInv, CommandAt, Is, machine, Exit
<1>7. CASE SuiteEnds
  <2>1. Verdict(command) \in {0, 1}
    BY DEF Verdict
  <2> QED BY <1>7, <2>1 DEF SuiteEnds, ShellInv, CommandAt, Is, machine, Exit
<1>8. CASE WriteReport
  <2>1. Verdict(command) \in {0, 1}
    BY DEF Verdict
  <2>2. \/ Written(command.report, Render(results, command.format))
        \/ WriteFails(command.report) \/ UNCHANGED files
    BY <1>8 DEF WriteReport
  <2>3. DOMAIN files' = Owned
    BY <2>2, WritesKeep DEF ShellInv
  <2> QED BY <1>8, <2>1, <2>3 DEF WriteReport, ShellInv, CommandAt, Is, machine, Exit
<1>9. CASE LoadReport
  <2>1. Is("report") /\ IsCommand(command)
    BY <1>9 DEF LoadReport, ShellInv, CommandAt, Is
  <2>2. CASE Exit(2) /\ UNCHANGED command
    <3>1. pc' = "shell" /\ exit' = 2 /\ vehicle' = vehicle /\ files' = files
      BY <1>9, <2>1, <2>2 DEF LoadReport, machine, Exit, ShellInv, CommandAt
    <3> QED BY <2>2, <3>1 DEF ShellInv, CommandAt
  <2>3. CASE pc' = "render" /\ exit' = exit
             /\ command' = [command EXCEPT !.report =
                  IF @ # None THEN @ ELSE IF command.format = "json" THEN "report.json" ELSE "report.html"]
    <3> DEFINE out == IF command.report # None THEN command.report
                      ELSE IF command.format = "json" THEN "report.json" ELSE "report.html"
    <3>1. /\ DOMAIN command = {"cmd", "input", "report", "format"}
          /\ command.input \in Reports /\ command.report \in Reports \cup {None} /\ command.cmd = "report"
      BY <2>1 DEF IsCommand, Is
    <3>2. out \in Reports /\ out # None
      BY <3>1, ProjectAssumption
    <3>3. command' = [command EXCEPT !.report = out]
      BY <2>3
    <3> HIDE DEF out
    <3>4. /\ DOMAIN command' = {"cmd", "input", "report", "format"}
          /\ command'.cmd = "report" /\ command'.input \in Reports /\ command'.report = out
      BY <3>1, <3>3
    <3>5. IsCommand(command')
      BY <3>2, <3>4 DEF IsCommand
    <3>6. command' # None
      <4>1. command \in Commands /\ command.cmd = "report"
        BY <1>9, <3>1 DEF LoadReport, ShellInv, CommandAt
      <4> QED BY <3>2, <3>3, <4>1, CommandsAssumption
    <3> QED BY <1>9, <2>3, <3>2, <3>4, <3>5, <3>6 DEF LoadReport, ShellInv, CommandAt, Is, machine, Exit
  <2> QED BY <1>9, <2>2, <2>3 DEF LoadReport
<1>10. CASE UNCHANGED vars
  BY <1>10 DEF vars, ShellInv, CommandAt, Is
<1> QED BY <1>1, <1>2, <1>3, <1>4, <1>5, <1>6, <1>7, <1>8, <1>9, <1>10 DEF Next

-----------------------------------------------------------------------------
(* cmd_init.                                                               *)

\* No file of the scaffold was there when the init began.
Free == \A i \in DOMAIN Scaffold : before[Scaffold[i]] = Absent

\* What is queued is the end of the scaffold, and all before it is written.
Half ==
  /\ queue \in Seq(Owned)
  /\ Len(queue) <= Len(Scaffold)
  /\ \A k \in 1 .. Len(queue) : queue[k] = Scaffold[Len(Scaffold) - Len(queue) + k]
  /\ \A i \in 1 .. Len(Scaffold) - Len(queue) : files[Scaffold[i]] = Template

Spared == \A path \in DOMAIN files : before[path] # Absent => files[path] = before[path]
Whole == \A i \in DOMAIN Scaffold : files[Scaffold[i]] = Template

InitInv ==
  Is("init") =>
    /\ pc \in {"init", "write", "shell"}
    /\ pc = "init" => files = before
    /\ pc = "write" => (~command.force => Free) /\ Half
    /\ ~command.force => Spared
    /\ ~command.force /\ exit = 2 => Free \/ files = before
    /\ exit = 0 => Whole

LEMMA ScaffoldFacts ==
  /\ Len(Scaffold) \in Nat /\ DOMAIN Scaffold = 1 .. Len(Scaffold)
  /\ \A i \in DOMAIN Scaffold : Scaffold[i] \in Owned
  /\ Scaffold \in Seq(Owned)
<1>1. Scaffold \in Seq({Scaffold[i] : i \in DOMAIN Scaffold})
  BY ProjectAssumption
<1>2. Len(Scaffold) \in Nat /\ DOMAIN Scaffold = 1 .. Len(Scaffold)
  BY <1>1, LenProperties
<1>3. {Scaffold[i] : i \in DOMAIN Scaffold} \subseteq Owned
  BY DEF Owned
<1>4. Scaffold \in Seq(Owned)
  BY <1>1, <1>3, SeqMonotonic
<1> QED BY <1>2, <1>3, <1>4

LEMMA InitWritesHalf ==
  ASSUME ShellInv, InitInv, InitWrites
  PROVE  InitInv'
<1> DEFINE path == Head(queue)
           n == Len(Scaffold)
<1>1. /\ pc = "write" /\ queue # <<>> /\ Is("init")
      /\ UNCHANGED <<command, before>>
      /\ DOMAIN files = Owned /\ exit = None
  BY DEF InitWrites, ShellInv, CommandAt
<1>2. (~command.force => Free /\ Spared) /\ Half
  BY <1>1 DEF InitInv
<1>3. /\ queue \in Seq(Owned) /\ Len(queue) \in Nat /\ Len(queue) # 0 /\ n \in Nat
      /\ Len(queue) <= n /\ path = queue[1]
  <2>1. queue \in Seq(Owned) /\ Len(queue) <= n
    BY <1>2 DEF Half
  <2>2. Len(queue) \in Nat /\ n \in Nat
    BY <2>1, LenProperties, ScaffoldFacts
  <2>3. Len(queue) # 0
    BY <1>1, <2>1, EmptySeq
  <2> QED BY <2>1, <2>2, <2>3
<1>4. path \in Owned /\ path = Scaffold[n - Len(queue) + 1] /\ n - Len(queue) + 1 \in DOMAIN Scaffold
  <2>1. 1 \in 1 .. Len(queue) /\ n - Len(queue) + 1 \in 1 .. n
    BY <1>3
  <2>2. queue[1] = Scaffold[n - Len(queue) + 1]
    BY <1>2, <2>1 DEF Half
  <2> QED BY <1>3, <2>1, <2>2, ScaffoldFacts
<1>5. ~command.force => before[path] = Absent
  BY <1>2, <1>4 DEF Free
<1> HIDE DEF path
<1>6. ASSUME NEW content, files' = [files EXCEPT ![path] = content] \/ files' = files
      PROVE  ~command'.force => Spared'
  <2>1. \A p \in DOMAIN files : p # path => files'[p] = files[p]
    BY <1>6
  <2>2. DOMAIN files' = DOMAIN files
    BY <1>6
  <2> QED BY <1>1, <1>2, <1>5, <2>1, <2>2 DEF Spared
<1>7. CASE Written(path, Template) /\ queue' = Tail(queue) /\ UNCHANGED <<pc, exit>>
  <2>1. files' = [files EXCEPT ![path] = Template]
    BY <1>7 DEF Written
  <2>2. /\ queue' \in Seq(Owned) /\ Len(queue') = Len(queue) - 1
        /\ \A k \in 1 .. Len(queue') : queue'[k] = queue[k + 1]
    BY <1>1, <1>3, <1>7, HeadTailProperties
  <2>3. PICK q \in Nat, m \in Nat : q = Len(queue) /\ m = n /\ q # 0 /\ q <= m
    BY <1>3
  <2>4. ASSUME NEW k \in 1 .. q - 1
        PROVE  queue'[k] = Scaffold[m - (q - 1) + k]
    <3>1. k + 1 \in 1 .. q /\ m - q + (k + 1) = m - (q - 1) + k
      BY <2>3
    <3>2. queue[k + 1] = Scaffold[m - q + (k + 1)]
      BY <1>2, <2>3, <3>1 DEF Half
    <3> QED BY <2>2, <2>3, <3>1, <3>2
  <2>5. ASSUME NEW i \in 1 .. m - (q - 1)
        PROVE  files'[Scaffold[i]] = Template
    <3>1. CASE Scaffold[i] = path
      BY <1>1, <1>4, <2>1, <3>1
    <3>2. CASE Scaffold[i] # path
      <4>1. i # m - q + 1
        BY <1>4, <2>3, <3>2
      <4>2. i \in 1 .. m - q /\ i \in 1 .. m
        BY <2>3, <4>1
      <4>3. files[Scaffold[i]] = Template
        BY <1>2, <2>3, <4>2 DEF Half
      <4>4. i \in DOMAIN Scaffold
        BY <2>3, <4>2, ScaffoldFacts
      <4> QED BY <1>1, <2>1, <3>2, <4>3, <4>4, ScaffoldFacts
    <3> QED BY <3>1, <3>2
  <2>9. Half'
    <3>1. Len(queue') = q - 1 /\ q - 1 <= m /\ Len(Scaffold) = m
      BY <2>2, <2>3
    <3> QED BY <2>2, <2>4, <2>5, <3>1 DEF Half
  <2>6. ~command'.force => Spared'
    BY <1>6, <2>1
  <2>7. pc' = "write" /\ exit' = None
    BY <1>1, <1>7
  <2>8. (~command'.force => Free')
    BY <1>1, <1>2 DEF Free
  <2> QED BY <2>6, <2>7, <2>8, <2>9, ProjectAssumption DEF InitInv
<1>8. CASE WriteFails(path) /\ Exit(2)
  <2>1. files' = [files EXCEPT ![path] = Torn] \/ files' = files
    BY <1>8 DEF WriteFails, Written
  <2>2. ~command'.force => Spared'
    BY <1>6, <2>1
  <2>3. pc' = "shell" /\ exit' = 2
    BY <1>8 DEF Exit
  <2>4. (~command'.force => Free')
    BY <1>1, <1>2 DEF Free
  <2> QED BY <2>2, <2>3, <2>4 DEF InitInv
<1> QED BY <1>7, <1>8 DEF InitWrites, path

LEMMA KillHalf ==
  ASSUME ShellInv, InitInv, Killed
  PROVE  InitInv'
<1>1. pc # "shell" /\ pc' = "shell" /\ exit' = None /\ UNCHANGED <<command, before>>
  BY DEF Killed, Exit
<1>2. SUFFICES ASSUME Is("init") PROVE InitInv'
  BY <1>1 DEF InitInv, Is
<1>3. pc \in {"init", "write"} /\ (~command.force => Spared)
  BY <1>1, <1>2 DEF InitInv
<1>4. SUFFICES ~command.force => Spared'
  BY <1>1, ProjectAssumption DEF InitInv
<1>5. CASE UNCHANGED files
  BY <1>1, <1>3, <1>5 DEF Spared
<1>6. CASE pc = "write" /\ queue # <<>> /\ WriteFails(Head(queue))
  <2>1. (~command.force => Free) /\ Half
    BY <1>2, <1>6 DEF InitInv
  <2>2. \E i \in DOMAIN Scaffold : Head(queue) = Scaffold[i]
    <3>1. queue \in Seq(Owned) /\ Len(queue) \in Nat /\ Len(Scaffold) \in Nat /\ Len(queue) <= Len(Scaffold)
      BY <2>1, LenProperties, ScaffoldFacts DEF Half
    <3>2. Len(queue) # 0 /\ Head(queue) = queue[1]
      BY <1>6, <3>1, EmptySeq
    <3>3. 1 \in 1 .. Len(queue) /\ Len(Scaffold) - Len(queue) + 1 \in 1 .. Len(Scaffold)
      BY <3>1, <3>2
    <3>4. queue[1] = Scaffold[Len(Scaffold) - Len(queue) + 1]
      BY <2>1, <3>3 DEF Half
    <3> QED BY <3>2, <3>3, <3>4, ScaffoldFacts
  <2>3. ~command.force => before[Head(queue)] = Absent
    BY <2>1, <2>2 DEF Free
  <2>4. DOMAIN files' = DOMAIN files /\ \A p \in DOMAIN files : p # Head(queue) => files'[p] = files[p]
    BY <1>6 DEF WriteFails, Written
  <2> QED BY <1>1, <1>3, <2>3, <2>4 DEF Spared
<1> QED BY <1>3, <1>5, <1>6 DEF Killed

LEMMA StepInit ==
  ASSUME ShellInv, InitInv, [Next]_vars
  PROVE  InitInv'
<1>1. CASE RunCommand
  <2>1. PICK c \in Commands : command' = c /\ pc' = c.cmd
                              /\ before' = IF c.cmd = "init" THEN files ELSE <<>>
    BY <1>1 DEF RunCommand
  <2>2. exit' = None /\ files' = files
    BY <1>1 DEF RunCommand
  <2> QED BY <2>1, <2>2, ProjectAssumption DEF InitInv, Is, Spared
<1>2. CASE UserEdits
  BY <1>2 DEF UserEdits, InitInv, Is
<1>3. CASE Killed
  BY <1>3, KillHalf
<1>4. CASE InitChecks
  <2>1. pc = "init" /\ Is("init") /\ files = before /\ UNCHANGED <<files, command, before>>
    BY <1>4 DEF InitChecks, ShellInv, CommandAt, InitInv
  <2>2. Spared'
    BY <2>1 DEF Spared
  <2>3. CASE Exit(2)
    BY <2>1, <2>2, <2>3 DEF InitInv, Exit
  <2>4. CASE ~Exit(2)
    <3>1. /\ ~AnyExists \/ command.force
          /\ queue' = Scaffold /\ pc' = "write" /\ exit' = exit /\ exit = None
      BY <1>4, <2>4 DEF InitChecks, ShellInv, CommandAt
    <3>2. ~command'.force => Free'
      BY <2>1, <3>1 DEF AnyExists, Free
    <3>3. Half'
      <4>1. Len(Scaffold) \in Nat /\ Scaffold \in Seq(Owned)
        BY ScaffoldFacts
      <4>2. \A k \in 1 .. Len(Scaffold) : Len(Scaffold) - Len(Scaffold) + k = k
        BY <4>1
      <4>3. 1 .. Len(Scaffold) - Len(Scaffold) = {} /\ Len(Scaffold) <= Len(Scaffold)
        BY <4>1
      <4> QED BY <3>1, <4>1, <4>2, <4>3 DEF Half
    <3> QED BY <2>2, <3>1, <3>2, <3>3, ProjectAssumption DEF InitInv
  <2> QED BY <2>3, <2>4
<1>5. CASE InitHasNoDir
  <2>1. pc = "init" /\ Is("init") /\ files = before /\ UNCHANGED <<files, command, before>>
        /\ pc' = "shell" /\ exit' = 2
    BY <1>5 DEF InitHasNoDir, ShellInv, CommandAt, InitInv, Exit
  <2> QED BY <2>1 DEF InitInv, Spared
<1>6. CASE InitWrites
  BY <1>6, InitWritesHalf
<1>7. CASE InitDone
  <2>1. pc = "write" /\ Is("init") /\ Half /\ queue = <<>> /\ UNCHANGED <<files, command, before>>
        /\ pc' = "shell" /\ exit' = 0 /\ (~command.force => Spared)
    BY <1>7 DEF InitDone, ShellInv, CommandAt, InitInv, Exit
  <2>2. Len(queue) = 0 /\ Len(Scaffold) - 0 = Len(Scaffold)
    BY <2>1, EmptySeq, ScaffoldFacts
  <2>3. Whole
    BY <2>1, <2>2, ScaffoldFacts DEF Half, Whole
  <2> QED BY <2>1, <2>3 DEF InitInv, Whole, Spared
<1>8. CASE Simulate \/ TestRefused \/ TestBegins \/ Loopback \/ RunTest \/ SuiteEnds \/ WriteReport
           \/ LoadReport
  <2>1. ~Is("init")'
    <3>1. command.cmd \in {"simulate", "test", "report"}
      BY <1>8 DEF Simulate, TestRefused, TestBegins, Loopback, RunTest, SuiteEnds, WriteReport,
                  LoadReport, ShellInv, CommandAt, Is
    <3>2. CASE command' = command
      BY <3>1, <3>2 DEF Is
    <3>3. CASE command' # command
      <4>1. LoadReport
        BY <1>8, <3>3 DEF Simulate, TestRefused, TestBegins, Loopback, RunTest, SuiteEnds, WriteReport
      <4>2. ShellInv'
        BY <4>1, StepShell DEF Next
      <4> QED BY <3>3, <4>1, <4>2 DEF LoadReport, ShellInv, CommandAt, Is
    <3> QED BY <3>2, <3>3
  <2> QED BY <2>1 DEF InitInv
<1>9. CASE UNCHANGED vars
  BY <1>9 DEF vars, InitInv, Is, Free, Half, Spared, Whole
<1> QED BY <1>1, <1>2, <1>3, <1>4, <1>5, <1>6, <1>7, <1>8, <1>9 DEF Next

-----------------------------------------------------------------------------
(* cmd_test.                                                               *)

Results == [test : Paths, passed : BOOLEAN]
Ran == [i \in DOMAIN results |-> results[i].test]
Listed ==
  /\ results \in Seq(Results) /\ queue \in Seq(Paths)
  /\ RangeOf(Ran \o queue) = Asked /\ OneToOne(Ran \o queue)

\* A command that ran every test, with what it exits with.
Complete ==
  /\ results \in Seq(Results)
  /\ RanTests = Asked

\* What ExitTells says of a test command that has ended.
Told ==
  \/ /\ RanTests = Asked
     /\ (exit = 0) = (\A i \in DOMAIN results : results[i].passed)
     /\ command.report # None =>
          LET report == files[command.report]
          IN  /\ report.is = command.format
              /\ report.is = "json" => report.tests = results
              /\ report.is = "html" => /\ report.rows = results
                                       /\ report.failed > 0 <=> exit = 1
  \/ exit = 1 /\ command.check /\ results = <<>>

Where ==
  LET name == command.interface
  IN  CASE name = None -> target.kind = "virtual"
        [] name \in DOMAIN vehicle.interfaces -> target.kind = vehicle.interfaces[name].kind
        [] OTHER -> target = [kind |-> "socketcan", device |-> name] /\ socketcan

TestInv ==
  Is("test") =>
    /\ pc = "test" => results = <<>>
    /\ pc = "check" => results = <<>> /\ command.check
    /\ pc \in {"check", "run"} => Listed /\ Where
    /\ pc = "render" => Complete
    /\ pc = "shell" /\ exit \in {0, 1} => Told

LEMMA RanFacts ==
  ASSUME results \in Seq(Results)
  PROVE  /\ Ran \in Seq(Paths) /\ Len(Ran) = Len(results) /\ Len(results) \in Nat
         /\ DOMAIN results = 1 .. Len(results) /\ RangeOf(Ran) = RanTests
         /\ \A i \in 1 .. Len(results) : Ran[i] = results[i].test /\ results[i] \in Results
<1>1. Len(results) \in Nat /\ DOMAIN results = 1 .. Len(results)
      /\ \A i \in 1 .. Len(results) : results[i] \in Results
  BY LenProperties
<1>2. Ran = [i \in 1 .. Len(results) |-> results[i].test]
  BY <1>1 DEF Ran
<1>3. \A i \in 1 .. Len(results) : results[i].test \in Paths
  BY <1>1 DEF Results
<1>4. Ran \in Seq(Paths) /\ Len(Ran) = Len(results)
  BY <1>1, <1>2, <1>3
<1>5. RangeOf(Ran) = RanTests
  BY <1>1, <1>2 DEF RangeOf, RanTests
<1> QED BY <1>1, <1>2, <1>4, <1>5

\* The failed tests are counted as they should be.
LEMMA FailedCounts ==
  ASSUME NEW suite \in Seq(Results)
  PROVE  Failed(suite) \in Nat /\ (Failed(suite) > 0 <=> \E i \in DOMAIN suite : ~suite[i].passed)
<1> DEFINE D == DOMAIN suite
           P == {i \in D : suite[i].passed}
<1>1. Len(suite) \in Nat /\ D = 1 .. Len(suite)
  BY LenProperties
<1>2. IsFiniteSet(D) /\ Cardinality(D) = Len(suite)
  <2>1. IsFiniteSet(1 .. Len(suite))
        /\ Cardinality(1 .. Len(suite)) = IF 1 > Len(suite) THEN 0 ELSE Len(suite) - 1 + 1
    BY <1>1, FS_Interval
  <2> QED BY <1>1, <2>1
<1>3. P \in SUBSET D /\ (P = D <=> \A i \in D : suite[i].passed)
  OBVIOUS
<1>4. Failed(suite) = Len(suite) - Cardinality(P)
  BY DEF Failed, Passed
<1> HIDE DEF P, D
<1>5. /\ Cardinality(P) \in Nat /\ Cardinality(P) <= Cardinality(D)
      /\ (Cardinality(D) = Cardinality(P) => D = P)
  BY <1>2, <1>3, FS_Subset, FS_CardinalityType
<1>6. Failed(suite) \in Nat /\ (Failed(suite) > 0 <=> P # D)
  BY <1>1, <1>2, <1>4, <1>5
<1> QED BY <1>3, <1>6 DEF D

LEMMA VerdictTells ==
  ASSUME results \in Seq(Results), Is("test")
  PROVE  /\ Verdict(command) \in {0, 1}
         /\ (Verdict(command) = 0) = (\A i \in DOMAIN results : results[i].passed)
         /\ Failed(results) > 0 <=> Verdict(command) = 1
<1>1. Failed(results) \in Nat /\ (Failed(results) > 0 <=> \E i \in DOMAIN results : ~results[i].passed)
  BY FailedCounts
<1>2. Verdict(command) = IF Failed(results) > 0 THEN 1 ELSE 0
  BY DEF Verdict, Is
<1>3. CASE Failed(results) > 0
  <2>1. Verdict(command) = 1 /\ 1 # 0 /\ 1 \in {0, 1}
    BY <1>2, <1>3
  <2>2. ~(\A i \in DOMAIN results : results[i].passed)
    BY <1>1, <1>3, Zenon
  <2>3. (Verdict(command) = 0) = (\A i \in DOMAIN results : results[i].passed)
    BY <2>1, <2>2, Zenon
  <2> QED BY <1>3, <2>1, <2>3, Zenon
<1>4. CASE ~(Failed(results) > 0)
  <2>1. Verdict(command) = 0 /\ 0 # 1 /\ 0 \in {0, 1}
    BY <1>2, <1>4
  <2>2. \A i \in DOMAIN results : results[i].passed
    BY <1>1, <1>4, Zenon
  <2>3. (Verdict(command) = 0) = (\A i \in DOMAIN results : results[i].passed)
    BY <2>1, <2>2, Zenon
  <2> QED BY <1>4, <2>1, <2>3, Zenon
<1> QED BY <1>3, <1>4

\* What the registry says of the kinds: the protocols over a socket are
\* placeholders unless the build has the feature.
LEMMA DefaultKinds ==
  /\ DOMAIN DefaultRegistry = {"virtual", "udp", "socketcan", "restbus"}
  /\ DefaultRegistry["socketcan"] = SocketcanProtocol
<1> DEFINE r0 == <<>>
           r1 == Register(r0, "virtual", VirtualProtocol)
           r2 == Register(r1, "udp", UdpProtocol)
           r3 == Register(r2, "socketcan", SocketcanProtocol)
           r4 == Register(r3, "restbus", RestBusProtocol)
<1>1. DOMAIN r0 = {}
  OBVIOUS
<1> HIDE DEF r0
<1>2. DOMAIN r1 = {"virtual"}
  BY <1>1 DEF Register
<1> HIDE DEF r1
<1>3. DOMAIN r2 = {"virtual", "udp"}
  BY <1>2 DEF Register
<1> HIDE DEF r2
<1>4. DOMAIN r3 = {"virtual", "udp", "socketcan"} /\ r3["socketcan"] = SocketcanProtocol
  BY <1>3 DEF Register
<1> HIDE DEF r3
<1>5. DOMAIN r4 = {"virtual", "udp", "socketcan", "restbus"} /\ r4["socketcan"] = SocketcanProtocol
  BY <1>4 DEF Register
<1> HIDE DEF r4
<1>6. DefaultRegistry = r4
  BY DEF DefaultRegistry, r4, r3, r2, r1, r0
<1> QED BY <1>5, <1>6

LEMMA BeginsWhere ==
  ASSUME ShellInv, TestInv, TestBegins
  PROVE  TestInv'
<1>1. /\ pc = "test" /\ Is("test") /\ results = <<>> /\ IsCommand(command) /\ vehicle \in Vehicles
      /\ UNCHANGED <<vehicle, socketcan, command, results, exit>> /\ exit = None
      /\ TestReady /\ queue' = Selected(command)
      /\ pc' = IF command.check THEN "check" ELSE "run"
  BY DEF TestBegins, ShellInv, CommandAt, TestInv, machine
<1>2. /\ Selected(command) \in Seq(Paths) /\ OneToOne(Selected(command))
      /\ RangeOf(Selected(command)) = Asked
  BY <1>1, SelectedOnce DEF TestReady, Is
<1>3. Listed'
  <2>1. results' = <<>> /\ results' \in Seq(Results) /\ Ran' = <<>>
    BY <1>1, EmptySeq DEF Ran
  <2>2. <<>> \o Selected(command) = Selected(command)
    BY <1>2, ConcatEmptySeq
  <2>3. Asked' = Asked
    BY <1>1 DEF Asked
  <2> QED BY <1>1, <1>2, <2>1, <2>2, <2>3 DEF Listed
<1>4. Where'
  <2> DEFINE name == command.interface
             kind == Kind(name)
  <2>1. target' = [kind |-> kind, device |-> IF kind \in Carrier THEN SocketcanInterface(name) ELSE None]
    BY DEF TestBegins
  <2>2. target'.kind = kind
    BY <2>1
  <2>3. CASE name = None
    <3>1. kind = "virtual"
      BY <2>3 DEF Kind
    <3>2. /\ command'.interface = None /\ target'.kind = "virtual"
          /\ command'.interface \notin DOMAIN vehicle'.interfaces
      BY <1>1, <2>2, <2>3, <3>1, ProjectAssumption
    <3> QED BY <3>2 DEF Where
  <2>4. CASE name # None /\ name \in DOMAIN vehicle.interfaces
    <3>1. kind = vehicle.interfaces[name].kind
      BY <2>4 DEF Kind
    <3> QED BY <1>1, <2>2, <2>4, <3>1 DEF Where
  <2>5. CASE name # None /\ name \notin DOMAIN vehicle.interfaces
    <3>1. kind = "socketcan" /\ SocketcanInterface(name) = name
      BY <2>5 DEF Kind, SocketcanInterface
    <3>2. target' = [kind |-> "socketcan", device |-> name]
      BY <2>1, <3>1 DEF Carrier
    <3>3. socketcan
      <4>1. Buildable(DefaultRegistry, "socketcan")
        BY <1>1, <3>1 DEF TestReady
      <4>2. DefaultRegistry["socketcan"].feature = TRUE
        BY DefaultKinds DEF SocketcanProtocol
      <4> QED BY <4>1, <4>2 DEF Buildable
    <3> QED BY <1>1, <2>5, <3>2, <3>3 DEF Where
  <2> QED BY <2>3, <2>4, <2>5
<1> QED BY <1>1, <1>3, <1>4 DEF TestInv

\* Joining two lists of known lengths.
Joins(a, b, m, n) ==
  /\ a \o b \in Seq(Paths) /\ Len(a \o b) = m + n
  /\ \A i \in 1 .. m + n : (a \o b)[i] = IF i <= m THEN a[i] ELSE b[i - m]

LEMMA Joined ==
  \A a, b \in Seq(Paths) : \A m, n \in Nat : Len(a) = m /\ Len(b) = n => Joins(a, b, m, n)
<1> TAKE a, b \in Seq(Paths)
<1> TAKE m, n \in Nat
<1>1. /\ a \o b \in Seq(Paths) /\ Len(a \o b) = Len(a) + Len(b)
      /\ \A i \in 1 .. Len(a) + Len(b) : (a \o b)[i] = IF i <= Len(a) THEN a[i] ELSE b[i - Len(a)]
  BY ConcatProperties, Zenon
<1> QED BY <1>1 DEF Joins

\* A command that runs its last test has run them all; the order of the rest
\* of the list does not change when its first test moves to the results.
LEMMA RunsOn ==
  ASSUME Listed, queue # <<>>, NEW passed \in BOOLEAN,
         results' = Append(results, [test |-> Head(queue), passed |-> passed]),
         queue' = Tail(queue), Asked' = Asked
  PROVE  Listed'
<1> DEFINE new == [test |-> Head(queue), passed |-> passed]
<1>1. results \in Seq(Results) /\ queue \in Seq(Paths)
  BY DEF Listed
<1>2. PICK m, q \in Nat : m = Len(results) /\ q = Len(queue)
  BY <1>1, LenProperties
<1>3. q # 0 /\ Head(queue) = queue[1] /\ queue[1] \in Paths
  <2>1. q # 0
    BY <1>1, <1>2, EmptySeq
  <2> QED BY <1>1, <1>2, <2>1, ElementOfSeq
<1>4. new \in Results
  BY <1>3 DEF Results
<1> HIDE DEF new
<1>5. /\ results' \in Seq(Results) /\ Len(results') = m + 1
      /\ \A i \in 1 .. m : results'[i] = results[i]
      /\ results'[m + 1] = new
  BY <1>1, <1>2, <1>4, AppendProperties DEF new
<1>6. /\ queue' \in Seq(Paths) /\ Len(queue') = q - 1
      /\ \A k \in 1 .. q - 1 : queue'[k] = queue[k + 1]
  BY <1>1, <1>2, <1>3, HeadTailProperties
<1>7. /\ Ran \in Seq(Paths) /\ Len(Ran) = m
      /\ \A i \in 1 .. m : Ran[i] = results[i].test
  BY <1>1, <1>2, RanFacts
<1>8. /\ Ran' \in Seq(Paths) /\ Len(Ran') = m + 1
      /\ \A i \in 1 .. m + 1 : Ran'[i] = results'[i].test
  <2>1. DOMAIN results' = 1 .. m + 1 /\ \A i \in 1 .. m + 1 : results'[i] \in Results
    BY <1>2, <1>5, LenProperties
  <2>2. Ran' = [i \in 1 .. m + 1 |-> results'[i].test]
    BY <2>1 DEF Ran
  <2>3. \A i \in 1 .. m + 1 : results'[i].test \in Paths
    BY <2>1 DEF Results
  <2> QED BY <1>2, <2>2, <2>3
<1>9. /\ \A i \in 1 .. m : Ran'[i] = Ran[i]
      /\ Ran'[m + 1] = queue[1]
  <2>1. new.test = queue[1]
    BY <1>3 DEF new
  <2>2. m + 1 \in 1 .. m + 1 /\ \A i \in 1 .. m : i \in 1 .. m + 1
    BY <1>2
  <2>3. ASSUME NEW i \in 1 .. m
        PROVE  Ran'[i] = Ran[i]
    <3>1. i \in 1 .. m + 1
      BY <2>2
    <3>2. Ran'[i] = results'[i].test /\ results'[i] = results[i] /\ Ran[i] = results[i].test
      BY <1>5, <1>7, <1>8, <3>1, Zenon
    <3> QED BY <3>2, Zenon
  <2>4. Ran'[m + 1] = results'[m + 1].test
    BY <1>8, <2>2, Zenon
  <2>5. Ran'[m + 1] = queue[1]
    BY <1>5, <2>1, <2>4
  <2> QED BY <2>3, <2>5, Zenon
<1>10. /\ Ran \o queue \in Seq(Paths) /\ Len(Ran \o queue) = m + q
       /\ \A i \in 1 .. m + q : (Ran \o queue)[i] = IF i <= m THEN Ran[i] ELSE queue[i - m]
  BY <1>1, <1>2, <1>7, ConcatProperties
<1>11. /\ Ran' \o queue' \in Seq(Paths) /\ Len(Ran' \o queue') = (m + 1) + (q - 1)
       /\ \A i \in 1 .. (m + 1) + (q - 1) :
            (Ran' \o queue')[i] = IF i <= m + 1 THEN Ran'[i] ELSE queue'[i - (m + 1)]
  <2>1. Ran' \in Seq(Paths) /\ queue' \in Seq(Paths) /\ Len(Ran') = m + 1 /\ Len(queue') = q - 1
    BY <1>6, <1>8
  <2>2. m + 1 \in Nat /\ q - 1 \in Nat
    BY <1>3
  <2>3. Joins(Ran', queue', m + 1, q - 1)
    BY <2>1, <2>2, Joined, Zenon
  <2> QED BY <2>3, Zenon DEF Joins
<1>12. (m + 1) + (q - 1) = m + q
  BY <1>2
<1>13. ASSUME NEW i \in 1 .. m + q
       PROVE  (Ran' \o queue')[i] = (Ran \o queue)[i]
  <2>1. CASE i <= m
    BY <1>2, <1>9, <1>10, <1>11, <1>12, <2>1
  <2>2. CASE i = m + 1
    <3>1. (Ran' \o queue')[i] = Ran'[m + 1]
      BY <1>2, <1>11, <1>12, <2>2
    <3>2. (Ran \o queue)[i] = queue[1]
      <4>1. ~(i <= m) /\ i - m = 1
        BY <1>2, <2>2
      <4> QED BY <1>10, <4>1
    <3> QED BY <1>9, <3>1, <3>2
  <2>3. CASE i > m + 1
    <3>1. i - (m + 1) \in 1 .. q - 1 /\ (i - (m + 1)) + 1 = i - m /\ ~(i <= m + 1) /\ ~(i <= m)
      BY <1>2, <2>3
    <3>2. (Ran' \o queue')[i] = queue'[i - (m + 1)]
      BY <1>11, <1>12, <3>1
    <3>3. queue'[i - (m + 1)] = queue[i - m]
      BY <1>6, <3>1
    <3> QED BY <1>10, <3>1, <3>2, <3>3
  <2>4. i <= m \/ i = m + 1 \/ i > m + 1
    BY <1>2
  <2> QED BY <2>1, <2>2, <2>3, <2>4, Zenon
<1>14. Ran' \o queue' = Ran \o queue
  BY <1>10, <1>11, <1>12, <1>13, SeqEqual
<1> QED BY <1>5, <1>6, <1>14 DEF Listed

\* When nothing is left to run, all has run.
LEMMA RanAll ==
  ASSUME Listed, queue = <<>>
  PROVE  Complete
<1>1. results \in Seq(Results) /\ Ran \in Seq(Paths) /\ RangeOf(Ran) = RanTests
  BY RanFacts DEF Listed
<1>2. Ran \o queue = Ran
  BY <1>1, ConcatEmptySeq
<1> QED BY <1>1, <1>2 DEF Listed, Complete

\* What the report shows is what ran.
LEMMA RenderTells ==
  ASSUME results \in Seq(Results), Is("test"), NEW format \in Formats
  PROVE  LET report == Render(results, format)
         IN  /\ report.is = format
             /\ report.is = "json" => report.tests = results
             /\ report.is = "html" => /\ report.rows = results
                                      /\ report.failed > 0 <=> Verdict(command) = 1
<1>1. CASE format = "json"
  BY <1>1 DEF Render, Json
<1>2. CASE format = "html"
  <2>1. Render(results, format) = Html(results)
    BY <1>2 DEF Render
  <2>2. Html(results).is = "html" /\ Html(results).rows = results
        /\ Html(results).failed = Failed(results)
    BY DEF Html
  <2>3. Failed(results) > 0 <=> Verdict(command) = 1
    BY VerdictTells
  <2> QED BY <1>2, <2>1, <2>2, <2>3
<1> QED BY <1>1, <1>2 DEF Formats

\* Asked is a matter of the command and the vehicle.
LEMMA AskedStays ==
  ASSUME UNCHANGED <<command, vehicle>>
  PROVE  Asked' = Asked
BY DEF Asked

\* A command that got to its end tells what happened.
LEMMA Concludes ==
  ASSUME Complete, Is("test"), exit' = Verdict(command),
         UNCHANGED <<vehicle, command, results>>,
         \/ command.report = None
         \/ /\ command.format \in Formats
            /\ files'[command.report] = Render(results, command.format)
  PROVE  Told'
<1>1. results \in Seq(Results) /\ RanTests = Asked
  BY DEF Complete
<1>2. RanTests' = Asked'
  <2>1. RanTests' = RanTests
    BY DEF RanTests
  <2> QED BY <1>1, <2>1, AskedStays
<1>3. (exit' = 0) = (\A i \in DOMAIN results' : results'[i].passed)
  <2>1. (Verdict(command) = 0) = (\A i \in DOMAIN results : results[i].passed)
    BY <1>1, VerdictTells
  <2> QED BY <2>1, Zenon
<1>4. ASSUME command'.report # None
      PROVE  LET report == files'[command'.report]
             IN  /\ report.is = command'.format
                 /\ report.is = "json" => report.tests = results'
                 /\ report.is = "html" => /\ report.rows = results'
                                          /\ report.failed > 0 <=> exit' = 1
  <2>1. PICK report : report = Render(results, command.format)
    OBVIOUS
  <2>2. command.format \in Formats /\ files'[command'.report] = report
    BY <1>4, <2>1
  <2>3. /\ report.is = command.format
        /\ report.is = "json" => report.tests = results
        /\ report.is = "html" => /\ report.rows = results
                                 /\ report.failed > 0 <=> Verdict(command) = 1
    BY <1>1, <2>1, <2>2, RenderTells
  <2> QED BY <2>2, <2>3
<1> QED BY <1>2, <1>3, <1>4, Zenon DEF Told

LEMMA StepTest ==
  ASSUME ShellInv, TestInv, [Next]_vars
  PROVE  TestInv'
<1>1. CASE RunCommand
  <2>1. PICK c \in Commands : command' = c /\ pc' = c.cmd
    BY <1>1 DEF RunCommand
  <2>2. exit' = None /\ results' = <<>>
    BY <1>1 DEF RunCommand
  <2> QED BY <2>1, <2>2, ProjectAssumption DEF TestInv, Is
<1>2. CASE UserEdits
  BY <1>2 DEF UserEdits, TestInv, Is
<1>3. CASE Killed
  <2>1. pc' = "shell" /\ exit' = None
    BY <1>3 DEF Killed, Exit
  <2> QED BY <2>1, ProjectAssumption DEF TestInv
<1>4. CASE InitChecks \/ InitHasNoDir \/ InitWrites \/ InitDone \/ Simulate
  <2>1. command' = command /\ command.cmd \in {"init", "simulate"}
    BY <1>4 DEF InitChecks, InitHasNoDir, InitWrites, InitDone, Simulate, ShellInv, CommandAt, Is
  <2> QED BY <2>1 DEF TestInv, Is
<1>5. CASE TestRefused
  <2>1. pc' = "shell" /\ exit' = 2
    BY <1>5 DEF TestRefused, Exit
  <2> QED BY <2>1 DEF TestInv
<1>6. CASE TestBegins
  BY <1>6, BeginsWhere
<1>7. CASE Loopback
  <2>1. /\ pc = "check" /\ Is("test") /\ results = <<>> /\ command.check /\ Listed /\ Where
        /\ UNCHANGED <<vehicle, socketcan, command, queue, target, results>>
    BY <1>7 DEF Loopback, ShellInv, CommandAt, TestInv, machine
  <2>2. CASE pc' = "run"
    <3>1. Listed' /\ Where'
      <4>1. Asked' = Asked
        BY <2>1, AskedStays
      <4>2. Ran' = Ran
        BY <2>1 DEF Ran
      <4> QED BY <2>1, <4>1, <4>2 DEF Listed, Where
    <3> QED BY <2>2, <3>1 DEF TestInv
  <2>3. CASE pc' = "shell" /\ exit' = 1
    <3>1. exit' = 1 /\ command'.check /\ results' = <<>>
      BY <2>1, <2>3
    <3>2. Told'
      BY <3>1, Zenon DEF Told
    <3> QED BY <2>3, <3>2 DEF TestInv
  <2>4. CASE pc' = "shell" /\ exit' = 2
    BY <2>4 DEF TestInv
  <2> QED BY <1>7, <2>2, <2>3, <2>4 DEF Loopback, Exit
<1>8. CASE RunTest
  <2>1. pc = "run" /\ queue # <<>> /\ Is("test") /\ Listed /\ Where
        /\ UNCHANGED <<vehicle, socketcan, command, target>>
    BY <1>8 DEF RunTest, ShellInv, CommandAt, TestInv, machine
  <2>2. Asked' = Asked
    BY <2>1, AskedStays
  <2>3. CASE pc' = "shell" /\ exit' = 2
    BY <2>3 DEF TestInv
  <2>4. CASE ~(pc' = "shell" /\ exit' = 2)
    <3>1. /\ queue' = Tail(queue) /\ pc' = "run"
          /\ \E passed \in BOOLEAN :
               results' = Append(results, [test |-> Head(queue), passed |-> passed])
      BY <1>8, <2>1, <2>4 DEF RunTest, Exit
    <3>2. Listed'
      BY <2>1, <2>2, <3>1, RunsOn
    <3>3. Where'
      BY <2>1 DEF Where
    <3> QED BY <3>1, <3>2, <3>3 DEF TestInv
  <2> QED BY <2>3, <2>4
<1>9. CASE SuiteEnds
  <2>1. /\ pc = "run" /\ queue = <<>> /\ Is("test") /\ Listed
        /\ UNCHANGED <<vehicle, command, results>>
    BY <1>9 DEF SuiteEnds, ShellInv, CommandAt, TestInv, machine
  <2>2. Complete
    BY <2>1, RanAll
  <2>3. CASE command.report = None
    <3>1. pc' = "shell" /\ exit' = Verdict(command)
      BY <1>9, <2>3 DEF SuiteEnds, Exit
    <3>2. Told'
      BY <2>1, <2>2, <2>3, <3>1, Concludes
    <3> QED BY <3>1, <3>2 DEF TestInv
  <2>4. CASE command.report # None
    <3>1. pc' = "render"
      BY <1>9, <2>4 DEF SuiteEnds
    <3>2. Asked' = Asked /\ RanTests' = RanTests
      BY <2>1, AskedStays DEF RanTests
    <3>3. Complete'
      BY <2>1, <2>2, <3>2 DEF Complete
    <3> QED BY <3>1, <3>3 DEF TestInv
  <2> QED BY <2>3, <2>4
<1>10. CASE WriteReport
  <2>1. /\ pc = "render" /\ command.report # None /\ UNCHANGED <<vehicle, command, results>>
        /\ DOMAIN files = Owned /\ IsCommand(command) /\ (Is("test") \/ Is("report"))
    BY <1>10 DEF WriteReport, ShellInv, CommandAt, Is, machine
  <2>2. CASE Is("report")
    BY <2>1, <2>2 DEF TestInv, Is
  <2>3. CASE Is("test") /\ ~Exit(2)
    <3>1. /\ command.format \in Formats
          /\ files' = [files EXCEPT ![command.report] = Render(results, command.format)]
          /\ pc' = "shell" /\ exit' = Verdict(command)
      BY <1>10, <2>3 DEF WriteReport, Exit, Written
    <3>2. command.report \in Owned
      BY <2>1, <2>3 DEF IsCommand, Is, Owned
    <3>3. files'[command.report] = Render(results, command.format)
      BY <2>1, <3>1, <3>2
    <3>4. Complete
      BY <2>1, <2>3 DEF TestInv
    <3>5. Told'
      BY <2>1, <2>3, <3>1, <3>3, <3>4, Concludes
    <3> QED BY <3>1, <3>5 DEF TestInv
  <2>4. CASE Exit(2)
    BY <2>4 DEF TestInv, Exit
  <2> QED BY <2>1, <2>2, <2>3, <2>4
<1>11. CASE LoadReport
  <2>1. command.cmd = "report" /\ IsCommand(command)
    BY <1>11 DEF LoadReport, ShellInv, CommandAt, Is
  <2>2. command'.cmd = "report"
    <3>1. "cmd" \in DOMAIN command
      BY <2>1 DEF IsCommand
    <3> QED BY <1>11, <2>1, <3>1 DEF LoadReport
  <2> QED BY <2>2 DEF TestInv, Is
<1>12. CASE UNCHANGED vars
  <2>1. UNCHANGED <<vehicle, socketcan, files, command, pc, queue, target, results, exit>>
    BY <1>12 DEF vars
  <2>2. Asked' = Asked /\ Ran' = Ran /\ RanTests' = RanTests
    BY <2>1, AskedStays DEF Ran, RanTests
  <2>3. Listed => Listed'
    BY <2>1, <2>2 DEF Listed
  <2>4. Complete => Complete'
    BY <2>1, <2>2 DEF Complete
  <2>5. Where => Where'
    BY <2>1 DEF Where
  <2>6. Told => Told'
    BY <2>1, <2>2, Zenon DEF Told
  <2> QED BY <2>1, <2>3, <2>4, <2>5, <2>6 DEF TestInv, Is
<1> QED BY <1>1, <1>2, <1>3, <1>4, <1>5, <1>6, <1>7, <1>8, <1>9, <1>10, <1>11, <1>12 DEF Next

-----------------------------------------------------------------------------
(* cmd_report.                                                             *)

ReportInv ==
  Is("report") /\ pc = "shell" /\ exit = 0 => files[command.report].is = command.format

LEMMA StepReport ==
  ASSUME ShellInv, ReportInv, [Next]_vars
  PROVE  ReportInv'
<1>1. CASE RunCommand
  <2>1. PICK c \in Commands : command' = c /\ pc' = c.cmd
    BY <1>1 DEF RunCommand
  <2> QED BY <2>1 DEF ReportInv, Is
<1>2. CASE UserEdits
  BY <1>2 DEF UserEdits, ReportInv, Is
<1>3. CASE Killed
  <2>1. exit' = None
    BY <1>3 DEF Killed, Exit
  <2> QED BY <2>1, ProjectAssumption DEF ReportInv
<1>4. CASE \/ InitChecks \/ InitHasNoDir \/ InitWrites \/ InitDone \/ Simulate
           \/ TestRefused \/ TestBegins \/ Loopback \/ RunTest \/ SuiteEnds
  <2>1. command' = command /\ command.cmd # "report"
    BY <1>4 DEF InitChecks, InitHasNoDir, InitWrites, InitDone, Simulate, TestRefused, TestBegins,
                Loopback, RunTest, SuiteEnds, ShellInv, CommandAt, Is
  <2> QED BY <2>1 DEF ReportInv, Is
<1>5. CASE WriteReport
  <2>1. /\ pc = "render" /\ command.report # None /\ command' = command
        /\ DOMAIN files = Owned /\ IsCommand(command)
    BY <1>5 DEF WriteReport, ShellInv, CommandAt, Is
  <2>2. CASE Exit(2)
    BY <2>2 DEF ReportInv, Exit
  <2>3. CASE Is("report") /\ ~Exit(2)
    <3>1. /\ command.format \in Formats
          /\ files' = [files EXCEPT ![command.report] = Render(results, command.format)]
      BY <1>5, <2>3 DEF WriteReport, Written
    <3>2. command.report \in Owned
      BY <2>1, <2>3 DEF IsCommand, Is, Owned
    <3>3. files'[command.report] = Render(results, command.format)
      BY <2>1, <3>1, <3>2
    <3>4. Render(results, command.format).is = command.format
      BY <3>1 DEF Formats, Render, Json, Html
    <3> QED BY <2>1, <3>3, <3>4 DEF ReportInv
  <2>4. CASE ~Is("report")
    BY <2>1, <2>4 DEF ReportInv, Is
  <2> QED BY <2>2, <2>3, <2>4
<1>6. CASE LoadReport
  <2>1. pc' = "render" \/ exit' = 2
    BY <1>6 DEF LoadReport, Exit
  <2> QED BY <2>1 DEF ReportInv
<1>7. CASE UNCHANGED vars
  BY <1>7 DEF vars, ReportInv, Is
<1> QED BY <1>1, <1>2, <1>3, <1>4, <1>5, <1>6, <1>7 DEF Next

-----------------------------------------------------------------------------
(* The theorems.                                                           *)

Inv == ShellInv /\ InitInv /\ TestInv /\ ReportInv

LEMMA AlwaysInv == Spec => []Inv
<1>1. Init => Inv
  <2>1. Init => ShellInv
    BY InitShell
  <2>2. Init => ~Is("init") /\ ~Is("test") /\ ~Is("report")
    BY DEF Init, Is
  <2> QED BY <2>1, <2>2 DEF Inv, InitInv, TestInv, ReportInv
<1>2. Inv /\ [Next]_vars => Inv'
  BY StepShell, StepInit, StepTest, StepReport DEF Inv
<1> QED BY <1>1, <1>2, PTL DEF Spec

\* interface_kind and build: a suite never runs, and so never passes, on
\* anything but what the user named; only without a name is it the simulation.
THEOREM OnlyWhereNamed == Spec => []RunsWhereNamed
<1>1. Inv => RunsWhereNamed
  <2> SUFFICES ASSUME Inv, pc \in {"check", "run"} PROVE RunsWhereNamed
    BY DEF RunsWhereNamed
  <2>1. Is("test") /\ Where
    BY DEF Inv, ShellInv, CommandAt, TestInv
  <2> QED BY <2>1 DEF Where, RunsWhereNamed
<1> QED BY <1>1, AlwaysInv, PTL

\* A list that has each of its paths once leads to a file as often as there are
\* paths to it.
LEMMA PathsPerFile ==
  ASSUME NEW s \in Seq(Paths), OneToOne(s), NEW file
  PROVE  Cardinality({i \in DOMAIN s : FileOf[s[i]] = file})
           = Cardinality({p \in RangeOf(s) : FileOf[p] = file})
<1> DEFINE D == {i \in DOMAIN s : FileOf[s[i]] = file}
           R == {p \in RangeOf(s) : FileOf[p] = file}
           f == [i \in D |-> s[i]]
<1>1. IsFiniteSet(DOMAIN s)
  <2>1. DOMAIN s = 1 .. Len(s) /\ Len(s) \in Nat
    BY LenProperties
  <2> QED BY <2>1, FS_Interval
<1>2. IsFiniteSet(D)
  BY <1>1, FS_Subset
<1>3. f \in Injection(D, R)
  <2>1. f \in [D -> R]
    BY DEF RangeOf
  <2>2. \A a, b \in D : f[a] = f[b] => a = b
    BY DEF OneToOne
  <2> QED BY <2>1, <2>2 DEF Injection, IsInjective
<1>4. f \in Surjection(D, R)
  <2>1. f \in [D -> R]
    BY DEF RangeOf
  <2>2. \A p \in R : \E i \in D : f[i] = p
    BY DEF RangeOf
  <2> QED BY <2>1, <2>2 DEF Surjection
<1> HIDE DEF D, R, f
<1>5. ExistsBijection(D, R)
  BY <1>3, <1>4 DEF ExistsBijection, Bijection
<1>6. Cardinality(R) = Cardinality(D)
  BY <1>2, <1>5, FS_Bijection
<1> QED BY <1>6 DEF D, R

\* collect_suites and resolve_test_files: whatever files and directories the
\* inputs name, a suite is all the paths they stand for and each of them once; a
\* file runs as often as different ones of them lead to it.
THEOREM TestsRunAsNamed == Spec => []RunsAsNamed
<1>1. Inv => RunsAsNamed
  <2> SUFFICES ASSUME Inv, pc = "run" PROVE RunsAsNamed
    BY DEF RunsAsNamed
  <2>1. Listed
    BY DEF Inv, ShellInv, CommandAt, TestInv
  <2> DEFINE all == Ran \o queue
  <2>2. RangeOf(all) = Asked /\ OneToOne(all)
    BY <2>1 DEF Listed
  <2>3. all \in Seq(Paths)
    BY <2>1, RanFacts, ConcatProperties DEF Listed
  <2> HIDE DEF all
  <2>4. \A file : Cardinality({i \in DOMAIN all : FileOf[all[i]] = file})
                    = Cardinality({p \in Asked : FileOf[p] = file})
    BY <2>2, <2>3, PathsPerFile
  <2>5. {all[i] : i \in DOMAIN all} = Asked
    BY <2>2 DEF RangeOf
  <2> QED BY <2>4, <2>5, Zenon DEF RunsAsNamed, all, Ran
<1> QED BY <1>1, AlwaysInv, PTL

\* cmd_init: without --force it changes nothing that is there, however an
\* earlier one has left the project, and it succeeds only with the project whole.
THEOREM InitLosesNothing == Spec => []InitKeepsFiles
<1>1. Inv => InitKeepsFiles
  <2> SUFFICES ASSUME Inv, Is("init") PROVE InitKeepsFiles
    BY DEF InitKeepsFiles, Is
  <2>1. /\ ~command.force => Spared
        /\ ~command.force /\ exit = 2 => Free \/ files = before
        /\ exit = 0 => Whole
    BY DEF Inv, InitInv
  <2> QED BY <2>1 DEF InitKeepsFiles, Spared, Free, Whole
<1> QED BY <1>1, AlwaysInv, PTL

\* main: the exit code of a test or a report command is the truth about what
\* ran and about the report that is on the disk.
THEOREM CodeTells == Spec => []ExitTells
<1>1. Inv => ExitTells
  <2> SUFFICES ASSUME Inv PROVE ExitTells
    OBVIOUS
  <2>1. Ended("test") /\ exit \in {0, 1} => Told
    BY DEF Inv, TestInv, Ended, Is
  <2>2. Ended("report") /\ exit = 0 => files[command.report].is = command.format
    BY DEF Inv, ReportInv, Ended, Is
  <2> QED BY <2>1, <2>2, Zenon DEF ExitTells, Told
<1> QED BY <1>1, AlwaysInv, PTL

=============================================================================
