-------------------------- MODULE SilFirmwareProofs --------------------------
(***************************************************************************)
(* The three example firmwares, for all periods and steps and any sequence *)
(* of commands.                                                            *)
(*                                                                         *)
(* The CANopen node's bytes are followed through the codec: the frames of  *)
(* its masters and its own decode to what was encoded, a tick carries at   *)
(* most one frame of each kind, and what a master has told is on its way   *)
(* or heard.  With that its steps are steps of the abstract node, whose    *)
(* theorems then hold of it; the pump is that node without a state.  The   *)
(* rover's bus carries the behaviour its newest commands ask for; nothing  *)
(* is used of their values but that they are integers.                     *)
(***************************************************************************)
EXTENDS MCSilFirmware, Sequences, FiniteSets, SequenceTheorems, FiniteSetTheorems,
        WellFoundedInduction, TLAPS

-----------------------------------------------------------------------------
(* Numbers and their bits.                                                 *)

\* A set of numbers that has 0 and every successor has them all.
LEMMA Induction ==
  ASSUME NEW S, 0 \in S, \A n \in Nat : n \in S => n + 1 \in S
  PROVE  \A n \in Nat : n \in S
<1> DEFINE Out == {n \in Nat : n \notin S}
<1> SUFFICES ASSUME Out # {} PROVE FALSE
  OBVIOUS
<1>1. PICK n \in Out : \A m \in Out : <<m, n>> \notin OpToRel(<, Nat)
  BY NatLessThanWellFounded, WFMin, Zenon
<1>2. \A m \in Out : ~(m < n)
  BY <1>1, Zenon DEF OpToRel
<1>3. n \in Nat /\ n # 0
  BY <1>1
<1>4. n - 1 \in Nat /\ n - 1 < n
  BY <1>3
<1>5. n - 1 \in S
  BY <1>2, <1>4
<1>6. n - 1 + 1 \in S
  BY <1>4, <1>5
<1>7. n \in S
  BY <1>3, <1>6
<1> QED BY <1>1, <1>7

\* A number is its quotient and its rest.
LEMMA DivMod ==
  ASSUME NEW n \in Int, NEW d \in Nat \ {0}
  PROVE  /\ n \div d \in Int /\ n % d \in 0 .. d - 1
         /\ n = d * (n \div d) + (n % d)
OBVIOUS

\* The only quotient and rest.
LEMMA DivUnique ==
  ASSUME NEW n \in Int, NEW d \in Nat \ {0}, NEW q \in Int, NEW r \in Int,
         0 <= r, r < d, n = d * q + r
  PROVE  n \div d = q /\ n % d = r
<1> DEFINE p == n \div d  s == n % d
<1>1. p \in Int /\ s \in Int /\ 0 <= s /\ s < d /\ n = d * p + s
  <2>1. p \in Int /\ s \in 0 .. d - 1 /\ n = d * p + s
    BY DivMod
  <2> HIDE DEF p, s
  <2> QED BY <2>1
<1> HIDE DEF p, s
<1>2. d * (p - q) = r - s
  BY <1>1
<1>3. ~(p - q >= 1)
  <2> SUFFICES ASSUME p - q >= 1 PROVE FALSE
    OBVIOUS
  <2>1. d * (p - q) >= d
    BY <1>1
  <2> QED BY <1>1, <1>2, <2>1
<1>4. ~(p - q <= -1)
  <2> SUFFICES ASSUME q - p >= 1 PROVE FALSE
    BY <1>1
  <2>1. d * (q - p) >= d
    BY <1>1
  <2>2. d * (q - p) = s - r
    BY <1>1
  <2> QED BY <1>1, <2>1, <2>2
<1>5. p = q
  BY <1>1, <1>3, <1>4
<1>6. s = r
  BY <1>1, <1>5
<1> QED BY <1>5, <1>6 DEF p, s

\* Dividing twice.
LEMMA DivDiv ==
  ASSUME NEW n \in Int, NEW a \in Nat \ {0}, NEW b \in Nat \ {0}
  PROVE  n \div (a * b) = (n \div a) \div b
<1> DEFINE p == n \div a  s == n % a  q == p \div b  r == p % b
<1>1. p \in Int /\ s \in Int /\ 0 <= s /\ s <= a - 1 /\ n = a * p + s
  BY DivMod
<1> HIDE DEF p, s
<1>2. q \in Int /\ r \in Int /\ 0 <= r /\ r <= b - 1 /\ p = b * q + r
  BY <1>1, DivMod
<1> HIDE DEF q, r
<1>3. n = (a * b) * q + (a * r + s)
  BY <1>1, <1>2
<1>4. a * r + s \in Int /\ 0 <= a * r + s
  BY <1>1, <1>2
<1>5. a * r <= a * (b - 1)
  BY <1>1, <1>2
<1>6. a * r + s < a * b
  BY <1>1, <1>2, <1>5
<1>7. a * b \in Nat \ {0}
  <2>1. a * b >= a
    OBVIOUS
  <2> QED BY <2>1
<1>8. n \div (a * b) = q
  <2> DEFINE d == a * b  t == a * r + s
  <2> HIDE DEF d, t
  <2>1. d \in Nat \ {0} /\ t \in Int /\ 0 <= t /\ t < d /\ n = d * q + t
    BY <1>3, <1>4, <1>6, <1>7 DEF d, t
  <2>2. n \div d = q
    BY <1>2, <2>1, DivUnique
  <2> QED BY <2>2 DEF d
<1> QED BY <1>8 DEF p, q

\* The powers of two up to n, one after another.
Doubles(h, n) ==
  /\ h \in [0 .. n -> Nat \ {0}] /\ h[0] = 1
  /\ \A i \in 1 .. n : h[i] = 2 * h[i - 1]

\* There are such powers.
LEMMA DoublesTo ==
  ASSUME NEW n \in Nat
  PROVE  \E h : Doubles(h, n)
<1> DEFINE Upto == {k \in Nat : \E h : Doubles(h, k)}
<1>1. 0 \in Upto
  <2> DEFINE h == [i \in 0 .. 0 |-> 1]
  <2>1. Doubles(h, 0)
    BY DEF Doubles
  <2> HIDE DEF h
  <2> QED BY <2>1
<1>2. ASSUME NEW k \in Nat, k \in Upto PROVE k + 1 \in Upto
  <2>1. PICK h : Doubles(h, k)
    BY <1>2
  <2> DEFINE g == [i \in 0 .. k + 1 |-> IF i = k + 1 THEN 2 * h[k] ELSE h[i]]
  <2>2. h[k] \in Nat \ {0}
    BY <2>1 DEF Doubles
  <2>3. \A i \in 0 .. k + 1 : i # k + 1 => i \in 0 .. k
    OBVIOUS
  <2>4. g \in [0 .. k + 1 -> Nat \ {0}]
    BY <2>1, <2>2, <2>3 DEF Doubles
  <2>5. ASSUME NEW i \in 1 .. k + 1 PROVE g[i] = 2 * g[i - 1]
    <3>1. i - 1 \in 0 .. k /\ g[i - 1] = h[i - 1]
      OBVIOUS
    <3>2. CASE i = k + 1
      BY <3>1, <3>2
    <3>3. CASE i # k + 1
      <4>1. i \in 1 .. k /\ g[i] = h[i]
        BY <3>3
      <4> QED BY <2>1, <3>1, <4>1 DEF Doubles
    <3> QED BY <3>2, <3>3
  <2>6. g[0] = 1
    BY <2>1 DEF Doubles
  <2> HIDE DEF g
  <2>7. Doubles(g, k + 1)
    BY <2>4, <2>5, <2>6 DEF Doubles
  <2> QED BY <2>7
<1> HIDE DEF Upto
<1>3. n \in Upto
  BY <1>1, <1>2, Induction
<1> QED BY <1>3 DEF Upto

\* They are the same for every n.
LEMMA DoublesAgree ==
  ASSUME NEW n \in Nat, NEW m \in Nat, NEW g, Doubles(g, n), NEW h, Doubles(h, m),
         NEW k \in Nat, k <= n, k <= m
  PROVE  g[k] = h[k]
<1> DEFINE Upto == {i \in Nat : i <= k => g[i] = h[i]}
<1>1. 0 \in Upto
  BY DEF Doubles
<1>2. ASSUME NEW i \in Nat, i \in Upto PROVE i + 1 \in Upto
  <2> SUFFICES ASSUME i + 1 <= k PROVE g[i + 1] = h[i + 1]
    OBVIOUS
  <2>1. i + 1 \in 1 .. n /\ i + 1 \in 1 .. m /\ (i + 1) - 1 = i /\ i <= k
    OBVIOUS
  <2>2. g[i] = h[i]
    BY <1>2, <2>1
  <2>3. g[i + 1] = 2 * g[i] /\ h[i + 1] = 2 * h[i]
    BY <2>1 DEF Doubles
  <2> QED BY <2>2, <2>3
<1> HIDE DEF Upto
<1>3. k \in Upto
  BY <1>1, <1>2, Induction
<1> QED BY <1>3 DEF Upto

\* The powers of two.
LEMMA PowersAre ==
  /\ CanOpen!Power[0] = 1
  /\ \A i \in Nat : CanOpen!Power[i] \in Nat \ {0} /\ CanOpen!Power[i + 1] = 2 * CanOpen!Power[i]
<1> DEFINE To(n) == CHOOSE h : Doubles(h, n)
           Iter(h) == [i \in Nat |-> IF i = 0 THEN 1 ELSE 2 * h[i - 1]]
           g == [i \in Nat |-> To(i)[i]]
<1>1. \A n \in Nat : Doubles(To(n), n)
  BY DoublesTo
<1> HIDE DEF To
<1>2. g = Iter(g)
  <2>1. ASSUME NEW i \in Nat PROVE g[i] = IF i = 0 THEN 1 ELSE 2 * g[i - 1]
    <3>1. CASE i = 0
      BY <1>1, <3>1 DEF Doubles
    <3>2. CASE i # 0
      <4>1. i - 1 \in Nat /\ i \in 1 .. i
        BY <3>2
      <4>2. To(i)[i] = 2 * To(i)[i - 1]
        BY <1>1, <4>1 DEF Doubles
      <4>3. To(i)[i - 1] = To(i - 1)[i - 1]
        <5>1. Doubles(To(i), i) /\ Doubles(To(i - 1), i - 1) /\ i - 1 <= i /\ i - 1 <= i - 1
          BY <1>1, <4>1
        <5> QED BY <4>1, <5>1, DoublesAgree
      <4> QED BY <3>2, <4>1, <4>2, <4>3
    <3> QED BY <3>1, <3>2
  <2> HIDE DEF g
  <2>2. \A i \in Nat : g[i] = Iter(g)[i]
    BY <2>1
  <2>3. g = [i \in Nat |-> g[i]]
    BY DEF g
  <2> QED BY <2>2, <2>3
<1>3. CanOpen!Power = CHOOSE h : h = Iter(h)
  BY DEF CanOpen!Power
<1>4. CanOpen!Power = Iter(CanOpen!Power)
  <2> HIDE DEF g, Iter
  <2> QED BY <1>2, <1>3
<1>5. \A i \in Nat : CanOpen!Power[i] = IF i = 0 THEN 1 ELSE 2 * CanOpen!Power[i - 1]
  <2> DEFINE P == CanOpen!Power
  <2>1. P = Iter(P)
    BY <1>4
  <2> HIDE DEF P
  <2>2. \A i \in Nat : P[i] = IF i = 0 THEN 1 ELSE 2 * P[i - 1]
    BY <2>1
  <2> QED BY <2>2 DEF P
<1>6. CanOpen!Power[0] = 1
  BY <1>5
<1>7. \A i \in Nat : CanOpen!Power[i + 1] = 2 * CanOpen!Power[i]
  <2> SUFFICES ASSUME NEW i \in Nat PROVE CanOpen!Power[i + 1] = 2 * CanOpen!Power[i]
    OBVIOUS
  <2>1. i + 1 \in Nat /\ i + 1 # 0 /\ (i + 1) - 1 = i
    OBVIOUS
  <2> QED BY <1>5, <2>1
<1>8. \A i \in Nat : CanOpen!Power[i] \in Nat \ {0}
  <2> DEFINE S == {i \in Nat : CanOpen!Power[i] \in Nat \ {0}}
  <2>1. 0 \in S
    BY <1>6
  <2>2. \A i \in Nat : i \in S => i + 1 \in S
    BY <1>7
  <2> HIDE DEF S
  <2>3. \A i \in Nat : i \in S
    BY <2>1, <2>2, Induction
  <2> QED BY <2>3 DEF S
<1> QED BY <1>6, <1>7, <1>8

\* What the bits below n add up to, in whatever order they are taken.
Adds(f, n) ==
  /\ f \in [SUBSET (0 .. n - 1) -> Int] /\ f[{}] = 0
  /\ \A T \in SUBSET (0 .. n - 1) : \A x \in T : f[T] = f[T \ {x}] + CanOpen!Power[x]

\* With one bit more.
LEMMA AddsNext ==
  ASSUME NEW n \in Nat, NEW f, Adds(f, n)
  PROVE  Adds([T \in SUBSET (0 .. n) |-> IF n \in T THEN f[T \ {n}] + CanOpen!Power[n] ELSE f[T]], n + 1)
<1> DEFINE g == [T \in SUBSET (0 .. n) |-> IF n \in T THEN f[T \ {n}] + CanOpen!Power[n] ELSE f[T]]
<1>1. (n + 1) - 1 = n
  OBVIOUS
<1>2. ASSUME NEW T \in SUBSET (0 .. n)
      PROVE  T \ {n} \in SUBSET (0 .. n - 1) /\ (n \notin T => T \in SUBSET (0 .. n - 1))
  OBVIOUS
<1>3. \A T \in SUBSET (0 .. n - 1) : f[T] \in Int
  BY DEF Adds
<1>4. CanOpen!Power[n] \in Int
  BY PowersAre
<1>5. g \in [SUBSET (0 .. n) -> Int]
  BY <1>2, <1>3, <1>4
<1>6. g[{}] = 0
  BY DEF Adds
<1>7. ASSUME NEW T \in SUBSET (0 .. n), NEW x \in T
      PROVE  g[T] = g[T \ {x}] + CanOpen!Power[x]
  <2>0. CanOpen!Power[x] \in Int /\ T \ {x} \in SUBSET (0 .. n)
    BY PowersAre
  <2>1. CASE x = n
    BY <2>0, <2>1
  <2>2. CASE x # n /\ n \in T
    <3> DEFINE U == T \ {n}
    <3>1. U \in SUBSET (0 .. n - 1) /\ x \in U
      BY <1>2, <2>2
    <3>2. f[U] = f[U \ {x}] + CanOpen!Power[x]
      BY <3>1 DEF Adds
    <3>3. U \ {x} = (T \ {x}) \ {n} /\ n \in T \ {x} /\ U \ {x} \in SUBSET (0 .. n - 1)
      BY <2>2, <3>1
    <3>4. g[T] = f[U] + CanOpen!Power[n] /\ g[T \ {x}] = f[U \ {x}] + CanOpen!Power[n]
      BY <2>0, <2>2, <3>3
    <3>5. f[U \ {x}] \in Int
      BY <1>3, <3>3
    <3> HIDE DEF g, U
    <3> QED BY <1>4, <2>0, <3>2, <3>4, <3>5
  <2>3. CASE n \notin T
    <3>1. T \in SUBSET (0 .. n - 1) /\ n \notin T \ {x}
      BY <1>2, <2>3
    <3>2. f[T] = f[T \ {x}] + CanOpen!Power[x]
      BY <3>1 DEF Adds
    <3>3. g[T] = f[T] /\ g[T \ {x}] = f[T \ {x}]
      BY <2>0, <2>3, <3>1
    <3> HIDE DEF g
    <3> QED BY <3>2, <3>3
  <2> QED BY <2>1, <2>2, <2>3
<1> HIDE DEF g
<1>8. Adds(g, n + 1)
  BY <1>1, <1>5, <1>6, <1>7 DEF Adds
<1> QED BY <1>8 DEF g

\* For every number of bits.
LEMMA AddsTo ==
  ASSUME NEW n \in Nat
  PROVE  \E f : Adds(f, n)
<1> DEFINE Upto == {k \in Nat : \E f : Adds(f, k)}
<1>1. 0 \in Upto
  <2> DEFINE f == [T \in SUBSET (0 .. 0 - 1) |-> 0]
  <2>1. 0 .. 0 - 1 = {}
    OBVIOUS
  <2>2. Adds(f, 0)
    BY <2>1 DEF Adds
  <2> HIDE DEF f
  <2> QED BY <2>2
<1>2. ASSUME NEW k \in Nat, k \in Upto PROVE k + 1 \in Upto
  <2>1. PICK f : Adds(f, k)
    BY <1>2
  <2>2. \E g : Adds(g, k + 1)
    BY <2>1, AddsNext
  <2> QED BY <2>2
<1> HIDE DEF Upto
<1>3. n \in Upto
  BY <1>1, <1>2, Induction
<1> QED BY <1>3 DEF Upto

\* FromBits adds the powers of its bits.
LEMMA FromBitsIs ==
  ASSUME NEW n \in Nat, NEW f, Adds(f, n), NEW S \in SUBSET (0 .. n - 1)
  PROVE  CanOpen!FromBits(S) = f[S]
<1> DEFINE One(s) == CHOOSE x \in s : TRUE
           Iter(h) == [s \in SUBSET S |-> IF s = {} THEN 0 ELSE h[s \ {One(s)}] + CanOpen!Power[One(s)]]
           iter == CHOOSE h : h = Iter(h)
           g == [s \in SUBSET S |-> f[s]]
<1>1. CanOpen!FromBits(S) = iter[S]
  BY ZenonT(60) DEF CanOpen!FromBits, CanOpen!FoldSet, CanOpen!MapThenFoldSet
<1>2. \A s \in SUBSET S : s # {} => One(s) \in s
  OBVIOUS
<1> HIDE DEF One
<1>3. g = Iter(g)
  <2>1. ASSUME NEW s \in SUBSET S
        PROVE  g[s] = IF s = {} THEN 0 ELSE g[s \ {One(s)}] + CanOpen!Power[One(s)]
    <3>1. CASE s = {}
      BY <3>1 DEF Adds
    <3>2. CASE s # {}
      <4>1. One(s) \in s /\ s \in SUBSET (0 .. n - 1) /\ s \ {One(s)} \in SUBSET S
        BY <1>2, <3>2
      <4>2. f[s] = f[s \ {One(s)}] + CanOpen!Power[One(s)]
        BY <4>1 DEF Adds
      <4> QED BY <3>2, <4>1, <4>2
    <3> QED BY <3>1, <3>2
  <2> HIDE DEF g
  <2>2. \A s \in SUBSET S : g[s] = Iter(g)[s]
    BY <2>1
  <2>3. g = [s \in SUBSET S |-> g[s]]
    BY DEF g
  <2> QED BY <2>2, <2>3
<1>4. iter = Iter(iter)
  <2> HIDE DEF g, Iter
  <2> QED BY <1>3
<1> HIDE DEF iter
<1>5. \A s \in SUBSET S : iter[s] = IF s = {} THEN 0 ELSE iter[s \ {One(s)}] + CanOpen!Power[One(s)]
  BY <1>4
<1>6. IsFiniteSet(S)
  <2>1. IsFiniteSet(0 .. n - 1)
    BY FS_Interval
  <2> QED BY <2>1, FS_Subset
<1> DEFINE Upto == {k \in Nat : \A s \in SUBSET S : Cardinality(s) = k => iter[s] = f[s]}
<1>7. 0 \in Upto
  <2> SUFFICES ASSUME NEW s \in SUBSET S, Cardinality(s) = 0 PROVE iter[s] = f[s]
    OBVIOUS
  <2>1. s = {}
    BY <1>6, FS_Subset, FS_EmptySet
  <2> QED BY <1>5, <2>1 DEF Adds
<1>8. ASSUME NEW k \in Nat, k \in Upto PROVE k + 1 \in Upto
  <2> SUFFICES ASSUME NEW s \in SUBSET S, Cardinality(s) = k + 1 PROVE iter[s] = f[s]
    OBVIOUS
  <2>1. IsFiniteSet(s)
    BY <1>6, FS_Subset
  <2>2. s # {}
    BY FS_EmptySet
  <2> DEFINE x == One(s)  r == s \ {x}
  <2>3. x \in s /\ r \in SUBSET S /\ s \in SUBSET (0 .. n - 1)
    BY <1>2, <2>2
  <2>4. Cardinality(r) = k
    BY <2>1, <2>3, FS_RemoveElement
  <2>5. iter[r] = f[r]
    BY <1>8, <2>3, <2>4
  <2>6. iter[s] = iter[r] + CanOpen!Power[x]
    BY <1>5, <2>2
  <2>7. f[s] = f[r] + CanOpen!Power[x]
    BY <2>3 DEF Adds
  <2> HIDE DEF x, r
  <2> QED BY <2>5, <2>6, <2>7
<1> HIDE DEF Upto
<1>9. \A k \in Nat : k \in Upto
  BY <1>7, <1>8, Induction
<1>10. Cardinality(S) \in Nat
  BY <1>6, FS_CardinalityType
<1> QED BY <1>1, <1>9, <1>10 DEF Upto

\* The bits of a number below n.
BitsBelow(raw, n) == {i \in 0 .. n - 1 : CanOpen!Bit(raw, i)}

\* A number is its bits below n and what lies above them.
LEMMA BitsAdd ==
  ASSUME NEW n \in Nat, NEW raw \in Int
  PROVE  CanOpen!FromBits(BitsBelow(raw, n)) = raw - CanOpen!Power[n] * (raw \div CanOpen!Power[n])
<1>1. PICK f : Adds(f, n)
  BY AddsTo
<1> DEFINE Low(k) == f[BitsBelow(raw, k)]
           Upto == {k \in Nat : k <= n => Low(k) = raw - CanOpen!Power[k] * (raw \div CanOpen!Power[k])}
<1>2. 0 \in Upto
  <2>1. BitsBelow(raw, 0) = {}
    BY DEF BitsBelow
  <2>2. CanOpen!Power[0] = 1
    BY PowersAre
  <2>3. Low(0) = 0
    BY <1>1, <2>1 DEF Adds
  <2> QED BY <2>2, <2>3
<1>3. ASSUME NEW k \in Nat, k \in Upto PROVE k + 1 \in Upto
  <2> SUFFICES ASSUME k + 1 <= n
               PROVE  Low(k + 1) = raw - CanOpen!Power[k + 1] * (raw \div CanOpen!Power[k + 1])
    OBVIOUS
  <2> DEFINE B == BitsBelow(raw, k)  C == BitsBelow(raw, k + 1)
             p == CanOpen!Power[k]  q == raw \div p  h == q \div 2  b == q % 2
  <2>1. p \in Nat \ {0} /\ CanOpen!Power[k + 1] = 2 * p /\ CanOpen!Power[k + 1] = p * 2
    BY PowersAre
  <2>2. q \in Int
    BY <2>1, DivMod
  <2>3. h \in Int /\ b \in 0 .. 1 /\ q = 2 * h + b
    BY <2>2, DivMod
  <2>4. raw \div CanOpen!Power[k + 1] = h
    <3>1. raw \div (p * 2) = (raw \div p) \div 2
      BY <2>1, DivDiv
    <3> QED BY <2>1, <3>1
  <2>5. Low(k) = raw - p * q /\ B \in SUBSET (0 .. n - 1) /\ C \in SUBSET (0 .. n - 1)
    BY <1>3 DEF BitsBelow
  <2>6. CanOpen!Bit(raw, k) <=> b = 1
    BY DEF CanOpen!Bit
  <2>7. CASE b = 1
    <3>1. k \in C /\ C \ {k} = B
      BY <2>6, <2>7 DEF BitsBelow
    <3>2. f[C] = f[B] + p
      BY <1>1, <2>5, <3>1 DEF Adds
    <3>3. f[C] = raw - p * q + p
      BY <2>5, <3>2
    <3> HIDE DEF p, q, h, b, B, C
    <3>4. p * q = (2 * p) * h + p
      BY <2>1, <2>2, <2>3, <2>7
    <3>5. raw - p * q + p = raw - (2 * p) * h
      BY <2>1, <2>2, <2>3, <3>4
    <3>6. f[C] = raw - (2 * p) * h
      BY <3>3, <3>5
    <3> QED BY <2>1, <2>4, <3>6 DEF C
  <2>8. CASE b # 1
    <3>1. C = B
      BY <2>6, <2>8 DEF BitsBelow
    <3>2. f[C] = raw - p * q
      BY <2>5, <3>1
    <3> HIDE DEF p, q, h, b, B, C
    <3>4. p * q = (2 * p) * h
      BY <2>1, <2>2, <2>3, <2>8
    <3> QED BY <2>1, <2>4, <3>2, <3>4 DEF C
  <2> QED BY <2>7, <2>8
<1> HIDE DEF Upto
<1>4. n \in Upto
  BY <1>2, <1>3, Induction
<1>5. CanOpen!FromBits(BitsBelow(raw, n)) = Low(n)
  BY <1>1, FromBitsIs DEF BitsBelow
<1> QED BY <1>4, <1>5 DEF Upto

\* The limits of a flag, a byte and a temperature.
LEMMA Limits ==
  CanOpen!Power[1] = 2 /\ CanOpen!Power[8] = 256 /\ CanOpen!Power[16] = 65536
<1>1. /\ CanOpen!Power[0 + 1] = 2 * CanOpen!Power[0] /\ CanOpen!Power[1 + 1] = 2 * CanOpen!Power[1]
      /\ CanOpen!Power[2 + 1] = 2 * CanOpen!Power[2] /\ CanOpen!Power[3 + 1] = 2 * CanOpen!Power[3]
      /\ CanOpen!Power[4 + 1] = 2 * CanOpen!Power[4] /\ CanOpen!Power[5 + 1] = 2 * CanOpen!Power[5]
      /\ CanOpen!Power[6 + 1] = 2 * CanOpen!Power[6] /\ CanOpen!Power[7 + 1] = 2 * CanOpen!Power[7]
  BY PowersAre
<1>2. /\ CanOpen!Power[8 + 1] = 2 * CanOpen!Power[8] /\ CanOpen!Power[9 + 1] = 2 * CanOpen!Power[9]
      /\ CanOpen!Power[10 + 1] = 2 * CanOpen!Power[10] /\ CanOpen!Power[11 + 1] = 2 * CanOpen!Power[11]
      /\ CanOpen!Power[12 + 1] = 2 * CanOpen!Power[12] /\ CanOpen!Power[13 + 1] = 2 * CanOpen!Power[13]
      /\ CanOpen!Power[14 + 1] = 2 * CanOpen!Power[14] /\ CanOpen!Power[15 + 1] = 2 * CanOpen!Power[15]
  BY PowersAre
<1>3. CanOpen!Power[0] = 1
  BY PowersAre
<1>4. CanOpen!Power[1] = 2 /\ CanOpen!Power[4] = 16 /\ CanOpen!Power[8] = 256
  BY <1>1, <1>3
<1>5. CanOpen!Power[12] = 4096 /\ CanOpen!Power[16] = 65536
  BY <1>2, <1>4
<1> QED BY <1>4, <1>5

\* A number that fits the bits of a flag, a byte or a temperature.
Fits(n, length) ==
  \/ length = 1 /\ n \in 0 .. 1
  \/ length = 8 /\ n \in 0 .. 255
  \/ length = 16 /\ n \in Nat /\ n < 65536

\* A number that fits is the sum of its bits.
LEMMA BitsOf ==
  ASSUME NEW n, NEW length, Fits(n, length)
  PROVE  CanOpen!FromBits({i \in 0 .. length - 1 : CanOpen!Bit(n, i)}) = n
<1> DEFINE p == CanOpen!Power[length]
<1>1. n \in Nat /\ length \in Nat /\ p \in Nat \ {0} /\ n < p
  <2>1. CASE length = 1 /\ n \in 0 .. 1
    BY <2>1, Limits
  <2>2. CASE length = 8 /\ n \in 0 .. 255
    BY <2>2, Limits
  <2>3. CASE length = 16 /\ n \in Nat /\ n < 65536
    BY <2>3, Limits
  <2> QED BY <2>1, <2>2, <2>3 DEF Fits
<1>2. CanOpen!FromBits(BitsBelow(n, length)) = n - p * (n \div p)
  BY <1>1, BitsAdd
<1> HIDE DEF p
<1>3. n \div p = 0
  <2>1. n = p * 0 + n
    BY <1>1
  <2> QED BY <1>1, <2>1, DivUnique
<1>4. CanOpen!FromBits(BitsBelow(n, length)) = n
  BY <1>1, <1>2, <1>3
<1> QED BY <1>4 DEF BitsBelow

\* A byte comes back.
LEMMA ByteAndBack ==
  ASSUME NEW n \in 0 .. 255
  PROVE  CanOpen!Number(CanOpen!Byte(n)) = n
<1>1. Fits(n, 8) /\ 8 - 1 = 7
  BY DEF Fits
<1>2. CanOpen!FromBits({i \in 0 .. 7 : CanOpen!Bit(n, i)}) = n
  BY <1>1, BitsOf
<1> QED BY <1>2 DEF CanOpen!Number, CanOpen!Byte

-----------------------------------------------------------------------------
(* A PDO of one signal through the DBC codec and back.                     *)

\* A PDO of one signal, at bit 0: the valve's and the temperature's.
IsPdo(m, s, length) ==
  /\ m.signals = <<s>> /\ m.dlc = 8
  /\ s.start = 0 /\ s.order = "intel" /\ s.signed = FALSE
  /\ length \in {1, 16} /\ s.length = length

Places(length) == [i \in 0 .. length - 1 |-> <<i \div 8, i % 8>>]

LEMMA PdoPositions ==
  ASSUME NEW m, NEW s, NEW length, IsPdo(m, s, length)
  PROVE  CanOpen!Positions(s) = Places(length)
<1> DEFINE p == CHOOSE f : f = [i \in 0 .. length - 1 |->
                  IF "intel" = "intel" THEN 0 + i
                  ELSE IF i = length - 1 THEN 0
                  ELSE IF f[i + 1] % 8 = 0 THEN f[i + 1] + 15
                  ELSE f[i + 1] - 1]
<1>1. CanOpen!Positions(s) = [i \in 0 .. length - 1 |-> <<p[i] \div 8, p[i] % 8>>]
  BY DEF IsPdo, CanOpen!Positions
<1>2. p = [i \in 0 .. length - 1 |-> i]
  OBVIOUS
<1> HIDE DEF p
<1> QED BY <1>1, <1>2 DEF Places

LEMMA PlacesOf ==
  ASSUME NEW length \in {1, 16}
  PROVE  /\ DOMAIN Places(length) = 0 .. length - 1
         /\ \A i \in 0 .. length - 1 :
              /\ i \in Nat /\ i \div 8 \in Nat /\ i \div 8 < 8
              /\ Places(length)[i][1] = i \div 8 /\ Places(length)[i][2] = i % 8
BY DEF Places

\* The bytes such a PDO carries.
PdoByte(raw, length, b) ==
  {i % 8 : i \in {j \in 0 .. length - 1 : j \div 8 = b - 1 /\ CanOpen!Bit(raw, j)}}
PdoBytes(raw, length) == [b \in 1 .. 8 |-> PdoByte(raw, length, b)]

LEMMA NoneOutside ==
  ASSUME NEW m, NEW s, NEW length, IsPdo(m, s, length)
  PROVE  ~CanOpen!LastOutside(s, 8) /\ ~CanOpen!SomeOutside(s, 8)
<1>1. CanOpen!Positions(s) = Places(length)
  BY PdoPositions
<1>2. s.length = length /\ length \in {1, 16} /\ length - 1 \in 0 .. length - 1
  BY DEF IsPdo
<1>3. ASSUME NEW i \in 0 .. length - 1 PROVE ~(Places(length)[i][1] >= 8)
  <2>1. i \div 8 \in Nat /\ i \div 8 < 8 /\ Places(length)[i][1] = i \div 8
    BY <1>2, PlacesOf
  <2> QED BY <2>1
<1> QED BY <1>1, <1>2, <1>3 DEF CanOpen!LastOutside, CanOpen!SomeOutside

LEMMA PdoWrites ==
  ASSUME NEW m, NEW s, NEW length, IsPdo(m, s, length), NEW raw
  PROVE  CanOpen!WriteSignal(s, raw, [b \in 1 .. 8 |-> {}]) = CanOpen!Done(PdoBytes(raw, length))
<1> DEFINE zero == [b \in 1 .. 8 |-> {}]
           In(p, b) == {i \in DOMAIN p : p[i][1] = b - 1}
           Data(p) == [b \in DOMAIN zero |->
                     (zero[b] \ {p[i][2] : i \in In(p, b)})
                     \cup {p[i][2] : i \in {j \in In(p, b) : CanOpen!Bit(raw, j)}}]
<1>1. Len(zero) = 8 /\ DOMAIN zero = 1 .. 8
  OBVIOUS
<1>2. ~CanOpen!LastOutside(s, Len(zero)) /\ ~CanOpen!SomeOutside(s, Len(zero))
  BY <1>1, NoneOutside
<1>3. CanOpen!WriteSignal(s, raw, zero) = CanOpen!Done(Data(CanOpen!Positions(s)))
  <2> HIDE DEF zero
  <2> QED BY <1>2, Zenon DEF CanOpen!WriteSignal
<1>4. CanOpen!Positions(s) = Places(length)
  BY PdoPositions
<1>5. ASSUME NEW b \in 1 .. 8 PROVE Data(Places(length))[b] = PdoByte(raw, length, b)
  <2>1. length \in {1, 16}
    BY DEF IsPdo
  <2>2. Data(Places(length))[b] = {Places(length)[i][2] : i \in {j \in In(Places(length), b) : CanOpen!Bit(raw, j)}}
    OBVIOUS
  <2>3. {j \in In(Places(length), b) : CanOpen!Bit(raw, j)}
          = {j \in 0 .. length - 1 : j \div 8 = b - 1 /\ CanOpen!Bit(raw, j)}
    BY <2>1, PlacesOf
  <2>4. \A i \in {j \in 0 .. length - 1 : j \div 8 = b - 1 /\ CanOpen!Bit(raw, j)} : Places(length)[i][2] = i % 8
    BY <2>1, PlacesOf
  <2> HIDE DEF In, Data
  <2> QED BY <2>2, <2>3, <2>4 DEF PdoByte
<1>6. Data(Places(length)) = PdoBytes(raw, length)
  <2>1. Data(Places(length)) = [b \in 1 .. 8 |-> Data(Places(length))[b]]
    OBVIOUS
  <2> HIDE DEF Data
  <2> QED BY <1>5, <2>1 DEF PdoBytes
<1> HIDE DEF Data
<1> QED BY <1>3, <1>4, <1>6

LEMMA PdoReads ==
  ASSUME NEW m, NEW s, NEW length, IsPdo(m, s, length), NEW raw, Fits(raw, length)
  PROVE  CanOpen!ReadSignal(s, PdoBytes(raw, length)) = CanOpen!Done(raw)
<1> DEFINE data == PdoBytes(raw, length)
           Ones1(p) == {i \in DOMAIN p : p[i][2] \in data[p[i][1] + 1]}
<1>1. Len(data) = 8
  BY DEF PdoBytes
<1>2. ~CanOpen!LastOutside(s, Len(data)) /\ ~CanOpen!SomeOutside(s, Len(data))
  BY <1>1, NoneOutside
<1>3. CanOpen!ReadSignal(s, data) = CanOpen!Done(CanOpen!SignExtend(CanOpen!FromBits(Ones1(CanOpen!Positions(s))), s))
  <2> HIDE DEF data
  <2> QED BY <1>2, Zenon DEF CanOpen!ReadSignal
<1>4. CanOpen!Positions(s) = Places(length)
  BY PdoPositions
<1>5. Ones1(Places(length)) = {i \in 0 .. length - 1 : CanOpen!Bit(raw, i)}
  <2>1. ASSUME NEW i \in 0 .. length - 1
        PROVE  Places(length)[i][2] \in data[Places(length)[i][1] + 1] <=> CanOpen!Bit(raw, i)
    <3>1. Places(length)[i][1] = i \div 8 /\ Places(length)[i][2] = i % 8
      BY PlacesOf DEF IsPdo
    <3>2. i \in Nat /\ i \div 8 + 1 \in 1 .. 8
      BY DEF IsPdo
    <3>3. data[i \div 8 + 1] = PdoByte(raw, length, i \div 8 + 1)
      BY <3>2 DEF PdoBytes
    <3>4. ASSUME NEW j \in 0 .. length - 1, j \div 8 = i \div 8 + 1 - 1, j % 8 = i % 8 PROVE j = i
      BY <3>2, <3>4
    <3>5. i \div 8 = i \div 8 + 1 - 1
      BY <3>2
    <3>6. i % 8 \in PdoByte(raw, length, i \div 8 + 1) <=> CanOpen!Bit(raw, i)
      BY <3>4, <3>5 DEF PdoByte
    <3> HIDE DEF data
    <3> QED BY <3>1, <3>3, <3>6
  <2>2. DOMAIN Places(length) = 0 .. length - 1
    BY PlacesOf DEF IsPdo
  <2> HIDE DEF data
  <2> QED BY <2>1, <2>2
<1>6. CanOpen!FromBits(Ones1(Places(length))) = raw
  BY <1>5, BitsOf
<1>7. CanOpen!SignExtend(raw, s) = raw
  BY DEF CanOpen!SignExtend, IsPdo
<1> HIDE DEF data, Ones1
<1>8. CanOpen!ReadSignal(s, data) = CanOpen!Done(raw)
  BY <1>3, <1>4, <1>6, <1>7
<1> QED BY <1>8 DEF data

LEMMA OneSignal ==
  ASSUME NEW m, NEW s, NEW length, IsPdo(m, s, length)
  PROVE  /\ CanOpen!Range(m.signals) = {s}
         /\ CanOpen!Defines(m, s.name)
         /\ CanOpen!SignalOf(m, s.name) = s
<1>1. m.signals = <<s>>
  BY DEF IsPdo
<1>2. DOMAIN <<s>> = {1} /\ <<s>>[1] = s
  OBVIOUS
<1>3. CanOpen!Range(m.signals) = {s}
  BY <1>1, <1>2 DEF CanOpen!Range
<1>4. CanOpen!Defines(m, s.name)
  BY <1>3 DEF CanOpen!Defines
<1>5. CanOpen!SignalOf(m, s.name) = s
  <2> DEFINE First(i) == <<s>>[i].name = s.name /\ \A j \in 1 .. i - 1 : <<s>>[j].name # s.name
  <2>1. First(1)
    BY <1>2
  <2>2. CanOpen!SignalOf(m, s.name) = <<s>>[CHOOSE i \in DOMAIN <<s>> : First(i)]
    BY <1>1 DEF CanOpen!SignalOf
  <2>3. (CHOOSE i \in {1} : First(i)) = 1
    <3> HIDE DEF First
    <3> QED BY <2>1
  <2> QED BY <1>2, <2>2, <2>3
<1> QED BY <1>3, <1>4, <1>5

LEMMA PdoRaw ==
  ASSUME NEW m, NEW s, NEW length, IsPdo(m, s, length), NEW value
  PROVE  CanOpen!RawFor(m, s.name, value) = CanOpen!PhysicalToRaw(s, value)
BY OneSignal DEF CanOpen!RawFor

LEMMA FoldOne ==
  ASSUME NEW m, NEW s, NEW length, IsPdo(m, s, length), NEW values
  PROVE  CanOpen!EncodeSignals(m, values)
           = IF s.name \notin CanOpen!Resolved(m, values) THEN CanOpen!Done([b \in 1 .. 8 |-> {}])
             ELSE CanOpen!WriteSignal(s, CanOpen!RawFor(m, s.name, values[s.name]).value,
                                      [b \in 1 .. 8 |-> {}])
<1> DEFINE zero == [b \in 1 .. (IF m.dlc = 0 THEN 1 ELSE m.dlc) |-> {}]
           Write(data, signal) ==
             IF data.result # "ok" \/ signal.name \notin CanOpen!Resolved(m, values) THEN data
             ELSE CanOpen!WriteSignal(signal, CanOpen!RawFor(m, signal.name, values[signal.name]).value,
                         data.value)
           base == CanOpen!Done(zero)
           Iter(f) == [t \in SUBSET {1} |-> IF t = {} THEN base
                         ELSE Write(f[t \ {CanOpen!Max(t)}], <<s>>[CanOpen!Max(t)])]
           f == CHOOSE g : g = Iter(g)
<1>1. m.signals = <<s>> /\ DOMAIN <<s>> = {1} /\ <<s>>[1] = s
  BY DEF IsPdo
<1>2. CanOpen!EncodeSignals(m, values) = f[{1}]
  <2>1. CanOpen!EncodeSignals(m, values) = CanOpen!FoldLeft(Write, base, m.signals)
    BY DEF CanOpen!EncodeSignals
  <2> HIDE DEF base, Write
  <2> QED BY <1>1, <2>1 DEF CanOpen!FoldLeft, CanOpen!MapThenFoldSet
<1>3. CanOpen!Max({1}) = 1
  BY DEF CanOpen!Max
<1>4. f = Iter(f)
  <2> DEFINE g == [t \in SUBSET {1} |-> IF t = {} THEN base ELSE Write(base, s)]
  <2> HIDE DEF base, Write
  <2>1. ASSUME NEW t \in SUBSET {1} PROVE g[t] = Iter(g)[t]
    <3>1. CASE t = {}
      BY <3>1
    <3>2. CASE t = {1}
      <4>1. {1} \ {1} = {} /\ g[{}] = base
        OBVIOUS
      <4> QED BY <1>1, <1>3, <3>2, <4>1
    <3> QED BY <3>1, <3>2
  <2>2. g = Iter(g)
    <3>1. g = [t \in SUBSET {1} |-> g[t]] /\ Iter(g) = [t \in SUBSET {1} |-> Iter(g)[t]]
      OBVIOUS
    <3> HIDE DEF g, Iter
    <3> QED BY <2>1, <3>1
  <2> HIDE DEF g, Iter
  <2> QED BY <2>2
<1>5. f[{1}] = Write(base, s)
  <2> HIDE DEF f, base, Write
  <2>1. f[{}] = base
    BY <1>4
  <2>2. f[{1}] = Write(f[{1} \ {CanOpen!Max({1})}], <<s>>[CanOpen!Max({1})])
    BY <1>4
  <2>3. {1} \ {1} = {}
    OBVIOUS
  <2> QED BY <1>1, <1>3, <2>1, <2>2, <2>3
<1>6. base.result = "ok" /\ base.value = zero /\ zero = [b \in 1 .. 8 |-> {}]
  BY DEF CanOpen!Done, IsPdo
<1>7. base = CanOpen!Done([b \in 1 .. 8 |-> {}])
  BY <1>6
<1> HIDE DEF base, zero, f
<1> QED BY <1>2, <1>5, <1>6, <1>7

\* What is encoded decodes to its raw value.
Carries(m, s, length, values, raw) ==
  /\ CanOpen!EncodeSignals(m, values) = CanOpen!Done(PdoBytes(raw, length))
  /\ CanOpen!DecodeSignal(m, PdoBytes(raw, length), s.name)
       = CanOpen!Done(CanOpen!RawToPhysical(s, raw))

LEMMA PdoAndBack ==
  ASSUME NEW m, NEW s, NEW length, IsPdo(m, s, length), NEW values, DOMAIN values = {s.name},
         NEW raw, Fits(raw, length), CanOpen!PhysicalToRaw(s, values[s.name]) = CanOpen!Done(raw)
  PROVE  Carries(m, s, length, values, raw)
<1>1. CanOpen!RawFor(m, s.name, values[s.name]) = CanOpen!Done(raw)
  BY PdoRaw
<1>2. \A v : CanOpen!Done(v).result = "ok" /\ CanOpen!Done(v).value = v
  BY DEF CanOpen!Done
<1>3. s.name \in CanOpen!Resolved(m, values)
  BY <1>1, <1>2, OneSignal DEF CanOpen!Resolved
<1>4. CanOpen!EncodeSignals(m, values) = CanOpen!Done(PdoBytes(raw, length))
  <2>1. CanOpen!EncodeSignals(m, values)
          = CanOpen!WriteSignal(s, CanOpen!RawFor(m, s.name, values[s.name]).value, [b \in 1 .. 8 |-> {}])
    BY <1>3, FoldOne
  <2> QED BY <1>1, <1>2, <2>1, PdoWrites
<1>5. CanOpen!DecodeSignal(m, PdoBytes(raw, length), s.name)
        = CanOpen!Done(CanOpen!RawToPhysical(s, raw))
  <2>1. CanOpen!ReadSignal(s, PdoBytes(raw, length)) = CanOpen!Done(raw)
    BY PdoReads
  <2> QED BY <1>2, <2>1, OneSignal DEF CanOpen!DecodeSignal
<1> QED BY <1>4, <1>5 DEF Carries

-----------------------------------------------------------------------------
(* The frames of the firmware, and what a test decodes of them.            *)

LEMMA Hundredths ==
  ASSUME NEW n \in Nat
  PROVE  CanOpen!Rounded(CanOpen!One * n, CanOpen!One) = n
BY DEF CanOpen!Rounded, CanOpen!One

LEMMA Identifiers ==
  /\ CanOpen!tpdo1(Eds.node) = 385 /\ CanOpen!rpdo1(Eds.node) = 513
  /\ CanOpen!heartbeat(Eds.node) = 1793 /\ CanOpen!nmt = 0
  /\ CanOpen!MessageById(Eds, 385) = "TPDO1" /\ CanOpen!MessageById(Eds, 1793) = "Heartbeat"
<1>1. /\ CanOpen!tpdo1(Eds.node) = 385 /\ CanOpen!rpdo1(Eds.node) = 513
      /\ CanOpen!heartbeat(Eds.node) = 1793 /\ CanOpen!nmt = 0
  BY DEF CanOpen!tpdo1, CanOpen!rpdo1, CanOpen!heartbeat, CanOpen!nmt, Eds,
         CanOpen!TPDO1_COB, CanOpen!RPDO1_COB, CanOpen!HEARTBEAT_COB
<1>2. CanOpen!MessageById(Eds, 385) = "TPDO1" /\ CanOpen!MessageById(Eds, 1793) = "Heartbeat"
  BY <1>1 DEF CanOpen!MessageById
<1> QED BY <1>1, <1>2

\* The messages of the two PDOs.
ValveSignal ==
  [name |-> "valve_open", start |-> 0, length |-> 1, order |-> "intel",
   signed |-> FALSE, factor |-> 100, offset |-> 0, table |-> <<>>]
TemperatureSignal ==
  [name |-> "temperature", start |-> 0, length |-> 16, order |-> "intel",
   signed |-> FALSE, factor |-> 10, offset |-> 0, table |-> <<>>]

LEMMA Pdos ==
  /\ IsPdo(CanOpen!MessageOf(Eds, "TPDO1"), ValveSignal, 1)
  /\ IsPdo(CanOpen!MessageOf(Eds, "RPDO1"), TemperatureSignal, 16)
  /\ CanOpen!MessageOf(Eds, "RPDO1").id = 513
  /\ CanOpen!MessageOf(Eds, "NMT").id = 0
<1> DEFINE Signal(d) == [name |-> d.name, start |-> d.bit, length |-> d.length,
                         order |-> "intel", signed |-> d.signed, factor |-> d.factor,
                         offset |-> d.offset, table |-> <<>>]
<1>1. ASSUME NEW id, NEW d
      PROVE  /\ CanOpen!Pdo(id, <<d>>).id = id
             /\ CanOpen!Pdo(id, <<d>>).dlc = 8
             /\ CanOpen!Pdo(id, <<d>>).signals = <<Signal(d)>>
  BY DEF CanOpen!Pdo
<1>2. /\ CanOpen!MessageOf(Eds, "TPDO1") = CanOpen!Pdo(385, Eds.tpdo1)
      /\ CanOpen!MessageOf(Eds, "RPDO1") = CanOpen!Pdo(513, Eds.rpdo1)
      /\ CanOpen!MessageOf(Eds, "NMT") = [id |-> 0]
  BY Identifiers DEF CanOpen!MessageOf
<1> DEFINE v == [name |-> "valve_open", bit |-> 0, length |-> 1, signed |-> FALSE,
                 factor |-> 100, offset |-> 0]
           t == [name |-> "temperature", bit |-> 0, length |-> 16, signed |-> FALSE,
                 factor |-> 10, offset |-> 0]
<1>3. Eds.tpdo1 = <<v>> /\ Eds.rpdo1 = <<t>>
  BY DEF Eds
<1>4. Signal(v) = ValveSignal /\ Signal(t) = TemperatureSignal
  BY DEF ValveSignal, TemperatureSignal
<1> HIDE DEF v, t, Signal
<1>5. /\ CanOpen!MessageOf(Eds, "TPDO1").dlc = 8
      /\ CanOpen!MessageOf(Eds, "TPDO1").signals = <<ValveSignal>>
      /\ CanOpen!MessageOf(Eds, "RPDO1").dlc = 8
      /\ CanOpen!MessageOf(Eds, "RPDO1").signals = <<TemperatureSignal>>
      /\ CanOpen!MessageOf(Eds, "RPDO1").id = 513
  <2> DEFINE valve == CanOpen!Pdo(385, <<v>>) warmth == CanOpen!Pdo(513, <<t>>)
  <2>1. CanOpen!MessageOf(Eds, "TPDO1") = valve /\ CanOpen!MessageOf(Eds, "RPDO1") = warmth
    BY <1>2, <1>3
  <2>2. valve.dlc = 8 /\ valve.signals = <<ValveSignal>>
    BY <1>1, <1>4
  <2>3. warmth.dlc = 8 /\ warmth.signals = <<TemperatureSignal>> /\ warmth.id = 513
    BY <1>1, <1>4
  <2> HIDE DEF valve, warmth
  <2> QED BY <2>1, <2>2, <2>3, Zenon
<1>6. IsPdo(CanOpen!MessageOf(Eds, "TPDO1"), ValveSignal, 1)
  BY <1>5 DEF IsPdo, ValveSignal
<1>7. IsPdo(CanOpen!MessageOf(Eds, "RPDO1"), TemperatureSignal, 16)
  BY <1>5 DEF IsPdo, TemperatureSignal
<1> QED BY <1>2, <1>5, <1>6, <1>7

\* The TPDO1: one bit for the valve.
Flag(open) == IF open THEN 1 ELSE 0
ValveFrame(open) == PdoBytes(Flag(open), 1)

LEMMA ValveSeen ==
  ASSUME NEW open \in BOOLEAN
  PROVE  /\ CanOpen!Encode(Eds, "TPDO1", [valve_open |-> IF open THEN CanOpen!One ELSE 0])
              = CanOpen!Done(ValveFrame(open))
         /\ CanOpen!SeenValve(ValveFrame(open)) <=> open
         /\ ValveFrame(open) # <<>>
<1> DEFINE m == CanOpen!MessageOf(Eds, "TPDO1")
           s == ValveSignal
           values == [valve_open |-> IF open THEN CanOpen!One ELSE 0]
           physical == IF open THEN 100 ELSE 0
<1>1. IsPdo(m, s, 1)
  BY Pdos
<1>2. s.name = "valve_open"
  BY DEF ValveSignal
<1>3. DOMAIN values = {s.name} /\ values[s.name] = physical
  BY DEF CanOpen!One, ValveSignal
<1>4. CanOpen!PhysicalToRaw(s, values[s.name]) = CanOpen!Done(Flag(open))
  <2>1. CanOpen!Rounded(physical - s.offset, s.factor) = Flag(open)
    BY DEF CanOpen!Rounded, Flag, ValveSignal
  <2>2. CanOpen!FitsBits(Flag(open), s)
    <3>1. s.signed = FALSE /\ s.length = 1
      BY DEF ValveSignal
    <3> HIDE DEF s
    <3> QED BY <3>1, Limits DEF CanOpen!FitsBits, Flag
  <2>3. s.factor # 0
    BY DEF ValveSignal
  <2> HIDE DEF s, values, physical
  <2> QED BY <1>3, <2>1, <2>2, <2>3 DEF CanOpen!PhysicalToRaw
<1>5. Fits(Flag(open), 1)
  BY DEF Fits, Flag
<1>6. CanOpen!RawToPhysical(s, Flag(open)) = physical
  BY DEF CanOpen!RawToPhysical, Flag, ValveSignal
<1> HIDE DEF m, s, values, physical
<1>7. /\ CanOpen!EncodeSignals(m, values) = CanOpen!Done(ValveFrame(open))
      /\ CanOpen!DecodeSignal(m, ValveFrame(open), "valve_open") = CanOpen!Done(physical)
  <2>1. Carries(m, s, 1, values, Flag(open))
    BY <1>1, <1>3, <1>4, <1>5, PdoAndBack
  <2> QED BY <1>2, <1>6, <2>1 DEF ValveFrame, Carries
<1>8. CanOpen!Encode(Eds, "TPDO1", values) = CanOpen!Done(ValveFrame(open))
  BY <1>7 DEF CanOpen!Encode, m
<1>9. CanOpen!MessageById(Eds, CanOpen!tpdo1(Eds.node)) = "TPDO1"
  BY Identifiers
<1>10. CanOpen!Decode(Eds, "TPDO1", ValveFrame(open), "valve_open")
         = CanOpen!Done(physical)
  BY <1>7 DEF CanOpen!Decode, m
<1>11. CanOpen!SeenValve(ValveFrame(open)) <=> open
  BY <1>9, <1>10 DEF CanOpen!SeenValve, CanOpen!Done, CanOpen!One, physical
<1>12. ValveFrame(open) # <<>>
  <2>1. DOMAIN ValveFrame(open) = 1 .. 8
    BY DEF ValveFrame, PdoBytes
  <2>2. DOMAIN <<>> = {} /\ 1 \in 1 .. 8
    OBVIOUS
  <2> QED BY <2>1, <2>2
<1> QED BY <1>8, <1>11, <1>12 DEF values

\* The heartbeat: one byte for the state.
StateCodes == {4, 5, 127}
StateFrame(state) == <<CanOpen!Byte(state)>>

LEMMA StateSeen ==
  ASSUME NEW state \in StateCodes
  PROVE  /\ CanOpen!Encode(Eds, "Heartbeat", [state |-> CanOpen!One * state])
              = CanOpen!Done(StateFrame(state))
         /\ CanOpen!SeenState(StateFrame(state)) = CanOpen!SymbolOf(CanOpen!HbStates, state)
         /\ StateFrame(state) # <<>>
<1> DEFINE values == [state |-> CanOpen!One * state]
<1>1. state \in Nat /\ state \in 0 .. 255
  BY DEF StateCodes
<1>2. CanOpen!CheckHeartbeat("state", values["state"])
  BY <1>1 DEF CanOpen!CheckHeartbeat, CanOpen!One
<1>3. CanOpen!Encode(Eds, "Heartbeat", values) = CanOpen!Done(StateFrame(state))
  <2>1. CanOpen!Rounded(values["state"], CanOpen!One) = state /\ "state" \in DOMAIN values
    BY <1>1, Hundredths
  <2> HIDE DEF values
  <2> QED BY <1>2, <2>1 DEF CanOpen!Encode, CanOpen!EncodeHeartbeat, StateFrame
<1>4. CanOpen!MessageById(Eds, CanOpen!heartbeat(Eds.node)) = "Heartbeat"
  BY Identifiers
<1>5. StateFrame(state) # <<>> /\ StateFrame(state)[1] = CanOpen!Byte(state)
  BY DEF StateFrame
<1>6. CanOpen!Decode(Eds, "Heartbeat", StateFrame(state), "state").value = CanOpen!One * state
  <2>1. CanOpen!Number(CanOpen!Byte(state)) = state
    BY <1>1, ByteAndBack
  <2> QED BY <1>5, <2>1 DEF CanOpen!Decode, CanOpen!DecodeHeartbeat, CanOpen!Done
<1>7. CanOpen!SeenState(StateFrame(state)) = CanOpen!SymbolOf(CanOpen!HbStates, state)
  BY <1>1, <1>4, <1>6, Hundredths DEF CanOpen!SeenState
<1> QED BY <1>3, <1>5, <1>7 DEF values

-----------------------------------------------------------------------------
(* The CANopen example: what holds with every step.                        *)

\* What the config nodes can hold: the values of vehicle.yaml and those a test
\* sets that Check lets through.
TemperatureValues == {[temperature |-> v] : v \in {4500, 996, 994, 9004}}
CommandValues ==
  {[node |-> n, command |-> c] : n \in {100, 200}, c \in {100, 200, 8500, 12800}}

\* Their frames, and the firmware's.
TemperatureFrame(values) ==
  [id |-> 513, data |-> PdoBytes(CanOpen!Rounded(values.temperature, 10), 16)]
CommandFrame(values) ==
  [id |-> 0, data |-> <<CanOpen!Byte(CanOpen!Rounded(values.node, 100)),
                        CanOpen!Byte(CanOpen!Rounded(values.command, 100))>>]
TpdoFrame(open) == [id |-> 385, data |-> ValveFrame(open)]
HeartbeatFrame(state) == [id |-> 1793, data |-> StateFrame(state)]

Frames ==
  {TemperatureFrame(v) : v \in TemperatureValues} \cup {CommandFrame(v) : v \in CommandValues}
  \cup {TpdoFrame(open) : open \in BOOLEAN} \cup {HeartbeatFrame(s) : s \in StateCodes}

Nodes ==
  [state : StateCodes, temperature : Int, open : BOOLEAN, nextTpdo : Nat, nextHb : Nat]
NodeShape == node \in Nodes

Master(values) == [values : values, next : Nat, told : values \cup {<<>>}]
MastersShape ==
  /\ DOMAIN masters = 1 .. 2
  /\ masters = [i \in 1 .. 2 |-> masters[i]]
  /\ masters[1] \in Master(TemperatureValues) /\ masters[2] \in Master(CommandValues)

BusShape ==
  /\ bus \in [{385, 1793} -> {<<>>} \cup {f.data : f \in Frames}]
  /\ bus[385] \in {<<>>} \cup {ValveFrame(open) : open \in BOOLEAN}
  /\ bus[1793] \in {<<>>} \cup {StateFrame(s) : s \in StateCodes}

\* A tick routes at most one frame of each kind, the masters' as they were told.
PushedShape ==
  /\ pushed.frames \in Seq(Frames) /\ pushed.routed \in 0 .. Len(pushed.frames)
  /\ pushed = [frames |-> pushed.frames, routed |-> pushed.routed]
  /\ \A i, j \in DOMAIN pushed.frames : pushed.frames[i].id = pushed.frames[j].id => i = j
  /\ pc = "idle" => pushed.frames = <<>>

AsTold ==
  \A i \in DOMAIN pushed.frames :
    /\ pushed.frames[i].id = 513 => /\ masters[1].told # <<>>
                                    /\ pushed.frames[i] = TemperatureFrame(masters[1].told)
    /\ pushed.frames[i].id = 0 => /\ masters[2].told # <<>>
                                  /\ pushed.frames[i] = CommandFrame(masters[2].told)

Pending(id) == \E i \in DOMAIN pushed.frames : i > pushed.routed /\ pushed.frames[i].id = id

Near(temperature, values) ==
  LET d == temperature - values.temperature IN 2 * (IF d < 0 THEN -d ELSE d) <= 10

Obeyed(state, values) ==
  LET command == CanOpen!SymbolOf(CanOpen!NmtCommands, CanOpen!Rounded(values.command, 100))
  IN  CanOpen!Rounded(values.node, 100) = 1 /\ command # "" =>
        CanOpen!SymbolOf(CanOpen!HbStates, state) = CanOpen!StateAfter(command)

\* What a master has told is on its way, or the node has heard it.
Settled ==
  /\ masters[1].told # <<>> => Pending(513) \/ Near(node.temperature, masters[1].told)
  /\ masters[2].told # <<>> => Pending(0) \/ Obeyed(node.state, masters[2].told)

CanOpenInv ==
  /\ time \in Nat
  /\ pc \in {"idle", "route"}
  /\ since = [valve |-> since.valve, state |-> since.state]
  /\ NodeShape
  /\ MastersShape
  /\ BusShape
  /\ PushedShape
  /\ AsTold
  /\ Settled

-----------------------------------------------------------------------------
(* The names of the codes.                                                 *)

LEMMA StateNames ==
  /\ CanOpen!SymbolOf(CanOpen!HbStates, 4) = "STOPPED"
  /\ CanOpen!SymbolOf(CanOpen!HbStates, 5) = "OPERATIONAL"
  /\ CanOpen!SymbolOf(CanOpen!HbStates, 127) = "PRE_OPERATIONAL"
<1> DEFINE codes == CanOpen!HbStates
<1>1. /\ DOMAIN codes = {"BOOT_UP", "STOPPED", "OPERATIONAL", "PRE_OPERATIONAL"}
      /\ codes["BOOT_UP"] = 0 /\ codes["STOPPED"] = 4 /\ codes["OPERATIONAL"] = 5
      /\ codes["PRE_OPERATIONAL"] = 127
  BY DEF CanOpen!HbStates
<1> HIDE DEF codes
<1>2. ASSUME NEW raw, NEW s \in DOMAIN codes, codes[s] = raw,
             \A t \in DOMAIN codes : codes[t] = raw => t = s
      PROVE  CanOpen!SymbolOf(codes, raw) = s
  BY <1>2 DEF CanOpen!SymbolOf
<1>3. CanOpen!SymbolOf(codes, 4) = "STOPPED"
  BY <1>1, <1>2
<1>4. CanOpen!SymbolOf(codes, 5) = "OPERATIONAL"
  BY <1>1, <1>2
<1>5. CanOpen!SymbolOf(codes, 127) = "PRE_OPERATIONAL"
  BY <1>1, <1>2
<1> QED BY <1>3, <1>4, <1>5 DEF codes

LEMMA CommandNames ==
  /\ CanOpen!SymbolOf(CanOpen!NmtCommands, 1) = "START"
  /\ CanOpen!SymbolOf(CanOpen!NmtCommands, 2) = "STOP"
  /\ CanOpen!SymbolOf(CanOpen!NmtCommands, 128) = "PRE_OPERATIONAL"
  /\ CanOpen!SymbolOf(CanOpen!NmtCommands, 85) = ""
<1> DEFINE codes == CanOpen!NmtCommands
<1>1. /\ DOMAIN codes = {"START", "STOP", "PRE_OPERATIONAL"}
      /\ codes["START"] = 1 /\ codes["STOP"] = 2 /\ codes["PRE_OPERATIONAL"] = 128
  BY DEF CanOpen!NmtCommands
<1> HIDE DEF codes
<1>2. ASSUME NEW raw, NEW s \in DOMAIN codes, codes[s] = raw,
             \A t \in DOMAIN codes : codes[t] = raw => t = s
      PROVE  CanOpen!SymbolOf(codes, raw) = s
  BY <1>2 DEF CanOpen!SymbolOf
<1>3. CanOpen!SymbolOf(codes, 1) = "START"
  BY <1>1, <1>2
<1>4. CanOpen!SymbolOf(codes, 2) = "STOP"
  BY <1>1, <1>2
<1>5. CanOpen!SymbolOf(codes, 128) = "PRE_OPERATIONAL"
  BY <1>1, <1>2
<1>6. CanOpen!SymbolOf(codes, 85) = ""
  BY <1>1 DEF CanOpen!SymbolOf
<1> QED BY <1>3, <1>4, <1>5, <1>6 DEF codes

-----------------------------------------------------------------------------
(* The masters' frames through the codec.                                  *)

Code(physical) == CanOpen!Rounded(physical, 100)

\* The physical values of whole codes.
LEMMA WholeCodes ==
  /\ Code(100) = 1 /\ Code(200) = 2 /\ Code(8500) = 85 /\ Code(12800) = 128
BY DEF Code, CanOpen!Rounded

LEMMA CommandHeard ==
  ASSUME NEW v \in CommandValues
  PROVE  /\ CanOpen!Encode(Eds, "NMT", v) = CanOpen!Done(CommandFrame(v).data)
         /\ CanOpen!DecodeNmt(CommandFrame(v).data, "node") = CanOpen!Done(v.node)
         /\ CanOpen!DecodeNmt(CommandFrame(v).data, "command") = CanOpen!Done(v.command)
<1>1. /\ v.node \in {100, 200} /\ v.command \in {100, 200, 8500, 12800}
      /\ DOMAIN v = {"node", "command"}
  BY DEF CommandValues
<1>2. /\ Code(v.node) \in 0 .. 255 /\ 100 * Code(v.node) = v.node
      /\ Code(v.command) \in 0 .. 255 /\ 100 * Code(v.command) = v.command
  BY <1>1, WholeCodes
<1>3. CommandFrame(v).data = <<CanOpen!Byte(Code(v.node)), CanOpen!Byte(Code(v.command))>>
  BY DEF CommandFrame, Code
<1>4. CanOpen!CheckNmt("node", v["node"]) /\ CanOpen!CheckNmt("command", v["command"])
  BY <1>1 DEF CanOpen!CheckNmt, CanOpen!One
<1>5. CanOpen!EncodeNmt(v) = CanOpen!Done(CommandFrame(v).data)
  BY <1>1, <1>3, <1>4 DEF CanOpen!EncodeNmt, Code, CanOpen!One
<1>6. /\ CanOpen!Number(CanOpen!Byte(Code(v.node))) = Code(v.node)
      /\ CanOpen!Number(CanOpen!Byte(Code(v.command))) = Code(v.command)
  BY <1>2, ByteAndBack
<1>7. /\ Len(CommandFrame(v).data) >= 2
      /\ CommandFrame(v).data[1] = CanOpen!Byte(Code(v.node))
      /\ CommandFrame(v).data[2] = CanOpen!Byte(Code(v.command))
  BY <1>3
<1>8. CanOpen!DecodeNmt(CommandFrame(v).data, "node") = CanOpen!Done(v.node)
  BY <1>2, <1>6, <1>7 DEF CanOpen!DecodeNmt, CanOpen!One
<1>9. CanOpen!DecodeNmt(CommandFrame(v).data, "command") = CanOpen!Done(v.command)
  BY <1>2, <1>6, <1>7 DEF CanOpen!DecodeNmt, CanOpen!One
<1> QED BY <1>5, <1>8, <1>9 DEF CanOpen!Encode

Tenths(physical) == CanOpen!Rounded(physical, 10)

LEMMA WholeTenths ==
  /\ Tenths(4500) = 450 /\ Tenths(996) = 100 /\ Tenths(994) = 99 /\ Tenths(9004) = 900
BY DEF Tenths, CanOpen!Rounded

LEMMA TemperatureHeard ==
  ASSUME NEW v \in TemperatureValues
  PROVE  /\ CanOpen!Encode(Eds, "RPDO1", v) = CanOpen!Done(TemperatureFrame(v).data)
         /\ CanOpen!Decode(Eds, "RPDO1", TemperatureFrame(v).data, "temperature")
              = CanOpen!Done(10 * Tenths(v.temperature))
         /\ 10 * Tenths(v.temperature) \in Int /\ Near(10 * Tenths(v.temperature), v)
<1> DEFINE m == CanOpen!MessageOf(Eds, "RPDO1")
           s == TemperatureSignal
           t == Tenths(v.temperature)
<1>1. /\ v.temperature \in {4500, 996, 994, 9004} /\ DOMAIN v = {"temperature"}
  BY DEF TemperatureValues
<1>2. /\ t \in Nat /\ t <= 65535
      /\ 10 * t - v.temperature \in {0, 4, -4}
  BY <1>1, WholeTenths
<1>3. Near(10 * t, v)
  BY <1>1, WholeTenths DEF Near
<1>4. IsPdo(m, s, 16)
  BY Pdos
<1>5. DOMAIN v = {s.name} /\ v[s.name] = v.temperature /\ s.name = "temperature"
  BY <1>1 DEF TemperatureSignal
<1>6. Fits(t, 16)
  BY <1>2 DEF Fits
<1>7. CanOpen!FitsBits(t, s)
  <2>1. s.signed = FALSE /\ s.length = 16
    BY DEF TemperatureSignal
  <2>2. CanOpen!Power[16] = 65536
    BY Limits
  <2> HIDE DEF s, t
  <2> QED BY <1>2, <2>1, <2>2 DEF CanOpen!FitsBits
<1>8. CanOpen!PhysicalToRaw(s, v[s.name]) = CanOpen!Done(t)
  <2>1. s.factor = 10 /\ s.offset = 0
    BY DEF TemperatureSignal
  <2>2. v.temperature - 0 = v.temperature
    BY <1>1
  <2> HIDE DEF s
  <2> QED BY <1>5, <1>7, <2>1, <2>2 DEF CanOpen!PhysicalToRaw, Tenths
<1>9. CanOpen!RawToPhysical(s, t) = 10 * t
  BY <1>2 DEF CanOpen!RawToPhysical, TemperatureSignal
<1>10. Carries(m, s, 16, v, t)
  BY <1>4, <1>5, <1>6, <1>8, PdoAndBack
<1>11. TemperatureFrame(v).data = PdoBytes(t, 16)
  BY DEF TemperatureFrame, Tenths
<1> HIDE DEF m, s, t
<1>12. CanOpen!Encode(Eds, "RPDO1", v) = CanOpen!Done(TemperatureFrame(v).data)
  BY <1>10, <1>11 DEF CanOpen!Encode, Carries, m
<1>13. CanOpen!Decode(Eds, "RPDO1", TemperatureFrame(v).data, "temperature")
         = CanOpen!Done(10 * t)
  BY <1>5, <1>9, <1>10, <1>11 DEF CanOpen!Decode, Carries, m
<1> QED BY <1>2, <1>3, <1>12, <1>13 DEF t

-----------------------------------------------------------------------------
(* set_signal.                                                             *)

LEMMA MastersAre ==
  /\ Masters[1].message = "RPDO1" /\ Masters[2].message = "NMT" /\ DOMAIN Masters = 1 .. 2
  /\ Masters[1].values = [temperature |-> 4500]
  /\ Masters[2].values = [node |-> 100, command |-> 100]
  /\ Masters[1].period = MasterPeriod /\ Masters[2].period = MasterPeriod
BY DEF Masters

LEMMA TooHot == ~CanOpen!Check(Eds, "RPDO1", "temperature", 700000)
<1> DEFINE m == CanOpen!MessageOf(Eds, "RPDO1")
           s == TemperatureSignal
<1>1. IsPdo(m, s, 16) /\ s.name = "temperature"
  BY Pdos DEF TemperatureSignal
<1>2. s.factor = 10 /\ s.offset = 0 /\ s.signed = FALSE /\ s.length = 16
  BY DEF TemperatureSignal
<1>3. CanOpen!Rounded(700000 - 0, 10) = 70000
  BY DEF CanOpen!Rounded
<1>4. CanOpen!Power[16] = 65536
  BY Limits
<1> HIDE DEF m, s
<1>5. ~CanOpen!FitsBits(70000, s)
  BY <1>2, <1>4 DEF CanOpen!FitsBits
<1>6. CanOpen!PhysicalToRaw(s, 700000) = CanOpen!Err
  BY <1>2, <1>3, <1>5 DEF CanOpen!PhysicalToRaw
<1>7. CanOpen!RawFor(m, "temperature", 700000) = CanOpen!Err
  BY <1>1, <1>6, PdoRaw
<1> QED BY <1>7 DEF CanOpen!Check, CanOpen!CheckValue, CanOpen!Err, m

\* What set_signal takes.
Settings ==
  {[master |-> 1, signal |-> "temperature", value |-> v] : v \in {996, 994, 9004}}
  \cup {[master |-> 2, signal |-> "command", value |-> v] : v \in {100, 200, 8500, 12800}}
  \cup {[master |-> 2, signal |-> "node", value |-> v] : v \in {100, 200}}

LEMMA RequestsTaken ==
  ASSUME NEW request \in Requests, NEW physical, physical = CanOpen!Physical(request),
         physical.result = "ok",
         CanOpen!Check(Eds, Masters[request.master].message, request.signal, physical.value)
  PROVE  [master |-> request.master, signal |-> request.signal, value |-> physical.value] \in Settings
<1>1. ASSUME NEW v PROVE CanOpen!Done(v).value = v
  BY DEF CanOpen!Done
<1>2. ASSUME "symbol" \notin DOMAIN request PROVE physical.value = request.value
  BY <1>1, <1>2 DEF CanOpen!Physical
<1>3. CASE \E v \in {996, 994, 9004, 700000} :
             request = [master |-> 1, signal |-> "temperature", value |-> v]
  <2>1. PICK v \in {996, 994, 9004, 700000} :
               request = [master |-> 1, signal |-> "temperature", value |-> v]
    BY <1>3
  <2>2. "symbol" \notin DOMAIN request /\ request.master = 1 /\ request.signal = "temperature"
        /\ request.value = v
    BY <2>1
  <2>3. physical.value = v
    BY <1>2, <2>2
  <2>4. v # 700000
    BY <2>2, <2>3, TooHot, MastersAre
  <2> QED BY <2>2, <2>3, <2>4 DEF Settings
<1>4. CASE \E s \in {"STOP", "PRE_OPERATIONAL"} :
             request = [master |-> 2, signal |-> "command", symbol |-> s]
  <2>1. PICK s \in {"STOP", "PRE_OPERATIONAL"} :
               request = [master |-> 2, signal |-> "command", symbol |-> s]
    BY <1>4
  <2>2. "symbol" \in DOMAIN request /\ request.master = 2 /\ request.signal = "command"
        /\ request.symbol = s
    BY <2>1
  <2>3. CanOpen!ForSymbol(Eds, "NMT", "command", s) = CanOpen!Done(100 * CanOpen!NmtCommands[s])
    BY <2>1 DEF CanOpen!ForSymbol, CanOpen!NmtForSymbol, CanOpen!NmtCommands, CanOpen!One
  <2>4. physical.value = 100 * CanOpen!NmtCommands[s]
    BY <1>1, <2>2, <2>3, MastersAre DEF CanOpen!Physical
  <2>5. physical.value \in {200, 12800}
    BY <2>1, <2>4 DEF CanOpen!NmtCommands
  <2> QED BY <2>2, <2>5 DEF Settings
<1>5. CASE \E v \in {100, 8500} :
             request = [master |-> 2, signal |-> "command", value |-> v]
  <2>1. PICK v \in {100, 8500} : request = [master |-> 2, signal |-> "command", value |-> v]
    BY <1>5
  <2>2. "symbol" \notin DOMAIN request /\ request.master = 2 /\ request.signal = "command"
        /\ request.value = v
    BY <2>1
  <2> QED BY <1>2, <2>2 DEF Settings
<1>6. CASE \E v \in {100, 200} : request = [master |-> 2, signal |-> "node", value |-> v]
  <2>1. PICK v \in {100, 200} : request = [master |-> 2, signal |-> "node", value |-> v]
    BY <1>6
  <2>2. "symbol" \notin DOMAIN request /\ request.master = 2 /\ request.signal = "node"
        /\ request.value = v
    BY <2>1
  <2> QED BY <1>2, <2>2 DEF Settings
<1> QED BY <1>3, <1>4, <1>5, <1>6 DEF Requests

IsPair(f) == f = [i \in 1 .. 2 |-> f[i]]
Pair(x, y) == [i \in 1 .. 2 |-> IF i = 1 THEN x ELSE y]

LEMMA OneOfTwo ==
  ASSUME NEW f, IsPair(f), NEW x
  PROVE  [f EXCEPT ![1] = x] = Pair(x, f[2]) /\ [f EXCEPT ![2] = x] = Pair(f[1], x)
<1>1. DOMAIN f = 1 .. 2
  BY DEF IsPair
<1>2. ASSUME NEW k \in 1 .. 2
      PROVE  [f EXCEPT ![k] = x] = [i \in 1 .. 2 |-> IF i = k THEN x ELSE f[i]]
  BY <1>1
<1>3. /\ [i \in 1 .. 2 |-> IF i = 1 THEN x ELSE f[i]] = [i \in 1 .. 2 |-> IF i = 1 THEN x ELSE f[2]]
      /\ [i \in 1 .. 2 |-> IF i = 2 THEN x ELSE f[i]] = [i \in 1 .. 2 |-> IF i = 1 THEN f[1] ELSE x]
  <2>1. \A i \in 1 .. 2 : i = 1 \/ i = 2
    OBVIOUS
  <2> QED BY <2>1
<1> QED BY <1>2, <1>3 DEF Pair

LEMMA SetValue ==
  ASSUME MastersShape, NEW setting \in Settings,
         masters' = [masters EXCEPT ![setting.master].values[setting.signal] = setting.value]
  PROVE  /\ MastersShape'
         /\ masters'[1].told = masters[1].told /\ masters'[2].told = masters[2].told
<1> DEFINE a == masters[1]  b == masters[2]
<1>1. /\ a \in Master(TemperatureValues) /\ b \in Master(CommandValues)
      /\ masters = [i \in 1 .. 2 |-> masters[i]] /\ DOMAIN masters = 1 .. 2
  BY DEF MastersShape
<1>2. /\ a = [values |-> a.values, next |-> a.next, told |-> a.told]
      /\ b = [values |-> b.values, next |-> b.next, told |-> b.told]
      /\ a.values = [temperature |-> a.values.temperature]
      /\ b.values = [node |-> b.values.node, command |-> b.values.command]
      /\ b.values.node \in {100, 200} /\ b.values.command \in {100, 200, 8500, 12800}
  BY <1>1 DEF Master, TemperatureValues, CommandValues
<1>3. ASSUME NEW x \in Master(TemperatureValues), NEW y \in Master(CommandValues),
             masters' = Pair(x, y)
      PROVE  MastersShape' /\ masters'[1] = x /\ masters'[2] = y
  <2>1. masters'[1] = x /\ masters'[2] = y /\ DOMAIN masters' = 1 .. 2
    BY <1>3 DEF Pair
  <2>2. masters' = [i \in 1 .. 2 |-> masters'[i]]
    BY <1>3 DEF Pair
  <2> HIDE DEF a, b
  <2>3. masters'[1] \in Master(TemperatureValues) /\ masters'[2] \in Master(CommandValues)
    BY <2>1
  <2> QED BY <2>1, <2>2, <2>3 DEF MastersShape
<1>4. CASE setting.master = 1
  <2>1. setting.signal = "temperature" /\ setting.value \in {996, 994, 9004}
    BY <1>4 DEF Settings
  <2> DEFINE x == [a EXCEPT !.values["temperature"] = setting.value]
  <2>2. x = [values |-> [temperature |-> setting.value], next |-> a.next, told |-> a.told]
    BY <1>2
  <2>3. x \in Master(TemperatureValues) /\ x.told = a.told
    BY <1>1, <2>1, <2>2 DEF Master, TemperatureValues
  <2>4. masters' = Pair(x, b)
    <3>1. masters' = [masters EXCEPT ![1] = x]
      BY <1>4, <2>1
    <3> HIDE DEF x
    <3>2. IsPair(masters)
      BY <1>1 DEF IsPair
    <3> QED BY <3>1, <3>2, OneOfTwo
  <2> HIDE DEF a, b, x
  <2> QED BY <1>1, <1>3, <2>3, <2>4 DEF a, b
<1>5. CASE setting.master = 2
  <2> DEFINE y == [b EXCEPT !.values[setting.signal] = setting.value]
  <2>1. y \in Master(CommandValues) /\ y.told = b.told
    <3>1. CASE setting.signal = "command"
      <4>1. setting.value \in {100, 200, 8500, 12800}
        BY <1>5, <3>1 DEF Settings
      <4>2. y = [values |-> [node |-> b.values.node, command |-> setting.value],
                 next |-> b.next, told |-> b.told]
        BY <1>2, <3>1
      <4> QED BY <1>1, <1>2, <4>1, <4>2 DEF Master, CommandValues
    <3>2. CASE setting.signal = "node"
      <4>1. setting.value \in {100, 200}
        BY <1>5, <3>2 DEF Settings
      <4>2. y = [values |-> [node |-> setting.value, command |-> b.values.command],
                 next |-> b.next, told |-> b.told]
        BY <1>2, <3>2
      <4> QED BY <1>1, <1>2, <4>1, <4>2 DEF Master, CommandValues
    <3> QED BY <1>5, <3>1, <3>2 DEF Settings
  <2>2. masters' = Pair(a, y)
    <3>1. masters' = [masters EXCEPT ![2] = y]
      BY <1>5
    <3> HIDE DEF y
    <3>2. IsPair(masters)
      BY <1>1 DEF IsPair
    <3> QED BY <3>1, <3>2, OneOfTwo
  <2> HIDE DEF a, b, y
  <2> QED BY <1>1, <1>3, <2>1, <2>2 DEF a, b
<1> QED BY <1>4, <1>5 DEF Settings

LEMMA SetSignalInv ==
  ASSUME CanOpenInv, CanOpen!SetSignal
  PROVE  CanOpenInv' /\ UNCHANGED <<time, pc, node, pushed, bus, since>>
<1>1. PICK request \in Requests :
        /\ CanOpen!Physical(request).result = "ok"
        /\ CanOpen!Check(Eds, Masters[request.master].message, request.signal,
                         CanOpen!Physical(request).value)
        /\ masters' = [masters EXCEPT ![request.master].values[request.signal]
                                        = CanOpen!Physical(request).value]
  BY DEF CanOpen!SetSignal
<1> DEFINE setting == [master |-> request.master, signal |-> request.signal,
                       value |-> CanOpen!Physical(request).value]
<1>2. setting \in Settings
  BY <1>1, RequestsTaken
<1>3. /\ setting.master = request.master /\ setting.signal = request.signal
      /\ setting.value = CanOpen!Physical(request).value
  OBVIOUS
<1> HIDE DEF setting
<1>4. /\ MastersShape'
      /\ masters'[1].told = masters[1].told /\ masters'[2].told = masters[2].told
  BY <1>1, <1>2, <1>3, SetValue DEF CanOpenInv
<1>5. UNCHANGED <<time, pc, node, pushed, bus, since>>
  BY DEF CanOpen!SetSignal
<1>6. AsTold' /\ Settled'
  BY <1>4, <1>5 DEF CanOpenInv, AsTold, Settled, Pending
<1> QED BY <1>4, <1>5, <1>6 DEF CanOpenInv, NodeShape, Nodes, BusShape, PushedShape

-----------------------------------------------------------------------------
(* The frames of a tick.                                                   *)

Elements(s) == {s[i] : i \in DOMAIN s}
Different(s) == \A i, j \in DOMAIN s : s[i].id = s[j].id => i = j
Perhaps(sent, frame) == IF sent THEN <<frame>> ELSE <<>>

LEMMA PerhapsFrames ==
  ASSUME NEW sent, NEW frame \in Frames
  PROVE  /\ Perhaps(sent, frame) \in Seq(Frames) /\ Different(Perhaps(sent, frame))
         /\ Elements(Perhaps(sent, frame)) = IF sent THEN {frame} ELSE {}
<1>1. <<frame>> \in Seq(Frames) /\ <<>> \in Seq(Frames)
  OBVIOUS
<1>2. DOMAIN <<frame>> = {1} /\ <<frame>>[1] = frame /\ DOMAIN <<>> = {}
  OBVIOUS
<1>3. Different(<<frame>>) /\ Different(<<>>)
  BY <1>2 DEF Different
<1>4. Elements(<<frame>>) = {frame} /\ Elements(<<>>) = {}
  BY <1>2 DEF Elements
<1> QED BY <1>1, <1>3, <1>4 DEF Perhaps

LEMMA Joined ==
  ASSUME NEW s \in Seq(Frames), NEW t \in Seq(Frames), Different(s), Different(t),
         \A f \in Elements(s), g \in Elements(t) : f.id # g.id
  PROVE  /\ s \o t \in Seq(Frames) /\ Different(s \o t)
         /\ Elements(s \o t) = Elements(s) \cup Elements(t)
<1> DEFINE l == Len(s)  m == Len(t)  st == s \o t
<1>1. /\ st \in Seq(Frames) /\ DOMAIN s = 1 .. l /\ DOMAIN t = 1 .. m /\ DOMAIN st = 1 .. l + m
      /\ l \in Nat /\ m \in Nat
      /\ \A i \in 1 .. l + m : st[i] = IF i <= l THEN s[i] ELSE t[i - l]
  BY ConcatProperties, LenProperties
<1> HIDE DEF l, m, st
<1>2. ASSUME NEW i \in 1 .. l PROVE i \in 1 .. l + m /\ st[i] = s[i] /\ s[i] \in Elements(s)
  <2>1. i \in 1 .. l + m /\ i <= l
    BY <1>1
  <2> QED BY <1>1, <2>1 DEF Elements
<1>3. ASSUME NEW i \in l + 1 .. l + m
      PROVE  i - l \in 1 .. m /\ i \in 1 .. l + m /\ st[i] = t[i - l] /\ t[i - l] \in Elements(t)
  <2>1. i - l \in 1 .. m /\ i \in 1 .. l + m /\ ~(i <= l)
    BY <1>1
  <2> QED BY <1>1, <2>1 DEF Elements
<1>4. ASSUME NEW i \in 1 .. l + m PROVE i \in 1 .. l \/ i \in l + 1 .. l + m
  BY <1>1
<1>5. ASSUME NEW j \in 1 .. m PROVE j + l \in l + 1 .. l + m /\ (j + l) - l = j
  BY <1>1
<1>6. Elements(st) = Elements(s) \cup Elements(t)
  <2>1. ASSUME NEW f \in Elements(st) PROVE f \in Elements(s) \cup Elements(t)
    <3>1. PICK i \in 1 .. l + m : f = st[i]
      BY <1>1 DEF Elements
    <3> QED BY <1>2, <1>3, <1>4, <3>1
  <2>2. ASSUME NEW f \in Elements(s) PROVE f \in Elements(st)
    <3>1. PICK i \in 1 .. l : f = s[i]
      BY <1>1 DEF Elements
    <3> QED BY <1>1, <1>2, <3>1 DEF Elements
  <2>3. ASSUME NEW f \in Elements(t) PROVE f \in Elements(st)
    <3>1. PICK j \in 1 .. m : f = t[j]
      BY <1>1 DEF Elements
    <3>2. st[j + l] = f /\ j + l \in 1 .. l + m
      BY <1>3, <1>5, <3>1
    <3> QED BY <1>1, <3>2 DEF Elements
  <2> QED BY <2>1, <2>2, <2>3
<1>7. ASSUME NEW i \in 1 .. l + m, NEW j \in 1 .. l + m, st[i].id = st[j].id PROVE i = j
  <2>1. CASE i \in 1 .. l /\ j \in 1 .. l
    BY <1>1, <1>2, <1>7, <2>1 DEF Different
  <2>2. CASE i \in l + 1 .. l + m /\ j \in l + 1 .. l + m
    <3> DEFINE a == i - l  b == j - l
    <3>1. a \in 1 .. m /\ b \in 1 .. m /\ t[a].id = t[b].id
      BY <1>3, <1>7, <2>2
    <3> HIDE DEF a, b
    <3>2. a = b
      BY <1>1, <3>1 DEF Different
    <3> QED BY <1>1, <3>2 DEF a, b
  <2>3. CASE i \in 1 .. l /\ j \in l + 1 .. l + m
    BY <1>2, <1>3, <1>7, <2>3
  <2>4. CASE i \in l + 1 .. l + m /\ j \in 1 .. l
    BY <1>2, <1>3, <1>7, <2>4
  <2> QED BY <1>4, <2>1, <2>2, <2>3, <2>4
<1>8. Different(st)
  BY <1>1, <1>7 DEF Different
<1> QED BY <1>1, <1>6, <1>8 DEF st

LEMMA FlattenTwo ==
  ASSUME NEW x, NEW y
  PROVE  CanOpen!FlattenSeq(Pair(x, y)) = x \o y
<1> DEFINE seqs == Pair(x, y)
           Iter(f) == [i \in 1 .. Len(seqs) |-> IF i = 1 THEN seqs[i] ELSE f[i - 1] \o seqs[i]]
           f == CHOOSE g : g = Iter(g)
<1>1. Len(seqs) = 2 /\ seqs[1] = x /\ seqs[2] = y
  BY DEF Pair
<1>2. CanOpen!FlattenSeq(seqs) = f[2]
  <2>1. CanOpen!FlattenSeq(seqs) = f[Len(seqs)]
    <3> HIDE DEF seqs
    <3> QED BY <1>1 DEF CanOpen!FlattenSeq
  <2> QED BY <1>1, <2>1
<1>3. f = Iter(f)
  <2> DEFINE g == Pair(x, x \o y)
  <2>1. ASSUME NEW i \in 1 .. 2 PROVE g[i] = Iter(g)[i]
    <3> HIDE DEF seqs
    <3> QED BY <1>1 DEF Pair
  <2>2. g = [i \in 1 .. 2 |-> g[i]] /\ Iter(g) = [i \in 1 .. 2 |-> Iter(g)[i]]
    <3> HIDE DEF seqs
    <3> QED BY <1>1 DEF Pair
  <2>3. g = Iter(g)
    <3> HIDE DEF g, Iter
    <3> QED BY <2>1, <2>2
  <2> HIDE DEF g, Iter
  <2> QED BY <2>3
<1>4. f[1] = x /\ f[2] = f[1] \o y
  <2> HIDE DEF f, seqs
  <2>1. Iter(f)[1] = x /\ Iter(f)[2] = f[1] \o y
    <3>1. 1 \in 1 .. 2 /\ 2 \in 1 .. 2 /\ 2 - 1 = 1 /\ 2 # 1
      OBVIOUS
    <3> QED BY <1>1, <3>1
  <2> HIDE DEF Iter
  <2> QED BY <1>3, <2>1
<1> HIDE DEF f, seqs
<1>5. CanOpen!FlattenSeq(seqs) = x \o y
  BY <1>2, <1>4
<1> QED BY <1>5 DEF seqs

LEMMA FrameIds ==
  /\ \A v : TemperatureFrame(v).id = 513 /\ CommandFrame(v).id = 0
  /\ \A open : TpdoFrame(open).id = 385 /\ TpdoFrame(open).data = ValveFrame(open)
  /\ \A s : HeartbeatFrame(s).id = 1793 /\ HeartbeatFrame(s).data = StateFrame(s)
BY DEF TemperatureFrame, CommandFrame, TpdoFrame, HeartbeatFrame

LEMMA FrameOf ==
  /\ \A v : TemperatureFrame(v) = [id |-> 513, data |-> TemperatureFrame(v).data]
  /\ \A v : CommandFrame(v) = [id |-> 0, data |-> CommandFrame(v).data]
  /\ \A open : TpdoFrame(open) = [id |-> 385, data |-> ValveFrame(open)]
  /\ \A s : HeartbeatFrame(s) = [id |-> 1793, data |-> StateFrame(s)]
BY DEF TemperatureFrame, CommandFrame, TpdoFrame, HeartbeatFrame

LEMMA MastersSend ==
  ASSUME MastersShape
  PROVE  /\ CanOpen!MasterFrames(1)
              = Perhaps(CanOpen!MasterDue(1), TemperatureFrame(masters[1].values))
         /\ CanOpen!MasterFrames(2)
              = Perhaps(CanOpen!MasterDue(2), CommandFrame(masters[2].values))
<1>1. masters[1].values \in TemperatureValues /\ masters[2].values \in CommandValues
  BY DEF MastersShape, Master
<1>2. ASSUME NEW v PROVE CanOpen!Done(v).result = "ok" /\ CanOpen!Done(v).value = v
  BY DEF CanOpen!Done
<1>3. /\ CanOpen!Encode(Eds, "RPDO1", masters[1].values)
           = CanOpen!Done(TemperatureFrame(masters[1].values).data)
      /\ CanOpen!Encode(Eds, "NMT", masters[2].values)
           = CanOpen!Done(CommandFrame(masters[2].values).data)
  BY <1>1, TemperatureHeard, CommandHeard
<1>4. CanOpen!MasterFrames(1)
        = IF CanOpen!MasterDue(1)
          THEN <<[id |-> 513, data |-> TemperatureFrame(masters[1].values).data]>> ELSE <<>>
  BY <1>2, <1>3, MastersAre, Pdos DEF CanOpen!MasterFrames
<1>5. CanOpen!MasterFrames(2)
        = IF CanOpen!MasterDue(2)
          THEN <<[id |-> 0, data |-> CommandFrame(masters[2].values).data]>> ELSE <<>>
  BY <1>2, <1>3, MastersAre, Pdos DEF CanOpen!MasterFrames
<1> QED BY <1>4, <1>5, FrameOf DEF Perhaps

LEMMA FirmwareSends ==
  ASSUME NodeShape
  PROVE  CanOpen!FirmwareFrames
           = Perhaps(CanOpen!TpdoDue, TpdoFrame(node.open))
             \o Perhaps(CanOpen!HbDue, HeartbeatFrame(node.state))
<1>1. node.open \in BOOLEAN /\ node.state \in StateCodes
  BY DEF NodeShape, Nodes
<1>2. ASSUME NEW v PROVE CanOpen!Done(v).value = v
  BY DEF CanOpen!Done
<1>3. /\ CanOpen!Encode(Eds, "TPDO1",
                        [valve_open |-> IF node.open THEN CanOpen!One ELSE 0]).value
           = ValveFrame(node.open)
      /\ CanOpen!Encode(Eds, "Heartbeat", [state |-> CanOpen!One * node.state]).value
           = StateFrame(node.state)
  BY <1>1, <1>2, ValveSeen, StateSeen
<1> QED BY <1>3, Identifiers, FrameOf DEF CanOpen!FirmwareFrames, Perhaps

Singly(sent, frame) == IF sent THEN {frame} ELSE {}

\* The frames of an update.
LEMMA UpdateSends ==
  ASSUME MastersShape, NodeShape, NEW frames,
         frames = CanOpen!FlattenSeq([i \in DOMAIN masters |-> CanOpen!MasterFrames(i)])
                    \o CanOpen!FirmwareFrames
  PROVE  /\ frames \in Seq(Frames) /\ Different(frames)
         /\ Elements(frames)
              = Singly(CanOpen!MasterDue(1), TemperatureFrame(masters[1].values))
                \cup Singly(CanOpen!MasterDue(2), CommandFrame(masters[2].values))
                \cup Singly(CanOpen!TpdoDue, TpdoFrame(node.open))
                \cup Singly(CanOpen!HbDue, HeartbeatFrame(node.state))
<1> DEFINE a == TemperatureFrame(masters[1].values)
           b == CommandFrame(masters[2].values)
           c == TpdoFrame(node.open)
           d == HeartbeatFrame(node.state)
           as == Perhaps(CanOpen!MasterDue(1), a)
           bs == Perhaps(CanOpen!MasterDue(2), b)
           cs == Perhaps(CanOpen!TpdoDue, c)
           ds == Perhaps(CanOpen!HbDue, d)
<1>1. a \in Frames /\ b \in Frames /\ c \in Frames /\ d \in Frames
  <2>1. /\ masters[1].values \in TemperatureValues /\ masters[2].values \in CommandValues
        /\ node.open \in BOOLEAN /\ node.state \in StateCodes
    BY DEF MastersShape, Master, NodeShape, Nodes
  <2> QED BY <2>1 DEF Frames
<1>2. a.id = 513 /\ b.id = 0 /\ c.id = 385 /\ d.id = 1793
  BY FrameIds
<1>3. CanOpen!FlattenSeq([i \in DOMAIN masters |-> CanOpen!MasterFrames(i)]) = as \o bs
  <2>1. [i \in DOMAIN masters |-> CanOpen!MasterFrames(i)] = Pair(as, bs)
    <3>1. DOMAIN masters = 1 .. 2
      BY DEF MastersShape
    <3>2. CanOpen!MasterFrames(1) = as /\ CanOpen!MasterFrames(2) = bs
      BY MastersSend
    <3> HIDE DEF as, bs
    <3>3. ASSUME NEW i \in 1 .. 2
          PROVE  CanOpen!MasterFrames(i) = IF i = 1 THEN as ELSE bs
      <4>1. CASE i = 1
        BY <3>2, <4>1
      <4>2. CASE i = 2
        BY <3>2, <4>2
      <4>3. i = 1 \/ i = 2
        OBVIOUS
      <4> QED BY <4>1, <4>2, <4>3, Zenon
    <3> QED BY <3>1, <3>3 DEF Pair
  <2> HIDE DEF as, bs
  <2> QED BY <2>1, FlattenTwo
<1>4. CanOpen!FirmwareFrames = cs \o ds
  BY FirmwareSends
<1>5. /\ as \in Seq(Frames) /\ Different(as) /\ Elements(as) = Singly(CanOpen!MasterDue(1), a)
      /\ bs \in Seq(Frames) /\ Different(bs) /\ Elements(bs) = Singly(CanOpen!MasterDue(2), b)
      /\ cs \in Seq(Frames) /\ Different(cs) /\ Elements(cs) = Singly(CanOpen!TpdoDue, c)
      /\ ds \in Seq(Frames) /\ Different(ds) /\ Elements(ds) = Singly(CanOpen!HbDue, d)
  <2> HIDE DEF a, b, c, d
  <2> QED BY <1>1, PerhapsFrames DEF Singly
<1> HIDE DEF a, b, c, d, as, bs, cs, ds
<1>6. /\ as \o bs \in Seq(Frames) /\ Different(as \o bs)
      /\ Elements(as \o bs) = Elements(as) \cup Elements(bs)
  <2>1. \A f \in Elements(as), g \in Elements(bs) : f.id # g.id
    BY <1>2, <1>5 DEF Singly
  <2> QED BY <1>5, <2>1, Joined
<1>7. /\ cs \o ds \in Seq(Frames) /\ Different(cs \o ds)
      /\ Elements(cs \o ds) = Elements(cs) \cup Elements(ds)
  <2>1. \A f \in Elements(cs), g \in Elements(ds) : f.id # g.id
    BY <1>2, <1>5 DEF Singly
  <2> QED BY <1>5, <2>1, Joined
<1>8. /\ (as \o bs) \o (cs \o ds) \in Seq(Frames) /\ Different((as \o bs) \o (cs \o ds))
      /\ Elements((as \o bs) \o (cs \o ds)) = Elements(as \o bs) \cup Elements(cs \o ds)
  <2>1. \A f \in Elements(as \o bs), g \in Elements(cs \o ds) : f.id # g.id
    BY <1>2, <1>5, <1>6, <1>7 DEF Singly
  <2> QED BY <1>6, <1>7, <2>1, Joined
<1>9. frames = (as \o bs) \o (cs \o ds)
  BY <1>3, <1>4
<1>10. Elements(frames) = Singly(CanOpen!MasterDue(1), a) \cup Singly(CanOpen!MasterDue(2), b)
                          \cup Singly(CanOpen!TpdoDue, c) \cup Singly(CanOpen!HbDue, d)
  BY <1>5, <1>6, <1>7, <1>8, <1>9
<1> QED BY <1>8, <1>9, <1>10 DEF a, b, c, d

-----------------------------------------------------------------------------
(* The abstract node, as CanOpenBus maps it.                               *)

StateName(state) == CanOpen!SymbolOf(CanOpen!HbStates, state)
Band(temperature) == IF CanOpen!InBand(temperature) THEN "in" ELSE "out"

SeenNode ==
  [state |-> StateName(node.state), temperature |-> Band(node.temperature), open |-> node.open,
   nextTpdo |-> node.nextTpdo, nextHb |-> node.nextHb]
SeenPushed ==
  [valve |-> {CanOpen!SeenValve(d) : d \in CanOpen!PushedWith(CanOpen!tpdo1(Eds.node))},
   state |-> {CanOpen!SeenState(d) : d \in CanOpen!PushedWith(CanOpen!heartbeat(Eds.node))}]
SeenBus ==
  [valve |-> bus[CanOpen!tpdo1(Eds.node)] # <<>> /\ CanOpen!SeenValve(bus[CanOpen!tpdo1(Eds.node)]),
   state |-> IF bus[CanOpen!heartbeat(Eds.node)] = <<>> THEN "PRE_OPERATIONAL"
             ELSE CanOpen!SeenState(bus[CanOpen!heartbeat(Eds.node)])]

Node == INSTANCE CanOpenNodeProofs WITH
  TpdoPeriod <- Period, node <- SeenNode, pushed <- SeenPushed, bus <- SeenBus

LEMMA SameStep == CanOpen!Abstract!Next <=> Node!Next
BY DEF SeenNode, SeenPushed, SeenBus, StateName, Band,
       CanOpen!Abstract!Next, Node!Next, CanOpen!Abstract!Update, Node!Update,
       CanOpen!Abstract!NmtFrame, Node!NmtFrame, CanOpen!Abstract!RpdoFrame, Node!RpdoFrame,
       CanOpen!Abstract!EndTick, Node!EndTick, CanOpen!Abstract!Hears, Node!Hears,
       CanOpen!Abstract!Nmt, Node!Nmt, CanOpen!Abstract!Rpdo, Node!Rpdo,
       CanOpen!Abstract!InBand, Node!InBand, CanOpen!Abstract!NothingPushed, Node!NothingPushed,
       CanOpen!Abstract!Commands, Node!Commands,
       CanOpen!Abstract!Temperatures, Node!Temperatures

LEMMA SameStart == CanOpen!Abstract!Init <=> Node!Init
BY DEF SeenNode, SeenPushed, SeenBus, StateName, Band, CanOpen!Abstract!Init, Node!Init,
       CanOpen!Abstract!NothingPushed, Node!NothingPushed

LEMMA SameStutter == UNCHANGED CanOpen!Abstract!vars <=> UNCHANGED Node!vars
BY DEF CanOpen!Abstract!vars, Node!vars, SeenNode, SeenPushed, SeenBus, StateName, Band

\* The data of the frames with an id.
DataOf(frames, id) == {f.data : f \in {e \in Elements(frames) : e.id = id}}

LEMMA SeenFrames ==
  /\ SeenPushed.valve = {CanOpen!SeenValve(d) : d \in DataOf(pushed.frames, 385)}
  /\ SeenPushed.state = {CanOpen!SeenState(d) : d \in DataOf(pushed.frames, 1793)}
  /\ SeenPushed = [valve |-> SeenPushed.valve, state |-> SeenPushed.state]
<1>1. ASSUME NEW id PROVE CanOpen!PushedWith(id) = DataOf(pushed.frames, id)
  BY DEF CanOpen!PushedWith, DataOf, Elements
<1> QED BY <1>1, Identifiers DEF SeenPushed

LEMMA SeenOne ==
  /\ \A open \in BOOLEAN : {CanOpen!SeenValve(d) : d \in {ValveFrame(open)}} = {open}
  /\ \A s \in StateCodes : {CanOpen!SeenState(d) : d \in {StateFrame(s)}} = {StateName(s)}
<1>1. ASSUME NEW open \in BOOLEAN
      PROVE  {CanOpen!SeenValve(d) : d \in {ValveFrame(open)}} = {open}
  <2>1. CanOpen!SeenValve(ValveFrame(open)) \in BOOLEAN
    BY DEF CanOpen!SeenValve
  <2>2. CanOpen!SeenValve(ValveFrame(open)) = open
    BY <2>1, ValveSeen
  <2> QED BY <2>2
<1>2. ASSUME NEW s \in StateCodes
      PROVE  {CanOpen!SeenState(d) : d \in {StateFrame(s)}} = {StateName(s)}
  BY StateSeen DEF StateName
<1> QED BY <1>1, <1>2

\* An update puts the abstract frames on the list, and moves the two timers.
LEMMA UpdateSeen ==
  ASSUME CanOpenInv, CanOpen!Update
  PROVE  /\ pc = "idle" /\ time < MaxTime /\ pc' = "route" /\ UNCHANGED <<time, bus, since>>
         /\ SeenPushed' = [valve |-> IF time >= node.nextTpdo THEN {node.open} ELSE {},
                           state |-> IF time >= node.nextHb THEN {StateName(node.state)} ELSE {}]
         /\ node' = [state |-> node.state, temperature |-> node.temperature, open |-> node.open,
                     nextTpdo |-> IF time >= node.nextTpdo THEN time + Period ELSE node.nextTpdo,
                     nextHb |-> IF time >= node.nextHb THEN time + HbPeriod ELSE node.nextHb]
<1> DEFINE frames == pushed'.frames
<1>1. /\ pc = "idle" /\ time < MaxTime /\ pc' = "route" /\ UNCHANGED <<time, bus, since>>
      /\ frames = CanOpen!FlattenSeq([i \in DOMAIN masters |-> CanOpen!MasterFrames(i)])
                    \o CanOpen!FirmwareFrames
  BY DEF CanOpen!Update
<1>2. MastersShape /\ NodeShape /\ node.open \in BOOLEAN /\ node.state \in StateCodes
  BY DEF CanOpenInv, NodeShape, Nodes
<1>3. /\ SeenPushed'.valve = {CanOpen!SeenValve(d) : d \in DataOf(frames, 385)}
      /\ SeenPushed'.state = {CanOpen!SeenState(d) : d \in DataOf(frames, 1793)}
      /\ SeenPushed' = [valve |-> SeenPushed'.valve, state |-> SeenPushed'.state]
  <2>1. (/\ SeenPushed.valve = {CanOpen!SeenValve(d) : d \in DataOf(pushed.frames, 385)}
         /\ SeenPushed.state = {CanOpen!SeenState(d) : d \in DataOf(pushed.frames, 1793)}
         /\ SeenPushed = [valve |-> SeenPushed.valve, state |-> SeenPushed.state])'
    BY SeenFrames, PTL
  <2> QED BY <2>1
<1> HIDE DEF frames
<1>4. Elements(frames) = Singly(CanOpen!MasterDue(1), TemperatureFrame(masters[1].values))
                         \cup Singly(CanOpen!MasterDue(2), CommandFrame(masters[2].values))
                         \cup Singly(CanOpen!TpdoDue, TpdoFrame(node.open))
                         \cup Singly(CanOpen!HbDue, HeartbeatFrame(node.state))
  BY <1>1, <1>2, UpdateSends
<1>5. /\ DataOf(frames, 385) = IF CanOpen!TpdoDue THEN {ValveFrame(node.open)} ELSE {}
      /\ DataOf(frames, 1793) = IF CanOpen!HbDue THEN {StateFrame(node.state)} ELSE {}
  BY <1>4, FrameIds DEF DataOf, Singly
<1>6. /\ SeenPushed'.valve = IF CanOpen!TpdoDue THEN {node.open} ELSE {}
      /\ SeenPushed'.state = IF CanOpen!HbDue THEN {StateName(node.state)} ELSE {}
  <2>1. {CanOpen!SeenValve(d) : d \in {}} = {} /\ {CanOpen!SeenState(d) : d \in {}} = {}
    OBVIOUS
  <2> QED BY <1>2, <1>3, <1>5, <2>1, SeenOne
<1>7. SeenPushed' = [valve |-> IF time >= node.nextTpdo THEN {node.open} ELSE {},
                     state |-> IF time >= node.nextHb THEN {StateName(node.state)} ELSE {}]
  BY <1>3, <1>6 DEF CanOpen!TpdoDue, CanOpen!HbDue
<1> DEFINE t == IF time >= node.nextTpdo THEN time + Period ELSE node.nextTpdo
           h == IF time >= node.nextHb THEN time + HbPeriod ELSE node.nextHb
<1>8. node' = [[node EXCEPT !.nextTpdo = t] EXCEPT !.nextHb = h]
  BY Zenon DEF CanOpen!Update, CanOpen!TpdoDue, CanOpen!HbDue
<1>9. node = [state |-> node.state, temperature |-> node.temperature, open |-> node.open,
              nextTpdo |-> node.nextTpdo, nextHb |-> node.nextHb]
  BY <1>2 DEF NodeShape, Nodes
<1>10. node' = [state |-> node.state, temperature |-> node.temperature, open |-> node.open,
                nextTpdo |-> t, nextHb |-> h]
  <2> HIDE DEF t, h
  <2> QED BY <1>8, <1>9
<1> QED BY <1>1, <1>7, <1>10

LEMMA UpdateRefines ==
  ASSUME CanOpenInv, CanOpen!Update
  PROVE  Node!Update
<1>1. /\ SeenNode.nextTpdo = node.nextTpdo /\ SeenNode.nextHb = node.nextHb
      /\ SeenNode.open = node.open /\ SeenNode.state = StateName(node.state)
  BY DEF SeenNode
<1> DEFINE t == IF time >= node.nextTpdo THEN time + Period ELSE node.nextTpdo
           h == IF time >= node.nextHb THEN time + HbPeriod ELSE node.nextHb
<1>2. SeenNode' = [state |-> StateName(node.state), temperature |-> Band(node.temperature),
                   open |-> node.open, nextTpdo |-> t, nextHb |-> h]
  <2>1. /\ node'.state = node.state /\ node'.temperature = node.temperature
        /\ node'.open = node.open /\ node'.nextTpdo = t /\ node'.nextHb = h
    BY UpdateSeen
  <2> HIDE DEF t, h
  <2> QED BY <2>1 DEF SeenNode, StateName, Band, CanOpen!InBand
<1>3. SeenNode' = [[SeenNode EXCEPT !.nextTpdo = t] EXCEPT !.nextHb = h]
  <2> HIDE DEF t, h
  <2> DEFINE n == [SeenNode EXCEPT !.nextTpdo = t]
  <2>1. n = [state |-> StateName(node.state), temperature |-> Band(node.temperature),
             open |-> node.open, nextTpdo |-> t, nextHb |-> node.nextHb]
    BY DEF SeenNode
  <2> HIDE DEF n
  <2>2. SeenNode' = [n EXCEPT !.nextHb = h]
    BY <1>2, <2>1
  <2> QED BY <2>2 DEF n
<1>4. SeenBus' = SeenBus
  BY UpdateSeen DEF SeenBus, CanOpen!SeenValve, CanOpen!SeenState
<1>5. t = (IF time >= SeenNode.nextTpdo THEN time + Period ELSE SeenNode.nextTpdo)
      /\ h = (IF time >= SeenNode.nextHb THEN time + HbPeriod ELSE SeenNode.nextHb)
  BY <1>1
<1>6. SeenNode' = [SeenNode EXCEPT
       !.nextTpdo = IF time >= SeenNode.nextTpdo THEN time + Period ELSE SeenNode.nextTpdo,
       !.nextHb = IF time >= SeenNode.nextHb THEN time + HbPeriod ELSE SeenNode.nextHb]
  <2> HIDE DEF t, h
  <2> QED BY <1>3, <1>5, Zenon
<1>7. SeenPushed' = [valve |-> IF time >= SeenNode.nextTpdo THEN {SeenNode.open} ELSE {},
                     state |-> IF time >= SeenNode.nextHb THEN {SeenNode.state} ELSE {}]
  BY <1>1, UpdateSeen
<1> QED BY <1>4, <1>6, <1>7, UpdateSeen, Zenon DEF Node!Update

\* A master that is due has told what it holds.
LEMMA MastersTell ==
  ASSUME CanOpenInv, CanOpen!Update
  PROVE  /\ MastersShape'
         /\ masters'[1].told = IF CanOpen!MasterDue(1) THEN masters[1].values ELSE masters[1].told
         /\ masters'[2].told = IF CanOpen!MasterDue(2) THEN masters[2].values ELSE masters[2].told
<1> DEFINE After(i) == IF CanOpen!MasterDue(i)
                       THEN [masters[i] EXCEPT !.next = time + Masters[i].period,
                                               !.told = masters[i].values]
                       ELSE masters[i]
<1>1. /\ masters[1] \in Master(TemperatureValues) /\ masters[2] \in Master(CommandValues)
      /\ DOMAIN masters = 1 .. 2
  BY DEF CanOpenInv, MastersShape
<1>2. /\ masters' = [i \in 1 .. 2 |-> masters'[i]] /\ DOMAIN masters' = 1 .. 2
      /\ masters'[1] = After(1) /\ masters'[2] = After(2)
  <2>1. masters' = [i \in DOMAIN masters |-> After(i)]
    BY DEF CanOpen!Update
  <2> HIDE DEF After
  <2>2. masters'[1] = After(1) /\ masters'[2] = After(2) /\ DOMAIN masters' = 1 .. 2
    BY <1>1, <2>1
  <2>3. masters' = [i \in 1 .. 2 |-> masters'[i]]
    BY <1>1, <2>1
  <2> QED BY <2>2, <2>3
<1>3. ASSUME NEW values, NEW m \in Master(values), NEW next \in Nat
      PROVE  /\ [m EXCEPT !.next = next, !.told = m.values] \in Master(values)
             /\ [m EXCEPT !.next = next, !.told = m.values].told = m.values
  <2> DEFINE n == [m EXCEPT !.next = next]
  <2>1. m = [values |-> m.values, next |-> m.next, told |-> m.told] /\ m.values \in values
    BY DEF Master
  <2>2. n = [values |-> m.values, next |-> next, told |-> m.told]
    BY <2>1
  <2> HIDE DEF n
  <2>3. [n EXCEPT !.told = m.values] = [values |-> m.values, next |-> next, told |-> m.values]
    BY <2>2
  <2>4. [n EXCEPT !.told = m.values] \in Master(values)
    BY <2>1, <2>3 DEF Master
  <2> QED BY <2>3, <2>4 DEF n
<1>4. time + Masters[1].period \in Nat /\ time + Masters[2].period \in Nat
  BY MastersAre, SilAssumption DEF CanOpenInv
<1>5. /\ After(1) \in Master(TemperatureValues)
      /\ After(1).told = IF CanOpen!MasterDue(1) THEN masters[1].values ELSE masters[1].told
  BY <1>1, <1>3, <1>4
<1>6. /\ After(2) \in Master(CommandValues)
      /\ After(2).told = IF CanOpen!MasterDue(2) THEN masters[2].values ELSE masters[2].told
  BY <1>1, <1>3, <1>4
<1> HIDE DEF After
<1>7. masters'[1] \in Master(TemperatureValues) /\ masters'[2] \in Master(CommandValues)
  BY <1>2, <1>5, <1>6
<1>8. MastersShape'
  BY <1>2, <1>7 DEF MastersShape
<1> QED BY <1>2, <1>5, <1>6, <1>8

LEMMA ToldIsSomething ==
  /\ \A v \in TemperatureValues : v # <<>>
  /\ \A v \in CommandValues : v # <<>>
<1>1. DOMAIN <<>> = {}
  OBVIOUS
<1>2. ASSUME NEW v \in TemperatureValues PROVE "temperature" \in DOMAIN v
  BY DEF TemperatureValues
<1>3. ASSUME NEW v \in CommandValues PROVE "node" \in DOMAIN v
  BY DEF CommandValues
<1> QED BY <1>1, <1>2, <1>3

LEMMA UpdateCanOpen ==
  ASSUME CanOpenInv, CanOpen!Update
  PROVE  CanOpenInv'
<1> DEFINE frames == pushed'.frames
<1>1. /\ pc = "idle" /\ pc' = "route" /\ UNCHANGED <<time, bus, since>> /\ time \in Nat
      /\ pushed' = [frames |-> frames, routed |-> 0] /\ pushed'.routed = 0
      /\ frames = CanOpen!FlattenSeq([i \in DOMAIN masters |-> CanOpen!MasterFrames(i)])
                    \o CanOpen!FirmwareFrames
  BY DEF CanOpen!Update, CanOpenInv
<1> HIDE DEF frames
<1>2. MastersShape /\ NodeShape
  BY DEF CanOpenInv
<1>3. /\ frames \in Seq(Frames) /\ Different(frames)
      /\ Elements(frames) = Singly(CanOpen!MasterDue(1), TemperatureFrame(masters[1].values))
                            \cup Singly(CanOpen!MasterDue(2), CommandFrame(masters[2].values))
                            \cup Singly(CanOpen!TpdoDue, TpdoFrame(node.open))
                            \cup Singly(CanOpen!HbDue, HeartbeatFrame(node.state))
  BY <1>1, <1>2, UpdateSends
<1>4. MastersShape' /\ masters[1].values # <<>> /\ masters[2].values # <<>>
  BY <1>2, MastersTell, ToldIsSomething DEF MastersShape, Master
<1>5. NodeShape' /\ node'.temperature = node.temperature /\ node'.state = node.state
  <2> DEFINE t == IF time >= node.nextTpdo THEN time + Period ELSE node.nextTpdo
             h == IF time >= node.nextHb THEN time + HbPeriod ELSE node.nextHb
  <2>1. t \in Nat /\ h \in Nat
    BY <1>1, <1>2, SilAssumption DEF NodeShape, Nodes
  <2>2. node' = [state |-> node.state, temperature |-> node.temperature, open |-> node.open,
                 nextTpdo |-> t, nextHb |-> h]
    BY UpdateSeen
  <2> HIDE DEF t, h
  <2>3. node.state \in StateCodes /\ node.temperature \in Int /\ node.open \in BOOLEAN
    BY <1>2 DEF NodeShape, Nodes
  <2>4. node' \in Nodes
    BY <2>1, <2>2, <2>3 DEF Nodes
  <2> QED BY <2>2, <2>4 DEF NodeShape
<1>6. PushedShape'
  <2>1. Len(frames) \in Nat
    BY <1>3, LenProperties
  <2>2. pushed'.frames = frames
    BY DEF frames
  <2>3. 0 \in 0 .. Len(frames)
    BY <2>1
  <2> QED BY <1>1, <1>3, <2>2, <2>3 DEF PushedShape, Different
<1>7. AsTold'
  <2> SUFFICES ASSUME NEW i \in DOMAIN frames
               PROVE  /\ frames[i].id = 513 => /\ masters'[1].told # <<>>
                                               /\ frames[i] = TemperatureFrame(masters'[1].told)
                      /\ frames[i].id = 0 => /\ masters'[2].told # <<>>
                                             /\ frames[i] = CommandFrame(masters'[2].told)
    BY DEF AsTold, frames
  <2>1. frames[i] \in Elements(frames)
    BY DEF Elements
  <2>2. frames[i].id = 513 => CanOpen!MasterDue(1) /\ frames[i] = TemperatureFrame(masters[1].values)
    BY <1>3, <2>1, FrameIds DEF Singly
  <2>3. frames[i].id = 0 => CanOpen!MasterDue(2) /\ frames[i] = CommandFrame(masters[2].values)
    BY <1>3, <2>1, FrameIds DEF Singly
  <2> QED BY <1>4, <2>2, <2>3, MastersTell
<1>8. Settled'
  <2>1. ASSUME NEW id, NEW f \in Elements(frames), f.id = id PROVE Pending(id)'
    <3>1. PICK i \in DOMAIN frames : frames[i] = f
      BY DEF Elements
    <3>2. i \in Nat /\ i > 0
      BY <1>3, LenProperties
    <3> QED BY <1>1, <2>1, <3>1, <3>2 DEF Pending, frames
  <2>2. ~Pending(513) /\ ~Pending(0)
    BY <1>1 DEF CanOpenInv, PushedShape, Pending
  <2>3. masters'[1].told # <<>> => Pending(513)' \/ Near(node'.temperature, masters'[1].told)
    <3>1. CASE CanOpen!MasterDue(1)
      <4>1. TemperatureFrame(masters[1].values) \in Elements(frames)
        BY <1>3, <3>1 DEF Singly
      <4>2. TemperatureFrame(masters[1].values).id = 513
        BY FrameIds
      <4>3. Pending(513)'
        BY <2>1, <4>1, <4>2
      <4> QED BY <4>3
    <3>2. CASE ~CanOpen!MasterDue(1)
      BY <1>5, <2>2, <3>2, MastersTell DEF CanOpenInv, Settled
    <3> QED BY <3>1, <3>2
  <2>4. masters'[2].told # <<>> => Pending(0)' \/ Obeyed(node'.state, masters'[2].told)
    <3>1. CASE CanOpen!MasterDue(2)
      <4>1. CommandFrame(masters[2].values) \in Elements(frames)
        BY <1>3, <3>1 DEF Singly
      <4>2. CommandFrame(masters[2].values).id = 0
        BY FrameIds
      <4>3. Pending(0)'
        BY <2>1, <4>1, <4>2
      <4> QED BY <4>3
    <3>2. CASE ~CanOpen!MasterDue(2)
      BY <1>5, <2>2, <3>2, MastersTell DEF CanOpenInv, Settled
    <3> QED BY <3>1, <3>2
  <2> QED BY <2>3, <2>4 DEF Settled
<1> QED BY <1>1, <1>4, <1>5, <1>6, <1>7, <1>8 DEF CanOpenInv, BusShape

-----------------------------------------------------------------------------
(* What a frame does to the node.                                          *)

Seen(n) ==
  [state |-> StateName(n.state), temperature |-> Band(n.temperature), open |-> n.open,
   nextTpdo |-> n.nextTpdo, nextHb |-> n.nextHb]

\* A node a frame has left: its timers and one other field untouched.
LEMMA CommandsDo ==
  ASSUME NodeShape, NEW v \in CommandValues, NEW new, new = CanOpen!OnNmt(CommandFrame(v).data)
  PROVE  /\ new \in Nodes /\ new.temperature = node.temperature
         /\ Obeyed(new.state, v)
         /\ \E command \in Node!Commands : Seen(new) = Node!Nmt(command)
<1> DEFINE c == CanOpen!SymbolOf(CanOpen!NmtCommands, Code(v.command))
           With(state, open) ==
             [state |-> state, temperature |-> node.temperature, open |-> open,
              nextTpdo |-> node.nextTpdo, nextHb |-> node.nextHb]
           Left(state, open, command) ==
             /\ With(state, open) \in Nodes
             /\ With(state, open).temperature = node.temperature
             /\ With(state, open).state = state
             /\ Seen(With(state, open)) = Node!Nmt(command)
<1>1. /\ Code(v.node) \in {1, 2} /\ Code(v.command) \in {1, 2, 85, 128}
      /\ (v.node = 100 <=> Code(v.node) = 1)
  <2>1. PICK n \in {100, 200}, k \in {100, 200, 8500, 12800} : v = [node |-> n, command |-> k]
    BY DEF CommandValues
  <2>2. v.node = n /\ v.command = k
    BY <2>1
  <2> QED BY <2>2, WholeCodes
<1>2. c \in {"START", "STOP", "PRE_OPERATIONAL", ""}
  <2> DEFINE k == Code(v.command)
             Name(code) == CanOpen!SymbolOf(CanOpen!NmtCommands, code)
  <2>1. k = 1 \/ k = 2 \/ k = 85 \/ k = 128
    BY <1>1
  <2>2. Name(1) = "START" /\ Name(2) = "STOP" /\ Name(128) = "PRE_OPERATIONAL" /\ Name(85) = ""
    BY CommandNames
  <2>3. c = Name(k)
    OBVIOUS
  <2>4. CASE k = 1
    BY <2>2, <2>3, <2>4
  <2>5. CASE k = 2
    BY <2>2, <2>3, <2>5
  <2>6. CASE k = 85
    BY <2>2, <2>3, <2>6
  <2>7. CASE k = 128
    BY <2>2, <2>3, <2>7
  <2> HIDE DEF k, c
  <2> QED BY <2>1, <2>4, <2>5, <2>6, <2>7
<1>3. new = IF Code(v.node) # 1 THEN node
            ELSE CASE c = "START" -> [node EXCEPT !.state = 5, !.open = CanOpen!InBand(node.temperature)]
                   [] c = "STOP" -> [node EXCEPT !.state = 4]
                   [] c = "PRE_OPERATIONAL" -> [node EXCEPT !.state = 127]
                   [] OTHER -> node
  <2>1. /\ CanOpen!DecodeNmt(CommandFrame(v).data, "node") = CanOpen!Done(v.node)
        /\ CanOpen!DecodeNmt(CommandFrame(v).data, "command") = CanOpen!Done(v.command)
    BY CommandHeard
  <2>2. ASSUME NEW w PROVE CanOpen!Done(w).result = "ok" /\ CanOpen!Done(w).value = w
    BY DEF CanOpen!Done
  <2>3. /\ CanOpen!Rounded(v.node, CanOpen!One) = Code(v.node)
        /\ CanOpen!Rounded(v.command, CanOpen!One) = Code(v.command)
        /\ Eds.node = 1
        /\ CanOpen!Operational = 5 /\ CanOpen!HbStates["STOPPED"] = 4
        /\ CanOpen!HbStates["PRE_OPERATIONAL"] = 127
    BY DEF Code, CanOpen!One, Eds, CanOpen!Operational, CanOpen!HbStates
  <2> QED BY <2>1, <2>2, <2>3 DEF CanOpen!OnNmt
<1>4. node = With(node.state, node.open) /\ node.state \in StateCodes /\ node.open \in BOOLEAN
  BY DEF NodeShape, Nodes
<1>5. \A t : CanOpen!InBand(t) \in BOOLEAN /\ Node!InBand(Band(t)) = CanOpen!InBand(t)
  BY DEF CanOpen!InBand, Node!InBand, Band
<1>6. ASSUME NEW state \in StateCodes, NEW open \in BOOLEAN
      PROVE  /\ With(state, open) \in Nodes
             /\ With(state, open).temperature = node.temperature
             /\ With(state, open).state = state
             /\ Seen(With(state, open))
                  = [state |-> StateName(state), temperature |-> Band(node.temperature),
                     open |-> open, nextTpdo |-> node.nextTpdo, nextHb |-> node.nextHb]
  BY DEF NodeShape, Nodes, Seen
<1>7. CASE Code(v.node) # 1 \/ c = ""
  <2>1. new = node
    BY <1>3, <1>7
  <2>2. Seen(new) = Node!Nmt("ignored") /\ "ignored" \in Node!Commands
    BY <2>1 DEF Node!Nmt, Node!Commands, Seen, SeenNode
  <2>3. Obeyed(new.state, v)
    BY <1>7 DEF Obeyed, Code
  <2> QED BY <2>1, <2>2, <2>3 DEF NodeShape
<1>8. ASSUME Code(v.node) = 1, c # "", NEW state \in StateCodes, NEW open \in BOOLEAN,
             new = With(state, open), StateName(state) = CanOpen!StateAfter(c),
             c \in Node!Commands,
             Node!Nmt(c) = [state |-> StateName(state), temperature |-> Band(node.temperature),
                            open |-> open, nextTpdo |-> node.nextTpdo, nextHb |-> node.nextHb]
      PROVE  /\ new \in Nodes /\ new.temperature = node.temperature /\ Obeyed(new.state, v)
             /\ \E command \in Node!Commands : Seen(new) = Node!Nmt(command)
  <2>1. /\ new \in Nodes /\ new.temperature = node.temperature /\ new.state = state
        /\ Seen(new) = Node!Nmt(c)
    BY <1>6, <1>8
  <2>2. Obeyed(new.state, v)
    BY <1>8, <2>1 DEF Obeyed, Code, StateName
  <2> QED BY <1>8, <2>1, <2>2
<1>9. SeenNode = [state |-> StateName(node.state), temperature |-> Band(node.temperature),
                  open |-> node.open, nextTpdo |-> node.nextTpdo, nextHb |-> node.nextHb]
  BY DEF SeenNode
<1>10. {"START", "STOP", "PRE_OPERATIONAL"} \subseteq Node!Commands /\ {4, 5, 127} = StateCodes
  BY DEF Node!Commands, StateCodes
<1>11. CASE Code(v.node) = 1 /\ c = "START"
  <2> DEFINE in == CanOpen!InBand(node.temperature)
             n == [SeenNode EXCEPT !.state = "OPERATIONAL"]
  <2>1. new = With(5, in)
    BY <1>3, <1>4, <1>11
  <2>2. Node!Nmt(c) = [n EXCEPT !.open = Node!InBand(SeenNode.temperature)]
    BY <1>11, Zenon DEF Node!Nmt
  <2>3. Node!InBand(SeenNode.temperature) = in /\ in \in BOOLEAN
    BY <1>5, <1>9
  <2>4. n = [state |-> "OPERATIONAL", temperature |-> Band(node.temperature),
             open |-> node.open, nextTpdo |-> node.nextTpdo, nextHb |-> node.nextHb]
    BY <1>9
  <2> HIDE DEF n, in, With, c
  <2>5. Node!Nmt(c) = [state |-> "OPERATIONAL", temperature |-> Band(node.temperature),
                       open |-> in, nextTpdo |-> node.nextTpdo, nextHb |-> node.nextHb]
    BY <2>2, <2>3, <2>4
  <2>6. StateName(5) = "OPERATIONAL" /\ CanOpen!StateAfter("START") = "OPERATIONAL"
    BY StateNames DEF StateName, CanOpen!StateAfter
  <2> QED BY <1>8, <1>10, <1>11, <2>1, <2>3, <2>5, <2>6
<1>12. CASE Code(v.node) = 1 /\ c = "STOP"
  <2>1. new = With(4, node.open)
    BY <1>3, <1>4, <1>12
  <2>2. Node!Nmt(c) = [SeenNode EXCEPT !.state = "STOPPED"]
    BY <1>12, Zenon DEF Node!Nmt
  <2> HIDE DEF With, c
  <2>3. Node!Nmt(c) = [state |-> "STOPPED", temperature |-> Band(node.temperature),
                       open |-> node.open, nextTpdo |-> node.nextTpdo, nextHb |-> node.nextHb]
    BY <1>9, <2>2
  <2>4. StateName(4) = "STOPPED" /\ CanOpen!StateAfter("STOP") = "STOPPED"
    BY StateNames DEF StateName, CanOpen!StateAfter
  <2> QED BY <1>4, <1>8, <1>10, <1>12, <2>1, <2>3, <2>4
<1>13. CASE Code(v.node) = 1 /\ c = "PRE_OPERATIONAL"
  <2>1. new = With(127, node.open)
    BY <1>3, <1>4, <1>13
  <2>2. Node!Nmt(c) = [SeenNode EXCEPT !.state = "PRE_OPERATIONAL"]
    BY <1>13, Zenon DEF Node!Nmt
  <2> HIDE DEF With, c
  <2>3. Node!Nmt(c) = [state |-> "PRE_OPERATIONAL", temperature |-> Band(node.temperature),
                       open |-> node.open, nextTpdo |-> node.nextTpdo, nextHb |-> node.nextHb]
    BY <1>9, <2>2
  <2>4. StateName(127) = "PRE_OPERATIONAL"
        /\ CanOpen!StateAfter("PRE_OPERATIONAL") = "PRE_OPERATIONAL"
    BY StateNames DEF StateName, CanOpen!StateAfter
  <2> QED BY <1>4, <1>8, <1>10, <1>13, <2>1, <2>3, <2>4
<1> QED BY <1>1, <1>2, <1>7, <1>11, <1>12, <1>13

LEMMA TemperaturesDo ==
  ASSUME NodeShape, NEW v \in TemperatureValues, NEW new,
         new = CanOpen!OnRpdo(TemperatureFrame(v).data)
  PROVE  /\ new \in Nodes /\ new.state = node.state
         /\ Near(new.temperature, v)
         /\ \E temperature \in Node!Temperatures : Seen(new) = Node!Rpdo(temperature)
<1> DEFINE t == 10 * Tenths(v.temperature)
           in == CanOpen!InBand(t)
           operational == node.state = CanOpen!Operational
           open == IF operational THEN in ELSE node.open
<1>1. /\ CanOpen!Decode(Eds, "RPDO1", TemperatureFrame(v).data, "temperature") = CanOpen!Done(t)
      /\ t \in Int /\ Near(t, v)
  BY TemperatureHeard
<1>2. CanOpen!Done(t).result = "ok" /\ CanOpen!Done(t).value = t
  BY DEF CanOpen!Done
<1> HIDE DEF t
<1>3. new = [node EXCEPT !.temperature = t, !.open = open]
  BY <1>1, <1>2, Zenon DEF CanOpen!OnRpdo
<1>4. /\ in \in BOOLEAN /\ node.open \in BOOLEAN /\ node.state \in StateCodes
      /\ node = [state |-> node.state, temperature |-> node.temperature, open |-> node.open,
                 nextTpdo |-> node.nextTpdo, nextHb |-> node.nextHb]
  BY DEF CanOpen!InBand, NodeShape, Nodes
<1>5. open \in BOOLEAN
  BY <1>4
<1>6. operational <=> SeenNode.state = "OPERATIONAL"
  BY <1>4, StateNames DEF SeenNode, StateName, StateCodes, CanOpen!Operational, CanOpen!HbStates
<1>7. Node!InBand(Band(t)) = in /\ Band(t) \in Node!Temperatures
  BY DEF CanOpen!InBand, Node!InBand, Band, Node!Temperatures
<1>8. SeenNode = [state |-> StateName(node.state), temperature |-> Band(node.temperature),
                  open |-> node.open, nextTpdo |-> node.nextTpdo, nextHb |-> node.nextHb]
  BY DEF SeenNode
<1> HIDE DEF in, operational
<1>9. new = [state |-> node.state, temperature |-> t, open |-> open,
             nextTpdo |-> node.nextTpdo, nextHb |-> node.nextHb]
  <2> HIDE DEF open
  <2> DEFINE n == [node EXCEPT !.temperature = t]
  <2>1. n = [state |-> node.state, temperature |-> t, open |-> node.open,
             nextTpdo |-> node.nextTpdo, nextHb |-> node.nextHb]
    BY <1>4
  <2>2. new = [n EXCEPT !.open = open]
    BY <1>3
  <2> HIDE DEF n
  <2> QED BY <2>1, <2>2
<1>10. Node!Rpdo(Band(t)) = [state |-> StateName(node.state), temperature |-> Band(t),
                             open |-> open, nextTpdo |-> node.nextTpdo, nextHb |-> node.nextHb]
  <2> DEFINE n == [SeenNode EXCEPT !.temperature = Band(t)]
  <2>1. n = [state |-> StateName(node.state), temperature |-> Band(t),
             open |-> node.open, nextTpdo |-> node.nextTpdo, nextHb |-> node.nextHb]
    BY <1>8
  <2>2. Node!Rpdo(Band(t)) = IF operational THEN [n EXCEPT !.open = in] ELSE n
    BY <1>6, <1>7, Zenon DEF Node!Rpdo
  <2> HIDE DEF n
  <2> QED BY <2>1, <2>2
<1> HIDE DEF open
<1>11. Seen(new) = Node!Rpdo(Band(t))
  BY <1>9, <1>10 DEF Seen
<1>12. new \in Nodes /\ new.state = node.state /\ new.temperature = t
  BY <1>1, <1>5, <1>9 DEF NodeShape, Nodes
<1> QED BY <1>1, <1>7, <1>11, <1>12

-----------------------------------------------------------------------------
(* The steps of the tick: a routed frame, and its end.                     *)

StateNamesDiffer == \A s, t \in StateCodes : StateName(s) = StateName(t) => s = t

LEMMA NamesDiffer == StateNamesDiffer
BY StateNames DEF StateNamesDiffer, StateName, StateCodes

\* A frame is routed: what the node then is, what is left of the list, and that
\* all else is as before.
LEMMA RouteDoes ==
  ASSUME CanOpenInv, CanOpen!Route, NEW frame, frame = pushed.frames[pushed.routed + 1]
  PROVE  /\ pushed.routed + 1 \in DOMAIN pushed.frames /\ frame \in Frames
         /\ pc = "route" /\ UNCHANGED <<time, pc, bus, masters>>
         /\ pushed' = [frames |-> pushed.frames, routed |-> pushed.routed + 1]
         /\ node' = CASE frame.id = 0 -> CanOpen!OnNmt(frame.data)
                      [] frame.id = 513 -> CanOpen!OnRpdo(frame.data)
                      [] OTHER -> node
         /\ since' = [valve |-> IF node'.open = node.open THEN since.valve ELSE time,
                      state |-> IF node'.state = node.state THEN since.state ELSE time]
<1>1. /\ pushed.frames \in Seq(Frames) /\ pushed.routed \in 0 .. Len(pushed.frames)
      /\ pushed = [frames |-> pushed.frames, routed |-> pushed.routed]
  BY DEF CanOpenInv, PushedShape
<1>2. /\ pc = "route" /\ UNCHANGED <<time, pc, bus, masters>>
      /\ pushed.routed < Len(pushed.frames)
      /\ pushed' = [pushed EXCEPT !.routed = pushed.routed + 1]
  BY DEF CanOpen!Route
<1>3. Len(pushed.frames) \in Nat /\ DOMAIN pushed.frames = 1 .. Len(pushed.frames)
  BY <1>1, LenProperties
<1>4. pushed.routed + 1 \in DOMAIN pushed.frames
  BY <1>1, <1>2, <1>3
<1>5. frame \in Frames
  BY <1>1, <1>3, <1>4, ElementOfSeq
<1>6. pushed' = [frames |-> pushed.frames, routed |-> pushed.routed + 1]
  BY <1>1, <1>2
<1>7. /\ node' = CASE frame.id = 0 -> CanOpen!OnNmt(frame.data)
                   [] frame.id = 513 -> CanOpen!OnRpdo(frame.data)
                   [] OTHER -> node
      /\ since' = [valve |-> IF node'.open = node.open THEN since.valve ELSE time,
                   state |-> IF node'.state = node.state THEN since.state ELSE time]
  BY Identifiers DEF CanOpen!Route
<1> QED BY <1>2, <1>4, <1>5, <1>6, <1>7

\* The three kinds of frames there are for the node.
LEMMA RouteKinds ==
  ASSUME CanOpenInv, CanOpen!Route, NEW frame, frame = pushed.frames[pushed.routed + 1]
  PROVE  /\ node' \in Nodes
         /\ \/ /\ frame.id = 0 /\ node'.temperature = node.temperature
               /\ Obeyed(node'.state, masters[2].told)
               /\ \E command \in Node!Commands : SeenNode' = Node!Nmt(command)
            \/ /\ frame.id = 513 /\ node'.state = node.state
               /\ Near(node'.temperature, masters[1].told)
               /\ \E temperature \in Node!Temperatures : SeenNode' = Node!Rpdo(temperature)
            \/ frame.id \notin {0, 513} /\ node' = node
<1>1. SeenNode' = Seen(node')
  BY DEF SeenNode, Seen, StateName, Band, CanOpen!InBand
<1>2. /\ masters[1].told \in TemperatureValues \cup {<<>>}
      /\ masters[2].told \in CommandValues \cup {<<>>}
      /\ AsTold /\ NodeShape
  BY DEF CanOpenInv, MastersShape, Master
<1>3. CASE frame.id = 0
  <2>1. masters[2].told \in CommandValues /\ frame = CommandFrame(masters[2].told)
    BY <1>2, <1>3, RouteDoes DEF AsTold
  <2>2. node' = CanOpen!OnNmt(CommandFrame(masters[2].told).data)
    BY <1>3, <2>1, RouteDoes
  <2> QED BY <1>1, <1>2, <1>3, <2>1, <2>2, CommandsDo
<1>4. CASE frame.id = 513
  <2>1. masters[1].told \in TemperatureValues /\ frame = TemperatureFrame(masters[1].told)
    BY <1>2, <1>4, RouteDoes DEF AsTold
  <2>2. node' = CanOpen!OnRpdo(TemperatureFrame(masters[1].told).data)
    BY <1>4, <2>1, RouteDoes
  <2> QED BY <1>1, <1>2, <1>4, <2>1, <2>2, TemperaturesDo
<1>5. CASE frame.id \notin {0, 513}
  BY <1>2, <1>5, RouteDoes DEF NodeShape
<1> QED BY <1>3, <1>4, <1>5

LEMMA StillPending ==
  ASSUME CanOpenInv, CanOpen!Route, NEW id, pushed.frames[pushed.routed + 1].id # id, Pending(id)
  PROVE  Pending(id)'
<1>1. pushed'.frames = pushed.frames /\ pushed'.routed = pushed.routed + 1
  BY RouteDoes
<1>2. PICK i \in DOMAIN pushed.frames : i > pushed.routed /\ pushed.frames[i].id = id
  BY DEF Pending
<1>3. i # pushed.routed + 1 /\ pushed.routed \in Nat /\ i \in Nat
  BY <1>2, LenProperties DEF CanOpenInv, PushedShape
<1>4. i > pushed.routed + 1
  BY <1>2, <1>3
<1> QED BY <1>1, <1>2, <1>4 DEF Pending

LEMMA RouteCanOpen ==
  ASSUME CanOpenInv, CanOpen!Route
  PROVE  CanOpenInv'
<1> DEFINE frame == pushed.frames[pushed.routed + 1]
<1>1. /\ pushed.routed + 1 \in DOMAIN pushed.frames
      /\ pc = "route" /\ UNCHANGED <<time, pc, bus, masters>>
      /\ pushed' = [frames |-> pushed.frames, routed |-> pushed.routed + 1]
      /\ since' = [valve |-> IF node'.open = node.open THEN since.valve ELSE time,
                   state |-> IF node'.state = node.state THEN since.state ELSE time]
  BY RouteDoes
<1>2. node' \in Nodes
  BY RouteKinds
<1>3. PushedShape'
  <2>1. /\ pushed.frames \in Seq(Frames) /\ DOMAIN pushed.frames = 1 .. Len(pushed.frames)
        /\ Len(pushed.frames) \in Nat
        /\ \A i, j \in DOMAIN pushed.frames : pushed.frames[i].id = pushed.frames[j].id => i = j
    BY LenProperties DEF CanOpenInv, PushedShape
  <2>2. pushed'.frames = pushed.frames /\ pushed'.routed = pushed.routed + 1
    BY <1>1
  <2>3. pushed.routed + 1 \in 0 .. Len(pushed.frames)
    BY <1>1, <2>1
  <2> QED BY <1>1, <2>1, <2>2, <2>3 DEF PushedShape
<1>4. AsTold'
  BY <1>1 DEF CanOpenInv, AsTold
<1>5. Settled'
  <2>1. masters'[1].told = masters[1].told /\ masters'[2].told = masters[2].told /\ Settled
    BY <1>1 DEF CanOpenInv
  <2>2. CASE frame.id = 0 /\ node'.temperature = node.temperature
             /\ Obeyed(node'.state, masters[2].told)
    <3>1. Pending(513) => Pending(513)'
      BY <2>2, StillPending
    <3> QED BY <2>1, <2>2, <3>1 DEF Settled
  <2>3. CASE frame.id = 513 /\ node'.state = node.state
             /\ Near(node'.temperature, masters[1].told)
    <3>1. Pending(0) => Pending(0)'
      BY <2>3, StillPending
    <3> QED BY <2>1, <2>3, <3>1 DEF Settled
  <2>4. CASE frame.id \notin {0, 513} /\ node' = node
    <3>1. (Pending(0) => Pending(0)') /\ (Pending(513) => Pending(513)')
      BY <2>4, StillPending
    <3> QED BY <2>1, <2>4, <3>1 DEF Settled
  <2> QED BY <2>2, <2>3, <2>4, RouteKinds
<1>6. since' = [valve |-> since'.valve, state |-> since'.state]
  BY <1>1
<1> QED BY <1>1, <1>2, <1>3, <1>4, <1>5, <1>6
        DEF CanOpenInv, NodeShape, BusShape, MastersShape

LEMMA RouteRefines ==
  ASSUME CanOpenInv, CanOpen!Route
  PROVE  Node!NmtFrame \/ Node!RpdoFrame \/ UNCHANGED Node!vars
<1>1. /\ pc = "route" /\ UNCHANGED <<time, pc, bus, masters>>
      /\ pushed' = [frames |-> pushed.frames, routed |-> pushed.routed + 1]
      /\ since' = [valve |-> IF node'.open = node.open THEN since.valve ELSE time,
                   state |-> IF node'.state = node.state THEN since.state ELSE time]
  BY RouteDoes
<1>2. SeenPushed' = SeenPushed /\ SeenBus' = SeenBus
  <2>1. pushed'.frames = pushed.frames
    BY <1>1
  <2> QED BY <1>1, <2>1 DEF SeenPushed, SeenBus, CanOpen!PushedWith, CanOpen!SeenValve, CanOpen!SeenState
<1>3. /\ SeenNode'.open = node'.open /\ SeenNode'.state = StateName(node'.state)
      /\ SeenNode.open = node.open /\ SeenNode.state = StateName(node.state)
  BY DEF SeenNode, StateName
<1>4. StateName(node'.state) = StateName(node.state) <=> node'.state = node.state
  BY RouteKinds, NamesDiffer DEF StateNamesDiffer, CanOpenInv, NodeShape, Nodes
<1>5. since' = [valve |-> IF SeenNode'.open = SeenNode.open THEN since.valve ELSE time,
                state |-> IF SeenNode'.state = SeenNode.state THEN since.state ELSE time]
  BY <1>1, <1>3, <1>4
<1>6. Node!Hears(SeenNode')
  BY <1>1, <1>2, <1>5 DEF Node!Hears
<1>7. ASSUME NEW command \in Node!Commands, SeenNode' = Node!Nmt(command) PROVE Node!NmtFrame
  BY <1>6, <1>7, Zenon DEF Node!NmtFrame
<1>8. ASSUME NEW temperature \in Node!Temperatures, SeenNode' = Node!Rpdo(temperature)
      PROVE  Node!RpdoFrame
  BY <1>6, <1>8, Zenon DEF Node!RpdoFrame
<1>9. CASE node' = node
  <2>1. SeenNode' = SeenNode
    BY <1>9 DEF SeenNode, StateName, Band, CanOpen!InBand
  <2>2. since' = since
    BY <1>5, <2>1 DEF CanOpenInv
  <2> QED BY <1>1, <1>2, <2>1, <2>2 DEF Node!vars
<1> QED BY <1>7, <1>8, <1>9, RouteKinds

\* The newest frame with an id is the only one.
LEMMA NewestIs ==
  ASSUME CanOpenInv, NEW id
  PROVE  \/ DataOf(pushed.frames, id) = {} /\ CanOpen!Newest(id) = bus[id]
         \/ DataOf(pushed.frames, id) = {CanOpen!Newest(id)}
<1> DEFINE frames == pushed.frames
           sent == {i \in DOMAIN frames : frames[i].id = id}
           newest == CHOOSE i \in sent : \A j \in sent : j <= i
<1>1. CanOpen!Newest(id) = IF sent = {} THEN bus[id] ELSE frames[newest].data
  BY DEF CanOpen!Newest
<1>2. DataOf(frames, id) = {frames[i].data : i \in sent}
  BY DEF DataOf, Elements
<1>3. /\ \A i, j \in DOMAIN frames : frames[i].id = frames[j].id => i = j
      /\ \A i \in DOMAIN frames : i \in Nat
  BY LenProperties DEF CanOpenInv, PushedShape
<1>4. CASE sent = {}
  BY <1>1, <1>2, <1>4
<1>5. ASSUME NEW i \in sent PROVE DataOf(frames, id) = {CanOpen!Newest(id)}
  <2>1. sent = {i}
    BY <1>3
  <2>2. i <= i
    BY <1>3
  <2>3. newest = i
    <3> HIDE DEF sent
    <3> QED BY <2>1, <2>2
  <2> HIDE DEF sent, newest
  <2> QED BY <1>1, <1>2, <2>1, <2>3
<1> QED BY <1>4, <1>5

LEMMA DataShapes ==
  ASSUME CanOpenInv
  PROVE  /\ DataOf(pushed.frames, 385) \subseteq {ValveFrame(open) : open \in BOOLEAN}
         /\ DataOf(pushed.frames, 1793) \subseteq {StateFrame(s) : s \in StateCodes}
         /\ \A id : DataOf(pushed.frames, id) \subseteq {f.data : f \in Frames}
<1>1. ASSUME NEW f \in Elements(pushed.frames) PROVE f \in Frames
  BY ElementOfSeq, LenProperties DEF CanOpenInv, PushedShape, Elements
<1>2. ASSUME NEW f \in Frames, f.id = 385 PROVE f.data \in {ValveFrame(open) : open \in BOOLEAN}
  BY <1>2, FrameIds DEF Frames
<1>3. ASSUME NEW f \in Frames, f.id = 1793 PROVE f.data \in {StateFrame(s) : s \in StateCodes}
  BY <1>3, FrameIds DEF Frames
<1>4. ASSUME NEW id, NEW d \in DataOf(pushed.frames, id)
      PROVE  \E f \in Frames : f.id = id /\ d = f.data
  BY <1>1 DEF DataOf
<1> QED BY <1>2, <1>3, <1>4

LEMMA EndTickDoes ==
  ASSUME CanOpenInv, CanOpen!EndTick
  PROVE  /\ pc = "route" /\ pc' = "idle" /\ time' = time + StepUs
         /\ pushed.routed = Len(pushed.frames)
         /\ UNCHANGED <<node, since, masters>>
         /\ pushed' = [frames |-> <<>>, routed |-> 0] /\ pushed'.frames = <<>> /\ pushed'.routed = 0
         /\ bus' = [id \in {385, 1793} |-> CanOpen!Newest(id)]
         /\ bus'[385] = CanOpen!Newest(385) /\ bus'[1793] = CanOpen!Newest(1793)
<1>1. DOMAIN bus = {385, 1793}
  BY DEF CanOpenInv, BusShape
<1>2. bus' = [id \in {385, 1793} |-> CanOpen!Newest(id)]
  BY <1>1 DEF CanOpen!EndTick
<1> QED BY <1>2 DEF CanOpen!EndTick

LEMMA EndTickCanOpen ==
  ASSUME CanOpenInv, CanOpen!EndTick
  PROVE  CanOpenInv'
<1>1. time' \in Nat
  BY EndTickDoes, SilAssumption DEF CanOpenInv
<1>2. BusShape'
  <2>1. BusShape
    BY DEF CanOpenInv
  <2>2. CanOpen!Newest(385) \in {<<>>} \cup {ValveFrame(open) : open \in BOOLEAN}
    BY <2>1, NewestIs, DataShapes DEF BusShape
  <2>3. CanOpen!Newest(1793) \in {<<>>} \cup {StateFrame(s) : s \in StateCodes}
    BY <2>1, NewestIs, DataShapes DEF BusShape
  <2>4. ASSUME NEW id \in {385, 1793}
        PROVE  CanOpen!Newest(id) \in {<<>>} \cup {f.data : f \in Frames}
    BY <2>1, NewestIs, DataShapes DEF BusShape
  <2> QED BY <2>2, <2>3, <2>4, EndTickDoes DEF BusShape
<1>3. PushedShape'
  <2>1. <<>> \in Seq(Frames) /\ Len(<<>>) = 0 /\ DOMAIN <<>> = {}
    OBVIOUS
  <2>2. pushed'.frames = <<>> /\ pushed'.routed = 0 /\ pushed' = [frames |-> <<>>, routed |-> 0]
    BY EndTickDoes
  <2>3. pushed'.frames \in Seq(Frames) /\ pushed'.routed \in 0 .. Len(pushed'.frames)
    BY <2>1, <2>2
  <2>4. pushed' = [frames |-> pushed'.frames, routed |-> pushed'.routed]
    BY <2>2
  <2>5. \A i, j \in DOMAIN pushed'.frames : pushed'.frames[i].id = pushed'.frames[j].id => i = j
    BY <2>1, <2>2
  <2> QED BY <2>2, <2>3, <2>4, <2>5 DEF PushedShape
<1>4. AsTold'
  <2>1. DOMAIN <<>> = {}
    OBVIOUS
  <2> QED BY <2>1, EndTickDoes DEF AsTold
<1>5. Settled'
  <2>1. ASSUME NEW id PROVE ~Pending(id)
    BY EndTickDoes, LenProperties DEF CanOpenInv, PushedShape, Pending
  <2> QED BY <2>1, EndTickDoes DEF CanOpenInv, Settled
<1> QED BY <1>1, <1>2, <1>3, <1>4, <1>5, EndTickDoes DEF CanOpenInv, NodeShape, MastersShape

LEMMA EndTickRefines ==
  ASSUME CanOpenInv, CanOpen!EndTick
  PROVE  Node!EndTick
<1>1. SeenPushed' = Node!NothingPushed
  <2>1. (/\ SeenPushed.valve = {CanOpen!SeenValve(d) : d \in DataOf(pushed.frames, 385)}
         /\ SeenPushed.state = {CanOpen!SeenState(d) : d \in DataOf(pushed.frames, 1793)}
         /\ SeenPushed = [valve |-> SeenPushed.valve, state |-> SeenPushed.state])'
    BY SeenFrames, PTL
  <2>2. \A id : DataOf(<<>>, id) = {}
    BY DEF DataOf, Elements
  <2> QED BY <2>1, <2>2, EndTickDoes DEF Node!NothingPushed
<1>2. /\ SeenPushed.valve = {CanOpen!SeenValve(d) : d \in DataOf(pushed.frames, 385)}
      /\ SeenPushed.state = {CanOpen!SeenState(d) : d \in DataOf(pushed.frames, 1793)}
  BY SeenFrames
<1>3. /\ SeenBus.valve = (bus[385] # <<>> /\ CanOpen!SeenValve(bus[385]))
      /\ SeenBus.state = IF bus[1793] = <<>> THEN "PRE_OPERATIONAL"
                         ELSE CanOpen!SeenState(bus[1793])
      /\ SeenBus'.valve = (bus'[385] # <<>> /\ CanOpen!SeenValve(bus'[385]))
      /\ SeenBus'.state = IF bus'[1793] = <<>> THEN "PRE_OPERATIONAL"
                          ELSE CanOpen!SeenState(bus'[1793])
      /\ SeenBus' = [valve |-> SeenBus'.valve, state |-> SeenBus'.state]
  BY Identifiers DEF SeenBus, CanOpen!SeenValve, CanOpen!SeenState
<1>4. SeenBus'.valve = IF SeenPushed.valve = {} THEN SeenBus.valve
                       ELSE CHOOSE v \in SeenPushed.valve : TRUE
  <2>1. CASE DataOf(pushed.frames, 385) = {} /\ CanOpen!Newest(385) = bus[385]
    BY <1>2, <1>3, <2>1, EndTickDoes
  <2>2. CASE DataOf(pushed.frames, 385) = {CanOpen!Newest(385)}
    <3> DEFINE d == CanOpen!Newest(385)
    <3>1. SeenPushed.valve = {CanOpen!SeenValve(d)}
      BY <1>2, <2>2
    <3>2. d # <<>> /\ CanOpen!SeenValve(d) \in BOOLEAN
      <4>1. PICK open \in BOOLEAN : d = ValveFrame(open)
        BY <2>2, DataShapes
      <4> HIDE DEF d
      <4>2. d # <<>>
        BY <4>1, ValveSeen
      <4> QED BY <4>2 DEF CanOpen!SeenValve
    <3>3. (CHOOSE v \in {CanOpen!SeenValve(d)} : TRUE) = CanOpen!SeenValve(d)
      OBVIOUS
    <3>4. SeenBus'.valve = CanOpen!SeenValve(d)
      BY <1>3, <3>2, EndTickDoes
    <3> HIDE DEF d
    <3> QED BY <3>1, <3>3, <3>4
  <2> QED BY <2>1, <2>2, NewestIs
<1>5. SeenBus'.state = IF SeenPushed.state = {} THEN SeenBus.state
                       ELSE CHOOSE v \in SeenPushed.state : TRUE
  <2>1. CASE DataOf(pushed.frames, 1793) = {} /\ CanOpen!Newest(1793) = bus[1793]
    BY <1>2, <1>3, <2>1, EndTickDoes
  <2>2. CASE DataOf(pushed.frames, 1793) = {CanOpen!Newest(1793)}
    <3> DEFINE d == CanOpen!Newest(1793)
    <3>1. SeenPushed.state = {CanOpen!SeenState(d)}
      BY <1>2, <2>2
    <3>2. d # <<>>
      <4>1. PICK s \in StateCodes : d = StateFrame(s)
        BY <2>2, DataShapes
      <4> HIDE DEF d
      <4> QED BY <4>1, StateSeen
    <3>3. (CHOOSE v \in {CanOpen!SeenState(d)} : TRUE) = CanOpen!SeenState(d)
      OBVIOUS
    <3>4. SeenBus'.state = CanOpen!SeenState(d)
      BY <1>3, <3>2, EndTickDoes
    <3> HIDE DEF d
    <3> QED BY <3>1, <3>3, <3>4
  <2> QED BY <2>1, <2>2, NewestIs
<1>6. SeenBus' = [f \in {"valve", "state"} |->
                    IF SeenPushed[f] = {} THEN SeenBus[f] ELSE CHOOSE v \in SeenPushed[f] : TRUE]
  <2>1. DOMAIN SeenBus' = {"valve", "state"} /\ SeenBus' = [f \in {"valve", "state"} |-> SeenBus'[f]]
    BY DEF SeenBus
  <2>2. ASSUME NEW f \in {"valve", "state"}
        PROVE  SeenBus'[f] = IF SeenPushed[f] = {} THEN SeenBus[f]
                             ELSE CHOOSE v \in SeenPushed[f] : TRUE
    BY <1>4, <1>5
  <2> QED BY <2>1, <2>2, Zenon
<1>7. SeenNode' = SeenNode
  BY EndTickDoes DEF SeenNode, StateName, Band, CanOpen!InBand
<1>8. pc = "route" /\ pc' = "idle" /\ time' = time + StepUs /\ since' = since
  BY EndTickDoes
<1> QED BY <1>1, <1>6, <1>7, <1>8, Zenon DEF Node!EndTick

-----------------------------------------------------------------------------
(* The CANopen example as a whole.                                         *)

LEMMA CanOpenInit ==
  ASSUME CanOpen!Init
  PROVE  CanOpenInv /\ Node!Init
<1>1. /\ time = 0 /\ pc = "idle"
      /\ node = [state |-> 127, temperature |-> 0, open |-> FALSE, nextTpdo |-> 0, nextHb |-> 0]
      /\ pushed = [frames |-> <<>>, routed |-> 0]
      /\ bus = [id \in {385, 1793} |-> <<>>]
      /\ since = [valve |-> 0, state |-> 0]
      /\ masters = [i \in DOMAIN Masters |-> [values |-> Masters[i].values, next |-> 0, told |-> <<>>]]
  BY Identifiers DEF CanOpen!Init, CanOpen!HbStates
<1>2. NodeShape
  BY <1>1 DEF NodeShape, Nodes, StateCodes
<1>3. MastersShape /\ masters[1].told = <<>> /\ masters[2].told = <<>>
  <2>1. /\ masters[1] = [values |-> [temperature |-> 4500], next |-> 0, told |-> <<>>]
        /\ masters[2] = [values |-> [node |-> 100, command |-> 100], next |-> 0, told |-> <<>>]
        /\ DOMAIN masters = 1 .. 2 /\ masters = [i \in 1 .. 2 |-> masters[i]]
    BY <1>1, MastersAre
  <2>2. [temperature |-> 4500] \in TemperatureValues /\ [node |-> 100, command |-> 100] \in CommandValues
    BY DEF TemperatureValues, CommandValues
  <2>3. masters[1] \in Master(TemperatureValues)
    BY <2>1, <2>2 DEF Master
  <2>4. masters[2] \in Master(CommandValues)
    BY <2>1, <2>2 DEF Master
  <2> QED BY <2>1, <2>3, <2>4 DEF MastersShape
<1>4. BusShape
  BY <1>1 DEF BusShape
<1>5. /\ pushed.frames = <<>> /\ pushed.routed = 0
      /\ <<>> \in Seq(Frames) /\ Len(<<>>) = 0 /\ DOMAIN <<>> = {}
  BY <1>1
<1>6. PushedShape
  <2>1. pushed = [frames |-> pushed.frames, routed |-> pushed.routed]
    BY <1>1
  <2>2. pushed.frames \in Seq(Frames) /\ pushed.routed \in 0 .. Len(pushed.frames)
    BY <1>5
  <2>3. \A i, j \in DOMAIN pushed.frames : pushed.frames[i].id = pushed.frames[j].id => i = j
    BY <1>5
  <2> QED BY <1>5, <2>1, <2>2, <2>3 DEF PushedShape
<1>7. AsTold /\ Settled
  BY <1>3, <1>5 DEF AsTold, Settled
<1>8. CanOpenInv
  BY <1>1, <1>2, <1>3, <1>4, <1>6, <1>7 DEF CanOpenInv
<1>9. SeenNode = [state |-> "PRE_OPERATIONAL", temperature |-> "out", open |-> FALSE,
                  nextTpdo |-> 0, nextHb |-> 0]
  <2>1. StateName(127) = "PRE_OPERATIONAL"
    BY StateNames DEF StateName
  <2>2. Band(0) = "out"
    BY DEF Band, CanOpen!InBand, CanOpen!One
  <2>3. /\ node.state = 127 /\ node.temperature = 0 /\ node.open = FALSE
        /\ node.nextTpdo = 0 /\ node.nextHb = 0
    BY <1>1
  <2> QED BY <2>1, <2>2, <2>3, Zenon DEF SeenNode
<1>10. SeenPushed = Node!NothingPushed
  <2>1. \A id : DataOf(<<>>, id) = {}
    BY DEF DataOf, Elements
  <2> QED BY <1>5, <2>1, SeenFrames DEF Node!NothingPushed
<1>11. SeenBus = [valve |-> FALSE, state |-> "PRE_OPERATIONAL"]
  <2>1. bus[385] = <<>> /\ bus[1793] = <<>>
    BY <1>1
  <2>2. /\ (bus[CanOpen!tpdo1(Eds.node)] # <<>>
               /\ CanOpen!SeenValve(bus[CanOpen!tpdo1(Eds.node)])) = FALSE
        /\ bus[CanOpen!heartbeat(Eds.node)] = <<>>
    BY <2>1, Identifiers
  <2> QED BY <2>2, Zenon DEF SeenBus
<1>12. Node!Init
  BY <1>1, <1>9, <1>10, <1>11, Zenon DEF Node!Init
<1> QED BY <1>8, <1>12

CanOpenHolds == CanOpenInv /\ Node!IInv

LEMMA CanOpenStep ==
  ASSUME CanOpenHolds, CanOpen!Next
  PROVE  CanOpenHolds' /\ (Node!Next \/ UNCHANGED Node!vars)
<1>1. CanOpenInv
  BY DEF CanOpenHolds
<1>2. CASE CanOpen!SetSignal
  <2>1. CanOpenInv' /\ UNCHANGED <<time, pc, node, pushed, bus, since>>
    BY <1>1, <1>2, SetSignalInv
  <2>2. UNCHANGED Node!vars
    BY <2>1 DEF Node!vars, SeenNode, SeenPushed, SeenBus, StateName, Band, CanOpen!InBand,
                CanOpen!PushedWith, CanOpen!SeenValve, CanOpen!SeenState
  <2> QED BY <2>1, <2>2, SilAssumption, Node!StepInv DEF CanOpenHolds
<1>3. CASE CanOpen!Update
  BY <1>1, <1>3, UpdateCanOpen, UpdateRefines, SilAssumption, Node!StepInv
     DEF CanOpenHolds, Node!Next
<1>4. CASE CanOpen!Route
  BY <1>1, <1>4, RouteCanOpen, RouteRefines, SilAssumption, Node!StepInv
     DEF CanOpenHolds, Node!Next
<1>5. CASE CanOpen!EndTick
  BY <1>1, <1>5, EndTickCanOpen, EndTickRefines, SilAssumption, Node!StepInv
     DEF CanOpenHolds, Node!Next
<1> QED BY <1>2, <1>3, <1>4, <1>5 DEF CanOpen!Next

-----------------------------------------------------------------------------
(* The pump.                                                               *)

PumpInv ==
  /\ time \in Nat
  /\ pc \in {"idle", "route"}
  /\ node \in [temperature : Pump!Temperatures, open : BOOLEAN, nextTx : Nat]
  /\ since = [temperature |-> node.temperature, at |-> since.at]
  /\ node.open = (node.temperature = "in")
  /\ Node!Carried(time, pc, node.nextTx, Period, pushed, bus, node.open, since.at)

LEMMA PumpStep ==
  ASSUME PumpInv, Pump!Next
  PROVE  PumpInv'
<1>1. /\ time \in Nat /\ StepUs \in Nat \ {0} /\ Period \in Nat \ {0}
      /\ node = [temperature |-> node.temperature, open |-> node.open, nextTx |-> node.nextTx]
      /\ node.temperature \in Pump!Temperatures /\ node.open \in BOOLEAN /\ node.nextTx \in Nat
      /\ node.open = (node.temperature = "in")
      /\ since.temperature = node.temperature
      /\ Node!Carried(time, pc, node.nextTx, Period, pushed, bus, node.open, since.at)
  BY SilAssumption DEF PumpInv
<1>2. CASE Pump!SensorInput
  <2>1. PICK temperature \in Pump!Temperatures :
          /\ node' = [node EXCEPT !.temperature = temperature, !.open = (temperature = "in")]
          /\ since' = IF temperature = since.temperature THEN since
                      ELSE [temperature |-> temperature, at |-> time]
    BY <1>2 DEF Pump!SensorInput
  <2>2. UNCHANGED <<time, pc, pushed, bus>>
    BY <1>2 DEF Pump!SensorInput
  <2>3. node' = [temperature |-> temperature, open |-> (temperature = "in"), nextTx |-> node.nextTx]
    BY <1>1, <2>1
  <2>4. /\ node'.open = (temperature = "in") /\ node'.temperature = temperature
        /\ node'.nextTx = node.nextTx /\ node'.open \in BOOLEAN
    BY <2>3
  <2>5. node'.open = node.open <=> temperature = node.temperature
    BY <1>1, <2>4 DEF Pump!Temperatures
  <2>6. /\ since'.at = IF node'.open = node.open THEN since.at ELSE time
        /\ since' = [temperature |-> temperature, at |-> since'.at]
    BY <1>1, <2>1, <2>5 DEF PumpInv
  <2>7. Node!Carried(time, pc, node.nextTx, Period, pushed, bus, node'.open,
                     IF node'.open = node.open THEN since.at ELSE time)
    BY <1>1, Node!CarriedHears
  <2> QED BY <1>1, <2>2, <2>3, <2>4, <2>6, <2>7 DEF PumpInv
<1>3. CASE Pump!Update
  <2>1. /\ pc = "idle" /\ pc' = "route" /\ UNCHANGED <<time, bus, since>>
        /\ pushed' = IF time >= node.nextTx THEN {node.open} ELSE {}
        /\ node' = IF time >= node.nextTx THEN [node EXCEPT !.nextTx = time + Period] ELSE node
    BY <1>3 DEF Pump!Update
  <2> DEFINE later == IF time >= node.nextTx THEN time + Period ELSE node.nextTx
  <2>2. later \in Nat
    BY <1>1
  <2>3. node' = [temperature |-> node.temperature, open |-> node.open, nextTx |-> later]
    BY <1>1, <2>1
  <2>4. Node!Carried(time, "route", later, Period, pushed', bus, node.open, since.at)
    BY <1>1, <2>1, Node!CarriedUpdate
  <2> HIDE DEF later
  <2>5. node'.temperature = node.temperature /\ node'.open = node.open /\ node'.nextTx = later
    BY <2>3
  <2> QED BY <1>1, <2>1, <2>2, <2>3, <2>4, <2>5 DEF PumpInv
<1>4. CASE Pump!EndTick
  <2>1. /\ pc = "route" /\ pc' = "idle" /\ time' = time + StepUs /\ UNCHANGED <<node, since>>
        /\ pushed' = {} /\ bus' = IF pushed = {} THEN bus ELSE CHOOSE v \in pushed : TRUE
    BY <1>4 DEF Pump!EndTick
  <2>2. Node!Carried(time + StepUs, "idle", node.nextTx, Period, {}, bus', node.open, since.at)
    BY <1>1, <2>1, Node!CarriedEnds
  <2>3. time' \in Nat
    BY <1>1, <2>1
  <2> QED BY <1>1, <2>1, <2>2, <2>3 DEF PumpInv
<1> QED BY <1>2, <1>3, <1>4 DEF Pump!Next

LEMMA PumpInit ==
  ASSUME Pump!Init
  PROVE  PumpInv
<1>1. /\ time = 0 /\ pc = "idle" /\ pushed = {} /\ bus = FALSE
      /\ node = [temperature |-> "out", open |-> FALSE, nextTx |-> 0]
      /\ since = [temperature |-> "out", at |-> 0]
  BY DEF Pump!Init
<1>2. Node!Carried(0, "idle", 0, Period, {}, FALSE, FALSE, 0)
  BY SilAssumption, Node!CarriedInit
<1> QED BY <1>1, <1>2 DEF PumpInv, Pump!Temperatures

LEMMA PumpFollows ==
  ASSUME PumpInv
  PROVE  Pump!ValveFollows
<1> SUFFICES ASSUME pc = "idle", time - since.at >= Pump!Kept(Period) + StepUs
             PROVE  bus <=> since.temperature = "in"
  BY DEF Pump!ValveFollows
<1>1. Node!Kept(Period) \in Nat /\ Period <= Node!Kept(Period) /\ Pump!Kept(Period) = Node!Kept(Period)
  BY SilAssumption, Node!KeptIsLonger DEF Pump!Kept, Node!Kept
<1>2. /\ time < node.nextTx + StepUs /\ since.at \in Int /\ node.nextTx \in Nat /\ time \in Nat
      /\ bus = node.open \/ since.at >= node.nextTx - Period
  BY DEF PumpInv, Node!Carried
<1>3. bus = node.open
  BY <1>1, <1>2, SilAssumption
<1> QED BY <1>3 DEF PumpInv

-----------------------------------------------------------------------------
(* The two valve controllers.                                              *)

NodesHold == /\ firmware = "canopen" => CanOpenHolds
             /\ firmware = "pump" => PumpInv

LEMMA NodesInit == Init => NodesHold
<1> SUFFICES ASSUME Init PROVE NodesHold
  OBVIOUS
<1>1. CASE firmware = "canopen"
  BY <1>1, CanOpenInit, SilAssumption, Node!InitInv DEF Init, NodesHold, CanOpenHolds
<1>2. CASE firmware = "pump"
  BY <1>2, PumpInit DEF Init, NodesHold
<1>3. CASE firmware \notin {"canopen", "pump"}
  BY <1>3 DEF NodesHold
<1> QED BY <1>1, <1>2, <1>3

LEMMA NodesStep ==
  ASSUME NodesHold, [Next]_Sil
  PROVE  /\ NodesHold'
         /\ firmware = "canopen" => Node!Next \/ UNCHANGED Node!vars
<1>1. CASE UNCHANGED Sil
  <2>1. UNCHANGED Node!vars
    BY <1>1 DEF Sil, Node!vars, SeenNode, SeenPushed, SeenBus, StateName, Band, CanOpen!InBand,
                CanOpen!PushedWith, CanOpen!SeenValve, CanOpen!SeenState
  <2>2. CanOpenInv => CanOpenInv'
    BY <1>1 DEF Sil, CanOpenInv, NodeShape, MastersShape, BusShape, PushedShape, AsTold,
                Settled, Pending
  <2>3. Node!IInv => Node!IInv'
    BY <2>1, SilAssumption, Node!StepInv
  <2>4. PumpInv => PumpInv'
    BY <1>1 DEF Sil, PumpInv
  <2> QED BY <1>1, <2>1, <2>2, <2>3, <2>4 DEF Sil, NodesHold, CanOpenHolds
<1>2. CASE Next
  <2>1. firmware' = firmware
    BY <1>2 DEF Next
  <2>2. CASE firmware = "canopen"
    BY <1>2, <2>1, <2>2, CanOpenStep DEF Next, NodesHold
  <2>3. CASE firmware = "pump"
    BY <1>2, <2>1, <2>3, PumpStep DEF Next, NodesHold
  <2>4. CASE firmware \notin {"canopen", "pump"}
    BY <2>1, <2>4 DEF NodesHold
  <2> QED BY <2>2, <2>3, <2>4
<1> QED BY <1>1, <1>2

\* The CANopen example and the pump keep to their invariants.
LEMMA NodesAlways == Spec => []NodesHold
<1>1. NodesHold /\ [Next]_Sil => NodesHold'
  BY NodesStep
<1> QED BY <1>1, NodesInit, PTL DEF Spec

\* The CANopen example implements the abstract node: it starts as the node does,
\* and each of its steps, the codec, the masters and the handlers included, is a
\* step of the node or changes nothing of it.
THEOREM NodeImplemented ==
  Spec => (firmware = "canopen" => CanOpen!Abstract!Init) /\ ImplementsNode
<1>1. Init => (firmware = "canopen" => CanOpen!Abstract!Init)
  BY CanOpenInit, SameStart DEF Init
<1>2. NodesHold /\ [Next]_Sil =>
        [firmware = "canopen" =>
           CanOpen!Abstract!Next \/ UNCHANGED CanOpen!Abstract!vars]_Sil
  BY NodesStep, SameStep, SameStutter
<1> QED BY <1>1, <1>2, NodesAlways, PTL DEF Spec, ImplementsNode

\* In OPERATIONAL the CANopen node's valve obeys the temperature it has decoded.
THEOREM ValveObeys == Spec => []OperationalLaw
<1>1. NodesHold => OperationalLaw
  <2> SUFFICES ASSUME Node!IInv PROVE CanOpen!Abstract!OperationalLaw
    BY DEF NodesHold, CanOpenHolds, OperationalLaw
  <2>1. Node!OperationalLaw
    BY Node!LawHolds
  <2> QED BY <2>1 DEF Node!OperationalLaw, Node!InBand, CanOpen!Abstract!OperationalLaw,
                      CanOpen!Abstract!InBand, SeenNode, StateName, Band
<1> QED BY <1>1, NodesAlways, PTL

\* Both valve controllers' decisions, and the CANopen node's state, are on the
\* bus within a period of their frame and a step, in bytes that decode to them.
THEOREM DecisionsReported == Spec => []Reported
<1>1. NodesHold => Reported
  <2>1. ASSUME Node!IInv PROVE CanOpen!Abstract!Reported
    <3>1. Node!Reported
      BY <2>1, SilAssumption, Node!CarriedInTime
    <3> QED BY <3>1 DEF Node!Reported, Node!Kept, CanOpen!Abstract!Reported,
                        CanOpen!Abstract!Kept, SeenNode, SeenBus, StateName, Band
  <2> QED BY <2>1, PumpFollows DEF NodesHold, CanOpenHolds, Reported
<1> QED BY <1>1, NodesAlways, PTL

\* Between ticks the firmware has heard what the config nodes told last.
THEOREM CommandsHeard == Spec => []CommandsArrive
<1>1. NodesHold => CommandsArrive
  <2> SUFFICES ASSUME NodesHold, firmware = "canopen" PROVE CanOpen!CommandsArrive
    BY DEF CommandsArrive
  <2>1. CanOpenInv
    BY DEF NodesHold, CanOpenHolds
  <2> SUFFICES ASSUME pc = "idle", NEW i \in DOMAIN Masters
               PROVE  /\ Masters[i].message = "NMT" /\ CanOpen!Told(i) # <<>> =>
                           LET command == CanOpen!SymbolOf(CanOpen!NmtCommands,
                                            CanOpen!Rounded(CanOpen!Told(i)["command"], CanOpen!One))
                           IN  CanOpen!Rounded(CanOpen!Told(i)["node"], CanOpen!One) = Eds.node
                                 /\ command # "" =>
                                 CanOpen!SymbolOf(CanOpen!HbStates, node.state)
                                   = CanOpen!StateAfter(command)
                      /\ Masters[i].message = "RPDO1" /\ CanOpen!Told(i) # <<>> =>
                           LET d == node.temperature - CanOpen!Told(i)["temperature"]
                           IN  2 * (IF d < 0 THEN -d ELSE d) <= Eds.rpdo1[1].factor
    BY Zenon DEF CanOpen!CommandsArrive
  <2>2. Settled /\ \A id : ~Pending(id)
    BY <2>1 DEF CanOpenInv, PushedShape, Pending
  <2>3. CASE i = 1
    <3>1. Masters[i].message = "RPDO1" /\ Eds.rpdo1[1].factor = 10
      BY <2>3, MastersAre DEF Eds
    <3> QED BY <2>2, <2>3, <3>1 DEF Settled, Near, CanOpen!Told
  <2>4. CASE i = 2
    <3>1. Masters[i].message = "NMT" /\ Eds.node = 1 /\ CanOpen!One = 100
      BY <2>4, MastersAre DEF Eds, CanOpen!One
    <3> QED BY <2>2, <2>4, <3>1 DEF Settled, Obeyed, CanOpen!Told
  <2>5. i = 1 \/ i = 2
    BY MastersAre
  <2> QED BY <2>3, <2>4, <2>5, Zenon
<1> QED BY <1>1, NodesAlways, PTL

-----------------------------------------------------------------------------
(* The rover.                                                              *)

Behaviours == [state : {"OFF", "ESTOP", "FAULT", "READY", "DRIVING"}, left : Int, right : Int]

Limited(b) == Robot!Magnitude(b.left) <= WheelMax /\ Robot!Magnitude(b.right) <= WheelMax

\* The firmware has decoded the newest values any frame has carried.
Commanded ==
  /\ node \in [speed : Int, steer : Int, estop : BOOLEAN, nextTx : Nat]
  /\ since \in [speed : Int, steer : Int, estop : BOOLEAN, at : Nat]
  /\ since.steer \in Steers
  /\ node.speed = since.speed /\ node.steer = since.steer /\ node.estop = since.estop

\* Since `nextTx - Period` the bus carries the behaviour, or is about to, unless
\* a command has changed since.
Carried ==
  /\ node.nextTx <= time + Period
  /\ pc = "idle" => /\ time < node.nextTx + StepUs
                    /\ pushed = {}
                    /\ bus = Robot!Behaviour(node) \/ since.at >= node.nextTx - Period
  /\ pc = "route" => /\ time < node.nextTx
                     /\ \/ pushed = {} /\ (bus = Robot!Behaviour(node)
                                           \/ since.at >= node.nextTx - Period)
                        \/ \E b \in Behaviours :
                             /\ pushed = {b} /\ Limited(b)
                             /\ b = Robot!Behaviour(node) \/ since.at >= node.nextTx - Period

RobotInv ==
  /\ time \in Nat
  /\ pc \in {"idle", "route"}
  /\ Commanded
  /\ bus \in Behaviours /\ Limited(bus)
  /\ Carried

IInv == firmware = "robot" => RobotInv

LEMMA InputsAreIntegers == Speeds \subseteq Int /\ Steers \subseteq Int
BY SilAssumption DEF Speeds, Steers

\* Half of a steering is a whole number.
LEMMA SteersAreEven ==
  ASSUME NEW steer \in Steers
  PROVE  steer \div 2 \in Int /\ 2 * (steer \div 2) = steer
<1>1. PICK h \in Int : steer = 2 * h
  <2>1. steer = 2 * 0 \/ steer = 2 * 1 \/ steer = 2 * (2 * WheelMax) \/ steer = 2 * (-2 * WheelMax)
    BY SilAssumption DEF Steers
  <2>2. 2 * WheelMax \in Int /\ -2 * WheelMax \in Int
    BY SilAssumption
  <2> QED BY <2>1, <2>2
<1>2. steer \div 2 = h
  BY <1>1
<1> QED BY <1>1, <1>2

\* clamp_speed finds the speed within the limits that is nearest.
LEMMA ClampIsNearest ==
  ASSUME NEW v \in Int
  PROVE  Robot!Nearest(Robot!Clamp(v), 2 * v)
<1>1. WheelMax \in Nat
  BY SilAssumption
<1>2. CASE v > WheelMax
  <2>1. Robot!Clamp(v) = WheelMax
    BY <1>2 DEF Robot!Clamp
  <2> QED BY <1>1, <1>2, <2>1 DEF Robot!Nearest, Robot!Magnitude
<1>3. CASE v < -WheelMax
  <2>1. Robot!Clamp(v) = -WheelMax
    BY <1>1, <1>3 DEF Robot!Clamp
  <2> QED BY <1>1, <1>3, <2>1 DEF Robot!Nearest, Robot!Magnitude
<1>4. CASE v \in -WheelMax .. WheelMax
  <2>1. Robot!Clamp(v) = v
    BY <1>1, <1>4 DEF Robot!Clamp
  <2> QED BY <1>1, <1>4, <2>1 DEF Robot!Nearest, Robot!Magnitude
<1> QED BY <1>1, <1>2, <1>3, <1>4

\* behaviour() is the priority list of the four states, on wheels within the
\* limit.
LEMMA BehaviourLimited ==
  ASSUME NEW n, n.speed \in Int, n.steer \in Int, n.estop \in BOOLEAN
  PROVE  Robot!Behaviour(n) \in Behaviours /\ Limited(Robot!Behaviour(n))
<1> DEFINE Wheels(l, r) == [state |-> "DRIVING", left |-> Robot!Clamp(l), right |-> Robot!Clamp(r)]
<1>1. ASSUME NEW s \in {"ESTOP", "FAULT", "READY"}
      PROVE  Robot!Still(s) \in Behaviours /\ Limited(Robot!Still(s))
  BY SilAssumption DEF Behaviours, Limited, Robot!Still, Robot!Magnitude
<1>2. ASSUME NEW v \in Int
      PROVE  Robot!Clamp(v) \in Int /\ Robot!Magnitude(Robot!Clamp(v)) <= WheelMax
  BY SilAssumption DEF Robot!Clamp, Robot!Magnitude
<1>3. n.speed - n.steer \div 2 \in Int /\ n.speed + n.steer \div 2 \in Int
  OBVIOUS
<1>4. ASSUME NEW l \in Int, NEW r \in Int PROVE Wheels(l, r) \in Behaviours /\ Limited(Wheels(l, r))
  BY <1>2 DEF Behaviours, Limited
<1>5. \/ \E s \in {"ESTOP", "FAULT", "READY"} : Robot!Behaviour(n) = Robot!Still(s)
      \/ Robot!Behaviour(n) = Wheels(n.speed - n.steer \div 2, n.speed + n.steer \div 2)
  <2>1. CASE n.estop
    BY <2>1 DEF Robot!Behaviour
  <2>2. CASE ~n.estop /\ Robot!Magnitude(n.speed) > MaxSpeed
    BY <2>2 DEF Robot!Behaviour
  <2>3. CASE ~n.estop /\ ~(Robot!Magnitude(n.speed) > MaxSpeed) /\ n.speed = 0 /\ n.steer = 0
    BY <2>3 DEF Robot!Behaviour
  <2>4. CASE ~n.estop /\ ~(Robot!Magnitude(n.speed) > MaxSpeed) /\ ~(n.speed = 0 /\ n.steer = 0)
    BY <2>4 DEF Robot!Behaviour
  <2> QED BY <2>1, <2>2, <2>3, <2>4
<1> HIDE DEF Wheels
<1> QED BY <1>1, <1>3, <1>4, <1>5

\* What a firmware decides depends on what it has decoded and on nothing else.
LEMMA SameBehaviour ==
  ASSUME NEW n, NEW m, n.speed = m.speed, n.steer = m.steer, n.estop = m.estop
  PROVE  Robot!Behaviour(n) = Robot!Behaviour(m)
BY DEF Robot!Behaviour

LEMMA HearsInv ==
  ASSUME RobotInv, NEW n, NEW speed \in Int, NEW steer \in Steers, NEW estop \in BOOLEAN,
         n = [node EXCEPT !.speed = speed, !.steer = steer, !.estop = estop],
         Robot!Hears(n, speed, steer, estop)
  PROVE  RobotInv'
<1>1. /\ time' = time /\ pc' = pc /\ pushed' = pushed /\ bus' = bus
      /\ since' = [speed |-> speed, steer |-> steer, estop |-> estop,
                   at |-> IF <<speed, steer, estop>> = <<since.speed, since.steer, since.estop>>
                          THEN since.at ELSE time]
      /\ node' = [speed |-> speed, steer |-> steer, estop |-> estop, nextTx |-> node.nextTx]
  BY DEF Robot!Hears, RobotInv, Commanded
<1>2. Commanded'
  BY <1>1, InputsAreIntegers DEF RobotInv, Commanded
<1>3. node'.nextTx = node.nextTx
  BY <1>1
<1>4. \/ since'.at = since.at /\ Robot!Behaviour(node') = Robot!Behaviour(node)
      \/ since'.at = time
  <2>1. CASE <<speed, steer, estop>> = <<since.speed, since.steer, since.estop>>
    <3>1. node'.speed = node.speed /\ node'.steer = node.steer /\ node'.estop = node.estop
      BY <1>1, <2>1 DEF RobotInv, Commanded
    <3>2. Robot!Behaviour(node') = Robot!Behaviour(node)
      BY <3>1, SameBehaviour
    <3> QED BY <1>1, <2>1, <3>2
  <2>2. CASE <<speed, steer, estop>> # <<since.speed, since.steer, since.estop>>
    BY <1>1, <2>2
  <2> QED BY <2>1, <2>2
<1>5. Carried'
  <2>1. /\ time \in Nat /\ node.nextTx \in Nat /\ since.at \in Nat
        /\ node.nextTx - Period <= time /\ pc \in {"idle", "route"}
    BY SilAssumption DEF RobotInv, Commanded, Carried
  <2>2. CASE since'.at = time
    BY <1>1, <1>3, <2>1, <2>2, SilAssumption DEF RobotInv, Carried
  <2>3. CASE since'.at = since.at /\ Robot!Behaviour(node') = Robot!Behaviour(node)
    BY <1>1, <1>3, <2>1, <2>3, SilAssumption DEF RobotInv, Carried
  <2> QED BY <1>4, <2>2, <2>3
<1> QED BY <1>1, <1>2, <1>5 DEF RobotInv, Limited, Robot!Magnitude

LEMMA FramesInv ==
  ASSUME RobotInv, Robot!DriveCommand \/ Robot!EStop \/ Robot!Ignored
  PROVE  RobotInv'
<1>1. /\ since.speed \in Int /\ since.steer \in Steers /\ since.estop \in BOOLEAN
      /\ node.speed = since.speed /\ node.steer = since.steer /\ node.estop = since.estop
      /\ node = [speed |-> node.speed, steer |-> node.steer, estop |-> node.estop,
                 nextTx |-> node.nextTx]
  BY DEF RobotInv, Commanded
<1>2. CASE Robot!DriveCommand
  <2>1. PICK speed \in Speeds, steer \in Steers :
          \/ Robot!Hears([node EXCEPT !.speed = speed], speed, since.steer, since.estop)
          \/ Robot!Hears([node EXCEPT !.speed = speed, !.steer = steer], speed, steer, since.estop)
    BY <1>2 DEF Robot!DriveCommand
  <2>2. speed \in Int
    BY InputsAreIntegers
  <2>3. CASE Robot!Hears([node EXCEPT !.speed = speed], speed, since.steer, since.estop)
    <3>1. [node EXCEPT !.speed = speed]
            = [node EXCEPT !.speed = speed, !.steer = since.steer, !.estop = since.estop]
      BY <1>1
    <3>2. Robot!Hears([node EXCEPT !.speed = speed, !.steer = since.steer, !.estop = since.estop],
                      speed, since.steer, since.estop)
      BY <2>3, <3>1, Zenon
    <3> QED BY <1>1, <2>2, <3>2, HearsInv, Zenon
  <2>4. CASE Robot!Hears([node EXCEPT !.speed = speed, !.steer = steer],
                         speed, steer, since.estop)
    <3>1. [node EXCEPT !.speed = speed, !.steer = steer]
            = [node EXCEPT !.speed = speed, !.steer = steer, !.estop = since.estop]
      BY <1>1
    <3>2. Robot!Hears([node EXCEPT !.speed = speed, !.steer = steer, !.estop = since.estop],
                      speed, steer, since.estop)
      BY <2>4, <3>1, Zenon
    <3> QED BY <1>1, <2>2, <3>2, HearsInv, Zenon
  <2> QED BY <2>1, <2>3, <2>4
<1>3. CASE Robot!EStop
  <2>1. PICK pressed \in BOOLEAN :
          Robot!Hears([node EXCEPT !.estop = pressed], since.speed, since.steer, pressed)
    BY <1>3 DEF Robot!EStop
  <2>2. [node EXCEPT !.estop = pressed]
          = [node EXCEPT !.speed = since.speed, !.steer = since.steer, !.estop = pressed]
    BY <1>1
  <2>3. Robot!Hears([node EXCEPT !.speed = since.speed, !.steer = since.steer, !.estop = pressed],
                    since.speed, since.steer, pressed)
    BY <2>1, <2>2, Zenon
  <2> QED BY <1>1, <2>3, HearsInv, Zenon
<1>4. CASE Robot!Ignored
  <2>1. node = [node EXCEPT !.speed = since.speed, !.steer = since.steer, !.estop = since.estop]
    BY <1>1
  <2>2. Robot!Hears([node EXCEPT !.speed = since.speed, !.steer = since.steer,
                                 !.estop = since.estop], since.speed, since.steer, since.estop)
    <3>1. Robot!Hears(node, since.speed, since.steer, since.estop)
      BY <1>4 DEF Robot!Ignored
    <3> QED BY <2>1, <3>1, Zenon
  <2> QED BY <1>1, <2>2, HearsInv, Zenon
<1> QED BY <1>2, <1>3, <1>4

LEMMA UpdateInv ==
  ASSUME RobotInv, Robot!Update
  PROVE  RobotInv'
<1>1. /\ pc = "idle" /\ pc' = "route" /\ time' = time /\ bus' = bus /\ since' = since
      /\ pushed = {} /\ time \in Nat /\ node.nextTx \in Nat /\ since.at \in Nat
  BY DEF Robot!Update, RobotInv, Carried, Commanded
<1>2. CASE time < node.nextTx
  <2>1. pushed' = {} /\ node' = node
    BY <1>2 DEF Robot!Update
  <2>2. Carried'
    BY <1>1, <1>2, <2>1 DEF RobotInv, Carried
  <2> QED BY <1>1, <2>1, <2>2 DEF RobotInv, Commanded, Limited, Robot!Magnitude
<1>3. CASE ~(time < node.nextTx)
  <2>1. /\ pushed' = {Robot!Behaviour(node)}
        /\ node' = [speed |-> node.speed, steer |-> node.steer, estop |-> node.estop,
                    nextTx |-> time + Period]
    BY <1>3 DEF Robot!Update, RobotInv, Commanded
  <2>2. Robot!Behaviour(node') = Robot!Behaviour(node)
    BY <2>1, SameBehaviour
  <2>3. Robot!Behaviour(node) \in Behaviours /\ Limited(Robot!Behaviour(node))
    BY BehaviourLimited DEF RobotInv, Commanded
  <2>4. Commanded'
    BY <1>1, <2>1, SilAssumption DEF RobotInv, Commanded
  <2>5. node'.nextTx = time + Period
    BY <2>1
  <2>6. \E b \in Behaviours : pushed' = {b} /\ Limited(b) /\ b = Robot!Behaviour(node')
    BY <2>1, <2>2, <2>3
  <2>7. Carried'
    BY <1>1, <2>5, <2>6, SilAssumption DEF Carried, Limited, Robot!Magnitude
  <2> QED BY <1>1, <2>4, <2>7 DEF RobotInv, Limited, Robot!Magnitude
<1> QED BY <1>2, <1>3

LEMMA EndTickInv ==
  ASSUME RobotInv, Robot!EndTick
  PROVE  RobotInv'
<1>1. /\ pc = "route" /\ pc' = "idle" /\ time' = time + StepUs /\ node' = node /\ since' = since
      /\ pushed' = {} /\ bus' = IF pushed = {} THEN bus ELSE CHOOSE b \in pushed : TRUE
  BY DEF Robot!EndTick
<1>2. /\ time \in Nat /\ time' \in Nat /\ node.nextTx \in Nat /\ since.at \in Nat
      /\ node.nextTx <= time' + Period /\ time' < node.nextTx + StepUs
  BY <1>1, SilAssumption DEF RobotInv, Commanded, Carried
<1>3. /\ bus' \in Behaviours /\ Limited(bus')
      /\ bus' = Robot!Behaviour(node) \/ since.at >= node.nextTx - Period
  <2>1. CASE pushed = {} /\ (bus = Robot!Behaviour(node) \/ since.at >= node.nextTx - Period)
    BY <1>1, <2>1 DEF RobotInv
  <2>2. ASSUME NEW b \in Behaviours, pushed = {b}, Limited(b),
               b = Robot!Behaviour(node) \/ since.at >= node.nextTx - Period
        PROVE  /\ bus' \in Behaviours /\ Limited(bus')
               /\ bus' = Robot!Behaviour(node) \/ since.at >= node.nextTx - Period
    <3>1. (CHOOSE x \in {b} : TRUE) = b
      OBVIOUS
    <3>2. bus' = b
      BY <1>1, <2>2, <3>1
    <3> QED BY <2>2, <3>2
  <2> QED BY <1>1, <2>1, <2>2 DEF RobotInv, Carried
<1>4. Carried'
  BY <1>1, <1>2, <1>3 DEF Carried
<1> QED BY <1>1, <1>2, <1>3, <1>4 DEF RobotInv, Commanded, Limited, Robot!Magnitude

LEMMA InitInv == Init => IInv
<1> SUFFICES ASSUME Init, firmware = "robot" PROVE RobotInv
  BY DEF IInv
<1>1. /\ time = 0 /\ pc = "idle" /\ pushed = {}
      /\ node = [speed |-> 0, steer |-> 0, estop |-> FALSE, nextTx |-> 0]
      /\ bus = [state |-> "OFF", left |-> 0, right |-> 0]
      /\ since = [speed |-> 0, steer |-> 0, estop |-> FALSE, at |-> 0]
  BY DEF Init, Robot!Init, Robot!Still
<1>2. Commanded
  BY <1>1 DEF Commanded, Steers
<1>3. bus \in Behaviours /\ Limited(bus)
  BY <1>1, SilAssumption DEF Behaviours, Limited, Robot!Magnitude
<1>4. Carried
  BY <1>1, SilAssumption DEF Carried
<1> QED BY <1>1, <1>2, <1>3, <1>4 DEF RobotInv

LEMMA StepInv == IInv /\ (Next \/ UNCHANGED Sil) => IInv'
<1> SUFFICES ASSUME IInv, Next \/ UNCHANGED Sil, firmware' = "robot" PROVE RobotInv'
  BY DEF IInv
<1>1. firmware = "robot" /\ RobotInv
  BY DEF Next, Sil, IInv
<1>2. CASE UNCHANGED Sil
  BY <1>1, <1>2 DEF Sil, RobotInv, Commanded, Carried, Limited, Robot!Magnitude,
                    Robot!Behaviour, Robot!Still, Robot!Clamp
<1>3. CASE Next
  <2>1. Robot!Next
    BY <1>1, <1>3 DEF Next
  <2>2. CASE Robot!DriveCommand \/ Robot!EStop \/ Robot!Ignored
    BY <1>1, <2>2, FramesInv
  <2>3. CASE Robot!Update
    BY <1>1, <2>3, UpdateInv
  <2>4. CASE Robot!EndTick
    BY <1>1, <2>4, EndTickInv
  <2> QED BY <2>1, <2>2, <2>3, <2>4 DEF Robot!Next
<1> QED BY <1>2, <1>3

\* The engine never shortens a period.
LEMMA KeptIsLonger == Robot!Kept(Period) \in Nat /\ Period <= Robot!Kept(Period)
<1> DEFINE q == (Period + StepUs - 1) \div StepUs
<1>1. /\ Period \in Nat \ {0} /\ StepUs \in Nat \ {0}
      /\ q \in Nat
      /\ Period + StepUs - 1 < StepUs * q + StepUs
  BY SilAssumption
<1> HIDE DEF q
<1>2. StepUs * q \in Nat
  BY <1>1
<1> QED BY <1>1, <1>2 DEF Robot!Kept, q

\* The bus carries the behaviour of the newest commands once they have stood.
LEMMA StoodIsCarried ==
  ASSUME RobotInv, pc = "idle", time - since.at >= Robot!Kept(Period) + StepUs
  PROVE  bus = Robot!Behaviour(node)
BY KeptIsLonger, SilAssumption DEF RobotInv, Commanded, Carried

-----------------------------------------------------------------------------

\* The rover's wheels never turn faster than WHEEL_MAX, and a period and a step
\* after the last change of speed, steering or stop the bus says what the newest
\* of each ask for: a stop, an over-speed and rest show as such and hold both
\* wheels, and with everything else the rover drives, each wheel as near to the
\* speed less or more half the steering as it can turn (firmware/robot lib.rs:63).
THEOREM RoverObeys == Spec => []RobotObeys
<1>1. Init => IInv
  BY InitInv
<1>2. IInv /\ [Next]_Sil => IInv'
  BY StepInv
<1>3. IInv => RobotObeys
  <2> SUFFICES ASSUME RobotInv PROVE Robot!Obeys /\ Robot!WheelsLimited
    BY DEF IInv, RobotObeys
  <2>1. Robot!WheelsLimited
    BY DEF RobotInv, Limited, Robot!WheelsLimited
  <2>2. Robot!Obeys
    <3> DEFINE tooFast == Robot!Magnitude(since.speed) > MaxSpeed
               resting == since.speed = 0 /\ since.steer = 0
               Says ==
                 /\ bus.state = "ESTOP" <=> since.estop
                 /\ bus.state = "FAULT" <=> ~since.estop /\ tooFast
                 /\ bus.state = "READY" <=> ~since.estop /\ resting
                 /\ bus.state = "DRIVING" <=> ~since.estop /\ ~tooFast /\ ~resting
                 /\ bus.state # "DRIVING" => bus.left = 0 /\ bus.right = 0
                 /\ bus.state = "DRIVING" =>
                      /\ Robot!Nearest(bus.left, 2 * since.speed - since.steer)
                      /\ Robot!Nearest(bus.right, 2 * since.speed + since.steer)
    <3> SUFFICES ASSUME pc = "idle", time - since.at >= Robot!Kept(Period) + StepUs
                 PROVE  Says
      BY Zenon DEF Robot!Obeys
    <3>1. bus = Robot!Behaviour(since)
      BY StoodIsCarried, SameBehaviour DEF RobotInv, Commanded
    <3>2. since.speed \in Int /\ since.steer \in Steers /\ since.estop \in BOOLEAN
      BY DEF RobotInv, Commanded
    <3>3. resting => ~tooFast
      BY SilAssumption DEF Robot!Magnitude
    <3>4. ASSUME NEW s \in {"ESTOP", "FAULT", "READY"}, bus = Robot!Still(s)
          PROVE  bus.state = s /\ bus.left = 0 /\ bus.right = 0
      BY <3>4 DEF Robot!Still
    <3>5. CASE since.estop
      <4>1. bus = Robot!Still("ESTOP")
        BY <3>1, <3>5 DEF Robot!Behaviour
      <4> HIDE DEF tooFast, resting
      <4>2. bus.state = "ESTOP" /\ bus.left = 0 /\ bus.right = 0
        BY <4>1, <3>4
      <4> QED BY <3>5, <4>2
    <3>6. CASE ~since.estop /\ tooFast
      <4>1. bus = Robot!Still("FAULT")
        BY <3>1, <3>3, <3>6 DEF Robot!Behaviour
      <4> HIDE DEF tooFast, resting
      <4>2. bus.state = "FAULT" /\ bus.left = 0 /\ bus.right = 0
        BY <4>1, <3>4
      <4> QED BY <3>3, <3>6, <4>2
    <3>7. CASE ~since.estop /\ resting
      <4>1. bus = Robot!Still("READY")
        BY <3>1, <3>3, <3>7 DEF Robot!Behaviour
      <4> HIDE DEF tooFast, resting
      <4>2. bus.state = "READY" /\ bus.left = 0 /\ bus.right = 0
        BY <4>1, <3>4
      <4> QED BY <3>3, <3>7, <4>2
    <3>8. CASE ~since.estop /\ ~tooFast /\ ~resting
      <4> DEFINE half == since.steer \div 2
      <4>1. bus = [state |-> "DRIVING", left |-> Robot!Clamp(since.speed - half),
                   right |-> Robot!Clamp(since.speed + half)]
        BY <3>1, <3>8 DEF Robot!Behaviour
      <4>2. half \in Int /\ 2 * half = since.steer
        BY <3>2, SteersAreEven
      <4> HIDE DEF half, tooFast, resting
      <4>3. /\ 2 * (since.speed - half) = 2 * since.speed - since.steer
            /\ 2 * (since.speed + half) = 2 * since.speed + since.steer
            /\ since.speed - half \in Int /\ since.speed + half \in Int
        BY <3>2, <4>2
      <4>4. /\ Robot!Nearest(Robot!Clamp(since.speed - half), 2 * since.speed - since.steer)
            /\ Robot!Nearest(Robot!Clamp(since.speed + half), 2 * since.speed + since.steer)
        BY <4>3, ClampIsNearest
      <4>5. bus.state = "DRIVING" /\ bus.left = Robot!Clamp(since.speed - half)
            /\ bus.right = Robot!Clamp(since.speed + half)
        BY <4>1
      <4> QED BY <3>8, <4>4, <4>5
    <3> HIDE DEF tooFast, resting, Says
    <3> QED BY <3>5, <3>6, <3>7, <3>8
  <2> QED BY <2>1, <2>2
<1> QED BY <1>1, <1>2, <1>3, PTL DEF Spec
=============================================================================
